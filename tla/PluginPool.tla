------------------------------ MODULE PluginPool ------------------------------
(***************************************************************************)
(* The instance pool of one WASM plugin (internal/plugin/runtime.go): a    *)
(* buffered channel of runners, hook calls that take one and give it back, *)
(* and the drain that retires the pool while calls are under way.  The     *)
(* mutex of the pool guards only the draining flag and the sends of        *)
(* replacements; Acquire and Release look at the flag and go on without    *)
(* it.  A receive from the closed channel yields no runner, a send on it   *)
(* panics, and so do a second close and a call on no runner.               *)
(***************************************************************************)
EXTENDS Integers, FiniteSets

CONSTANTS
    HookCalls,      \* goroutines that call a hook, one call each
    PoolSize,       \* runners of the pool
    MaxMishaps      \* bound on failed creations, corrupted runners and timeouts

ASSUME PoolAssumption ==
    PoolSize \in Nat \ {0} /\ MaxMishaps \in Nat /\ IsFiniteSet(HookCalls)

VARIABLES
    idle,           \* runners in the channel
    filling,        \* runners backgroundFill is to create
    replacing,      \* replaceInstance goroutines
    lost,           \* runners that could not be created
    active,         \* the counter of acquired runners
    draining,       \* the flag
    drained,        \* the drained channel is closed
    closed,         \* the pool channel is closed
    hook,           \* calls: step, whether a runner came, what Release counted
    mishaps,
    rushed,         \* history: a call was in a window when the drain began
    patience,       \* history: the drain ran into its timeout
    panics          \* history: what panicked

poolVars == <<idle, filling, replacing, lost, active, draining, drained, closed, hook,
              mishaps, rushed, patience, panics>>
channelVars == <<filling, replacing, lost, draining, drained, closed, mishaps, rushed, patience>>

\* newPluginInstancePool: at least one runner; the others follow in the background.
PoolInit ==
    /\ idle \in 1 .. PoolSize
    /\ filling = PoolSize - idle
    /\ replacing = 0 /\ lost = 0 /\ active = 0
    /\ draining = FALSE /\ drained = FALSE /\ closed = FALSE
    /\ hook = [c \in HookCalls |-> [pc |-> "new", runner |-> FALSE, remaining |-> 0]]
    /\ mishaps = 0
    /\ rushed = FALSE /\ patience = TRUE
    /\ panics = {}

At(c, l) == hook[c].pc = l
Step(c, l) == hook' = [hook EXCEPT ![c].pc = l]
Mishap == mishaps < MaxMishaps /\ mishaps' = mishaps + 1

-----------------------------------------------------------------------------
FastPathCheck(c) ==
    /\ At(c, "new")
    /\ Step(c, IF draining THEN "done" ELSE "wait")
    /\ UNCHANGED <<idle, active, channelVars, panics>>

\* A receive from the pool; from the closed and empty channel there comes nothing.
Receive(c) ==
    /\ At(c, "wait")
    /\ idle > 0 \/ closed
    /\ hook' = [hook EXCEPT ![c].pc = "recheck", ![c].runner = (idle > 0)]
    /\ idle' = IF idle > 0 THEN idle - 1 ELSE 0
    /\ UNCHANGED <<active, channelVars, panics>>

AcquireTimeout(c) ==
    /\ At(c, "wait")
    /\ Mishap
    /\ Step(c, "done")
    /\ UNCHANGED <<idle, filling, replacing, lost, active, draining, drained, closed,
                   rushed, patience, panics>>

\* The double check: who finds the pool draining releases what it received.
DoubleCheck(c) ==
    /\ At(c, "recheck")
    /\ Step(c, IF draining THEN "release" ELSE "count")
    /\ UNCHANGED <<idle, active, channelVars, panics>>

\* An exhausted runner is closed, and no other can be created.
ReplacementFails(c) ==
    /\ At(c, "count")
    /\ Mishap
    /\ lost' = lost + 1
    /\ Step(c, "done")
    /\ UNCHANGED <<idle, filling, replacing, active, draining, drained, closed, rushed,
                   patience, panics>>

CountActive(c) ==
    /\ At(c, "count")
    /\ active' = active + 1
    /\ Step(c, "call")
    /\ UNCHANGED <<idle, channelVars, panics>>

CallReturns(c) ==
    /\ At(c, "call")
    /\ Step(c, "release")
    /\ UNCHANGED <<idle, active, channelVars, panics>>

\* callOnPool closes a corrupted runner and replaces it.
Discard(c) ==
    /\ At(c, "call")
    /\ Mishap
    /\ active' = active - 1
    /\ replacing' = replacing + 1
    /\ hook' = [hook EXCEPT ![c].pc = "signal", ![c].remaining = active - 1]
    /\ UNCHANGED <<idle, filling, lost, draining, drained, closed, rushed, patience, panics>>

-----------------------------------------------------------------------------
Release(c) ==
    /\ At(c, "release")
    /\ active' = active - 1
    /\ hook' = [hook EXCEPT ![c].pc = "released", ![c].remaining = active - 1]
    /\ UNCHANGED <<idle, channelVars, panics>>

\* Mutant: Release does not ask for the draining flag.
ReturnRunner(c) ==
    /\ At(c, "released")
    /\ Step(c, "send")
    /\ UNCHANGED <<idle, active, channelVars, panics>>

\* Release closes the runner if the pool is draining; without one that panics.
CheckDraining(c) ==
    /\ At(c, "released")
    /\ Step(c, IF ~draining THEN "send" ELSE IF hook[c].runner THEN "signal" ELSE "done")
    /\ panics' = IF draining /\ ~hook[c].runner THEN panics \cup {"no runner"} ELSE panics
    /\ UNCHANGED <<idle, active, channelVars>>

\* An exhausted runner is replaced in the background.
Exhausted(c) ==
    /\ At(c, "send")
    /\ Mishap
    /\ replacing' = replacing + 1
    /\ Step(c, "done")
    /\ UNCHANGED <<idle, filling, lost, active, draining, drained, closed, rushed, patience, panics>>

Send(c) ==
    /\ At(c, "send")
    /\ idle' = IF closed THEN idle ELSE idle + 1
    /\ panics' = IF closed THEN panics \cup {"send"} ELSE panics
    /\ Step(c, "done")
    /\ UNCHANGED <<active, channelVars>>

\* signalDrainIfNeeded: the channel is asked and closed in two steps.
Signal(c) ==
    /\ At(c, "signal")
    /\ Step(c, IF draining /\ hook[c].remaining <= 0 /\ ~drained THEN "close" ELSE "done")
    /\ UNCHANGED <<idle, active, channelVars, panics>>

CloseDrained(c) ==
    /\ At(c, "close")
    /\ drained' = TRUE
    /\ panics' = IF drained THEN panics \cup {"close"} ELSE panics
    /\ Step(c, "done")
    /\ UNCHANGED <<idle, filling, replacing, lost, active, draining, closed, mishaps, rushed, patience>>

-----------------------------------------------------------------------------
\* trySendToPool sends under the mutex, if the pool is neither draining nor full.
AddRunner == idle' = IF draining \/ idle = PoolSize THEN idle ELSE idle + 1

ReplaceInstance ==
    /\ replacing > 0
    /\ replacing' = replacing - 1
    /\ \/ AddRunner /\ UNCHANGED <<lost, mishaps>>
       \/ Mishap /\ lost' = lost + 1 /\ UNCHANGED idle
    /\ UNCHANGED <<filling, active, draining, drained, closed, hook, rushed, patience, panics>>

\* The first failure ends the fill.
BackgroundFill ==
    /\ filling > 0
    /\ \/ AddRunner /\ filling' = (IF draining THEN 0 ELSE filling - 1) /\ UNCHANGED <<lost, mishaps>>
       \/ Mishap /\ lost' = lost + filling /\ filling' = 0 /\ UNCHANGED idle
    /\ UNCHANGED <<replacing, active, draining, drained, closed, hook, rushed, patience, panics>>

\* Steps between two looks at the flag, or between the count and the signal.
Windows == {"wait", "recheck", "count", "released", "send", "signal"}

StartDrain ==
    /\ ~draining
    /\ draining' = TRUE
    /\ drained' = (active <= 0)
    /\ rushed' = \E c \in HookCalls : hook[c].pc \in Windows
    /\ UNCHANGED <<idle, filling, replacing, lost, active, closed, hook, mishaps, patience, panics>>

\* The drain goes on when the calls are done, or after DrainTimeout.
FinishDrain ==
    /\ draining /\ ~closed
    /\ \/ drained /\ UNCHANGED <<mishaps, patience>>
       \/ ~drained /\ Mishap /\ patience' = FALSE
    /\ closed' = TRUE
    /\ idle' = 0
    /\ UNCHANGED <<filling, replacing, lost, active, draining, drained, hook, rushed, panics>>

PoolCall(c) ==
    \/ FastPathCheck(c) \/ Receive(c) \/ AcquireTimeout(c) \/ DoubleCheck(c)
    \/ ReplacementFails(c) \/ CountActive(c) \/ CallReturns(c) \/ Discard(c)
    \/ Release(c) \/ CheckDraining(c) \/ Exhausted(c) \/ Send(c) \/ Signal(c) \/ CloseDrained(c)

PoolNext ==
    \/ \E c \in HookCalls : PoolCall(c)
    \/ ReplaceInstance \/ BackgroundFill \/ StartDrain \/ FinishDrain

PoolSpec == PoolInit /\ [][PoolNext]_poolVars

-----------------------------------------------------------------------------
Holding == {"recheck", "count", "call", "release", "released", "send"}

\* Until the pool drains, every runner is in the channel, with a call, on its way to be
\* replaced, or could not be created, and the counter counts the calls that run.  Then
\* Drain waits for the calls that run and nothing panics, if no call is between the two
\* checks of Acquire or between Release and its signal when the drain begins.
QuietDrain ==
    /\ ~draining =>
          /\ idle + filling + replacing + lost
               + Cardinality({c \in HookCalls : hook[c].pc \in Holding}) = PoolSize
          /\ active = Cardinality({c \in HookCalls : hook[c].pc \in {"call", "release"}})
    /\ ~rushed =>
          /\ panics = {}
          /\ closed /\ patience => \A c \in HookCalls : hook[c].pc \notin {"call", "release"}
=============================================================================
