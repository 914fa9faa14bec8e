----------------------------- MODULE Lifecycle -----------------------------
(***************************************************************************)
(* One object and the goroutines that call Start and Stop on it: a         *)
(* Dispatcher or BatchDispatcher (core/dispatcher.go,                      *)
(* core/batch_dispatcher.go and core/shutdown.go), or the consumer Service *)
(* (contrib/sqs/consumer/service.go). They have the same fields and the    *)
(* same two methods, and treat their timeouts differently.                 *)
(*                                                                         *)
(* The mutex is held for the first few lines of a method only. What comes  *)
(* after the unlock, the cancel, the wg.Add of each worker and the waiting,*)
(* interleaves with other calls. Each call of Start that goes through      *)
(* begins a new generation of workers with a context of its own, derived   *)
(* from the context that the caller gives to Start. A Stop that gives up   *)
(* on its workers calls OnForceShutdown, which ends the process by default *)
(* and may be a function that returns.                                     *)
(***************************************************************************)
EXTENDS Integers, FiniteSets

CONSTANTS
  Callers,         \* goroutines that call Start and Stop
  WorkerCount,     \* workers, the requeue worker included
  DefaultTimeout,  \* the 30 seconds of the constructors, in ticks
  Configs,         \* what a constructor is given: ShutdownTimeout, ForceTimeout and
                   \* whether OnForceShutdown ends the process (as os.Exit) or returns
  MaxStarts        \* bound on the calls of Start

ASSUME LifecycleAssumption ==
  /\ WorkerCount \in Nat \ {0}
  /\ DefaultTimeout \in Nat \ {0}
  /\ Configs \subseteq Int \X Int \X BOOLEAN
  /\ MaxStarts \in Nat

Generations == 1..MaxStarts
Slots == 1..WorkerCount

VARIABLES
  config,      \* the timeouts, as the constructor leaves them, and OnForceShutdown
  running,
  pending,     \* pendingShutdown
  generation,  \* the generation that cancelFunc belongs to, 0 before the first Start
  overlapped,  \* history: a Start and a Stop were in progress at the same time
  cancelled,   \* the generations whose context a Stop has cancelled
  withdrawn,   \* the generations whose caller has cancelled the context given to Start
  worker,      \* the state of a worker of a generation
  pc,          \* where a caller is
  of,          \* the generation that its call is about, 0 without a call
  waiter,      \* the goroutine that calls wg.Wait for the Stop of a generation
  timer,       \* how long the call has been waiting
  forced,      \* the generations whose Stop has called OnForceShutdown
  ended        \* how the process ended: OnForceShutdown or a panic of wg.Wait

object == <<running, pending, generation, overlapped>>
contexts == <<cancelled, withdrawn>>
vars == <<config, running, pending, generation, overlapped, cancelled, withdrawn,
          worker, pc, of, waiter, timer, forced, ended>>

TypeOK ==
  /\ config \in [component : {"dispatcher", "consumer"}, shutdown : Int, force : Int,
                 exits : BOOLEAN]
  /\ running \in BOOLEAN
  /\ pending \in BOOLEAN
  /\ generation \in 0..MaxStarts
  /\ overlapped \in BOOLEAN
  /\ cancelled \in SUBSET Generations
  /\ withdrawn \in SUBSET Generations
  /\ worker \in [Generations -> [Slots -> {"none", "idle", "busy", "done"}]]
  /\ pc \in [Callers -> {"idle", "starting", "cancelling", "waiting", "overtime"}]
  /\ of \in [Callers -> 0..MaxStarts]
  /\ waiter \in [Generations -> {"none", "launched", "waiting", "released", "closed"}]
  /\ timer \in [Callers -> Nat]
  /\ forced \in SUBSET Generations
  /\ ended \in {"no", "exit", "panic"}

-----------------------------------------------------------------------------
(* The constructors *)

Accepted(c) == c[1] >= 0 /\ c[2] >= 0

\* Mutant: a ForceTimeout that is shorter than the ShutdownTimeout is kept.
NewDispatcherUnchecked(c) ==
  [component |-> "dispatcher",
   shutdown  |-> IF c[1] = 0 THEN DefaultTimeout ELSE c[1],
   force     |-> c[2],
   exits     |-> c[3]]

\* Defaults for zero values; a ForceTimeout shorter than the ShutdownTimeout is
\* replaced.
NewDispatcher(c) ==
  LET s == IF c[1] = 0 THEN DefaultTimeout ELSE c[1]
  IN [component |-> "dispatcher",
      shutdown  |-> s,
      force     |-> IF c[2] < s THEN 2 * s ELSE c[2],
      exits     |-> c[3]]

\* Only zero values are replaced.
NewService(c) ==
  LET s == IF c[1] = 0 THEN DefaultTimeout ELSE c[1]
  IN [component |-> "consumer",
      shutdown  |-> s,
      force     |-> IF c[2] = 0 THEN 2 * s ELSE c[2],
      exits     |-> c[3]]

Init ==
  /\ \E c \in Configs : \/ Accepted(c) /\ config = NewDispatcher(c)
                       \/ config = NewService(c)
  /\ running = FALSE
  /\ pending = FALSE
  /\ generation = 0
  /\ overlapped = FALSE
  /\ cancelled = {}
  /\ withdrawn = {}
  /\ worker = [g \in Generations |-> [i \in Slots |-> "none"]]
  /\ pc = [c \in Callers |-> "idle"]
  /\ of = [c \in Callers |-> 0]
  /\ waiter = [g \in Generations |-> "none"]
  /\ timer = [c \in Callers |-> 0]
  /\ forced = {}
  /\ ended = "no"

-----------------------------------------------------------------------------
(* Start *)

\* A call of c returns.
Leave(c) ==
  /\ pc' = [pc EXCEPT ![c] = "idle"]
  /\ of' = [of EXCEPT ![c] = 0]
  /\ timer' = [timer EXCEPT ![c] = 0]

Stopping(c) == pc[c] \in {"cancelling", "waiting", "overtime"}

\* Mutant: a new start clears pendingShutdown.
StartAfresh(c) ==
  /\ ended = "no"
  /\ pc[c] = "idle"
  /\ ~running
  /\ generation < MaxStarts
  /\ running' = TRUE
  /\ pending' = FALSE
  /\ generation' = generation + 1
  /\ overlapped' = (overlapped \/ \E d \in Callers : Stopping(d))
  /\ of' = [of EXCEPT ![c] = generation + 1]
  /\ pc' = [pc EXCEPT ![c] = "starting"]
  /\ UNCHANGED <<config, contexts, worker, waiter, timer, forced, ended>>

\* Under the mutex. When the object is running the call returns (a dispatcher with
\* ErrAlreadyRunning, the Service with nil) and changes nothing.
Start(c) ==
  /\ ended = "no"
  /\ pc[c] = "idle"
  /\ ~running
  /\ generation < MaxStarts
  /\ running' = TRUE
  /\ generation' = generation + 1
  /\ overlapped' = (overlapped \/ \E d \in Callers : Stopping(d))
  /\ of' = [of EXCEPT ![c] = generation + 1]
  /\ pc' = [pc EXCEPT ![c] = "starting"]
  /\ UNCHANGED <<config, pending, contexts, worker, waiter, timer, forced, ended>>

\* wg.Add and go for one worker; after the last one Start returns.
Spawn(c) ==
  /\ ended = "no"
  /\ pc[c] = "starting"
  /\ \E i \in Slots :
       /\ worker[of[c]][i] = "none"
       /\ \A j \in Slots : j < i => worker[of[c]][j] # "none"
       /\ worker' = [worker EXCEPT ![of[c]] = [@ EXCEPT ![i] = "idle"]]
       /\ IF i = WorkerCount THEN Leave(c) ELSE UNCHANGED <<pc, of, timer>>
  /\ UNCHANGED <<config, object, contexts, waiter, forced, ended>>

-----------------------------------------------------------------------------
(* Workers *)

\* Mutant: wg.Add and wg.Done surround the waiting for the next message only.
LiveIdle(w) == {x \in Generations \X Slots : w[x[1]][x[2]] = "idle"}

\* The workers that wg counts.
Live(w) == {x \in Generations \X Slots : w[x[1]][x[2]] \in {"idle", "busy"}}

\* The context of the workers derives from the one that Start was given.
ContextDone(g) == g \in cancelled \cup withdrawn

\* The caller cancels the context it gave to Start, before a Stop does. Nothing watches it
\* but the workers: running stays set until somebody calls Stop.
CancelParent(g) ==
  /\ ended = "no"
  /\ g <= generation
  /\ ~ContextDone(g)
  /\ withdrawn' = withdrawn \cup {g}
  /\ UNCHANGED <<config, object, cancelled, worker, pc, of, waiter, timer, forced, ended>>

\* A message is fetched. With a cancelled context the fetch fails.
Poll(g, i) ==
  /\ ended = "no"
  /\ worker[g][i] = "idle"
  /\ ~ContextDone(g)
  /\ worker' = [worker EXCEPT ![g] = [@ EXCEPT ![i] = "busy"]]
  /\ UNCHANGED <<config, object, contexts, pc, of, waiter, timer, forced, ended>>

Finish(g, i) ==
  /\ ended = "no"
  /\ worker[g][i] = "busy"
  /\ worker' = [worker EXCEPT ![g] = [@ EXCEPT ![i] = "idle"]]
  /\ UNCHANGED <<config, object, contexts, pc, of, waiter, timer, forced, ended>>

\* The worker sees that its context is cancelled and returns. When the counter of wg
\* becomes zero, everyone who waits is released.
Done(g, i) ==
  /\ ended = "no"
  /\ worker[g][i] = "idle"
  /\ ContextDone(g)
  /\ worker' = [worker EXCEPT ![g] = [@ EXCEPT ![i] = "done"]]
  /\ waiter' = [h \in Generations |->
                  IF waiter[h] = "waiting" /\ Live(worker') = {} THEN "released" ELSE waiter[h]]
  /\ UNCHANGED <<config, object, contexts, pc, of, timer, forced, ended>>

-----------------------------------------------------------------------------
(* Stop *)

\* Under the mutex. When the object is not running the call returns at once.
Stop(c) ==
  /\ ended = "no"
  /\ pc[c] = "idle"
  /\ running
  /\ running' = FALSE
  /\ pending' = TRUE
  /\ overlapped' = (overlapped \/ \E d \in Callers : pc[d] = "starting")
  /\ of' = [of EXCEPT ![c] = generation]
  /\ pc' = [pc EXCEPT ![c] = "cancelling"]
  /\ UNCHANGED <<config, generation, contexts, worker, waiter, timer, forced, ended>>

\* Mutant: cancelFunc is read after the unlock.
CancelLatest(c) ==
  /\ ended = "no"
  /\ pc[c] = "cancelling"
  /\ cancelled' = cancelled \cup {generation}
  /\ pc' = [pc EXCEPT ![c] = "waiting"]
  /\ waiter' = [waiter EXCEPT ![of[c]] = "launched"]
  /\ UNCHANGED <<config, object, withdrawn, worker, of, timer, forced, ended>>

\* The cancelFunc that Stop has read under the mutex; GracefulShutdown begins and starts
\* a goroutine. A generation is stopped once, so this is the only one for it.
Cancel(c) ==
  /\ ended = "no"
  /\ pc[c] = "cancelling"
  /\ cancelled' = cancelled \cup {of[c]}
  /\ pc' = [pc EXCEPT ![c] = "waiting"]
  /\ waiter' = [waiter EXCEPT ![of[c]] = "launched"]
  /\ UNCHANGED <<config, object, withdrawn, worker, of, timer, forced, ended>>

Waiting(c) == pc[c] \in {"waiting", "overtime"}

\* The goroutine calls wg.Wait.
Wait(g) ==
  /\ ended = "no"
  /\ waiter[g] = "launched"
  /\ waiter' = [waiter EXCEPT ![g] = IF Live(worker) = {} THEN "closed" ELSE "waiting"]
  /\ UNCHANGED <<config, object, contexts, worker, pc, of, timer, forced, ended>>

\* The goroutine wakes up in wg.Wait and closes the channel. A counter that is not zero
\* again by then makes wg.Wait panic ("WaitGroup is reused before previous Wait has
\* returned"). The goroutine outlives a Stop that returns from OnForceShutdown.
Wake(g) ==
  /\ ended = "no"
  /\ waiter[g] = "released"
  /\ IF Live(worker) = {}
     THEN waiter' = [waiter EXCEPT ![g] = "closed"] /\ UNCHANGED ended
     ELSE ended' = "panic" /\ UNCHANGED waiter
  /\ UNCHANGED <<config, object, contexts, worker, pc, of, timer, forced>>

\* The channel is closed, and Stop returns.
Return(c) ==
  /\ ended = "no"
  /\ Waiting(c)
  /\ waiter[of[c]] = "closed"
  /\ Leave(c)
  /\ UNCHANGED <<config, object, contexts, worker, waiter, forced, ended>>

ShutdownDue(c) == pc[c] = "waiting" /\ timer[c] >= config.shutdown

\* When the second wait began: a negative duration is over at once.
OvertimeBegan == IF config.shutdown < 0 THEN 0 ELSE config.shutdown

\* After ShutdownTimeout, remainingTime is left.
ForceDue(c) ==
  pc[c] = "overtime" /\ timer[c] - OvertimeBegan >= config.force - config.shutdown

\* Mutant: Stop returns when ShutdownTimeout has passed.
ReturnAtTimeout(c) ==
  /\ ended = "no"
  /\ ShutdownDue(c)
  /\ Leave(c)
  /\ UNCHANGED <<config, object, contexts, worker, waiter, forced, ended>>

ShutdownTimeoutPassed(c) ==
  /\ ended = "no"
  /\ ShutdownDue(c)
  /\ pc' = [pc EXCEPT ![c] = "overtime"]
  /\ UNCHANGED <<config, object, contexts, worker, of, waiter, timer, forced, ended>>

\* Mutant: the warning after ShutdownTimeout is the last thing that happens.
ForceNever(c) ==
  /\ ended = "no"
  /\ ForceDue(c)
  /\ UNCHANGED vars

\* OnForceShutdown is called. If it returns so does Stop, with the workers as they are and
\* the goroutine still in wg.Wait.
ForceTimeoutPassed(c) ==
  /\ ended = "no"
  /\ ForceDue(c)
  /\ forced' = forced \cup {of[c]}
  /\ IF config.exits
     THEN ended' = "exit" /\ UNCHANGED <<pc, of, timer>>
     ELSE Leave(c) /\ UNCHANGED ended
  /\ UNCHANGED <<config, object, contexts, worker, waiter>>

\* Time passes for those who wait, unless one of their timers is due or a caller is
\* between two statements.
Tick ==
  /\ ended = "no"
  /\ \E c \in Callers : Waiting(c)
  /\ \A c \in Callers : /\ pc[c] # "cancelling"
                        /\ ~ShutdownDue(c)
                        /\ ~ForceDue(c)
  /\ timer' = [c \in Callers |-> IF Waiting(c) THEN timer[c] + 1 ELSE timer[c]]
  /\ UNCHANGED <<config, object, contexts, worker, pc, of, waiter, forced, ended>>

-----------------------------------------------------------------------------
(* Health *)

HealthStatus == [Running |-> running, PendingShutdown |-> pending]

IsHealthy(h) == h.Running /\ ~h.PendingShutdown

-----------------------------------------------------------------------------

Call(c) ==
  \/ Spawn(c)
  \/ Cancel(c)
  \/ Return(c)
  \/ ShutdownTimeoutPassed(c)
  \/ ForceTimeoutPassed(c)

Next ==
  \/ \E c \in Callers : Start(c) \/ Stop(c) \/ Call(c)
  \/ \E g \in Generations : CancelParent(g) \/ Wait(g) \/ Wake(g)
  \/ \E g \in Generations, i \in Slots : Poll(g, i) \/ Finish(g, i) \/ Done(g, i)
  \/ Tick

Spec == Init /\ [][Next]_vars

\* Goroutines run on and time passes. Nothing is assumed of a worker that is busy, nor of
\* those who decide to call Start or Stop or to cancel a context.
Fairness ==
  /\ WF_vars(Tick)
  /\ \A c \in Callers : WF_vars(Call(c))
  /\ \A g \in Generations : WF_vars(Wait(g)) /\ WF_vars(Wake(g))
  /\ \A g \in Generations, i \in Slots : WF_vars(Done(g, i))

FairSpec == Spec /\ Fairness

-----------------------------------------------------------------------------
(* Properties *)

\* No worker runs that nobody will stop: one whose context no Stop has cancelled belongs
\* to the generation of cancelFunc while running is set, or a Stop is about to cancel it,
\* however calls of Start and Stop interleave and whatever becomes of the caller's context.
NoOrphans ==
  \A g \in Generations, i \in Slots :
    worker[g][i] \in {"idle", "busy"} /\ g \notin cancelled
      => \/ running /\ generation = g
         \/ \E c \in Callers : pc[c] = "cancelling" /\ of[c] = g

\* When Stop returns without having called OnForceShutdown, no worker of the generation it
\* stopped is processing a message, even when Start was still starting workers of it.
StopIsQuiet ==
  [][\A c \in Callers : Waiting(c) /\ pc'[c] = "idle" /\ of[c] \notin forced'
       => \A i \in Slots : worker[of[c]][i] # "busy"]_vars

\* How long Stop waits at most: the ForceTimeout for a dispatcher, the longer of the two
\* timeouts for the Service, unless the ShutdownTimeout is negative: then the second wait
\* is longer by as much.
WaitLimit ==
  IF config.component = "dispatcher" \/ config.shutdown \in 0..config.force THEN config.force
  ELSE IF config.force < config.shutdown THEN OvertimeBegan
  ELSE config.force - config.shutdown

\* OnForceShutdown is called when this time has passed since a Stop began to wait, not
\* earlier, and no Stop waits longer, whether the function returns or not.
ForcedInTime ==
  [][/\ \A c \in Callers : Waiting(c)' => timer'[c] <= WaitLimit
     /\ forced' # forced => \E c \in Callers : /\ forced' = forced \cup {of[c]}
                                              /\ pc[c] = "overtime"
                                              /\ timer[c] = WaitLimit]_vars

\* A health check that succeeds means that nobody is stopping workers, not even those of
\* an earlier generation, and that every worker of the current generation runs or is
\* about to be started by a Start in progress. The exception is a caller that cancels
\* the context it gave to Start: its workers return, and health does not show it.
HealthyIsServing ==
  IsHealthy(HealthStatus)
    => /\ \A c \in Callers : ~Stopping(c)
       /\ \/ generation \in withdrawn
          \/ \A i \in Slots : \/ worker[generation][i] \in {"idle", "busy"}
                              \/ /\ worker[generation][i] = "none"
                                 /\ \E c \in Callers : pc[c] = "starting" /\ of[c] = generation

\* wg.Wait panics only if a Start and a Stop were in progress at the same time or a Stop
\* gave up on its workers and returned from OnForceShutdown: an object that is started
\* and stopped in turns, and whose workers finish in time, can be reused.
PanicNeedsOverlap == ended = "panic" => overlapped \/ forced # {}

\* Stop always comes to an end, by returning or by ending the process, also when a
\* worker never finishes its message.
StopReturns == \A c \in Callers : pc[c] = "cancelling" ~> pc[c] = "idle" \/ ended # "no"
=============================================================================
