-------------------------- MODULE LifecycleProofs --------------------------
(***************************************************************************)
(* Proofs about Lifecycle, for any number of callers, workers and starts   *)
(* and any timeouts.                                                       *)
(***************************************************************************)
EXTENDS Lifecycle, TLAPS

\* Generations are numbered in the order of the Starts, and a call is about one that
\* has begun.
Numbered ==
  /\ running => generation \in Generations
  /\ \A g \in Generations, i \in Slots : worker[g][i] # "none" => g <= generation
  /\ \A c \in Callers : pc[c] # "idle" => of[c] \in Generations /\ of[c] <= generation

\* A generation that has begun is cancelled, or is the running one, or a Stop is about
\* to cancel it. Unlike NoOrphans this says so before its workers exist.
Owned ==
  \A g \in Generations :
    g <= generation => \/ g \in cancelled
                       \/ running /\ generation = g
                       \/ \E c \in Callers : pc[c] = "cancelling" /\ of[c] = g

\* A Stop that waits has cancelled its generation, and once wg let it go no worker of
\* that generation is busy.
Quiet ==
  \A c \in Callers : Waiting(c) =>
    /\ of[c] \in cancelled
    /\ waiter[of[c]] \in {"released", "closed"} => \A i \in Slots : worker[of[c]][i] # "busy"

\* A dispatcher has consistent timeouts.
Consistent ==
  config.component = "dispatcher" => config.shutdown \in Nat /\ config.shutdown <= config.force

\* A timer does not pass the limit that is due next, and is reset before the next wait.
Timely ==
  \A c \in Callers : /\ pc[c] = "waiting" => timer[c] <= OvertimeBegan
                     /\ pc[c] = "overtime" => timer[c] >= OvertimeBegan /\ timer[c] <= WaitLimit
                     /\ pc[c] \notin {"waiting", "overtime"} => timer[c] = 0

\* Every call of Stop leaves a trace in pendingShutdown, and cancels nothing before.
Traced == ~pending => cancelled = {} /\ \A c \in Callers : ~Stopping(c)

\* A worker returns only when its context is done, and one that is missing from a
\* generation that has begun is about to be started.
Staffed ==
  \A g \in Generations, i \in Slots :
    /\ worker[g][i] = "done" => g \in cancelled \cup withdrawn
    /\ g <= generation /\ worker[g][i] = "none"
         => \E c \in Callers : pc[c] = "starting" /\ of[c] = g

\* Why wg.Wait does not panic: as long as Start and Stop do not overlap and no Stop gives
\* up, no worker is added while a goroutine is about to wake up.
Separate ==
  /\ \A g \in Generations : waiter[g] \in {"launched", "waiting", "released"}
       => g \in forced \/ \E c \in Callers : Waiting(c) /\ of[c] = g
  /\ ~overlapped /\ forced = {}
       => /\ \A c, d \in Callers : ~(pc[c] = "starting" /\ Stopping(d))
          /\ \A g \in Generations : waiter[g] = "released" => Live(worker) = {}
          /\ ended # "panic"

IInv ==
  /\ TypeOK /\ Numbered /\ Owned /\ Quiet /\ Consistent
  /\ Timely /\ Traced /\ Staffed /\ Separate

-----------------------------------------------------------------------------

\* NewDispatcher makes an accepted configuration consistent; NewService need not.
LEMMA ConfigIsConsistent ==
  ASSUME NEW c \in Int \X Int \X BOOLEAN
  PROVE  LET T == [component : {"dispatcher", "consumer"}, shutdown : Int, force : Int,
                   exits : BOOLEAN]
         IN  /\ NewDispatcher(c) \in T /\ NewService(c) \in T
             /\ Accepted(c) => /\ NewDispatcher(c).shutdown \in Nat
                               /\ NewDispatcher(c).shutdown <= NewDispatcher(c).force
BY LifecycleAssumption DEF LifecycleAssumption, Accepted, NewDispatcher, NewService

\* A counter of zero means that no worker is busy.
LEMMA NoneLive ==
  ASSUME NEW w \in [Generations -> [Slots -> {"none", "idle", "busy", "done"}]], Live(w) = {}
  PROVE  \A g \in Generations, i \in Slots : w[g][i] # "busy"
<1> SUFFICES ASSUME NEW g \in Generations, NEW i \in Slots, w[g][i] = "busy" PROVE FALSE
  OBVIOUS
<1> <<g, i>> \in Live(w)
  BY DEF Live
<1> QED  OBVIOUS

\* The initial states satisfy the inductive invariant.
LEMMA InitInv == Init => IInv
<1> SUFFICES ASSUME Init PROVE IInv
  OBVIOUS
<1>1. PICK c \in Configs : (Accepted(c) /\ config = NewDispatcher(c)) \/ config = NewService(c)
  BY DEF Init
<1>2. c \in Int \X Int \X BOOLEAN
  BY LifecycleAssumption DEF LifecycleAssumption
<1>3. /\ config \in [component : {"dispatcher", "consumer"}, shutdown : Int, force : Int,
                     exits : BOOLEAN]
      /\ Consistent
  <2>1. NewService(c).component = "consumer"
    BY DEF NewService
  <2> QED  BY <1>1, <1>2, <2>1, ConfigIsConsistent DEF Consistent
<1>4. TypeOK
  <2>1. worker \in [Generations -> [Slots -> {"none", "idle", "busy", "done"}]]
    BY DEF Init
  <2>2. generation \in 0..MaxStarts /\ of \in [Callers -> 0..MaxStarts] /\ timer \in [Callers -> Nat]
    BY LifecycleAssumption DEF LifecycleAssumption, Init
  <2> QED  BY <1>3, <2>1, <2>2, Zenon DEF Init, TypeOK
<1>5. Numbered /\ Owned /\ Quiet
  BY LifecycleAssumption
     DEF LifecycleAssumption, Init, Numbered, Owned, Quiet, Waiting, Generations
<1>6. Timely /\ Traced /\ Separate
  BY SMT, Z3, Zenon DEF Init, Timely, Traced, Separate, Stopping
<1>7. Staffed
  BY LifecycleAssumption DEF LifecycleAssumption, Init, Staffed, Generations
<1> QED  BY <1>3, <1>4, <1>5, <1>6, <1>7 DEF IInv

-----------------------------------------------------------------------------

\* Every step preserves the types.
LEMMA TypeStep == IInv /\ [Next]_vars => TypeOK'
<1> SUFFICES ASSUME IInv, [Next]_vars PROVE TypeOK'
  OBVIOUS
<1> USE LifecycleAssumption DEF LifecycleAssumption, IInv, TypeOK, object, contexts
<1>1. ASSUME NEW c \in Callers, Start(c) PROVE TypeOK'
  BY <1>1 DEF Start
<1>2. ASSUME NEW c \in Callers, Stop(c) PROVE TypeOK'
  BY <1>2, Zenon DEF Stop
<1>3. ASSUME NEW c \in Callers, Spawn(c) PROVE TypeOK'
  <2>1. of[c] \in Generations
    BY <1>3 DEF Spawn, Numbered
  <2>2. worker' \in [Generations -> [Slots -> {"none", "idle", "busy", "done"}]]
    BY <1>3, <2>1 DEF Spawn
  <2>3. /\ pc' \in [Callers -> {"idle", "starting", "cancelling", "waiting", "overtime"}]
        /\ of' \in [Callers -> 0..MaxStarts]
        /\ timer' \in [Callers -> Nat]
    <3>1. Leave(c) \/ UNCHANGED <<pc, of, timer>>
      BY <1>3, Zenon DEF Spawn
    <3> QED  BY <3>1 DEF Leave
  <2> QED  BY <1>3, <2>2, <2>3, Zenon DEF Spawn
<1>4. ASSUME NEW c \in Callers, Cancel(c) PROVE TypeOK'
  BY <1>4 DEF Cancel, Numbered
<1>5. ASSUME NEW g \in Generations, Wait(g) PROVE TypeOK'
  BY <1>5 DEF Wait
<1>6. ASSUME NEW g \in Generations, Wake(g) PROVE TypeOK'
  BY <1>6 DEF Wake
<1>7. ASSUME NEW c \in Callers, Return(c) PROVE TypeOK'
  BY <1>7 DEF Return, Leave
<1>8. ASSUME NEW c \in Callers, ShutdownTimeoutPassed(c) \/ ForceTimeoutPassed(c) PROVE TypeOK'
  <2>1. CASE ShutdownTimeoutPassed(c)
    BY <2>1 DEF ShutdownTimeoutPassed
  <2>2. CASE ForceTimeoutPassed(c)
    <3>1. of[c] \in Generations
      BY <2>2 DEF ForceTimeoutPassed, ForceDue, Numbered
    <3> QED  BY <2>2, <3>1 DEF ForceTimeoutPassed, Leave
  <2> QED  BY <1>8, <2>1, <2>2
<1>9. ASSUME NEW g \in Generations, NEW i \in Slots, Poll(g, i) \/ Finish(g, i) PROVE TypeOK'
  <2>1. PICK s \in {"idle", "busy"} : worker' = [worker EXCEPT ![g] = [@ EXCEPT ![i] = s]]
    BY <1>9, Zenon DEF Poll, Finish
  <2>2. worker' \in [Generations -> [Slots -> {"none", "idle", "busy", "done"}]]
    BY ONLY <2>1, worker \in [Generations -> [Slots -> {"none", "idle", "busy", "done"}]]
  <2> QED  BY <1>9, <2>2, ZenonT(30) DEF Poll, Finish
<1>10. ASSUME NEW g \in Generations, NEW i \in Slots, Done(g, i) PROVE TypeOK'
  BY <1>10 DEF Done, ContextDone
<1>11. CASE Tick
  BY <1>11 DEF Tick
<1>12. CASE UNCHANGED vars
  BY <1>12 DEF vars
<1>13. ASSUME NEW g \in Generations, CancelParent(g) PROVE TypeOK'
  BY <1>13 DEF CancelParent
<1> QED
  BY <1>1, <1>2, <1>3, <1>4, <1>5, <1>6, <1>7, <1>8, <1>9, <1>10, <1>11, <1>12, <1>13
  DEF Next, Call

\* Every step keeps the numbering of the generations.
LEMMA NumberedStep == IInv /\ [Next]_vars => Numbered'
<1> SUFFICES ASSUME IInv, [Next]_vars PROVE Numbered'
  OBVIOUS
<1> USE LifecycleAssumption DEF LifecycleAssumption, IInv, TypeOK, object, contexts, Numbered
<1>1. ASSUME NEW c \in Callers, Start(c) PROVE Numbered'
  BY <1>1 DEF Start, Generations
<1>2. ASSUME NEW c \in Callers, Stop(c) PROVE Numbered'
  BY <1>2 DEF Stop, Generations
<1>3. ASSUME NEW c \in Callers, Spawn(c) PROVE Numbered'
  BY <1>3 DEF Spawn, Leave
<1>4. ASSUME NEW c \in Callers, Cancel(c) PROVE Numbered'
  BY <1>4 DEF Cancel
<1>5. ASSUME NEW g \in Generations, Wait(g) \/ Wake(g) PROVE Numbered'
  BY <1>5 DEF Wait, Wake
<1>6. ASSUME NEW c \in Callers, Return(c) PROVE Numbered'
  BY <1>6 DEF Return, Leave
<1>7. ASSUME NEW c \in Callers, ShutdownTimeoutPassed(c) \/ ForceTimeoutPassed(c) PROVE Numbered'
  BY <1>7 DEF ShutdownTimeoutPassed, ForceTimeoutPassed, ShutdownDue, Leave
<1>8. ASSUME NEW g \in Generations, NEW i \in Slots, Poll(g, i) \/ Finish(g, i) PROVE Numbered'
  BY <1>8 DEF Poll, Finish, ContextDone
<1>9. ASSUME NEW g \in Generations, NEW i \in Slots, Done(g, i) PROVE Numbered'
  BY <1>9 DEF Done, ContextDone
<1>10. CASE Tick
  BY <1>10 DEF Tick
<1>11. CASE UNCHANGED vars
  BY <1>11, Zenon DEF vars
<1>12. ASSUME NEW g \in Generations, CancelParent(g) PROVE Numbered'
  BY <1>12 DEF CancelParent
<1> QED
  BY <1>1, <1>2, <1>3, <1>4, <1>5, <1>6, <1>7, <1>8, <1>9, <1>10, <1>11, <1>12 DEF Next, Call

\* Every step leaves each generation with someone who stops it.
LEMMA OwnedStep == IInv /\ [Next]_vars => Owned'
<1> SUFFICES ASSUME IInv, [Next]_vars PROVE Owned'
  OBVIOUS
<1> USE LifecycleAssumption DEF LifecycleAssumption, IInv, TypeOK, object, contexts, Owned
<1>1. ASSUME NEW c \in Callers, Start(c) PROVE Owned'
  BY <1>1 DEF Start, Generations
<1>2. ASSUME NEW c \in Callers, Stop(c) PROVE Owned'
  BY <1>2 DEF Stop, Generations
<1>3. ASSUME NEW c \in Callers, Spawn(c) PROVE Owned'
  BY <1>3 DEF Spawn, Leave
<1>4. ASSUME NEW c \in Callers, Cancel(c) PROVE Owned'
  BY <1>4 DEF Cancel
<1>5. ASSUME NEW g \in Generations, Wait(g) \/ Wake(g) PROVE Owned'
  BY <1>5 DEF Wait, Wake
<1>6. ASSUME NEW c \in Callers, Return(c) PROVE Owned'
  BY <1>6 DEF Return, Waiting, Leave
<1>7. ASSUME NEW c \in Callers, ShutdownTimeoutPassed(c) \/ ForceTimeoutPassed(c) PROVE Owned'
  BY <1>7 DEF ShutdownTimeoutPassed, ForceTimeoutPassed, ShutdownDue, ForceDue, Leave
<1>8. ASSUME NEW g \in Generations, NEW i \in Slots, Poll(g, i) \/ Finish(g, i) \/ Done(g, i)
      PROVE Owned'
  BY <1>8 DEF Poll, Finish, Done, ContextDone
<1>9. CASE Tick
  BY <1>9 DEF Tick
<1>10. CASE UNCHANGED vars
  BY <1>10, Zenon DEF vars
<1>11. ASSUME NEW g \in Generations, CancelParent(g) PROVE Owned'
  BY <1>11 DEF CancelParent
<1> QED
  BY <1>1, <1>2, <1>3, <1>4, <1>5, <1>6, <1>7, <1>8, <1>9, <1>10, <1>11 DEF Next, Call

\* Every step keeps the promise of a Stop that waits.
LEMMA QuietStep == IInv /\ [Next]_vars => Quiet'
<1> SUFFICES ASSUME IInv, [Next]_vars PROVE Quiet'
  OBVIOUS
<1> USE LifecycleAssumption
    DEF LifecycleAssumption, IInv, TypeOK, object, contexts, Quiet, Waiting, Numbered
<1>1. ASSUME NEW c \in Callers, Start(c) PROVE Quiet'
  BY <1>1 DEF Start
<1>2. ASSUME NEW c \in Callers, Stop(c) PROVE Quiet'
  BY <1>2 DEF Stop
<1>3. ASSUME NEW c \in Callers, Spawn(c) PROVE Quiet'
  BY <1>3 DEF Spawn, Leave
<1>4. ASSUME NEW c \in Callers, Cancel(c) PROVE Quiet'
  BY <1>4 DEF Cancel
<1>5. ASSUME NEW g \in Generations, Wait(g) PROVE Quiet'
  <2>1. CASE Live(worker) = {}
    BY <1>5, <2>1, NoneLive DEF Wait
  <2>2. CASE Live(worker) # {}
    BY <1>5, <2>2 DEF Wait
  <2> QED  BY <2>1, <2>2
<1>6. ASSUME NEW g \in Generations, Wake(g) PROVE Quiet'
  BY <1>6 DEF Wake
<1>7. ASSUME NEW c \in Callers, Return(c) PROVE Quiet'
  BY <1>7 DEF Return, Leave
<1>8. ASSUME NEW c \in Callers, ShutdownTimeoutPassed(c) \/ ForceTimeoutPassed(c) PROVE Quiet'
  BY <1>8 DEF ShutdownTimeoutPassed, ForceTimeoutPassed, ShutdownDue, Leave
<1>9. ASSUME NEW g \in Generations, NEW i \in Slots, Poll(g, i) \/ Finish(g, i) PROVE Quiet'
  BY <1>9 DEF Poll, Finish, ContextDone
<1>10. ASSUME NEW g \in Generations, NEW i \in Slots, Done(g, i) PROVE Quiet'
  <2>1. worker' \in [Generations -> [Slots -> {"none", "idle", "busy", "done"}]]
    BY <1>10 DEF Done, ContextDone
  <2>2. CASE Live(worker') = {}
    <3>1. \A h \in Generations, j \in Slots : worker'[h][j] # "busy"
      BY ONLY <2>1, <2>2, NoneLive
    <3> QED  BY <1>10, <3>1 DEF Done, ContextDone
  <2>3. CASE Live(worker') # {}
    <3>1. waiter' = waiter
      BY <1>10, <2>3, Zenon DEF Done, ContextDone
    <3>2. \A h \in Generations, j \in Slots : worker'[h][j] = "busy" => worker[h][j] = "busy"
      BY <1>10 DEF Done, ContextDone
    <3>3. cancelled' = cancelled /\ pc' = pc /\ of' = of
      BY <1>10 DEF Done, ContextDone
    <3> QED  BY <3>1, <3>2, <3>3
  <2> QED  BY <2>2, <2>3
<1>11. CASE Tick
  BY <1>11 DEF Tick
<1>12. CASE UNCHANGED vars
  BY <1>12 DEF vars
<1>13. ASSUME NEW g \in Generations, CancelParent(g) PROVE Quiet'
  BY <1>13 DEF CancelParent
<1> QED
  BY <1>1, <1>2, <1>3, <1>4, <1>5, <1>6, <1>7, <1>8, <1>9, <1>10, <1>11, <1>12, <1>13, Zenon
  DEF Next, Call

\* The timeouts do not change.
LEMMA ConfigFixed == [Next]_vars => config' = config
BY Zenon DEF Next, Call, vars, object, contexts, Start, Stop, Spawn, Cancel, Wait, Wake, Return,
       ShutdownTimeoutPassed, ForceTimeoutPassed, CancelParent, Poll, Finish, Done, Tick

\* The limit is not passed before the second wait begins.
LEMMA LimitIsLater ==
  ASSUME IInv
  PROVE  /\ config.shutdown \in Int /\ config.force \in Int
         /\ OvertimeBegan \in Nat /\ WaitLimit \in Int
         /\ OvertimeBegan <= WaitLimit
         /\ WaitLimit - OvertimeBegan = IF config.force < config.shutdown THEN 0
                                        ELSE config.force - config.shutdown
         /\ config.shutdown <= OvertimeBegan
<1>1. config.shutdown \in Int /\ config.force \in Int
  BY DEF IInv, TypeOK
<1> QED  BY <1>1 DEF IInv, Consistent, OvertimeBegan, WaitLimit

\* Every step keeps the timers within their limits.
LEMMA TimelyStep == IInv /\ [Next]_vars => Timely'
<1> SUFFICES ASSUME IInv, [Next]_vars PROVE Timely'
  OBVIOUS
<1>1. config' = config
  BY ConfigFixed
<1>2. OvertimeBegan' = OvertimeBegan /\ WaitLimit' = WaitLimit
  BY <1>1 DEF OvertimeBegan, WaitLimit
<1>3. /\ config.shutdown \in Int /\ config.force \in Int
      /\ OvertimeBegan \in Nat /\ WaitLimit \in Int
      /\ OvertimeBegan <= WaitLimit
      /\ WaitLimit - OvertimeBegan = IF config.force < config.shutdown THEN 0
                                     ELSE config.force - config.shutdown
      /\ config.shutdown <= OvertimeBegan
  BY LimitIsLater
<1>4. /\ timer \in [Callers -> Nat]
      /\ pc \in [Callers -> {"idle", "starting", "cancelling", "waiting", "overtime"}]
      /\ \A c \in Callers : /\ pc[c] = "waiting" => timer[c] <= OvertimeBegan
                            /\ pc[c] = "overtime" => timer[c] >= OvertimeBegan /\ timer[c] <= WaitLimit
                            /\ pc[c] \notin {"waiting", "overtime"} => timer[c] = 0
  BY DEF IInv, TypeOK, Timely
<1> DEFINE Goal ==
      \A c \in Callers :
        /\ pc'[c] = "waiting" => timer'[c] <= OvertimeBegan
        /\ pc'[c] = "overtime" => timer'[c] >= OvertimeBegan /\ timer'[c] <= WaitLimit
        /\ pc'[c] \notin {"waiting", "overtime"} => timer'[c] = 0
<1> SUFFICES Goal
  BY <1>2 DEF Timely
<1>5. ASSUME NEW c \in Callers, Start(c) \/ Stop(c) \/ Spawn(c) \/ Return(c) PROVE Goal
  BY <1>4, <1>5, Zenon DEF Start, Stop, Spawn, Return, Leave
<1>6. ASSUME NEW c \in Callers, Cancel(c) PROVE Goal
  BY <1>3, <1>4, <1>6 DEF Cancel
<1>7. ASSUME NEW g \in Generations, Wait(g) \/ Wake(g) PROVE Goal
  BY <1>4, <1>7 DEF Wait, Wake
<1>8. ASSUME NEW c \in Callers, ShutdownTimeoutPassed(c) PROVE Goal
  <2>1. pc[c] = "waiting" /\ timer[c] >= OvertimeBegan
    BY <1>3, <1>4, <1>8 DEF ShutdownTimeoutPassed, ShutdownDue, OvertimeBegan
  <2> QED  BY <1>3, <1>4, <1>8, <2>1 DEF ShutdownTimeoutPassed
<1>9. ASSUME NEW c \in Callers, ForceTimeoutPassed(c) PROVE Goal
  BY <1>4, <1>9 DEF ForceTimeoutPassed, Leave
<1>10. ASSUME NEW g \in Generations, NEW i \in Slots, Poll(g, i) \/ Finish(g, i) \/ Done(g, i)
      PROVE Goal
  BY <1>4, <1>10 DEF Poll, Finish, Done, ContextDone
<1>11. CASE Tick
  <2>1. \A c \in Callers : /\ pc[c] = "waiting" => timer[c] + 1 <= OvertimeBegan
                           /\ pc[c] = "overtime" => timer[c] + 1 <= WaitLimit
    <3> SUFFICES ASSUME NEW c \in Callers
                 PROVE  /\ pc[c] = "waiting" => timer[c] + 1 <= OvertimeBegan
                        /\ pc[c] = "overtime" => timer[c] + 1 <= WaitLimit
      OBVIOUS
    <3>1. ~ShutdownDue(c) /\ ~ForceDue(c)
      BY <1>11 DEF Tick
    <3>2. pc[c] = "waiting" => timer[c] < config.shutdown
      BY <1>3, <1>4, <3>1 DEF ShutdownDue
    <3>3. pc[c] = "overtime" => timer[c] - OvertimeBegan < config.force - config.shutdown
      BY <1>3, <1>4, <3>1 DEF ForceDue
    <3> QED  BY <1>3, <1>4, <3>2, <3>3
  <2>2. pc' = pc /\ \A c \in Callers :
          timer'[c] = IF pc[c] \in {"waiting", "overtime"} THEN timer[c] + 1 ELSE timer[c]
    BY <1>4, <1>11 DEF Tick, Waiting
  <2> QED  BY <1>3, <1>4, <2>1, <2>2
<1>12. CASE UNCHANGED vars
  BY <1>4, <1>12 DEF vars
<1>13. ASSUME NEW g \in Generations, CancelParent(g) PROVE Goal
  BY <1>4, <1>13 DEF CancelParent
<1> QED
  BY <1>5, <1>6, <1>7, <1>8, <1>9, <1>10, <1>11, <1>12, <1>13, Zenon DEF Next, Call

\* Every step leaves the trace of a Stop.
LEMMA TracedStep == IInv /\ [Next]_vars => Traced'
<1> SUFFICES ASSUME IInv, [Next]_vars PROVE Traced'
  OBVIOUS
<1> USE DEF IInv, TypeOK, object, contexts, Traced, Stopping
<1>1. ASSUME NEW c \in Callers, Start(c) \/ Spawn(c) PROVE Traced'
  BY <1>1 DEF Start, Spawn, Leave
<1>2. ASSUME NEW c \in Callers, Stop(c) \/ Cancel(c) PROVE Traced'
  BY <1>2 DEF Stop, Cancel
<1>3. ASSUME NEW c \in Callers, Return(c) PROVE Traced'
  BY <1>3 DEF Return, Leave
<1>4. ASSUME NEW c \in Callers, ShutdownTimeoutPassed(c) \/ ForceTimeoutPassed(c) PROVE Traced'
  BY <1>4 DEF ShutdownTimeoutPassed, ForceTimeoutPassed, ShutdownDue, Leave
<1>5. ASSUME NEW g \in Generations, NEW i \in Slots, Poll(g, i) \/ Finish(g, i) \/ Done(g, i)
      PROVE Traced'
  BY <1>5 DEF Poll, Finish, Done, ContextDone
<1>6. CASE Tick \/ UNCHANGED vars
  BY <1>6 DEF Tick, vars
<1>7. ASSUME NEW g \in Generations, CancelParent(g) \/ Wait(g) \/ Wake(g) PROVE Traced'
  BY <1>7, ZenonT(30) DEF CancelParent, Wait, Wake
<1> QED
  BY <1>1, <1>2, <1>3, <1>4, <1>5, <1>6, <1>7 DEF Next, Call

\* Every step keeps the account of the workers of a generation.
LEMMA StaffedStep == IInv /\ [Next]_vars => Staffed'
<1> SUFFICES ASSUME IInv, [Next]_vars PROVE Staffed'
  OBVIOUS
<1> USE LifecycleAssumption
    DEF LifecycleAssumption, IInv, TypeOK, object, contexts, Staffed
<1>1. ASSUME NEW c \in Callers, Start(c) PROVE Staffed'
  <2>1. UNCHANGED <<cancelled, withdrawn, worker>> /\ generation' = generation + 1
    BY <1>1 DEF Start
  <2>2. /\ pc'[c] = "starting" /\ of'[c] = generation + 1
        /\ \A d \in Callers : pc[d] = "starting" => pc'[d] = "starting" /\ of'[d] = of[d]
    BY <1>1 DEF Start
  <2>3. \A g \in Generations : g <= generation + 1 => g <= generation \/ g = generation + 1
    BY DEF Generations
  <2> QED  BY <2>1, <2>2, <2>3
<1>2. ASSUME NEW c \in Callers, Stop(c) PROVE Staffed'
  BY <1>2 DEF Stop
<1>3. ASSUME NEW c \in Callers, Spawn(c) PROVE Staffed'
  BY <1>3 DEF Spawn, Leave, Numbered, Slots
<1>4. ASSUME NEW c \in Callers, Cancel(c) PROVE Staffed'
  BY <1>4 DEF Cancel
<1>5. ASSUME NEW c \in Callers, Return(c) \/ ShutdownTimeoutPassed(c) PROVE Staffed'
  BY <1>5 DEF Return, Waiting, Leave, ShutdownTimeoutPassed, ShutdownDue
<1>6. ASSUME NEW c \in Callers, ForceTimeoutPassed(c) PROVE Staffed'
  BY <1>6 DEF ForceTimeoutPassed, ForceDue, Leave
<1>7. ASSUME NEW g \in Generations, CancelParent(g) \/ Wait(g) \/ Wake(g) PROVE Staffed'
  BY <1>7 DEF CancelParent, Wait, Wake
<1>8. ASSUME NEW g \in Generations, NEW i \in Slots, Poll(g, i) \/ Finish(g, i) PROVE Staffed'
  BY <1>8 DEF Poll, Finish
<1>9. ASSUME NEW g \in Generations, NEW i \in Slots, Done(g, i) PROVE Staffed'
  BY <1>9 DEF Done, ContextDone
<1>10. CASE Tick \/ UNCHANGED vars
  BY <1>10 DEF Tick, vars
<1> QED
  BY <1>1, <1>2, <1>3, <1>4, <1>5, <1>6, <1>7, <1>8, <1>9, <1>10 DEF Next, Call

\* A worker that comes to an end leaves no more live workers than before, and one that
\* is idle or busy is live.
LEMMA LiveWorkers ==
  ASSUME NEW w \in [Generations -> [Slots -> {"none", "idle", "busy", "done"}]],
         NEW g \in Generations, NEW i \in Slots, w[g][i] \in {"idle", "busy"}
  PROVE  Live(w) # {}
<1> <<g, i>> \in Live(w)
  BY SMTT(30), Z3T(30) DEF Live
<1> QED  OBVIOUS

\* Every step keeps Start and Stop apart, or notes that they overlap.
LEMMA SeparateStep == IInv /\ [Next]_vars => Separate'
<1> SUFFICES ASSUME IInv, [Next]_vars PROVE Separate'
  OBVIOUS
<1> USE DEF IInv, TypeOK, object, contexts, Separate, Stopping, Waiting
<1>1. ASSUME NEW c \in Callers, Start(c) PROVE Separate'
  BY <1>1, Zenon DEF Start
<1>2. ASSUME NEW c \in Callers, Stop(c) PROVE Separate'
  BY <1>2, ZenonT(60) DEF Stop
<1>3. ASSUME NEW c \in Callers, Spawn(c) PROVE Separate'
  <2>1. pc[c] = "starting" /\ waiter' = waiter /\ ended' = "no" /\ UNCHANGED <<overlapped, forced>>
    BY <1>3 DEF Spawn, Leave
  <2>2. \A d \in Callers : pc'[d] = pc[d] \/ (d = c /\ pc'[d] \in {"idle", "starting"})
    <3>1. pc' = pc \/ pc' = [pc EXCEPT ![c] = "idle"]
      BY <1>3, Zenon DEF Spawn, Leave
    <3> QED
      BY ONLY <3>1, pc \in [Callers -> {"idle", "starting", "cancelling", "waiting", "overtime"}]
  <2>3. \A d \in Callers : d # c => of'[d] = of[d]
    BY <1>3 DEF Spawn, Leave
  <2>4. ~overlapped /\ forced = {} => \A g \in Generations : waiter[g] # "released"
    BY <2>1
  <2> QED  BY <2>1, <2>2, <2>3, <2>4
<1>4. ASSUME NEW c \in Callers, Cancel(c) PROVE Separate'
  BY <1>4 DEF Cancel
<1>5. ASSUME NEW g \in Generations, Wait(g) PROVE Separate'
  BY <1>5 DEF Wait
<1>6. ASSUME NEW g \in Generations, Wake(g) PROVE Separate'
  BY <1>6 DEF Wake
<1>7. ASSUME NEW c \in Callers, Return(c) PROVE Separate'
  BY <1>7 DEF Return, Leave
<1>8. ASSUME NEW c \in Callers, ShutdownTimeoutPassed(c) \/ ForceTimeoutPassed(c)
      PROVE  Separate'
  BY <1>8 DEF ShutdownTimeoutPassed, ForceTimeoutPassed, ShutdownDue, Leave
<1>9. ASSUME NEW g \in Generations, NEW i \in Slots, Poll(g, i) \/ Finish(g, i)
      PROVE  Separate'
  <2>1. Live(worker) # {}
    BY <1>9, LiveWorkers DEF Poll, Finish, ContextDone
  <2>2. UNCHANGED <<overlapped, forced, pc, of, waiter, ended>>
    BY <1>9 DEF Poll, Finish, ContextDone
  <2> QED  BY <2>1, <2>2
<1>10. ASSUME NEW g \in Generations, NEW i \in Slots, Done(g, i) PROVE Separate'
  <2>1. Live(worker) # {}
    <3>1. worker[g][i] \in {"idle", "busy"}
      BY <1>10, Zenon DEF Done
    <3> QED  BY <3>1, LiveWorkers, ZenonT(30)
  <2>2. UNCHANGED <<overlapped, forced, pc, of, ended>>
    BY <1>10 DEF Done, ContextDone
  <2>3. \A h \in Generations : waiter'[h] = IF waiter[h] = "waiting" /\ Live(worker') = {}
                                            THEN "released" ELSE waiter[h]
    BY <1>10 DEF Done, ContextDone
  <2> QED  BY <2>1, <2>2, <2>3
<1>11. CASE Tick \/ UNCHANGED vars
  BY <1>11 DEF Tick, vars
<1>12. ASSUME NEW g \in Generations, CancelParent(g) PROVE Separate'
  BY <1>12 DEF CancelParent
<1> QED
  BY <1>1, <1>2, <1>3, <1>4, <1>5, <1>6, <1>7, <1>8, <1>9, <1>10, <1>11, <1>12, Zenon
     DEF Next, Call

\* IInv is inductive.
LEMMA Inductive == IInv /\ [Next]_vars => IInv'
<1>1. IInv /\ [Next]_vars => Consistent'
  BY ConfigFixed DEF IInv, Consistent
<1> QED
  BY <1>1, TypeStep, NumberedStep, OwnedStep, QuietStep, TimelyStep, TracedStep, StaffedStep,
     SeparateStep
  DEF IInv

\* IInv holds always.
LEMMA Invariant == Spec => []IInv
BY InitInv, Inductive, PTL DEF Spec

-----------------------------------------------------------------------------

\* The object, its callers and its workers keep their types.
THEOREM TypeCorrect == Spec => []TypeOK
<1>1. IInv => TypeOK
  BY DEF IInv
<1> QED  BY <1>1, Invariant, PTL

\* No interleaving of Start and Stop leaves a worker that nobody will stop.
THEOREM NobodyIsOrphaned == Spec => []NoOrphans
<1>1. IInv => NoOrphans
  BY DEF IInv, Owned, Numbered, NoOrphans
<1> QED  BY <1>1, Invariant, PTL

\* OnForceShutdown is called exactly when the time of the Stop that calls it is up.
THEOREM ForceIsOnTime == Spec => ForcedInTime
<1> DEFINE Step ==
      /\ \A c \in Callers : Waiting(c)' => timer'[c] <= WaitLimit
      /\ forced' # forced => \E c \in Callers : /\ forced' = forced \cup {of[c]}
                                               /\ pc[c] = "overtime"
                                               /\ timer[c] = WaitLimit
<1>1. IInv /\ [Next]_vars /\ IInv' => [Step]_vars
  <2> SUFFICES ASSUME IInv, [Next]_vars, IInv' PROVE Step
    OBVIOUS
  <2>1. WaitLimit' = WaitLimit /\ OvertimeBegan' = OvertimeBegan
    BY ConfigFixed DEF WaitLimit, OvertimeBegan
  <2>2. ASSUME NEW c \in Callers, Waiting(c)' PROVE timer'[c] <= WaitLimit
    BY <2>1, <2>2, LimitIsLater DEF IInv, TypeOK, Timely, Waiting
  <2>3. ASSUME forced' # forced
        PROVE  \E c \in Callers : /\ forced' = forced \cup {of[c]}
                                  /\ pc[c] = "overtime"
                                  /\ timer[c] = WaitLimit
    <3>1. PICK c \in Callers : ForceTimeoutPassed(c)
      BY <2>3, Zenon
         DEF Next, Call, vars, Start, Stop, Spawn, Cancel, Wait, Wake, Return,
             ShutdownTimeoutPassed, CancelParent, Poll, Finish, Done, Tick
    <3>2. pc[c] = "overtime" /\ timer[c] - OvertimeBegan >= config.force - config.shutdown
      BY <3>1 DEF ForceTimeoutPassed, ForceDue
    <3>3. timer[c] \in Nat /\ timer[c] >= OvertimeBegan /\ timer[c] <= WaitLimit
      BY <3>2 DEF IInv, TypeOK, Timely
    <3>4. timer[c] = WaitLimit
      BY <3>2, <3>3, LimitIsLater
    <3> QED  BY <3>1, <3>2, <3>4 DEF ForceTimeoutPassed
  <2> QED  BY <2>2, <2>3
<1> QED  BY <1>1, Invariant, PTL DEF Spec, ForcedInTime

\* A component that reports healthy is not being stopped, and its workers run or are being
\* started unless its caller has cancelled their context.
THEOREM HealthIsHonest == Spec => []HealthyIsServing
<1>1. IInv => HealthyIsServing
  BY DEF IInv, TypeOK, Numbered, Traced, Staffed, HealthyIsServing, HealthStatus, IsHealthy
<1> QED  BY <1>1, Invariant, PTL

\* Without overlapping calls of Start and Stop and without a Stop that gives up on its
\* workers, wg.Wait never panics.
THEOREM ReuseIsSafe == Spec => []PanicNeedsOverlap
<1>1. IInv => PanicNeedsOverlap
  BY DEF IInv, Separate, PanicNeedsOverlap
<1> QED  BY <1>1, Invariant, PTL

\* When Stop returns and has not called OnForceShutdown, the generation it stopped is not
\* processing anything.
THEOREM StoppedIsQuiet == Spec => StopIsQuiet
<1> DEFINE Step == \A c \in Callers : Waiting(c) /\ pc'[c] = "idle" /\ of[c] \notin forced'
                     => \A i \in Slots : worker[of[c]][i] # "busy"
<1>1. IInv /\ [Next]_vars => [Step]_vars
  <2> SUFFICES ASSUME IInv, [Next]_vars, NEW c \in Callers,
                      Waiting(c), pc'[c] = "idle", of[c] \notin forced'
               PROVE  \A i \in Slots : worker[of[c]][i] # "busy"
    BY SMTT(30), Z3T(30)
  <2>1. Return(c)
    BY ZenonT(30)
       DEF IInv, TypeOK, Waiting, object, contexts, Next, Call, vars, Start, Stop, Spawn,
           Cancel, Wait, Wake, Return, Leave, ShutdownTimeoutPassed, ForceTimeoutPassed,
           CancelParent, Poll, Finish, Done, Tick
  <2> QED  BY <2>1 DEF IInv, Quiet, Return, Leave
<1> QED  BY <1>1, Invariant, PTL DEF Spec, StopIsQuiet
=============================================================================
