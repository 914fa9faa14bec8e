------------------------- MODULE ConsumerOnceProofs -------------------------
(***************************************************************************)
(* Who holds a message of Consumer, and how often its work takes effect:   *)
(* what rests on the visibility timeout, on the inbox and on unique keys.  *)
(***************************************************************************)
EXTENDS ConsumerProofs, FiniteSetTheorems

-----------------------------------------------------------------------------
(* The visibility timeout excludes *)

InFlight(c) == queue[c].state = "queued" /\ queue[c].hidden > 0

\* What a worker holds is in flight, and nobody else holds it.
ExclusiveInv ==
  \A w \in Workers : \A c \in Copies : Holds(w, c) =>
    /\ InFlight(c)
    /\ \A v \in Workers \ {w} : \A d \in Copies : Holds(v, d) => c # d /\ ~Fifo

\* Steps after which workers hold no more than before, and the queue has not changed.
LEMMA HoldsNoMore ==
  ASSUME ExclusiveInv, UNCHANGED queue,
         \A w \in Workers : \A c \in Copies : Holds(w, c)' => Holds(w, c)
  PROVE  ExclusiveInv'
BY DEF ExclusiveInv, InFlight

LEMMA ExclusiveStep ==
  ASSUME TypeInv, ExclusiveInv, ~SlowHandler, [Next]_vars
  PROVE  ExclusiveInv'
<1> USE DEF TypeInv, queueVars, procVars, tableVars, history
<1>1. ASSUME NEW c \in Copies, Send(c)
      PROVE  ExclusiveInv'
  <2>1. \A d \in Copies : d # c => queue'[d] = queue[d]
    BY <1>1 DEF Send, Typed
  <2>2. \A w \in Workers : ~Holds(w, c)
    BY <1>1 DEF Send, ExclusiveInv, InFlight
  <2>3. UNCHANGED <<todo, stage>>
    BY <1>1 DEF Send
  <2> QED
    BY <2>1, <2>2, <2>3 DEF ExclusiveInv, InFlight, Holds
<1>2. ASSUME NEW w \in Workers, ReceiveMessage(w) \/ ReceiveLost(w)
      PROVE  ExclusiveInv'
  <2>1. PICK S \in SUBSET Copies :
          /\ Batch(S)
          /\ TakeFromQueue(S)
          /\ \/ todo' = todo
             \/ Idle(w) /\ todo' = [todo EXCEPT ![w] = S]
    BY <1>2 DEF ReceiveMessage, ReceiveLost
  <2>2. UNCHANGED stage
    BY <1>2 DEF ReceiveMessage, ReceiveLost
  <2>3. \A c \in S : \A v \in Workers : ~Holds(v, c)
    <3>1. \A c \in S : queue[c].hidden = 0
      BY <2>1, TakeEffect DEF Receivable
    <3> QED
      BY <3>1 DEF ExclusiveInv, InFlight
  <2>4. Fifo => \A v \in Workers : \A d \in Copies : ~Holds(v, d)
    BY <2>1 DEF Batch, ExclusiveInv, InFlight
  <2>5. \A c \in Copies \ S : queue'[c] = queue[c]
    BY <2>1, TakeEffect
  <2>6. \A c \in S : InFlight(c)'
    <3>1. \A c \in S : queue[c] \in Entry /\ queue'[c] = Received(queue[c])
      BY <2>1, TakeEffect DEF Typed
    <3>2. \A c \in S : Received(queue[c]).state = "queued" /\ Received(queue[c]).hidden > 0
      BY <3>1, QueueEffects, VisibilityAssumption
    <3> QED
      BY <3>1, <3>2 DEF InFlight
  <2>7. \A v \in Workers : \A c \in Copies :
          Holds(v, c)' => Holds(v, c) \/ (v = w /\ c \in S)
    BY <2>1, <2>2 DEF Holds, Typed
  <2> QED
    BY <2>3, <2>4, <2>5, <2>6, <2>7 DEF ExclusiveInv, InFlight
<1>4. ASSUME NEW w \in Workers, SkipRest(w)
      PROVE  ExclusiveInv'
  <2>1. UNCHANGED queue /\ \A v \in Workers : \A c \in Copies : Holds(v, c)' => Holds(v, c)
    BY <1>4 DEF SkipRest, Holds, Typed
  <2> QED
    BY <2>1, HoldsNoMore
<1>5. ASSUME NEW w \in Workers, NEW c \in Copies, StartMessage(w, c)
      PROVE  ExclusiveInv'
  <2>1. /\ Route(w[1], c) \in Stages
        /\ c \in todo[w]
    BY <1>5, RouteIsStage, ProcOfWorker DEF StartMessage, NextOfBatch, Stages, Handling
  <2>2. \A v \in Workers : \A d \in Copies :
          (v # w \/ d # c) => stage'[v][d] = stage[v][d]
    BY <1>5, <2>1, GotoEffect DEF StartMessage, Typed
  <2>3. \A v \in Workers : todo'[v] \subseteq todo[v]
    <3>1. \/ todo' = [todo EXCEPT ![w] = @ \ {c}]
          \/ todo' = [todo EXCEPT ![w] = {}]
      BY <1>5, Zenon DEF StartMessage
    <3> QED
      BY <3>1, Zenon DEF Typed
  <2>4. UNCHANGED queue /\ \A v \in Workers : \A d \in Copies : Holds(v, d)' => Holds(v, d)
    BY <1>5, <2>1, <2>2, <2>3 DEF StartMessage, Holds
  <2> QED
    BY <2>4, HoldsNoMore
<1>6. ASSUME NEW w \in Workers, NEW c \in Copies, HandlerAction(w, c)
      PROVE  ExclusiveInv'
  <2>1. PICK s \in Stages \ {"none"} : Goto(w, c, s)
    BY <1>6, HandlerShape
  <2>2. \A v \in Workers : \A d \in Copies :
          (v # w \/ d # c) => stage'[v][d] = stage[v][d]
    BY <2>1, GotoEffect, SMT, Z3, Zenon DEF Typed
  <2>3. /\ stage[w][c] # "none"
        /\ UNCHANGED <<queue, todo>>
    BY <1>6, HandlerShape, SMT, Z3, Zenon DEF Handling
  <2>4. \A v \in Workers : \A d \in Copies : Holds(v, d)' => Holds(v, d)
    BY <2>2, <2>3 DEF Holds
  <2> QED
    BY <2>3, <2>4, HoldsNoMore
<1>7. ASSUME NEW w \in Workers, NEW c \in Copies, EndOfMessage(w, c)
      PROVE  ExclusiveInv'
  <2>1. /\ stage[w][c] # "none"
        /\ Finish(w, c)
        /\ UNCHANGED todo
    BY <1>7, EndShape
  <2>2. \A d \in Copies : d # c => queue'[d] = queue[d]
    <3>1. PICK e \in {queue[c], Removed(queue[c])} : queue' = [queue EXCEPT ![c] = e]
      BY <1>7, EndShape
    <3> QED
      BY <3>1 DEF Typed
  <2>3. \A v \in Workers : \A d \in Copies :
          Holds(v, d)' => Holds(v, d) /\ (v # w \/ d # c)
    BY <2>1, FinishEffect DEF Holds, Receipted
  <2>4. \A v \in Workers : v # w => ~Holds(v, c)
    BY <2>1 DEF ExclusiveInv, Holds
  <2> QED
    BY <2>2, <2>3, <2>4 DEF ExclusiveInv, InFlight
<1>8. ASSUME NEW p \in Procs, Start(p) \/ Stop(p) \/ Exit(p)
      PROVE  ExclusiveInv'
  <2>1. UNCHANGED <<queue, stage, todo>>
    BY <1>8 DEF Start, Stop, Exit
  <2> QED
    BY <2>1, HoldsNoMore DEF Holds
<1>9. ASSUME NEW p \in Procs, Crash(p)
      PROVE  ExclusiveInv'
  <2>1. /\ UNCHANGED queue
        /\ \A w \in Workers : \A c \in Copies : stage'[w][c] \in {"none", stage[w][c]}
        /\ \A w \in Workers : todo'[w] \subseteq todo[w]
    BY <1>9 DEF Crash
  <2>2. \A v \in Workers : \A d \in Copies : Holds(v, d)' => Holds(v, d)
    BY <2>1 DEF Holds
  <2> QED
    BY <2>1, <2>2, HoldsNoMore
<1>10. CASE DeleteOlderThan
  BY <1>10, HoldsNoMore DEF DeleteOlderThan, Holds
<1>11. CASE Tick
  <2>1. \A w \in Workers : \A c \in Copies : Holds(w, c) => queue[c].hidden > 1
    BY <1>11 DEF Tick, Held, Active, Holds
  <2>2. \A c \in Copies : /\ queue'[c].state = queue[c].state
                          /\ queue[c].hidden > 1 => queue'[c].hidden > 0
    BY <1>11, QueueEffects, SMT, Z3, Zenon DEF Tick, Typed
  <2>3. UNCHANGED <<todo, stage>>
    BY <1>11 DEF Tick
  <2> QED
    BY <2>1, <2>2, <2>3 DEF ExclusiveInv, InFlight, Holds
<1>12. CASE UNCHANGED vars
  BY <1>12, HoldsNoMore DEF vars, Holds
<1> QED
  BY <1>1, <1>2, <1>4, <1>5, <1>6, <1>7, <1>8, <1>9, <1>10, <1>11, <1>12
     DEF Next, HandlerAction

LEMMA ExclusiveInvariant ==
  ASSUME ~SlowHandler
  PROVE  Spec => []ExclusiveInv
<1>1. Init => ExclusiveInv
  BY DEF Init, ExclusiveInv, Holds
<1>2. TypeInv /\ ExclusiveInv /\ [Next]_vars => ExclusiveInv'
  BY ExclusiveStep
<1> QED
  BY <1>1, <1>2, TypeInvariant, PTL DEF Spec

\* If batches are done before the visibility timeout, no message is held by two workers
\* at a time, and no two workers hold messages of a FIFO group.
THEOREM TimeoutExcludes ==
  ASSUME ~SlowHandler
  PROVE  Spec => []NoConcurrentHandling
<1>1. TypeInv /\ ExclusiveInv => NoConcurrentHandling
  <2>1. TypeInv => \A w \in Workers : Held(w) = {c \in Copies : Holds(w, c)}
    BY DEF TypeInv, Typed, Held, Active, Holds
  <2> QED
    BY <2>1 DEF ExclusiveInv, NoConcurrentHandling
<1> QED
  BY <1>1, TypeInvariant, ExclusiveInvariant, PTL

-----------------------------------------------------------------------------
(* The work of a transactional handler takes effect once *)

Late == {"complete", "commit", "recommit"}

\* A handler changes the tables for its own event only.
LEMMA HandlerIsLocal ==
  ASSUME Typed, NEW w \in Workers, NEW c \in Copies, HandlerAction(w, c)
  PROVE  \A e \in Events : e # EventOf[c] => work'[e] = work[e] /\ inbox'[e] = inbox[e]
<1> USE DEF tableVars
<1>1. CASE IsProcessed(w, c)
  BY <1>1, SMT, Z3, Zenon DEF IsProcessed
<1>2. CASE DoWorkTx(w, c)
  BY <1>2 DEF DoWorkTx
<1>3. CASE DoWork(w, c)
  <2>1. Worked(c, ~UniqueWork) /\ (~UniqueWork) \in BOOLEAN /\ UNCHANGED inbox
    BY <1>3 DEF DoWork
  <2> QED
    BY <2>1, TableEffects, ZenonT(30)
<1>4. CASE CompleteTx(w, c)
  BY <1>4 DEF CompleteTx
<1>5. CASE Complete(w, c)
  BY <1>5, TableEffects, Zenon DEF Complete
<1>6. CASE Commit(w, c)
  BY <1>6, TableEffects, Zenon DEF Commit
<1>7. CASE HandlerFails(w, c)
  BY <1>7 DEF HandlerFails
<1>8. CASE AnswerLost(w, c)
  <2>1. Worked(c, InTransaction(c) \/ ~UniqueWork)
    BY <1>8 DEF AnswerLost
  <2>2. \A e \in Events : e # EventOf[c] => work'[e] = work[e]
    BY <2>1, TableEffects, Zenon
  <2>3. \A e \in Events : e # EventOf[c] => inbox'[e] = inbox[e]
    BY <1>8, TableEffects, Zenon DEF AnswerLost
  <2> QED
    BY <2>2, <2>3, SMT, Z3, Zenon
<1> QED
  BY <1>1, <1>2, <1>3, <1>4, <1>5, <1>6, <1>7, <1>8, SMT, Z3, Zenon DEF HandlerAction, HandlerStep

\* The steps of a transactional handler.
TxStep(w, c) ==
  LET s == stage[w][c]
      t == stage'[w][c]
      recorded == inbox[EventOf[c]] # NoRecord
  IN  \/ /\ UNCHANGED <<work, inbox>>
         /\ \/ t \in {"ok", "failed"}
            \/ s = "check" /\ t = "work" /\ ~recorded
            \/ /\ s = "work" /\ t = "complete"
               /\ UniqueWork => work[EventOf[c]] <= 0 /\ ~Locked(w, c, Late)
            \/ s = "complete" /\ t = IF recorded THEN "recommit" ELSE "commit"
      \/ /\ s \in {"commit", "recommit"} /\ t \in {"ok", "failed"}
         /\ Worked(c, TRUE)
         /\ s = "commit" => Record(c)

LEMMA TxSteps ==
  ASSUME Typed, NEW w \in Workers, NEW c \in Copies, HandlerAction(w, c), InTransaction(c)
  PROVE  TxStep(w, c)
<1> USE DEF tableVars, TxStep
<1>0. /\ EventOf[c] \in Events
      /\ {"ok", "work", "failed", "complete", "commit", "recommit"} \subseteq Stages
      /\ stage \in [Workers -> [Copies -> Stages]]
      /\ work[EventOf[c]] \in 0..2
  BY ConsumerAssumption, Zenon DEF Stages, Handling, Typed
<1>1. CASE IsProcessed(w, c)
  <2>1. stage'[w][c] = IF inbox[EventOf[c]] # NoRecord THEN "ok" ELSE "work"
    BY <1>0, <1>1, GotoEffect, SMTT(30), Z3T(30) DEF IsProcessed
  <2> QED
    BY <1>1, <2>1 DEF IsProcessed
<1>2. CASE DoWorkTx(w, c)
  <2>1. stage'[w][c] = IF UniqueWork /\ work[EventOf[c]] > 0 THEN "failed" ELSE "complete"
    BY <1>0, <1>2, GotoEffect, SMT, Z3, Zenon DEF DoWorkTx
  <2>2. UniqueWork => ~Locked(w, c, Late)
    BY <1>2 DEF DoWorkTx, Late
  <2>3. UNCHANGED <<work, inbox>> /\ stage[w][c] = "work"
    BY <1>2 DEF DoWorkTx
  <2> QED
    BY <1>0, <2>1, <2>2, <2>3, SMTT(30), Z3T(30)
<1>4. CASE CompleteTx(w, c)
  <2>1. stage'[w][c] = IF inbox[EventOf[c]] = NoRecord THEN "commit" ELSE "recommit"
    BY <1>0, <1>4, GotoEffect DEF CompleteTx
  <2> QED
    BY <1>4, <2>1, SMT, Z3, Zenon DEF CompleteTx
<1>6. CASE Commit(w, c)
  <2>1. stage'[w][c] = "ok"
    BY <1>0, <1>6, GotoEffect, ZenonT(30) DEF Commit
  <2> QED
    BY <1>6, <2>1, Zenon DEF Commit
<1>7. CASE HandlerFails(w, c)
  <2>1. stage'[w][c] = "failed"
    BY <1>0, <1>7, GotoEffect DEF HandlerFails
  <2> QED
    BY <1>7, <2>1 DEF HandlerFails
<1>8. CASE AnswerLost(w, c)
  <2>1. stage'[w][c] = "failed"
    BY <1>0, <1>8, GotoEffect DEF AnswerLost
  <2>2. /\ stage[w][c] \in {"commit", "recommit"}
        /\ stage[w][c] = "commit" => Record(c)
    BY <1>8 DEF AnswerLost
  <2>3. Worked(c, TRUE)
    BY <1>8 DEF AnswerLost, Worked
  <2> QED
    BY <2>1, <2>2, <2>3, Zenon
<1> QED
  BY <1>1, <1>2, <1>4, <1>6, <1>7, <1>8, ZenonT(30)
     DEF HandlerAction, HandlerStep, DoWork, Complete

\* What every other step leaves alone: the work, the transactions, the missing records
\* and the deleted messages. Records go away only by the cleanup.
QuietStep ==
  /\ UNCHANGED work
  /\ \A w \in Workers : \A c \in Copies :
       InTransaction(c) /\ stage'[w][c] \in {"work"} \cup Late => stage'[w][c] = stage[w][c]
  /\ \A e \in Events : inbox[e] = NoRecord => inbox'[e] = NoRecord
  /\ \A e \in Events : inbox'[e] = NoRecord
       => \/ inbox[e] = NoRecord
          \/ EarlyPurge
          \/ \A c \in Copies : EventOf[c] = e => queue[c].state = "deleted"
  /\ \A c \in Copies : queue[c].state = "deleted" => queue'[c].state = "deleted"

LEMMA OtherSteps ==
  ASSUME TypeInv, [Next]_vars,
         ~ \E w \in Workers : \E c \in Copies : HandlerAction(w, c)
  PROVE  QuietStep
<1> USE DEF TypeInv, queueVars, procVars, tableVars, history
<1>1. ASSUME NEW c \in Copies, Send(c)
      PROVE  QuietStep
  <2>1. \A d \in Copies : queue[d].state = "deleted" => queue'[d].state = "deleted"
    BY <1>1 DEF Send, Typed
  <2> QED
    BY <1>1, <2>1 DEF Send, QuietStep
<1>2. ASSUME NEW w \in Workers, ReceiveMessage(w) \/ ReceiveLost(w)
      PROVE  QuietStep
  <2>1. PICK S \in SUBSET Copies : Batch(S) /\ TakeFromQueue(S)
    BY <1>2, Zenon DEF ReceiveMessage, ReceiveLost
  <2>2. \A d \in Copies : queue[d].state = "deleted" => queue'[d].state = "deleted"
    BY <2>1, TakeEffect, Zenon DEF Receivable
  <2>3. UNCHANGED <<stage, inbox, work>>
    BY <1>2 DEF ReceiveMessage, ReceiveLost
  <2> QED
    BY <2>2, <2>3 DEF QuietStep
<1>4. ASSUME NEW w \in Workers, SkipRest(w)
      PROVE  QuietStep
  BY <1>4 DEF SkipRest, QuietStep
<1>5. ASSUME NEW w \in Workers, NEW c \in Copies, StartMessage(w, c)
      PROVE  QuietStep
  <2>1. /\ Route(w[1], c) \in Stages
        /\ InTransaction(c) => Route(w[1], c) \notin {"work"} \cup Late
    BY <1>5, RouteIsStage, ProcOfWorker, Zenon DEF StartMessage, Stages, Handling, Late
  <2>2. /\ stage'[w][c] = Route(w[1], c)
        /\ \A v \in Workers : \A d \in Copies :
              (v # w \/ d # c) => stage'[v][d] = stage[v][d]
    BY <1>5, <2>1, GotoEffect DEF StartMessage, Typed
  <2>3. UNCHANGED <<queue, inbox, work>>
    BY <1>5, ZenonT(30) DEF StartMessage
  <2> QED
    BY <2>1, <2>2, <2>3, Zenon DEF QuietStep
<1>7. ASSUME NEW w \in Workers, NEW c \in Copies, EndOfMessage(w, c)
      PROVE  QuietStep
  <2>1. /\ Finish(w, c)
        /\ UNCHANGED <<inbox, work>>
    BY <1>7, EndShape, Zenon
  <2>2. \A d \in Copies : queue[d].state = "deleted" => queue'[d].state = "deleted"
    <3>1. PICK e \in {queue[c], Removed(queue[c])} : queue' = [queue EXCEPT ![c] = e]
      BY <1>7, EndShape, Zenon
    <3>2. queue[c] \in Entry /\ Removed(queue[c]).state = "deleted"
      BY QueueEffects DEF Typed
    <3>3. e.state \in {queue[c].state, "deleted"}
      BY <3>1, <3>2, Zenon
    <3> QED
      BY <3>1, <3>3, Zenon DEF Typed
  <2>3. \A v \in Workers : \A d \in Copies : stage'[v][d] \in {"none", stage[v][d]}
    BY <2>1, FinishEffect, ZenonT(30)
  <2> QED
    BY <2>1, <2>2, <2>3, Zenon DEF QuietStep, Late
<1>8. ASSUME NEW p \in Procs, Start(p) \/ Stop(p) \/ Exit(p)
      PROVE  QuietStep
  <2>1. UNCHANGED <<queue, stage, inbox, work>>
    BY <1>8, Zenon DEF Start, Stop, Exit
  <2> QED
    BY <2>1 DEF QuietStep
<1>9. ASSUME NEW p \in Procs, Crash(p)
      PROVE  QuietStep
  <2>1. /\ UNCHANGED <<queue, inbox, work>>
        /\ \A w \in Workers : \A c \in Copies : stage'[w][c] \in {"none", stage[w][c]}
    BY <1>9, ZenonT(30) DEF Crash
  <2> QED
    BY <2>1, Zenon DEF QuietStep, Late
<1>10. CASE DeleteOlderThan
  <2>1. \A e \in Events : inbox'[e] = IF Purgeable(e) THEN NoRecord ELSE inbox[e]
    BY <1>10 DEF DeleteOlderThan
  <2>2. UNCHANGED <<queue, stage, work>>
    BY <1>10, Zenon DEF DeleteOlderThan
  <2> QED
    BY <2>1, <2>2, Zenon DEF QuietStep, Purgeable
<1>11. CASE Tick
  <2>1. \A e \in Events : (inbox'[e] = NoRecord) <=> (inbox[e] = NoRecord)
    BY <1>11, SMTT(30), Z3T(30) DEF Tick, NoRecord
  <2>2. \A c \in Copies : queue'[c].state = queue[c].state
    BY <1>11, QueueEffects, Zenon DEF Tick, Typed
  <2>3. UNCHANGED <<stage, work>>
    BY <1>11, Zenon DEF Tick
  <2> QED
    BY <2>1, <2>2, <2>3, Zenon DEF QuietStep
<1>12. CASE UNCHANGED vars
  BY <1>12 DEF vars, QuietStep
<1> QED
  BY <1>1, <1>2, <1>4, <1>5, <1>7, <1>8, <1>9, <1>10, <1>11, <1>12, ZenonT(30)
     DEF Next, HandlerAction

\* With a unique key, one transaction at a time is past its work, and only while the
\* work has not taken effect.
UniqueInv ==
  /\ AtMostOnce
  /\ \A w \in Workers : \A c \in Copies :
       InTransaction(c) /\ stage[w][c] \in Late =>
         /\ work[EventOf[c]] = 0
         /\ \A v \in Workers : \A d \in Copies :
              EventOf[d] = EventOf[c] /\ stage[v][d] \in Late => v = w /\ d = c

LEMMA UniqueStep ==
  ASSUME TypeInv, UniqueInv, UniqueWork, [Next]_vars
  PROVE  UniqueInv'
<1> USE DEF TypeInv
<1>0. \A c \in Copies : EventOf[c] \in Events
  BY ConsumerAssumption, ZenonT(30)
<1>1. CASE ~ \E w \in Workers : \E c \in Copies : HandlerAction(w, c)
  <2>1. QuietStep
    BY <1>1, OtherSteps, Zenon
  <2>2. AtMostOnce'
    BY <2>1 DEF QuietStep, UniqueInv, AtMostOnce
  <2>3. \A w \in Workers : \A c \in Copies :
          InTransaction(c) /\ stage'[w][c] \in Late => stage[w][c] \in Late
    BY <2>1 DEF QuietStep
  <2>4. \A c, d \in Copies : EventOf[c] = EventOf[d] => InTransaction(c) = InTransaction(d)
    BY DEF InTransaction
  <2>5. UNCHANGED work
    BY <2>1 DEF QuietStep
  <2> QED
    BY <2>2, <2>3, <2>4, <2>5 DEF UniqueInv, InTransaction
<1>2. ASSUME NEW w \in Workers, NEW c \in Copies, HandlerAction(w, c)
      PROVE  UniqueInv'
  <2>1. PICK s \in Stages \ {"none"} : Goto(w, c, s)
    BY <1>2, HandlerShape
  <2>2. \A v \in Workers : \A d \in Copies :
          (v # w \/ d # c) => stage'[v][d] = stage[v][d]
    BY <2>1, GotoEffect DEF Typed
  <2>3. \A e \in Events : e # EventOf[c] => work'[e] = work[e]
    BY <1>2, HandlerIsLocal
  <2>4. \A e \in Events : work[e] \in 0..2 /\ work'[e] \in 0..2
    BY <1>2, HandlerShape, Zenon DEF Typed
  <2>5. CASE ~InTransaction(c)
    <3>1. AtMostOnce'
      BY <2>3, <2>5, Zenon DEF UniqueInv, AtMostOnce, InTransaction
    <3> QED
      BY <1>0, <2>2, <2>3, <2>5, <3>1, SMTT(30), Z3T(30) DEF UniqueInv, InTransaction
  <2>6. CASE InTransaction(c) /\ stage'[w][c] \notin Late /\ UNCHANGED work
    BY <2>2, <2>6 DEF UniqueInv, InTransaction, AtMostOnce
  <2>7. CASE InTransaction(c) /\ stage'[w][c] \in Late /\ UNCHANGED work
    <3>1. CASE stage[w][c] \in Late
      BY <2>2, <2>7, <3>1 DEF UniqueInv, InTransaction, AtMostOnce
    <3>2. CASE stage[w][c] \notin Late
      <4>1. TxStep(w, c)
        BY <1>2, <2>7, TxSteps
      <4>2. work[EventOf[c]] <= 0 /\ ~Locked(w, c, Late)
        BY <2>7, <3>2, <4>1, Zenon DEF TxStep, Late
      <4>3. work[EventOf[c]] = 0
        BY <1>0, <2>4, <4>2
      <4>4. \A v \in Workers : \A d \in Copies :
              EventOf[d] = EventOf[c] /\ stage[v][d] \in Late => v = w /\ d = c
        BY <2>7, <4>2 DEF Locked, InTransaction
      <4> QED
        BY <2>2, <2>7, <4>3, <4>4 DEF UniqueInv, InTransaction, AtMostOnce
    <3> QED
      BY <3>1, <3>2
  <2>8. CASE InTransaction(c) /\ ~UNCHANGED work
    <3>1. /\ stage[w][c] \in Late
          /\ stage'[w][c] \notin Late
          /\ Worked(c, TRUE)
      BY <1>2, <2>8, TxSteps, ZenonT(30) DEF TxStep, Late
    <3>2. work[EventOf[c]] = 0
      BY <2>8, <3>1 DEF UniqueInv
    <3>3. work'[EventOf[c]] = 1
      BY <3>1, <3>2, TableEffects, Zenon
    <3>4. AtMostOnce'
      BY <1>0, <2>3, <3>3, SMTT(30), Z3T(30) DEF UniqueInv, AtMostOnce
    <3>5. \A v \in Workers : \A d \in Copies :
            EventOf[d] = EventOf[c] => stage'[v][d] \notin Late
      BY <2>2, <2>8, <3>1 DEF UniqueInv
    <3> QED
      BY <1>0, <2>2, <2>3, <3>4, <3>5 DEF UniqueInv, InTransaction
  <2> QED
    BY <2>5, <2>6, <2>7, <2>8, Zenon
<1> QED
  BY <1>1, <1>2

\* A worker that processes one message at a time has one active message.
OneActive ==
  Fifo => \A w \in Workers : \A c, d \in Copies :
            stage[w][c] # "none" /\ stage[w][d] # "none" => c = d

LEMMA OneActiveStep ==
  ASSUME TypeInv, OneActive, [Next]_vars
  PROVE  OneActive'
<1> USE DEF TypeInv, queueVars, procVars, tableVars, history
<1>1. ASSUME \A w \in Workers : \A c \in Copies :
               stage'[w][c] # "none" => stage[w][c] # "none"
      PROVE  OneActive'
  BY <1>1 DEF OneActive
<1>2. CASE UNCHANGED stage
  BY <1>1, <1>2
<1>3. ASSUME NEW w \in Workers, NEW c \in Copies, StartMessage(w, c)
      PROVE  OneActive'
  <2>1. Route(w[1], c) \in Stages
    BY <1>3, RouteIsStage, ProcOfWorker, SMT, Z3, Zenon DEF Stages, Handling
  <2>2. \A v \in Workers : \A d \in Copies :
              (v # w \/ d # c) => stage'[v][d] = stage[v][d]
    BY <1>3, <2>1, GotoEffect DEF StartMessage, Typed
  <2>3. Fifo => Active(w) = {}
    <3>1. IsFiniteSet(Active(w))
      BY ConsumerAssumption, FS_Subset DEF Active
    <3>2. Cardinality(Active(w)) \in Nat
      BY <3>1, FS_CardinalityType
    <3>3. Fifo => Cardinality(Active(w)) = 0
      BY <1>3, <3>2, ConsumerAssumption DEF StartMessage
    <3> QED
      BY <3>1, <3>3, FS_EmptySet
  <2> QED
    BY <2>2, <2>3 DEF OneActive, Active
<1>4. ASSUME NEW w \in Workers, NEW c \in Copies, HandlerAction(w, c)
      PROVE  OneActive'
  <2>1. PICK s \in Stages \ {"none"} : Goto(w, c, s)
    BY <1>4, HandlerShape
  <2>2. \A v \in Workers : \A d \in Copies :
          (v # w \/ d # c) => stage'[v][d] = stage[v][d]
    BY <2>1, GotoEffect, SMTT(30), Z3T(30) DEF Typed
  <2>3. stage[w][c] # "none"
    BY <1>4, HandlerShape DEF Handling
  <2> QED
    BY <1>1, <2>2, <2>3
<1>5. ASSUME NEW w \in Workers, NEW c \in Copies, EndOfMessage(w, c)
      PROVE  OneActive'
  <2>1. Finish(w, c)
    BY <1>5, EndShape
  <2> QED
    BY <1>1, <2>1, FinishEffect
<1>6. ASSUME NEW p \in Procs, Crash(p)
      PROVE  OneActive'
  <2>1. \A w \in Workers : \A c \in Copies : stage'[w][c] \in {"none", stage[w][c]}
    BY <1>6, Zenon DEF Crash
  <2> QED
    BY <1>1, <2>1
<1>7. ASSUME ~UNCHANGED stage
      PROVE  \/ \E w \in Workers : \E c \in Copies :
                  StartMessage(w, c) \/ HandlerAction(w, c) \/ EndOfMessage(w, c)
             \/ \E p \in Procs : Crash(p)
  BY <1>7 DEF Next, vars, HandlerAction, Send, ReceiveMessage, ReceiveLost, SkipRest, Start,
              Stop, Exit, DeleteOlderThan, Tick
<1> QED
  BY <1>2, <1>3, <1>4, <1>5, <1>6, <1>7, Zenon

\* The inbox alone: an event whose transaction is under way has neither a record nor an
\* effect, and one that has an effect keeps its record while a message is left.
InboxInv ==
  /\ AtMostOnce
  /\ \A w \in Workers : \A c \in Copies : InTransaction(c) =>
       /\ stage[w][c] \in {"work", "complete", "commit"}
            => inbox[EventOf[c]] = NoRecord /\ work[EventOf[c]] = 0
       /\ stage[w][c] # "recommit"
  /\ \A e \in Events : KindOf[e] = "tx" /\ work[e] > 0 /\ inbox[e] = NoRecord
       => \A c \in Copies : EventOf[c] = e => queue[c].state = "deleted"

Injective == \A c, d \in Copies : EventOf[c] = EventOf[d] => c = d

LEMMA InboxStep ==
  ASSUME TypeInv, ExclusiveInv, OneActive, InboxInv, ~EarlyPurge, Fifo \/ Injective,
         [Next]_vars
  PROVE  InboxInv'
<1> USE DEF TypeInv
<1>0. \A c \in Copies : EventOf[c] \in Events
  BY ConsumerAssumption, Zenon
<1>1. CASE ~ \E w \in Workers : \E c \in Copies : HandlerAction(w, c)
  <2>1. QuietStep
    BY <1>1, OtherSteps
  <2>2. AtMostOnce'
    BY <2>1, ZenonT(30) DEF QuietStep, InboxInv, AtMostOnce
  <2>3. \A w \in Workers : \A c \in Copies : (InTransaction(c) =>
          /\ stage[w][c] \in {"work", "complete", "commit"}
               => inbox[EventOf[c]] = NoRecord /\ work[EventOf[c]] = 0
          /\ stage[w][c] # "recommit")'
    BY <1>0, <2>1, ZenonT(30) DEF QuietStep, InboxInv, Late, InTransaction
  <2>4. \A e \in Events : (KindOf[e] = "tx" /\ work[e] > 0 /\ inbox[e] = NoRecord
          => \A c \in Copies : EventOf[c] = e => queue[c].state = "deleted")'
    BY <2>1, Zenon DEF QuietStep, InboxInv
  <2> QED
    BY <2>2, <2>3, <2>4, Zenon DEF InboxInv
<1>2. ASSUME NEW w \in Workers, NEW c \in Copies, HandlerAction(w, c)
      PROVE  InboxInv'
  <2>1. PICK s \in Stages \ {"none"} : Goto(w, c, s)
    BY <1>2, HandlerShape
  <2>2. \A v \in Workers : \A d \in Copies :
          (v # w \/ d # c) => stage'[v][d] = stage[v][d]
    BY <2>1, GotoEffect, SMTT(30), Z3T(30) DEF Typed
  <2>3. \A e \in Events : e # EventOf[c] => work'[e] = work[e] /\ inbox'[e] = inbox[e]
    BY <1>2, HandlerIsLocal, Zenon
  <2>4. UNCHANGED queue /\ stage[w][c] # "none"
    BY <1>2, HandlerShape, SMT, Z3, Zenon DEF Handling
  <2>5. CASE ~InTransaction(c)
    BY <1>0, <2>2, <2>3, <2>4, <2>5 DEF InboxInv, InTransaction, AtMostOnce
  <2>6. CASE InTransaction(c)
    <3>1. TxStep(w, c)
      BY <1>2, <2>6, TxSteps
    <3>2. queue[c].state # "deleted"
      BY <2>4 DEF ExclusiveInv, InFlight, Holds
    <3>3. work[EventOf[c]] \in 0..2
      BY <1>0 DEF Typed
    <3>4. \A v \in Workers : \A d \in Copies :
            EventOf[d] = EventOf[c] /\ stage[v][d] # "none" => v = w /\ d = c
      BY <2>4, SMTT(30), Z3T(30) DEF ExclusiveInv, OneActive, Injective, Holds
    <3>5. CASE UNCHANGED <<work, inbox>>
      <4>a. EventOf[c] \in Events /\ KindOf[EventOf[c]] = "tx"
        BY <1>0, <2>6, Zenon DEF InTransaction
      <4>b. work[EventOf[c]] > 0 /\ inbox[EventOf[c]] = NoRecord => queue[c].state = "deleted"
        BY <4>a, Zenon DEF InboxInv
      <4>1. inbox[EventOf[c]] = NoRecord => work[EventOf[c]] = 0
        BY <3>2, <3>3, <4>b, SMTT(30), Z3T(30)
      <4>2. /\ stage'[w][c] \in {"work", "complete", "commit"}
                 => inbox[EventOf[c]] = NoRecord /\ work[EventOf[c]] = 0
            /\ stage'[w][c] # "recommit"
        BY <2>6, <3>1, <3>5, <4>1, Zenon DEF TxStep, InboxInv
      <4> QED
        BY <2>2, <2>4, <3>5, <4>2, SMTT(30), Z3T(30) DEF InboxInv, InTransaction, AtMostOnce
    <3>6. CASE ~UNCHANGED <<work, inbox>>
      <4>1. /\ stage[w][c] = "commit"
            /\ stage'[w][c] \in {"ok", "failed"}
            /\ Worked(c, TRUE)
            /\ Record(c)
        BY <2>6, <3>1, <3>6, Zenon DEF TxStep, InboxInv
      <4>2. work'[EventOf[c]] = 1
        BY <2>6, <4>1, TableEffects, Zenon DEF InboxInv
      <4>3. inbox'[EventOf[c]] # NoRecord
        BY <4>1, TableEffects, Zenon
      <4>4. AtMostOnce'
        BY <1>0, <2>3, <4>2, SMTT(30), Z3T(30) DEF InboxInv, AtMostOnce
      <4>5. \A v \in Workers : \A d \in Copies :
              EventOf[d] = EventOf[c] => stage'[v][d] \in {"ok", "failed", "none"}
        BY <2>2, <3>4, <4>1, ZenonT(30)
      <4>6. ASSUME NEW v \in Workers, NEW d \in Copies, InTransaction(d)
            PROVE  /\ stage'[v][d] \in {"work", "complete", "commit"}
                        => inbox'[EventOf[d]] = NoRecord /\ work'[EventOf[d]] = 0
                   /\ stage'[v][d] # "recommit"
        <5>1. CASE EventOf[d] = EventOf[c]
          BY <4>5, <5>1, Zenon
        <5>2. CASE EventOf[d] # EventOf[c]
          BY <1>0, <2>2, <2>3, <4>6, <5>2, ZenonT(30) DEF InboxInv
        <5> QED
          BY <5>1, <5>2, Zenon
      <4>7. ASSUME NEW e \in Events, KindOf[e] = "tx" /\ work'[e] > 0 /\ inbox'[e] = NoRecord
            PROVE  \A d \in Copies : EventOf[d] = e => queue'[d].state = "deleted"
        BY <2>3, <2>4, <4>3, <4>7 DEF InboxInv
      <4> QED
        BY <4>4, <4>6, <4>7, Zenon DEF InboxInv, InTransaction
    <3> QED
      BY <3>5, <3>6
  <2> QED
    BY <2>5, <2>6
<1> QED
  BY <1>1, <1>2

\* What the handlers rely on: a unique key on the work, or else an inbox that is kept as
\* long as messages, batches that are done in time, and no two copies of an event that
\* could be handled at the same time.
OnceConditions ==
  \/ UniqueWork
  \/ ~SlowHandler /\ ~EarlyPurge /\ (Fifo \/ Injective)

\* Under either condition the work of OrderConfirmedHandler and its like takes effect at
\* most once per event, for any number of deliveries, workers and failures.
THEOREM WorkIsDoneOnce ==
  ASSUME OnceConditions
  PROVE  Spec => []AtMostOnce
<1>1. CASE UniqueWork
  <2>1. Init => UniqueInv
    BY DEF Init, UniqueInv, AtMostOnce, Late
  <2>2. TypeInv /\ UniqueInv /\ [Next]_vars => UniqueInv'
    BY <1>1, UniqueStep
  <2>3. UniqueInv => AtMostOnce
    BY DEF UniqueInv
  <2> QED
    BY <2>1, <2>2, <2>3, TypeInvariant, PTL DEF Spec
<1>2. CASE ~SlowHandler /\ ~EarlyPurge /\ (Fifo \/ Injective)
  <2>1. Init => OneActive /\ InboxInv
    BY DEF Init, OneActive, InboxInv, AtMostOnce
  <2>2. TypeInv /\ OneActive /\ [Next]_vars => OneActive'
    BY OneActiveStep
  <2>3. TypeInv /\ ExclusiveInv /\ OneActive /\ InboxInv /\ [Next]_vars => InboxInv'
    BY <1>2, InboxStep
  <2>4. InboxInv => AtMostOnce
    BY DEF InboxInv
  <2>5. Spec => []ExclusiveInv
    BY <1>2, ExclusiveInvariant
  <2> QED
    BY <2>1, <2>2, <2>3, <2>4, <2>5, TypeInvariant, PTL DEF Spec
<1> QED
  BY <1>1, <1>2 DEF OnceConditions
=============================================================================
