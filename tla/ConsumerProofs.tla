--------------------------- MODULE ConsumerProofs ---------------------------
(***************************************************************************)
(* What Consumer promises for every number of processes, workers, messages *)
(* and events, every kind of handler and every policy for unknown types.   *)
(***************************************************************************)
EXTENDS Consumer, TLAPS

-----------------------------------------------------------------------------
(* Facts about the operators *)

\* What Goto, the step of processMessage for one message, does to all others.
LEMMA GotoEffect ==
  ASSUME stage \in [Workers -> [Copies -> Stages]],
         NEW w \in Workers, NEW c \in Copies, NEW s \in Stages, Goto(w, c, s)
  PROVE  /\ stage' \in [Workers -> [Copies -> Stages]]
         /\ stage'[w][c] = s
         /\ \A v \in Workers : \A d \in Copies :
              (v # w \/ d # c) => stage'[v][d] = stage[v][d]
BY DEF Goto

\* Where the router sends a message.
LEMMA RouteIsStage ==
  ASSUME NEW p \in Procs, NEW c \in Copies
  PROVE  /\ Route(p, c) \in {"work", "check", "ok", "failed"}
         /\ Route(p, c) = "ok" => Ignores(p, c)
         /\ InTransaction(c) => Route(p, c) # "work"
BY DEF Route, InTransaction

LEMMA ProcOfWorker ==
  ASSUME NEW w \in Workers
  PROVE  w[1] \in Procs
BY DEF Workers

\* The effects of the queue's operations on one message.
LEMMA QueueEffects ==
  ASSUME NEW e \in Entry
  PROVE  /\ Received(e) \in Entry
         /\ Received(e).state = "queued" /\ Received(e).hidden = Visibility
         /\ Received(e).count = e.count + 1
         /\ Waited(e) \in Entry
         /\ Waited(e).state = e.state /\ Waited(e).count = e.count
         /\ e.hidden > 1 => Waited(e).hidden > 0
         /\ Removed(e) \in Entry /\ Removed(e).state = "deleted"
         /\ Removed(e).hidden = 0 /\ Removed(e).count = e.count
         /\ e.count \in Nat
BY VisibilityAssumption DEF Entry, Received, Waited, Removed

LEMMA FirstEntries ==
  /\ Unsent \in Entry /\ Unsent.state = "unsent"
  /\ Queued \in Entry /\ Queued.state = "queued"
BY VisibilityAssumption DEF Entry, Unsent, Queued

-----------------------------------------------------------------------------
(* What the steps of one message do *)

Typed ==
  /\ queue \in [Copies -> Entry]
  /\ proc \in [Procs -> {"down", "up", "stopping"}]
  /\ release \in [Procs -> {"old", "new"}]
  /\ todo \in [Workers -> SUBSET Copies]
  /\ stage \in [Workers -> [Copies -> Stages]]
  /\ receipt \in [Workers -> [Copies -> 0..MaxReceives]]
  /\ inbox \in [Events -> NoRecord..InboxRetention + 1]
  /\ work \in [Events -> 0..2]
  /\ dead \in SUBSET Copies
  /\ ignored \in SUBSET Copies
  /\ faults \in 0..MaxFaults
  /\ stops \in 0..MaxStops

\* Worked and Record never take an effect back.
LEMMA TableEffects ==
  ASSUME Typed, NEW c \in Copies, NEW again \in BOOLEAN
  PROVE  /\ Worked(c, again) => /\ work' \in [Events -> 0..2]
                                /\ work'[EventOf[c]] > 0
                                /\ \A e \in Events : work[e] > 0 => work'[e] > 0
                                /\ \A e \in Events : e # EventOf[c] => work'[e] = work[e]
                                /\ work[EventOf[c]] = 0 => work'[EventOf[c]] = 1
         /\ Record(c) => /\ inbox' \in [Events -> NoRecord..InboxRetention + 1]
                         /\ inbox'[EventOf[c]] # NoRecord
                         /\ \A e \in Events : inbox[e] # NoRecord => inbox'[e] # NoRecord
                         /\ \A e \in Events : e # EventOf[c] => inbox'[e] = inbox[e]
<1>1. EventOf[c] \in Events
  BY ConsumerAssumption
<1>2. ASSUME Worked(c, again)
      PROVE  /\ work' \in [Events -> 0..2]
             /\ work'[EventOf[c]] > 0
             /\ \A e \in Events : work[e] > 0 => work'[e] > 0
             /\ \A e \in Events : e # EventOf[c] => work'[e] = work[e]
             /\ work[EventOf[c]] = 0 => work'[EventOf[c]] = 1
  BY <1>1, <1>2 DEF Typed, Worked
<1>3. ASSUME Record(c)
      PROVE  /\ inbox' \in [Events -> NoRecord..InboxRetention + 1]
             /\ inbox'[EventOf[c]] # NoRecord
             /\ \A e \in Events : inbox[e] # NoRecord => inbox'[e] # NoRecord
             /\ \A e \in Events : e # EventOf[c] => inbox'[e] = inbox[e]
  BY <1>1, <1>3, ConsumerAssumption DEF Typed, Record, NoRecord
<1> QED
  BY <1>2, <1>3

HandlerAction(w, c) == HandlerStep(w, c) \/ HandlerFails(w, c) \/ AnswerLost(w, c)

\* A step of a handler moves one message on, and only adds to the tables.
LEMMA HandlerShape ==
  ASSUME Typed, NEW w \in Workers, NEW c \in Copies, HandlerAction(w, c)
  PROVE  /\ stage[w][c] \in Handling
         /\ \E s \in Stages \ {"none"} : Goto(w, c, s)
         /\ UNCHANGED <<queue, receipt, proc, release, todo, dead, ignored, stops>>
         /\ inbox' \in [Events -> NoRecord..InboxRetention + 1]
         /\ work' \in [Events -> 0..2]
         /\ \A e \in Events : work[e] > 0 => work'[e] > 0
         /\ faults' \in 0..MaxFaults
<1> USE DEF Handling, Stages, queueVars, procVars, tableVars, history
<1>1. CASE IsProcessed(w, c)
  BY <1>1 DEF Typed, IsProcessed
<1>2. CASE DoWorkTx(w, c)
  BY <1>2 DEF Typed, DoWorkTx
<1>3. CASE DoWork(w, c)
  <2>1. Worked(c, ~UniqueWork) /\ (~UniqueWork) \in BOOLEAN
    BY <1>3 DEF DoWork
  <2> QED
    BY <1>3, <2>1, TableEffects, Zenon DEF Typed, DoWork
<1>4. CASE CompleteTx(w, c)
  BY <1>4 DEF Typed, CompleteTx
<1>5. CASE Complete(w, c)
  <2>1. inbox' \in [Events -> NoRecord..InboxRetention + 1]
    BY <1>5, TableEffects, Zenon DEF Complete
  <2> QED
    BY <1>5, <2>1 DEF Typed, Complete
<1>6. CASE Commit(w, c)
  <2>1. inbox' \in [Events -> NoRecord..InboxRetention + 1]
    BY <1>6, TableEffects, Zenon DEF Commit, Typed
  <2>2. /\ work' \in [Events -> 0..2]
        /\ \A e \in Events : work[e] > 0 => work'[e] > 0
    BY <1>6, TableEffects, Zenon DEF Commit
  <2> QED
    BY <1>6, <2>1, <2>2 DEF Typed, Commit
<1>7. CASE HandlerFails(w, c)
  BY <1>7 DEF Typed, HandlerFails
<1>8. CASE AnswerLost(w, c)
  <2>1. inbox' \in [Events -> NoRecord..InboxRetention + 1]
    BY <1>8, TableEffects, Zenon DEF AnswerLost, Typed
  <2>2. /\ work' \in [Events -> 0..2]
        /\ \A e \in Events : work[e] > 0 => work'[e] > 0
    <3>1. Worked(c, InTransaction(c) \/ ~UniqueWork)
      BY <1>8 DEF AnswerLost
    <3> QED
      BY <3>1, TableEffects, Zenon
  <2>3. faults' \in 0..MaxFaults
    BY <1>8, ConsumerAssumption DEF AnswerLost, Fault, Typed
  <2> QED
    BY <1>8, <2>1, <2>2, <2>3 DEF AnswerLost
<1> QED
  BY <1>1, <1>2, <1>3, <1>4, <1>5, <1>6, <1>7, <1>8 DEF HandlerAction, HandlerStep

\* The end of a message may delete it, after OnMessageDead or after success.
LEMMA EndShape ==
  ASSUME Typed, NEW w \in Workers, NEW c \in Copies, EndOfMessage(w, c)
  PROVE  /\ stage[w][c] \in {"ok", "failed"}
         /\ Finish(w, c)
         /\ UNCHANGED <<proc, release, todo, inbox, work, ignored, stops>>
         /\ \E e \in {queue[c], Removed(queue[c])} : queue' = [queue EXCEPT ![c] = e]
         /\ stage[w][c] = "failed" /\ queue'[c] # queue[c] => c \in dead'
         /\ dead \subseteq dead' /\ dead' \in SUBSET Copies
         /\ faults' \in 0..MaxFaults
<1> USE DEF procVars, tableVars, history, DeadHook, Deletes, AfterDelete
<1>1. CASE DeleteMessage(w, c)
  BY <1>1, Zenon DEF Typed, DeleteMessage
<1>2. CASE DeleteError(w, c)
  <2>1. faults' \in 0..MaxFaults
    BY <1>2, ConsumerAssumption DEF Typed, DeleteError, Fault
  <2>2. /\ \E e \in {queue[c], Removed(queue[c])} : queue' = [queue EXCEPT ![c] = e]
        /\ UNCHANGED <<proc, release, todo, inbox, work, ignored, stops>>
    BY <1>2, Zenon DEF DeleteError
  <2>3. /\ stage[w][c] \in {"ok", "failed"}
        /\ dead \subseteq dead' /\ dead' \in SUBSET Copies
        /\ stage[w][c] = "failed" => c \in dead'
        /\ Finish(w, c)
    BY <1>2 DEF Typed, DeleteError
  <2> QED
    BY <2>1, <2>2, <2>3, Zenon
<1>3. CASE LeaveForRetry(w, c)
  <2>1. queue' = [queue EXCEPT ![c] = queue[c]]
    BY <1>3 DEF Typed, LeaveForRetry
  <2> QED
    BY <1>3, <2>1, Zenon DEF Typed, LeaveForRetry
<1> QED
  BY <1>1, <1>2, <1>3 DEF EndOfMessage

-----------------------------------------------------------------------------
(* Types *)

\* A worker has a receipt for every message it holds, and has not started the ones
\* that it has yet to start.
Receipted ==
  \A w \in Workers : \A c \in Copies :
    /\ c \in todo[w] \/ stage[w][c] # "none" => receipt[w][c] > 0
    /\ c \in todo[w] => stage[w][c] = "none"

TypeInv == Typed /\ Receipted

LEMMA FinishEffect ==
  ASSUME Typed, NEW w \in Workers, NEW c \in Copies, Finish(w, c)
  PROVE  /\ stage' \in [Workers -> [Copies -> Stages]]
         /\ receipt' \in [Workers -> [Copies -> 0..MaxReceives]]
         /\ stage'[w][c] = "none"
         /\ \A v \in Workers : \A d \in Copies :
              (v # w \/ d # c) => /\ stage'[v][d] = stage[v][d]
                                 /\ receipt'[v][d] = receipt[v][d]
<1>1. "none" \in Stages /\ Goto(w, c, "none") /\ stage \in [Workers -> [Copies -> Stages]]
  BY DEF Finish, Stages, Typed
<1>2. 0 \in 0..MaxReceives
  BY ConsumerAssumption
<1>3. /\ receipt' \in [Workers -> [Copies -> 0..MaxReceives]]
      /\ \A v \in Workers : \A d \in Copies :
           (v # w \/ d # c) => receipt'[v][d] = receipt[v][d]
  BY <1>2 DEF Finish, Typed
<1> QED
  BY <1>1, <1>3, GotoEffect

\* A worker without a batch has no message at any stage.
LEMMA IdleIsEmpty ==
  ASSUME NEW w \in Workers, Idle(w)
  PROVE  todo[w] = {} /\ \A c \in Copies : stage[w][c] = "none"
BY DEF Idle, Active

\* The messages of a receive: in flight from then on, the others as they were.
LEMMA TakeEffect ==
  ASSUME Typed, NEW S \in SUBSET Copies, Batch(S), TakeFromQueue(S)
  PROVE  /\ queue' \in [Copies -> Entry]
         /\ \A c \in S : /\ Receivable(queue[c])
                         /\ queue'[c] = Received(queue[c])
                         /\ queue[c].count + 1 \in 1..MaxReceives
         /\ \A c \in Copies \ S : queue'[c] = queue[c]
<1>1. \A c \in Copies : queue[c] \in Entry /\ Received(queue[c]) \in Entry
  BY QueueEffects DEF Typed
<1>2. \A c \in S : /\ Receivable(queue[c])
                  /\ queue[c].count + 1 \in 1..MaxReceives
  BY <1>1, QueueEffects, ConsumerAssumption DEF Batch
<1> QED
  BY <1>1, <1>2 DEF TakeFromQueue

LEMMA TypeStep ==
  ASSUME TypeInv, [Next]_vars
  PROVE  TypeInv'
<1> USE DEF TypeInv, queueVars, procVars, tableVars, history
<1>1. ASSUME NEW c \in Copies, Send(c)
      PROVE  TypeInv'
  BY <1>1, FirstEntries DEF Send, Typed, Receipted
<1>2. ASSUME NEW w \in Workers, ReceiveMessage(w)
      PROVE  TypeInv'
  <2>1. PICK S \in SUBSET Copies :
          /\ Batch(S)
          /\ TakeFromQueue(S)
          /\ todo' = [todo EXCEPT ![w] = S]
          /\ receipt' = [receipt EXCEPT ![w] = [c \in Copies |->
                            IF c \in S THEN queue[c].count + 1 ELSE 0]]
    BY <1>2, Zenon DEF ReceiveMessage
  <2>2. /\ queue' \in [Copies -> Entry]
        /\ \A c \in S : queue[c].count + 1 \in 1..MaxReceives
    BY <2>1, TakeEffect
  <2>3. [c \in Copies |-> IF c \in S THEN queue[c].count + 1 ELSE 0]
          \in [Copies -> 0..MaxReceives]
    BY <2>2, ConsumerAssumption
  <2>4. Typed'
    BY <1>2, <2>1, <2>2, <2>3 DEF ReceiveMessage, Typed
  <2>5. \A c \in Copies : stage[w][c] = "none"
    BY <1>2, IdleIsEmpty DEF ReceiveMessage
  <2>6. \A c \in S : receipt'[w][c] > 0
    BY <2>1, <2>2 DEF Typed
  <2>7. Receipted'
    BY <1>2, <2>1, <2>5, <2>6, ZenonT(30) DEF ReceiveMessage, Typed, Receipted
  <2> QED
    BY <2>4, <2>7
<1>3. ASSUME NEW w \in Workers, ReceiveLost(w)
      PROVE  TypeInv'
  <2>1. PICK S \in SUBSET Copies : Batch(S) /\ TakeFromQueue(S)
    BY <1>3 DEF ReceiveLost
  <2>2. queue' \in [Copies -> Entry]
    BY <2>1, TakeEffect
  <2> QED
    BY <1>3, <2>2, ConsumerAssumption DEF ReceiveLost, Fault, Typed, Receipted
<1>4. ASSUME NEW w \in Workers, SkipRest(w)
      PROVE  TypeInv'
  BY <1>4 DEF SkipRest, Typed, Receipted
<1>5. ASSUME NEW w \in Workers, NEW c \in Copies, StartMessage(w, c)
      PROVE  TypeInv'
  <2>1. /\ Route(w[1], c) \in Stages \ {"none"}
        /\ c \in todo[w]
    BY <1>5, RouteIsStage, ProcOfWorker DEF StartMessage, NextOfBatch, Stages, Handling
  <2>2. /\ stage' \in [Workers -> [Copies -> Stages]]
        /\ \A v \in Workers : \A d \in Copies :
              (v # w \/ d # c) => stage'[v][d] = stage[v][d]
    BY <1>5, <2>1, GotoEffect DEF StartMessage, Typed
  <2>3. /\ todo' \in [Workers -> SUBSET Copies]
        /\ todo'[w] \subseteq todo[w] \ {c}
        /\ \A v \in Workers : v # w => todo'[v] = todo[v]
    <3>1. \/ todo' = [todo EXCEPT ![w] = @ \ {c}]
          \/ todo' = [todo EXCEPT ![w] = {}]
      BY <1>5, Zenon DEF StartMessage
    <3> QED
      BY <3>1, ZenonT(30) DEF Typed
  <2>4. Typed'
    BY <1>5, <2>2, <2>3 DEF StartMessage, Typed
  <2>5. Receipted'
    BY <1>5, <2>1, <2>2, <2>3 DEF StartMessage, Receipted
  <2> QED
    BY <2>4, <2>5
<1>6. ASSUME NEW w \in Workers, NEW c \in Copies, HandlerAction(w, c)
      PROVE  TypeInv'
  <2>1. PICK s \in Stages \ {"none"} : Goto(w, c, s)
    BY <1>6, HandlerShape
  <2>2. /\ stage' \in [Workers -> [Copies -> Stages]]
        /\ \A v \in Workers : \A d \in Copies :
              (v # w \/ d # c) => stage'[v][d] = stage[v][d]
    BY <2>1, GotoEffect DEF Typed
  <2>3. Typed'
    BY <1>6, <2>2, HandlerShape, SMT, Z3, Zenon DEF Typed
  <2>4. stage[w][c] # "none"
    BY <1>6, HandlerShape DEF Handling
  <2>5. Receipted'
    BY <1>6, <2>2, <2>4, HandlerShape DEF Receipted
  <2> QED
    BY <2>3, <2>5
<1>7. ASSUME NEW w \in Workers, NEW c \in Copies, EndOfMessage(w, c)
      PROVE  TypeInv'
  <2>1. /\ stage[w][c] # "none"
        /\ Finish(w, c)
        /\ UNCHANGED <<proc, release, todo, inbox, work, ignored, stops>>
        /\ dead' \in SUBSET Copies
        /\ faults' \in 0..MaxFaults
    BY <1>7, EndShape
  <2>2. queue' \in [Copies -> Entry]
    <3>1. PICK e \in {queue[c], Removed(queue[c])} : queue' = [queue EXCEPT ![c] = e]
      BY <1>7, EndShape
    <3>2. e \in Entry
      BY <3>1, QueueEffects DEF Typed
    <3> QED
      BY <3>1, <3>2 DEF Typed
  <2>3. Typed'
    BY <2>1, <2>2, FinishEffect DEF Typed
  <2>4. c \notin todo[w]
    BY <2>1, SMT, Z3, Zenon DEF Receipted
  <2>5. Receipted'
    BY <2>1, <2>4, FinishEffect DEF Receipted
  <2> QED
    BY <2>3, <2>5
<1>8. ASSUME NEW p \in Procs, Start(p) \/ Stop(p) \/ Exit(p)
      PROVE  TypeInv'
  <2>1. /\ UNCHANGED <<queue, receipt, todo, stage, inbox, work, dead, ignored, faults>>
        /\ proc' \in [Procs -> {"down", "up", "stopping"}]
    BY <1>8, Zenon DEF Start, Stop, Exit, Typed
  <2>2. release' \in [Procs -> {"old", "new"}]
    BY <1>8 DEF Start, Stop, Exit, Typed
  <2>3. stops' \in 0..MaxStops
    BY <1>8, ConsumerAssumption DEF Start, Stop, Exit, Typed
  <2> QED
    BY <2>1, <2>2, <2>3 DEF Typed, Receipted
<1>9. ASSUME NEW p \in Procs, Crash(p)
      PROVE  TypeInv'
  <2>1. /\ todo' \in [Workers -> SUBSET Copies]
        /\ proc' \in [Procs -> {"down", "up", "stopping"}]
        /\ faults' \in 0..MaxFaults
    BY <1>9, ConsumerAssumption DEF Crash, Fault, Typed
  <2>2. stage' \in [Workers -> [Copies -> Stages]]
    BY <1>9 DEF Crash, Typed, Stages
  <2>3. receipt' \in [Workers -> [Copies -> 0..MaxReceives]]
    BY <1>9, ConsumerAssumption DEF Crash, Typed
  <2>4. Typed'
    BY <1>9, <2>1, <2>2, <2>3 DEF Crash, Typed
  <2>5. Receipted'
    BY <1>9 DEF Crash, Receipted
  <2> QED
    BY <2>4, <2>5
<1>10. CASE DeleteOlderThan
  <2>1. inbox' \in [Events -> NoRecord..InboxRetention + 1]
    BY <1>10, ConsumerAssumption DEF DeleteOlderThan, Typed, NoRecord
  <2> QED
    BY <1>10, <2>1 DEF DeleteOlderThan, Typed, Receipted
<1>11. CASE Tick
  <2>1. queue' \in [Copies -> Entry]
    BY <1>11, QueueEffects DEF Tick, Typed
  <2>2. inbox' \in [Events -> NoRecord..InboxRetention + 1]
    BY <1>11, ConsumerAssumption DEF Tick, Typed, NoRecord
  <2> QED
    BY <1>11, <2>1, <2>2 DEF Tick, Typed, Receipted
<1>12. CASE UNCHANGED vars
  BY <1>12 DEF vars, Typed, Receipted
<1> QED
  BY <1>1, <1>2, <1>3, <1>4, <1>5, <1>6, <1>7, <1>8, <1>9, <1>10, <1>11, <1>12
     DEF Next, HandlerAction

LEMMA TypeInit == Init => TypeInv
BY FirstEntries, ConsumerAssumption DEF Init, TypeInv, Typed, Receipted, Stages, NoRecord

LEMMA TypeInvariant == Spec => []TypeInv
BY TypeInit, TypeStep, PTL DEF Spec

\* TypeOK of Consumer: among it, a worker has the receipt of every message it holds,
\* however the batch, the stop and the crash of its process cross.
THEOREM TypeCorrect == Spec => []TypeOK
<1>1. TypeInv => TypeOK
  BY Zenon DEF TypeInv, Typed, Receipted, TypeOK, Active
<1> QED
  BY <1>1, TypeInvariant, PTL

-----------------------------------------------------------------------------
(* Nothing is lost *)

\* Before an inbox record is inserted by a statement of its own the work is done, and
\* a message is handled successfully only if its work is done or it was ignored.
Backed ==
  \A w \in Workers : \A c \in Copies :
    /\ stage[w][c] = "complete" /\ ~InTransaction(c) => work[EventOf[c]] > 0
    /\ stage[w][c] = "ok" => work[EventOf[c]] > 0 \/ c \in ignored

HonestInv == CompletedIsDone /\ NothingLost /\ Backed

\* What a handler step establishes for its own message and event.
LEMMA HandlerIsHonest ==
  ASSUME Typed, HonestInv, NEW w \in Workers, NEW c \in Copies, HandlerAction(w, c)
  PROVE  /\ CompletedIsDone'
         /\ stage'[w][c] = "complete" /\ ~InTransaction(c) => work'[EventOf[c]] > 0
         /\ stage'[w][c] = "ok" => work'[EventOf[c]] > 0
<1> USE DEF tableVars
<1>0. /\ EventOf[c] \in Events
      /\ {"ok", "work", "failed", "complete", "commit", "recommit"} \subseteq Stages
      /\ stage \in [Workers -> [Copies -> Stages]]
  BY ConsumerAssumption, Zenon DEF Stages, Handling, Typed
<1>1. CASE IsProcessed(w, c)
  <2>1. stage'[w][c] = IF inbox[EventOf[c]] # NoRecord THEN "ok" ELSE "work"
    BY <1>0, <1>1, GotoEffect DEF IsProcessed
  <2> QED
    BY <1>0, <1>1, <2>1 DEF IsProcessed, HonestInv, CompletedIsDone
<1>2. CASE DoWorkTx(w, c)
  <2>1. stage'[w][c] # "ok" /\ InTransaction(c)
    BY <1>0, <1>2, GotoEffect, ZenonT(30) DEF DoWorkTx
  <2> QED
    BY <1>2, <2>1 DEF DoWorkTx, HonestInv, CompletedIsDone
<1>3. CASE DoWork(w, c)
  <2>1. Worked(c, ~UniqueWork) /\ (~UniqueWork) \in BOOLEAN
    BY <1>3 DEF DoWork
  <2>2. /\ work'[EventOf[c]] > 0
        /\ \A e \in Events : work[e] > 0 => work'[e] > 0
    BY <2>1, TableEffects, ZenonT(30)
  <2> QED
    BY <1>3, <2>2, Zenon DEF DoWork, HonestInv, CompletedIsDone
<1>4. CASE CompleteTx(w, c)
  <2>1. stage'[w][c] \in {"commit", "recommit"}
    BY <1>0, <1>4, GotoEffect, SMTT(30), Z3T(30) DEF CompleteTx
  <2> QED
    BY <1>4, <2>1, Zenon DEF CompleteTx, HonestInv, CompletedIsDone
<1>5. CASE Complete(w, c)
  <2>1. work[EventOf[c]] > 0
    BY <1>5 DEF Complete, HonestInv, Backed
  <2>2. \A e \in Events : e # EventOf[c] => inbox'[e] = inbox[e]
    BY <1>5, TableEffects, Zenon DEF Complete
  <2> QED
    BY <1>5, <2>1, <2>2, Zenon DEF Complete, HonestInv, CompletedIsDone
<1>6. CASE Commit(w, c)
  <2>1. /\ work'[EventOf[c]] > 0
        /\ \A e \in Events : work[e] > 0 => work'[e] > 0
    BY <1>6, TableEffects, Zenon DEF Commit
  <2>2. \A e \in Events : e # EventOf[c] => inbox'[e] = inbox[e]
    BY <1>6, TableEffects, Zenon DEF Commit
  <2> QED
    BY <2>1, <2>2 DEF HonestInv, CompletedIsDone
<1>7. CASE HandlerFails(w, c)
  <2>1. stage'[w][c] = "failed"
    BY <1>0, <1>7, GotoEffect DEF HandlerFails
  <2> QED
    BY <1>7, <2>1 DEF HandlerFails, HonestInv, CompletedIsDone
<1>8. CASE AnswerLost(w, c)
  <2>1. stage'[w][c] = "failed"
    BY <1>0, <1>8, GotoEffect DEF AnswerLost
  <2>2. /\ work'[EventOf[c]] > 0
        /\ \A e \in Events : work[e] > 0 => work'[e] > 0
    <3>1. Worked(c, InTransaction(c) \/ ~UniqueWork)
      BY <1>8 DEF AnswerLost
    <3> QED
      BY <3>1, TableEffects, ZenonT(30)
  <2>3. \A e \in Events : e # EventOf[c] => inbox'[e] = inbox[e]
    BY <1>8, TableEffects, Zenon DEF AnswerLost
  <2> QED
    BY <2>1, <2>2, <2>3 DEF HonestInv, CompletedIsDone
<1> QED
  BY <1>1, <1>2, <1>3, <1>4, <1>5, <1>6, <1>7, <1>8 DEF HandlerAction, HandlerStep

LEMMA HonestStep ==
  ASSUME TypeInv, HonestInv, [Next]_vars
  PROVE  HonestInv'
<1> USE DEF TypeInv, queueVars, procVars, tableVars, history
<1>0. \A c \in Copies : EventOf[c] \in Events
  BY ConsumerAssumption, Zenon
<1>1. ASSUME NEW c \in Copies, Send(c)
      PROVE  HonestInv'
  <2>1. \A d \in Copies : queue'[d].state = "deleted" => queue[d].state = "deleted"
    BY <1>1, FirstEntries, Zenon DEF Send, Typed
  <2> QED
    BY <1>1, <2>1 DEF Send, HonestInv, CompletedIsDone, NothingLost, Backed, InTransaction
<1>2. ASSUME NEW w \in Workers, ReceiveMessage(w) \/ ReceiveLost(w)
      PROVE  HonestInv'
  <2>1. PICK S \in SUBSET Copies : Batch(S) /\ TakeFromQueue(S)
    BY <1>2 DEF ReceiveMessage, ReceiveLost
  <2>2. \A d \in Copies : queue'[d].state = "deleted" => queue[d].state = "deleted"
    <3>1. \A d \in S : queue'[d] = Received(queue[d])
      BY <2>1, TakeEffect
    <3>2. \A d \in Copies \ S : queue'[d] = queue[d]
      BY <2>1, TakeEffect
    <3>3. \A d \in S : queue'[d].state = "queued"
      <4>1. \A d \in S : queue[d] \in Entry
        BY DEF Typed
      <4>2. \A d \in S : Received(queue[d]).state = "queued"
        BY <4>1, QueueEffects, Zenon
      <4> QED
        BY <3>1, <4>2
    <3> QED
      BY <3>2, <3>3, SMT, Z3, Zenon
  <2>3. UNCHANGED <<stage, inbox, work, dead, ignored>>
    BY <1>2 DEF ReceiveMessage, ReceiveLost
  <2> QED
    BY <2>2, <2>3, SMT, Z3, Zenon DEF HonestInv, CompletedIsDone, NothingLost, Backed, InTransaction
<1>4. ASSUME NEW w \in Workers, SkipRest(w)
      PROVE  HonestInv'
  BY <1>4, SMT, Z3, Zenon DEF SkipRest, HonestInv, CompletedIsDone, NothingLost, Backed, InTransaction
<1>5. ASSUME NEW w \in Workers, NEW c \in Copies, StartMessage(w, c)
      PROVE  HonestInv'
  <2>1. /\ Route(w[1], c) \in Stages
        /\ Route(w[1], c) # "complete"
        /\ Route(w[1], c) = "ok" => c \in ignored'
        /\ ignored \subseteq ignored'
    BY <1>5, RouteIsStage, ProcOfWorker DEF StartMessage, Stages, Handling, Typed
  <2>2. /\ stage'[w][c] = Route(w[1], c)
        /\ \A v \in Workers : \A d \in Copies :
              (v # w \/ d # c) => stage'[v][d] = stage[v][d]
    BY <1>5, <2>1, GotoEffect DEF StartMessage, Typed
  <2>3. UNCHANGED <<queue, inbox, work, dead>>
    BY <1>5, ZenonT(30) DEF StartMessage
  <2> QED
    BY <2>1, <2>2, <2>3 DEF HonestInv, CompletedIsDone, NothingLost, Backed, InTransaction
<1>6. ASSUME NEW w \in Workers, NEW c \in Copies, HandlerAction(w, c)
      PROVE  HonestInv'
  <2>1. PICK s \in Stages \ {"none"} : Goto(w, c, s)
    BY <1>6, HandlerShape
  <2>2. \A v \in Workers : \A d \in Copies :
          (v # w \/ d # c) => stage'[v][d] = stage[v][d]
    BY <2>1, GotoEffect DEF Typed
  <2>3. /\ UNCHANGED <<queue, dead, ignored>>
        /\ \A e \in Events : work[e] > 0 => work'[e] > 0
    BY <1>6, HandlerShape
  <2>4. NothingLost'
    BY <1>0, <2>3, Zenon DEF HonestInv, NothingLost
  <2>5. Backed'
    BY <1>0, <1>6, <2>2, <2>3, HandlerIsHonest, ZenonT(30)
       DEF HonestInv, Backed, InTransaction
  <2> QED
    BY <1>6, <2>4, <2>5, HandlerIsHonest DEF HonestInv
<1>7. ASSUME NEW w \in Workers, NEW c \in Copies, EndOfMessage(w, c)
      PROVE  HonestInv'
  <2>1. /\ stage[w][c] \in {"ok", "failed"}
        /\ Finish(w, c)
        /\ UNCHANGED <<inbox, work, ignored>>
        /\ stage[w][c] = "failed" /\ queue'[c] # queue[c] => c \in dead'
        /\ dead \subseteq dead'
    BY <1>7, EndShape
  <2>2. \A d \in Copies : d # c => queue'[d] = queue[d]
    <3>1. PICK e \in {queue[c], Removed(queue[c])} : queue' = [queue EXCEPT ![c] = e]
      BY <1>7, EndShape
    <3> QED
      BY <3>1 DEF Typed
  <2>3. NothingLost'
    BY <2>1, <2>2, SMT, Z3, Zenon DEF HonestInv, NothingLost, Backed
  <2>4. Backed'
    BY <2>1, FinishEffect, SMTT(30), Z3T(30) DEF HonestInv, Backed, InTransaction
  <2> QED
    BY <2>1, <2>3, <2>4 DEF HonestInv, CompletedIsDone
<1>8. ASSUME NEW p \in Procs, Start(p) \/ Stop(p) \/ Exit(p)
      PROVE  HonestInv'
  <2>1. UNCHANGED <<queue, stage, inbox, work, dead, ignored>>
    BY <1>8 DEF Start, Stop, Exit
  <2> QED
    BY <2>1, Zenon DEF HonestInv, CompletedIsDone, NothingLost, Backed, InTransaction
<1>9. ASSUME NEW p \in Procs, Crash(p)
      PROVE  HonestInv'
  <2>1. /\ UNCHANGED <<queue, inbox, work, dead, ignored>>
        /\ \A w \in Workers : \A c \in Copies : stage'[w][c] \in {"none", stage[w][c]}
    BY <1>9 DEF Crash
  <2> QED
    BY <2>1, Zenon DEF HonestInv, CompletedIsDone, NothingLost, Backed, InTransaction
<1>10. CASE DeleteOlderThan
  <2>1. \A e \in Events : inbox'[e] # NoRecord => inbox[e] # NoRecord
    BY <1>10, SMT, Z3, Zenon DEF DeleteOlderThan
  <2> QED
    BY <1>10, <2>1, Zenon
       DEF DeleteOlderThan, HonestInv, CompletedIsDone, NothingLost, Backed, InTransaction
<1>11. CASE Tick
  <2>1. \A e \in Events : inbox'[e] # NoRecord => inbox[e] # NoRecord
    BY <1>11 DEF Tick, NoRecord
  <2>2. \A c \in Copies : queue'[c].state = queue[c].state
    BY <1>11, QueueEffects DEF Tick, Typed
  <2>3. UNCHANGED <<stage, work, dead, ignored>>
    BY <1>11, SMT, Z3, Zenon DEF Tick
  <2> QED
    BY <2>1, <2>2, <2>3, SMT, Z3, Zenon DEF HonestInv, CompletedIsDone, NothingLost, Backed, InTransaction
<1>12. CASE UNCHANGED vars
  BY <1>12 DEF vars, HonestInv, CompletedIsDone, NothingLost, Backed, InTransaction
<1> QED
  BY <1>1, <1>2, <1>4, <1>5, <1>6, <1>7, <1>8, <1>9, <1>10, <1>11, <1>12
     DEF Next, HandlerAction

LEMMA HonestInvariant == Spec => []HonestInv
<1>1. Init => HonestInv
  BY FirstEntries DEF Init, HonestInv, CompletedIsDone, NothingLost, Backed
<1> QED
  BY <1>1, TypeInvariant, HonestStep, PTL DEF Spec

\* No message is deleted that nobody handled, under every policy for unknown types and
\* with any number of stale receipts, crashes and copies of an event.
THEOREM NothingIsLost == Spec => []NothingLost
BY HonestInvariant, PTL DEF HonestInv

\* The inbox never claims work that was not done.
THEOREM InboxIsTrue == Spec => []CompletedIsDone
BY HonestInvariant, PTL DEF HonestInv

-----------------------------------------------------------------------------
(* The promise to the producer *)

Mail == [c \in Copies |-> queue[c].state]
Finished == {e \in Events : work[e] > 0}
Excused == dead \cup ignored

Holds(w, c) == c \in todo[w] \/ stage[w][c] # "none"

\* What a worker holds has been sent.
SentInv == \A w \in Workers : \A c \in Copies : Holds(w, c) => queue[c].state # "unsent"

\* A step of a handler does the work of its own event or none.
LEMMA HandlerFinishes ==
  ASSUME Typed, NEW w \in Workers, NEW c \in Copies, HandlerAction(w, c)
  PROVE  Finished' \in {Finished, Finished \cup {EventOf[c]}}
<1>1. CASE UNCHANGED work
  BY <1>1 DEF Finished
<1>2. CASE \E again \in BOOLEAN : Worked(c, again)
  <2>1. PICK again \in BOOLEAN : Worked(c, again)
    BY <1>2
  <2>2. /\ EventOf[c] \in Events /\ work'[EventOf[c]] > 0
        /\ \A e \in Events : e # EventOf[c] => work'[e] = work[e]
    BY <2>1, TableEffects, ConsumerAssumption
  <2> QED
    BY <2>2 DEF Finished
<1>3. UNCHANGED work \/ \E again \in BOOLEAN : Worked(c, again)
  <2>1. DoWork(w, c) => Worked(c, ~UniqueWork) /\ (~UniqueWork) \in BOOLEAN
    BY ZenonT(30) DEF DoWork
  <2>2. AnswerLost(w, c) => /\ Worked(c, InTransaction(c) \/ ~UniqueWork)
                            /\ (InTransaction(c) \/ ~UniqueWork) \in BOOLEAN
    BY DEF AnswerLost
  <2>3. Commit(w, c) => Worked(c, TRUE)
    BY ZenonT(30) DEF Commit
  <2>4. IsProcessed(w, c) \/ DoWorkTx(w, c) \/ CompleteTx(w, c) \/ Complete(w, c)
          \/ HandlerFails(w, c) => UNCHANGED work
    BY SMT, Z3, Zenon DEF IsProcessed, DoWorkTx, CompleteTx, Complete, HandlerFails, tableVars
  <2> QED
    BY <2>1, <2>2, <2>3, <2>4, Zenon DEF HandlerAction, HandlerStep
<1> QED
  BY <1>1, <1>2, <1>3

\* The end of a message deletes it or not, and excuses it or not.
LEMMA EndEffect ==
  ASSUME TypeInv, HonestInv, NEW w \in Workers, NEW c \in Copies, EndOfMessage(w, c)
  PROVE  /\ Mail' \in {Mail, [Mail EXCEPT ![c] = "deleted"]}
         /\ Excused' \in {Excused, Excused \cup {c}}
         /\ Mail' # Mail => EventOf[c] \in Finished \/ c \in Excused'
         /\ UNCHANGED Finished
<1> USE DEF TypeInv
<1>1. /\ stage[w][c] \in {"ok", "failed"}
      /\ UNCHANGED <<work, ignored>>
      /\ stage[w][c] = "failed" /\ queue'[c] # queue[c] => c \in dead'
      /\ dead \subseteq dead'
  BY EndShape
<1>2. PICK e \in {queue[c], Removed(queue[c])} : queue' = [queue EXCEPT ![c] = e]
  BY EndShape
<1>3. /\ queue'[c] = e
      /\ \A d \in Copies : d # c => queue'[d] = queue[d]
  BY <1>2, Zenon DEF Typed
<1>4. e.state \in {queue[c].state, "deleted"}
  <2>1. queue[c] \in Entry
    BY DEF Typed
  <2> QED
    BY <2>1, QueueEffects
<1>5. Mail' \in {Mail, [Mail EXCEPT ![c] = "deleted"]}
  <2>1. \A d \in Copies : d # c => queue'[d].state = queue[d].state
    BY <1>3
  <2>2. queue'[c].state \in {queue[c].state, "deleted"}
    BY <1>3, <1>4
  <2> QED
    BY <2>1, <2>2, Zenon DEF Mail
<1>6. dead' \in {dead, dead \cup {c}}
  BY DEF EndOfMessage, DeleteMessage, DeleteError, LeaveForRetry, DeadHook, history
<1>7. queue'[c] = queue[c] => Mail' = Mail
  BY <1>3, SMT, Z3, Zenon DEF Mail
<1>8. stage[w][c] = "ok" => EventOf[c] \in Finished \/ c \in ignored
  BY ConsumerAssumption, SMT, Z3, Zenon DEF HonestInv, Backed, Finished
<1> QED
  BY <1>1, <1>5, <1>6, <1>7, <1>8 DEF Excused, Finished

\* The steps of the promise, for the three things that it is about.
LEMMA PromiseSteps ==
  ASSUME NEW c \in Copies
  PROVE  /\ UNCHANGED <<Mail, Finished, Excused>> => UNCHANGED Promise!vars
         /\ (/\ Mail[c] = "unsent"
             /\ Mail' = [Mail EXCEPT ![c] = "queued"]
             /\ UNCHANGED <<Finished, Excused>>) => Promise!Next
         /\ (/\ Mail[c] # "unsent"
             /\ Finished' = Finished \cup {EventOf[c]}
             /\ UNCHANGED <<Mail, Excused>>) => Promise!Next
         /\ (/\ Mail[c] # "unsent"
             /\ Mail' \in {Mail, [Mail EXCEPT ![c] = "deleted"]}
             /\ Excused' = Excused \cup {c}
             /\ UNCHANGED Finished) => Promise!Next
         /\ (/\ Mail[c] # "unsent"
             /\ EventOf[c] \in Finished \/ c \in Excused
             /\ Mail' = [Mail EXCEPT ![c] = "deleted"]
             /\ UNCHANGED <<Finished, Excused>>) => Promise!Next
<1>1. UNCHANGED <<Mail, Finished, Excused>> => UNCHANGED Promise!vars
  BY DEF Promise!vars, Mail, Finished, Excused
<1>2. ASSUME Mail[c] = "unsent", Mail' = [Mail EXCEPT ![c] = "queued"],
             UNCHANGED <<Finished, Excused>>
      PROVE  Promise!Next
  <2>1. Promise!Send(c)
    BY <1>2 DEF Promise!Send, Mail, Finished, Excused
  <2> QED
    BY <2>1, Zenon DEF Promise!Next
<1>3. ASSUME Mail[c] # "unsent", Finished' = Finished \cup {EventOf[c]},
             UNCHANGED <<Mail, Excused>>
      PROVE  Promise!Next
  <2>1. Promise!Handle(c)
    BY <1>3 DEF Promise!Handle, Mail, Finished, Excused
  <2> QED
    BY <2>1, SMT, Z3, Zenon DEF Promise!Next
<1>4. ASSUME Mail[c] # "unsent", Mail' \in {Mail, [Mail EXCEPT ![c] = "deleted"]},
             Excused' = Excused \cup {c}, UNCHANGED Finished
      PROVE  Promise!Next
  <2>1. Promise!Excuse(c)
    BY <1>4 DEF Promise!Excuse, Promise!Without, Mail, Finished, Excused
  <2> QED
    BY <2>1 DEF Promise!Next
<1>5. ASSUME Mail[c] # "unsent", EventOf[c] \in Finished \/ c \in Excused,
             Mail' = [Mail EXCEPT ![c] = "deleted"], UNCHANGED <<Finished, Excused>>
      PROVE  Promise!Next
  <2>1. Promise!Delete(c)
    BY <1>5 DEF Promise!Delete, Promise!Without, Mail, Finished, Excused
  <2> QED
    BY <2>1 DEF Promise!Next
<1> QED
  BY <1>1, <1>2, <1>3, <1>4, <1>5, SMT, Z3, Zenon

\* Steps that leave the queue as it is, by which workers hold no more than before.
LEMMA SentStays ==
  ASSUME SentInv,
         \A c \in Copies : queue[c].state # "unsent" => queue'[c].state # "unsent",
         \A w \in Workers : \A c \in Copies :
           Holds(w, c)' => Holds(w, c) \/ queue'[c].state # "unsent"
  PROVE  SentInv'
BY SMT, Z3, Zenon DEF SentInv

\* Every step of the service is a step of the promise, or none.
LEMMA ReceptionStep ==
  ASSUME TypeInv, HonestInv, SentInv, [Next]_vars
  PROVE  SentInv' /\ [Promise!Next]_(Promise!vars)
<1> USE DEF TypeInv, queueVars, procVars, tableVars, history
<1>0. ASSUME UNCHANGED <<Mail, Finished, Excused>>
      PROVE  [Promise!Next]_(Promise!vars)
  BY <1>0 DEF Promise!vars, Mail, Finished, Excused
<1>1. ASSUME NEW c \in Copies, Send(c)
      PROVE  SentInv' /\ [Promise!Next]_(Promise!vars)
  <2>1. /\ queue[c].state = "unsent"
        /\ queue'[c].state = "queued"
        /\ \A d \in Copies : d # c => queue'[d] = queue[d]
        /\ UNCHANGED <<todo, stage, work, dead, ignored>>
    BY <1>1, FirstEntries DEF Send, Typed
  <2>2. SentInv'
    BY <2>1 DEF SentInv, Holds
  <2>3. Mail' = [Mail EXCEPT ![c] = "queued"] /\ Mail[c] = "unsent"
    BY <2>1, Zenon DEF Mail
  <2>4. UNCHANGED <<Finished, Excused>>
    BY <2>1 DEF Finished, Excused
  <2> QED
    BY <2>2, <2>3, <2>4, PromiseSteps, Zenon
<1>2. ASSUME NEW w \in Workers, ReceiveMessage(w) \/ ReceiveLost(w)
      PROVE  SentInv' /\ [Promise!Next]_(Promise!vars)
  <2>1. PICK S \in SUBSET Copies :
          /\ Batch(S)
          /\ TakeFromQueue(S)
          /\ \/ todo' = todo
             \/ todo' = [todo EXCEPT ![w] = S]
    BY <1>2, Zenon DEF ReceiveMessage, ReceiveLost
  <2>2. UNCHANGED <<stage, work, dead, ignored>>
    BY <1>2 DEF ReceiveMessage, ReceiveLost
  <2>3. \A c \in S : queue[c].state = "queued" /\ queue'[c].state = "queued"
    <3>1. \A c \in S : /\ queue[c] \in Entry
                       /\ queue'[c] = Received(queue[c])
                       /\ queue[c].state = "queued"
      BY <2>1, TakeEffect, Zenon DEF Typed, Batch, Receivable
    <3>2. \A c \in S : Received(queue[c]).state = "queued"
      BY <3>1, QueueEffects, ZenonT(30)
    <3> QED
      BY <3>1, <3>2, Zenon
  <2>4. \A c \in Copies : queue'[c].state = queue[c].state
    BY <2>1, <2>3, TakeEffect
  <2>5. \A v \in Workers : \A c \in Copies :
          Holds(v, c)' => Holds(v, c) \/ queue'[c].state # "unsent"
    BY <2>1, <2>2, <2>3, ZenonT(30) DEF Holds, Typed
  <2>6. SentInv'
    BY <2>4, <2>5, SentStays, Zenon
  <2> QED
    BY <1>0, <2>2, <2>4, <2>6, Zenon DEF Mail, Finished, Excused
<1>4. ASSUME NEW w \in Workers, SkipRest(w)
      PROVE  SentInv' /\ [Promise!Next]_(Promise!vars)
  <2>1. \A v \in Workers : \A c \in Copies : Holds(v, c)' => Holds(v, c)
    BY <1>4, Zenon DEF SkipRest, Holds, Typed
  <2>2. UNCHANGED <<queue, work, dead, ignored>>
    BY <1>4, ZenonT(30) DEF SkipRest
  <2> QED
    BY <1>0, <2>1, <2>2, SentStays DEF Mail, Finished, Excused
<1>5. ASSUME NEW w \in Workers, NEW c \in Copies, StartMessage(w, c)
      PROVE  SentInv' /\ [Promise!Next]_(Promise!vars)
  <2>1. /\ Route(w[1], c) \in Stages
        /\ c \in todo[w]
    BY <1>5, RouteIsStage, ProcOfWorker, Zenon
       DEF StartMessage, NextOfBatch, Stages, Handling
  <2>2. \A v \in Workers : \A d \in Copies :
          (v # w \/ d # c) => stage'[v][d] = stage[v][d]
    BY <1>5, <2>1, GotoEffect DEF StartMessage, Typed
  <2>3. \A v \in Workers : todo'[v] \subseteq todo[v]
    <3>1. \/ todo' = [todo EXCEPT ![w] = @ \ {c}]
          \/ todo' = [todo EXCEPT ![w] = {}]
      BY <1>5, Zenon DEF StartMessage
    <3> QED
      BY <3>1, ZenonT(30) DEF Typed
  <2>4. UNCHANGED <<queue, work>> /\ Excused' \in {Excused, Excused \cup {c}}
    BY <1>5, Zenon DEF StartMessage, Excused
  <2>5. \A v \in Workers : \A d \in Copies : Holds(v, d)' => Holds(v, d)
    BY <2>1, <2>2, <2>3, Zenon DEF Holds
  <2>6. SentInv'
    BY <2>4, <2>5, SentStays, SMT, Z3, Zenon
  <2>7. Mail[c] # "unsent"
    BY <2>1 DEF SentInv, Holds, Mail
  <2>8. UNCHANGED <<Mail, Finished>>
    BY <2>4 DEF Mail, Finished
  <2> QED
    BY <1>0, <2>4, <2>6, <2>7, <2>8, PromiseSteps, Zenon
<1>6. ASSUME NEW w \in Workers, NEW c \in Copies, HandlerAction(w, c)
      PROVE  SentInv' /\ [Promise!Next]_(Promise!vars)
  <2>1. PICK s \in Stages \ {"none"} : Goto(w, c, s)
    BY <1>6, HandlerShape
  <2>2. \A v \in Workers : \A d \in Copies :
          (v # w \/ d # c) => stage'[v][d] = stage[v][d]
    BY <2>1, GotoEffect DEF Typed
  <2>3. /\ stage[w][c] # "none"
        /\ UNCHANGED <<queue, todo, dead, ignored>>
    BY <1>6, HandlerShape, ZenonT(30) DEF Handling
  <2>4. \A v \in Workers : \A d \in Copies : Holds(v, d)' => Holds(v, d)
    BY <2>2, <2>3 DEF Holds
  <2>5. SentInv'
    BY <2>3, <2>4, SentStays
  <2>6. Mail[c] # "unsent"
    BY <2>3 DEF SentInv, Holds, Mail
  <2>7. UNCHANGED <<Mail, Excused>>
    BY <2>3 DEF Mail, Excused
  <2>8. Finished' \in {Finished, Finished \cup {EventOf[c]}}
    BY <1>6, HandlerFinishes
  <2> QED
    BY <1>0, <2>5, <2>6, <2>7, <2>8, PromiseSteps
<1>7. ASSUME NEW w \in Workers, NEW c \in Copies, EndOfMessage(w, c)
      PROVE  SentInv' /\ [Promise!Next]_(Promise!vars)
  <2>1. /\ stage[w][c] # "none"
        /\ Finish(w, c)
        /\ UNCHANGED todo
    BY <1>7, EndShape
  <2>2. /\ Mail' \in {Mail, [Mail EXCEPT ![c] = "deleted"]}
        /\ Excused' \in {Excused, Excused \cup {c}}
        /\ Mail' # Mail => EventOf[c] \in Finished \/ c \in Excused'
        /\ UNCHANGED Finished
    BY <1>7, EndEffect, Zenon
  <2>3. \A v \in Workers : \A d \in Copies : Holds(v, d)' => Holds(v, d)
    BY <2>1, FinishEffect DEF Holds, Receipted
  <2>4. \A d \in Copies : Mail[d] # "unsent" => Mail'[d] # "unsent"
    BY <2>2, Zenon DEF Mail
  <2>5. SentInv'
    <3>1. \A d \in Copies : queue[d].state # "unsent" => queue'[d].state # "unsent"
      BY <2>4 DEF Mail
    <3> QED
      BY <2>3, <3>1, SentStays
  <2>6. Mail[c] # "unsent"
    BY <2>1, Zenon DEF SentInv, Holds, Mail
  <2>7. CASE Excused' = Excused \cup {c}
    BY <2>2, <2>5, <2>6, <2>7, PromiseSteps, Zenon
  <2>8. CASE Excused' = Excused
    BY <1>0, <2>2, <2>5, <2>6, <2>8, PromiseSteps, Zenon
  <2> QED
    BY <2>2, <2>7, <2>8
<1>8. ASSUME NEW p \in Procs, Start(p) \/ Stop(p) \/ Exit(p)
      PROVE  SentInv' /\ [Promise!Next]_(Promise!vars)
  <2>1. UNCHANGED <<queue, stage, todo, work, dead, ignored>>
    BY <1>8, Zenon DEF Start, Stop, Exit
  <2> QED
    BY <1>0, <2>1, Zenon DEF SentInv, Holds, Mail, Finished, Excused
<1>9. ASSUME NEW p \in Procs, Crash(p)
      PROVE  SentInv' /\ [Promise!Next]_(Promise!vars)
  <2>1. /\ UNCHANGED <<queue, work, dead, ignored>>
        /\ \A w \in Workers : \A c \in Copies : stage'[w][c] \in {"none", stage[w][c]}
        /\ \A w \in Workers : todo'[w] \subseteq todo[w]
    BY <1>9 DEF Crash
  <2>2. \A v \in Workers : \A d \in Copies : Holds(v, d)' => Holds(v, d)
    BY <2>1 DEF Holds
  <2> QED
    BY <1>0, <2>1, <2>2, SentStays, Zenon DEF Mail, Finished, Excused
<1>10. CASE DeleteOlderThan
  BY <1>0, <1>10, Zenon DEF DeleteOlderThan, SentInv, Holds, Mail, Finished, Excused
<1>11. CASE Tick
  <2>1. \A c \in Copies : queue'[c].state = queue[c].state
    BY <1>11, QueueEffects DEF Tick, Typed
  <2>2. UNCHANGED <<todo, stage, work, dead, ignored>>
    BY <1>11, Zenon DEF Tick
  <2> QED
    BY <1>0, <2>1, <2>2, SMT, Z3, Zenon DEF SentInv, Holds, Mail, Finished, Excused
<1>12. CASE UNCHANGED vars
  BY <1>0, <1>12, Zenon DEF vars, SentInv, Holds, Mail, Finished, Excused
<1> QED
  BY <1>1, <1>2, <1>4, <1>5, <1>6, <1>7, <1>8, <1>9, <1>10, <1>11, <1>12, SMT, Z3, Zenon
     DEF Next, HandlerAction

\* The consumer service implements Reception: for any number of processes, copies and
\* faults, a message is gone for good only after its work or with an excuse.
THEOREM ReceptionIsKept == Spec => ImplementsReception
<1>1. Init => Promise!Init
  BY FirstEntries DEF Init, Promise!Init
<1>2. Init => SentInv
  BY DEF Init, SentInv, Holds
<1>3. TypeInv /\ HonestInv /\ SentInv /\ [Next]_vars
        => SentInv' /\ [Promise!Next]_(Promise!vars)
  BY ReceptionStep
<1> QED
  BY <1>1, <1>2, <1>3, TypeInvariant, HonestInvariant, PTL
     DEF Spec, ImplementsReception, Promise!Spec
=============================================================================
