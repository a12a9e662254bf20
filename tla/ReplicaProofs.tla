--------------------------- MODULE ReplicaProofs ---------------------------
(***************************************************************************)
(* The safety properties of Replica for every window, grace period, poll   *)
(* interval, call latency and number of Redis errors.                      *)
(***************************************************************************)
EXTENDS Replica, TLAPS

Polling == {"poll", "answer", "wait"}

\* Where the worker's fields matter: while it polls the request exists and is known, a
\* verdict is only held until the result is saved, and the result is READY or FAILED.
PollsOpen ==
    /\ worker.pc \in Polling \cup {"delete"} => device.st \in Results
    /\ worker.verdict = "timeout" => worker.pc \in {"delete", "saveResult"} /\ worker.job = "FAILED"
    /\ worker.pc = "saveResult" => worker.job \in {"READY", "FAILED"}

\* A poll is answered within Latency of its start, and an answer "pending" was true at
\* some moment after the start; so a timeout on such an answer is no later than Latency
\* after any confirmation.
PollsTimely ==
    /\ worker.pc \in {"poll", "answer"} => worker.since <= clock /\ clock <= worker.since + Latency
    /\ worker.pc = "answer" /\ worker.result = "pending" =>
         (device.st = "finished" => worker.since <= device.at)
    /\ worker.verdict = "timeout" /\ worker.result = "pending" =>
         /\ Window + Grace < clock
         /\ device.st = "finished" => Window + Grace < device.at + Latency

\* A job in SIGNING or FINALIZING is on the list, on its way there or in the worker's hands.
Held ==
    /\ app = "running" => ~ctx
    /\ app = "running" /\ errors = 0 =>
         (Working(saved) => queued \/ pushing \/ worker.pc \notin {"top", "dequeue", "backoff", "done"})

Inv == TypeOK /\ PollsOpen /\ PollsTimely /\ Held

----------------------------------------------------------------------------
USE DEF TypeOK, WorkerType, DeviceType, WorkerPCs, States, Results, Verdicts, Worker, Result, Answer

LEMMA InitInv == Init => Inv
<1> SUFFICES ASSUME Init PROVE Inv
  OBVIOUS
<1>1. TypeOK
  <2>1. ctx \in BOOLEAN /\ queued \in BOOLEAN /\ pushing \in BOOLEAN /\ known \in BOOLEAN
    BY Zenon DEF Init
  <2>2. worker \in WorkerType
    BY DEF Init, Top
  <2>3. device \in DeviceType
    BY DEF Init
  <2>4. clock \in Nat /\ errors \in 0..MaxErrors /\ saved \in States
    BY ReplicaAssumption DEF Init
  <2> QED
    BY <2>1, <2>2, <2>3, <2>4 DEF Init
<1>2. PollsOpen /\ PollsTimely
  BY ReplicaAssumption DEF Init, Top, PollsOpen, PollsTimely, Polling
<1>3. Held
  BY DEF Init, Held, Working
<1> QED
  BY <1>1, <1>2, <1>3 DEF Inv

\* What a pop does: to the worker only its program counter changes, and the item leaves
\* the list only when the worker has it, or with an error.
DequeueEffect ==
    /\ queued' \in BOOLEAN /\ errors' \in 0..MaxErrors
    /\ worker.pc = "dequeue"
    /\ Goto("load") \/ Goto("top") \/ Goto("backoff")
    /\ errors' = 0 => worker'.pc = "load" \/ queued' = queued
    /\ errors' = 0 => errors = 0
    /\ UNCHANGED <<clock, app, ctx, saved, pushing, device, known>>

LEMMA DequeueStep ==
  ASSUME TypeOK, Dequeue
  PROVE  DequeueEffect
<1> USE ReplicaAssumption DEF At, Dequeue, DequeueEffect, RedisError, RedisUp
<1>0. UNCHANGED <<clock, app, ctx, saved, pushing, device, known>>
  BY Zenon
<1>1. CASE RedisUp /\ queued /\ queued' = FALSE /\ Goto("load") /\ UNCHANGED errors
  BY <1>0, <1>1 DEF Goto
<1>2. CASE RedisUp /\ ~queued /\ Goto("top") /\ UNCHANGED <<queued, errors>>
  BY <1>0, <1>2 DEF Goto
<1>3. CASE RedisError /\ queued' \in {queued, FALSE} /\ Goto("backoff")
  <2>1. queued' \in BOOLEAN
    BY <1>3, Zenon
  <2>2. errors' \in 0..MaxErrors /\ errors' # 0
    BY <1>3
  <2> QED
    BY <1>0, <1>3, <2>1, <2>2
<1>4. CASE ~RedisUp /\ Goto("backoff") /\ UNCHANGED <<queued, errors>>
  BY <1>0, <1>4 DEF Goto
<1> QED
  BY <1>1, <1>2, <1>3, <1>4, Zenon

\* What a handler does: without an error a saved job is about to be pushed, and a push
\* that was due puts it on the list.
ArrivalEffect ==
    /\ saved' \in States /\ queued' \in BOOLEAN /\ pushing' \in BOOLEAN /\ errors' \in 0..MaxErrors
    /\ app = "running" /\ errors' = 0 => pushing' \/ queued'
    /\ app # "running" => saved' = saved
    /\ UNCHANGED <<clock, app, ctx, worker, device, known>>

LEMMA ArrivalStep ==
  ASSUME TypeOK, JobArrives \/ EnqueueWork
  PROVE  ArrivalEffect
<1> USE ReplicaAssumption DEF RedisError, RedisUp
<1>1. CASE JobArrives
  <2>0. queued' = queued /\ queued' \in BOOLEAN /\ UNCHANGED <<clock, app, ctx, worker, device, known>>
    BY <1>1, Zenon DEF JobArrives
  <2>1. PICK st \in {"SIGNING", "FINALIZING"} :
          (SaveOK(st) /\ pushing' = TRUE) \/ (SaveFails(st) /\ UNCHANGED pushing)
    BY <1>1 DEF JobArrives
  <2>2. CASE SaveOK(st) /\ pushing' = TRUE
    <3>1. saved' \in States /\ errors' \in 0..MaxErrors /\ app = "running"
      BY <2>2 DEF SaveOK
    <3>2. pushing' \in BOOLEAN /\ pushing'
      BY <2>2, Zenon
    <3> QED
      BY <2>0, <3>1, <3>2, Zenon DEF ArrivalEffect
  <2>3. CASE SaveFails(st) /\ UNCHANGED pushing
    <3>1. /\ saved' \in States /\ errors' \in 0..MaxErrors
          /\ app = "running" => errors' # 0
          /\ app # "running" => saved' = saved
      BY <2>3 DEF SaveFails
    <3>2. pushing' \in BOOLEAN
      BY <2>3, Zenon
    <3> QED
      BY <2>0, <3>1, <3>2, Zenon DEF ArrivalEffect
  <2> QED
    BY <2>1, <2>2, <2>3
<1>2. CASE EnqueueWork
  <2>0. /\ saved' = saved /\ saved' \in States /\ pushing' \in BOOLEAN
        /\ UNCHANGED <<clock, app, ctx, worker, device, known>>
    BY <1>2, Zenon DEF EnqueueWork
  <2>1. CASE RedisUp /\ queued' = TRUE /\ UNCHANGED errors
    <3>1. queued' \in BOOLEAN /\ queued' /\ errors' \in 0..MaxErrors
      BY <2>1, Zenon
    <3> QED
      BY <2>0, <3>1, Zenon DEF ArrivalEffect
  <2>2. CASE RedisError /\ queued' \in {queued, TRUE}
    <3>1. queued' \in BOOLEAN
      BY <2>2, Zenon
    <3>2. errors' \in 0..MaxErrors /\ errors' # 0
      BY <2>2
    <3> QED
      BY <2>0, <3>1, <3>2, Zenon DEF ArrivalEffect
  <2>3. CASE ~RedisUp /\ UNCHANGED <<queued, errors>>
    <3>1. queued' \in BOOLEAN /\ errors' \in 0..MaxErrors /\ app # "running"
      BY <2>3, Zenon
    <3> QED
      BY <2>0, <3>1, Zenon DEF ArrivalEffect
  <2> QED
    BY <1>2, <2>1, <2>2, <2>3, Zenon DEF EnqueueWork
<1> QED
  BY <1>1, <1>2

\* What the deferred delete does.
DeleteEffect ==
    /\ \E st \in Results \cup {"deleted"} :
         st \in {device.st, "deleted"} /\ device' = [st |-> st, at |-> device.at]
    /\ known' = FALSE
    /\ (worker.job = "FAILED" /\ Goto("saveResult")) \/ (worker.job # "FAILED" /\ Goto("saveSigned"))
    /\ worker.pc = "delete"
    /\ UNCHANGED <<clock, app, ctx, saved, queued, pushing, errors>>

LEMMA DeleteStep ==
  ASSUME TypeOK, DeleteSignature
  PROVE  DeleteEffect
<1>1. PICK st \in {device.st, "deleted"} : device' = [st |-> st, at |-> device.at]
  BY DEF DeleteSignature
<1>2. st \in Results \cup {"deleted"}
  BY <1>1
<1> QED
  <2>1. (worker.job = "FAILED" /\ Goto("saveResult")) \/ (worker.job # "FAILED" /\ Goto("saveSigned"))
    BY DEF DeleteSignature
  <2> QED
    BY <1>1, <1>2, <2>1, Zenon DEF DeleteSignature, DeleteEffect, At

LEMMA TypeStep == Inv /\ [Next]_vars => TypeOK'
<1> SUFFICES ASSUME Inv, [Next]_vars PROVE TypeOK'
  OBVIOUS
<1> USE ReplicaAssumption DEF Inv, At, Goto, Top, Polling
<1>1. CASE JobArrives \/ EnqueueWork
  <2>1. ArrivalEffect
    BY <1>1, ArrivalStep, Zenon
  <2> QED
    BY <2>1 DEF ArrivalEffect
<1>2. CASE PersonAnswers
  BY <1>2 DEF PersonAnswers
<1>3. CASE CloseRedis \/ StopTasks \/ CancelContext
  BY <1>3 DEF CloseRedis, StopTasks, CancelContext
<1>4. CASE LoopTop \/ Backoff
  BY <1>4 DEF LoopTop, Backoff
<1>5. CASE Dequeue
  <2>1. DequeueEffect
    BY <1>5, DequeueStep, Zenon
  <2> QED
    BY <2>1 DEF DequeueEffect
<1>6. CASE Load \/ LoadFails
  BY <1>6 DEF Load, LoadFails, RedisError
<1>7. CASE SaveCode
  BY <1>7 DEF SaveCode, SaveOK, SaveFails, RedisError
<1>8. CASE Push
  <2>1. /\ clock' = clock /\ app' = app /\ ctx' = ctx /\ saved' = saved /\ queued' = queued
        /\ pushing' = pushing /\ errors' = errors /\ known' \in BOOLEAN
    BY <1>8, Zenon DEF Push
  <2>2. device' \in DeviceType
    BY <1>8 DEF Push
  <2>3. worker' \in WorkerType
    BY <1>8 DEF Push
  <2> QED
    BY <2>1, <2>2, <2>3
<1>9. CASE PollEvaluated \/ PollFails
  BY <1>9 DEF PollEvaluated, PollFails, PollsOpen
<1>10. CASE HandleAnswer
  BY <1>10 DEF HandleAnswer, Verdict
<1>11. CASE Wait
  BY <1>11 DEF Wait, Verdict
<1>12. CASE DeleteSignature
  <2>1. DeleteEffect
    BY <1>12, DeleteStep, Zenon
  <2>2. known' \in BOOLEAN
    BY <2>1, Zenon DEF DeleteEffect
  <2> QED
    BY <2>1, <2>2 DEF DeleteEffect
<1>13. CASE SaveSigned
  BY <1>13 DEF SaveSigned, SaveOK, SaveFails, RedisError
<1>14. CASE Finalize
  BY <1>14 DEF Finalize
<1>15. CASE SaveResult
  BY <1>15 DEF SaveResult, SaveOK, SaveFails, RedisError
<1>16. CASE Tick
  BY <1>16 DEF Tick
<1>17. CASE UNCHANGED vars
  BY <1>17 DEF vars
<1> QED
  BY <1>1, <1>2, <1>3, <1>4, <1>5, <1>6, <1>7, <1>8, <1>9, <1>10, <1>11, <1>12, <1>13, <1>14,
     <1>15, <1>16, <1>17 DEF Next, WorkerStep

LEMMA OpenStep == Inv /\ [Next]_vars => PollsOpen'
<1> SUFFICES ASSUME Inv, [Next]_vars PROVE PollsOpen'
  OBVIOUS
<1> USE ReplicaAssumption DEF Inv, At, Goto, Top, Polling, PollsOpen
<1>1. CASE JobArrives \/ EnqueueWork
  <2>1. ArrivalEffect
    BY <1>1, ArrivalStep, Zenon
  <2> QED
    BY <2>1 DEF ArrivalEffect
<1>2. CASE PersonAnswers
  BY <1>2 DEF PersonAnswers
<1>3. CASE CloseRedis \/ StopTasks \/ CancelContext
  BY <1>3 DEF CloseRedis, StopTasks, CancelContext
<1>4. CASE LoopTop \/ Backoff
  BY <1>4 DEF LoopTop, Backoff
<1>5. CASE Dequeue
  <2>1. DequeueEffect
    BY <1>5, DequeueStep, Zenon
  <2> QED
    BY <2>1 DEF DequeueEffect
<1>6. CASE Load \/ LoadFails
  BY <1>6 DEF Load, LoadFails, RedisError
<1>7. CASE SaveCode
  BY <1>7 DEF SaveCode, SaveOK, SaveFails, RedisError
<1>8. CASE Push
  BY <1>8 DEF Push
<1>9. CASE PollEvaluated \/ PollFails
  BY <1>9 DEF PollEvaluated, PollFails
<1>10. CASE HandleAnswer
  BY <1>10 DEF HandleAnswer, Verdict
<1>11. CASE Wait
  BY <1>11 DEF Wait, Verdict
<1>12. CASE DeleteSignature
  <2>1. DeleteEffect
    BY <1>12, DeleteStep, Zenon
  <2> QED
    BY <2>1 DEF DeleteEffect
<1>13. CASE SaveSigned
  BY <1>13 DEF SaveSigned
<1>14. CASE Finalize
  BY <1>14 DEF Finalize
<1>15. CASE SaveResult
  BY <1>15 DEF SaveResult
<1>16. CASE Tick
  BY <1>16 DEF Tick
<1>17. CASE UNCHANGED vars
  BY <1>17 DEF vars
<1> QED
  BY <1>1, <1>2, <1>3, <1>4, <1>5, <1>6, <1>7, <1>8, <1>9, <1>10, <1>11, <1>12, <1>13, <1>14,
     <1>15, <1>16, <1>17 DEF Next, WorkerStep

LEMMA TimelyStep == Inv /\ [Next]_vars => PollsTimely'
<1> SUFFICES ASSUME Inv, [Next]_vars PROVE PollsTimely'
  OBVIOUS
<1> USE ReplicaAssumption DEF Inv, At, Goto, Top, Polling, PollsOpen, PollsTimely
<1>1. CASE JobArrives \/ EnqueueWork
  <2>1. ArrivalEffect
    BY <1>1, ArrivalStep, Zenon
  <2> QED
    BY <2>1 DEF ArrivalEffect
<1>2. CASE PersonAnswers
  BY <1>2 DEF PersonAnswers
<1>3. CASE CloseRedis \/ StopTasks \/ CancelContext
  BY <1>3 DEF CloseRedis, StopTasks, CancelContext
<1>4. CASE LoopTop \/ Backoff
  BY <1>4 DEF LoopTop, Backoff
<1>5. CASE Dequeue
  <2>1. DequeueEffect
    BY <1>5, DequeueStep, Zenon
  <2> QED
    BY <2>1 DEF DequeueEffect
<1>6. CASE Load \/ LoadFails
  BY <1>6 DEF Load, LoadFails, RedisError
<1>7. CASE SaveCode
  BY <1>7 DEF SaveCode, SaveOK, SaveFails, RedisError
<1>8. CASE Push
  BY <1>8 DEF Push
<1>9. CASE PollEvaluated \/ PollFails
  BY <1>9 DEF PollEvaluated, PollFails
<1>10. CASE HandleAnswer
  BY <1>10 DEF HandleAnswer, Verdict
<1>11. CASE Wait
  BY <1>11 DEF Wait, Verdict
<1>12. CASE DeleteSignature
  <2>1. DeleteEffect
    BY <1>12, DeleteStep, Zenon
  <2> QED
    BY <2>1 DEF DeleteEffect
<1>13. CASE SaveSigned
  BY <1>13 DEF SaveSigned
<1>14. CASE Finalize
  BY <1>14 DEF Finalize
<1>15. CASE SaveResult
  BY <1>15 DEF SaveResult
<1>16. CASE Tick
  BY <1>16 DEF Tick
<1>17. CASE UNCHANGED vars
  BY <1>17 DEF vars
<1> QED
  BY <1>1, <1>2, <1>3, <1>4, <1>5, <1>6, <1>7, <1>8, <1>9, <1>10, <1>11, <1>12, <1>13, <1>14,
     <1>15, <1>16, <1>17 DEF Next, WorkerStep

LEMMA HeldStep == Inv /\ [Next]_vars => Held'
<1> SUFFICES ASSUME Inv, [Next]_vars PROVE Held'
  OBVIOUS
<1> USE ReplicaAssumption DEF Inv, At, Goto, Top, Polling, PollsOpen, Held, Working
<1>1. CASE JobArrives \/ EnqueueWork
  <2>1. ArrivalEffect
    BY <1>1, ArrivalStep, Zenon
  <2> QED
    BY <2>1 DEF ArrivalEffect
<1>2. CASE PersonAnswers
  BY <1>2 DEF PersonAnswers
<1>3. CASE CloseRedis \/ StopTasks \/ CancelContext
  BY <1>3 DEF CloseRedis, StopTasks, CancelContext
<1>4. CASE LoopTop \/ Backoff
  BY <1>4 DEF LoopTop, Backoff, Stopping
<1>5. CASE Dequeue
  <2>1. DequeueEffect
    BY <1>5, DequeueStep, Zenon
  <2> QED
    BY <2>1 DEF DequeueEffect
<1>6. CASE Load \/ LoadFails
  BY <1>6 DEF Load, LoadFails, RedisError, RedisUp
<1>7. CASE SaveCode
  BY <1>7 DEF SaveCode, SaveOK, SaveFails, RedisError, RedisUp
<1>8. CASE Push
  BY <1>8 DEF Push
<1>9. CASE PollEvaluated \/ PollFails
  BY <1>9 DEF PollEvaluated, PollFails
<1>10. CASE HandleAnswer
  BY <1>10 DEF HandleAnswer, Verdict
<1>11. CASE Wait
  BY <1>11 DEF Wait, Verdict
<1>12. CASE DeleteSignature
  <2>1. DeleteEffect
    BY <1>12, DeleteStep, Zenon
  <2> QED
    BY <2>1 DEF DeleteEffect
<1>13. CASE SaveSigned
  BY <1>13 DEF SaveSigned, SaveOK, SaveFails, RedisError, RedisUp
<1>14. CASE Finalize
  BY <1>14 DEF Finalize
<1>15. CASE SaveResult
  BY <1>15 DEF SaveResult, SaveOK, SaveFails, RedisError, RedisUp
<1>16. CASE Tick
  BY <1>16 DEF Tick
<1>17. CASE UNCHANGED vars
  BY <1>17 DEF vars
<1> QED
  BY <1>1, <1>2, <1>3, <1>4, <1>5, <1>6, <1>7, <1>8, <1>9, <1>10, <1>11, <1>12, <1>13, <1>14,
     <1>15, <1>16, <1>17 DEF Next, WorkerStep

\* The combined invariant holds in every reachable state of a replica.
THEOREM ReplicaInvariant == Spec => []Inv
<1>1. Inv /\ [Next]_vars => Inv'
  BY TypeStep, OpenStep, TimelyStep, HeldStep DEF Inv
<1> QED
  BY InitInv, <1>1, PTL DEF Spec

\* The worker, the device request, Redis and the stop keep their types (signing/worker.go,
\* signDevice, App.Stop), whatever fails.
THEOREM ReplicaTypeCorrect == Spec => []TypeOK
<1>1. Inv => TypeOK
  BY DEF Inv
<1> QED
  BY <1>1, ReplicaInvariant, PTL

\* signDevice, when its last poll was answered, never times out on a person who confirmed
\* one call's time limit before the end of the grace period or earlier: for every window,
\* grace period, poll interval and time limit.
THEOREM InTimeAlwaysCounts == Spec => []ConfirmedInTimeCounts
<1>1. Inv => ConfirmedInTimeCounts
  BY ReplicaAssumption DEF Inv, PollsTimely, ConfirmedInTimeCounts
<1> QED
  BY <1>1, ReplicaInvariant, PTL

\* RunJob leaves no job of a running replica behind while Redis answers: it is on the list,
\* or between its handler's save and push.
THEOREM NothingStranded == Spec => []RunningStrandsNothing
<1>1. Inv => RunningStrandsNothing
  BY DEF Inv, Held, RunningStrandsNothing
<1> QED
  BY <1>1, ReplicaInvariant, PTL
=============================================================================
