--------------------------- MODULE OtaUpdateProofs ---------------------------
(***************************************************************************)
(* Proofs about OtaUpdate, for every set of binaries, every number of      *)
(* revisions and of kills, both ways the service may be installed and both *)
(* kinds of clock.  Each lemma XxxStep shows that a step keeps one conjunct *)
(* of IInv, or a few that stand or fall together.                          *)
(***************************************************************************)
EXTENDS OtaUpdate, TLAPS

\* What pending-update.json holds, when there is one.
LEMMA PendingFields ==
  ASSUME TypeOK, pend # None
  PROVE  /\ pend \in Update /\ pend.bin \in Binaries /\ pend.rev \in 0..MaxRevision
         /\ pend.attempts \in 0..1 /\ pend.attempts \in Nat /\ pend.rev \in Nat
BY BoundAssumption DEF TypeOK, Update

\* A new attempt or a new phase makes an update of an update.
LEMMA PendingUpdated ==
  ASSUME NEW p \in Update
  PROVE  /\ p # None
         /\ p.rev \in 0..MaxRevision /\ p.bin \in Binaries /\ p.attempts \in 0..1
         /\ \A a \in 0..1 : [p EXCEPT !.attempts = a] \in Update
         /\ \A q \in {"pending", "awaiting_health", "healthy", "rolled_back"} :
              [p EXCEPT !.phase = q] \in Update
<1>1. /\ p.rev \in 0..MaxRevision /\ p.bin \in Binaries /\ p.attempts \in 0..1
      /\ p.phase \in {"pending", "awaiting_health", "healthy", "rolled_back"}
  BY DEF Update
<1>2. p # None
  BY NoneAssumption
<1>3. ASSUME NEW a \in 0..1 PROVE [p EXCEPT !.attempts = a] \in Update
  <2>1. [p EXCEPT !.attempts = a] = [rev |-> p.rev, bin |-> p.bin, attempts |-> a, phase |-> p.phase]
    BY DEF Update
  <2> QED
    BY <1>1, <2>1 DEF Update
<1>4. ASSUME NEW q \in {"pending", "awaiting_health", "healthy", "rolled_back"}
      PROVE  [p EXCEPT !.phase = q] \in Update
  <2>1. [p EXCEPT !.phase = q] = [rev |-> p.rev, bin |-> p.bin, attempts |-> p.attempts, phase |-> q]
    BY DEF Update
  <2> QED
    BY <1>1, <2>1 DEF Update
<1> QED
  BY <1>1, <1>2, <1>3, <1>4

\* What the agent fetched.
LEMMA ManifestFields ==
  ASSUME TypeOK, manifest # None
  PROVE  /\ manifest \in Offer /\ manifest.rev \in 0..MaxRevision /\ manifest.rev \in Nat
         /\ manifest.bin \in Binaries \cup {None}
BY BoundAssumption DEF TypeOK, Offer

LEMMA OfferFields ==
  ASSUME TypeOK
  PROVE  /\ offer.rev \in 0..MaxRevision /\ offer.rev \in Nat /\ offer # None
BY BoundAssumption, NoneAssumption DEF TypeOK, Offer

\* A reconcile that succeeds leaves no update half done.
LEMMA FinishEnds == Finish => pc' \in {"stopped", "boot"}
BY DEF Finish

\* What each writer of pending-update.json leaves in it.
LEMMA ApplyRecorded ==
  ASSUME TypeOK, InProgress, ApplyRecord
  PROVE  /\ Phase("pending") /\ pend' \in Update /\ pend' # None
         /\ pend'.rev = pend.rev /\ pend'.bin = pend.bin
         /\ pend'.phase = "awaiting_health" /\ pend'.attempts = 0
<1>1. Phase("pending") /\ pend \in Update
  BY PendingFields DEF ApplyRecord, InProgress, Phase
<1>2. pend' = [rev |-> pend.rev, bin |-> pend.bin, attempts |-> 0, phase |-> "awaiting_health"]
  BY DEF ApplyRecord
<1>3. pend' \in Update
  BY <1>1, <1>2, PendingUpdated DEF Update
<1> QED
  BY <1>1, <1>2, <1>3, PendingUpdated

LEMMA RetryRecorded ==
  ASSUME TypeOK, Retry
  PROVE  /\ Phase("awaiting_health") /\ pend' \in Update /\ pend' # None
         /\ pend'.rev = pend.rev /\ pend'.bin = pend.bin
         /\ pend'.phase = pend.phase /\ pend'.attempts = pend.attempts + 1
<1>1. Phase("awaiting_health") /\ pend \in Update
  BY PendingFields DEF Retry, Phase
<1>2. pend.attempts + 1 \in 0..1
  BY <1>1, PendingFields DEF Retry, Due, Phase
<1>3. pend' = [pend EXCEPT !.attempts = pend.attempts + 1]
  BY DEF Retry
<1>4. pend' = [rev |-> pend.rev, bin |-> pend.bin, attempts |-> pend.attempts + 1,
               phase |-> pend.phase]
  BY <1>1, <1>3 DEF Update
<1>5. pend' \in Update
  BY <1>1, <1>2, <1>3, PendingUpdated
<1> QED
  BY <1>1, <1>4, <1>5, PendingUpdated

LEMMA RollbackRecorded ==
  ASSUME TypeOK, InProgress, RollbackRecord
  PROVE  /\ Phase("awaiting_health") /\ pend' \in Update /\ pend' # None
         /\ pend'.rev = pend.rev /\ pend'.bin = pend.bin /\ pend'.phase = "rolled_back"
<1>1. Phase("awaiting_health") /\ pend \in Update
  BY PendingFields DEF RollbackRecord, InProgress, Phase
<1>2. pend' = [pend EXCEPT !.phase = "rolled_back"]
  BY DEF RollbackRecord
<1> QED
  BY <1>1, <1>2, PendingUpdated DEF Update

LEMMA StageRecorded ==
  ASSUME TypeOK, InProgress, StageWrite
  PROVE  /\ manifest # None /\ manifest.bin \in Binaries
         /\ pend' \in Update /\ pend' # None
         /\ pend'.rev = manifest.rev /\ pend'.bin = manifest.bin
         /\ pend'.phase = "pending" /\ pend'.attempts = 0
<1>1. manifest # None /\ manifest.rev \in 0..MaxRevision /\ manifest.bin \in Binaries
  BY ManifestFields DEF StageWrite, Staging, Matches, InProgress
<1>2. pend' = [rev |-> manifest.rev, bin |-> manifest.bin, attempts |-> 0, phase |-> "pending"]
  BY DEF StageWrite
<1>3. pend' \in Update
  BY <1>1, <1>2 DEF Update
<1> QED
  BY <1>1, <1>2, <1>3, NoneAssumption

LEMMA HealthRecorded ==
  ASSUME TypeOK, MarkHealthy
  PROVE  \/ ~ Phase("awaiting_health") /\ pend' = pend
         \/ /\ Phase("awaiting_health") /\ pend' \in Update /\ pend' # None
            /\ pend'.rev = pend.rev /\ pend'.bin = pend.bin /\ pend'.phase = "healthy"
<1>1. CASE ~ Phase("awaiting_health")
  BY <1>1 DEF MarkHealthy
<1>2. CASE Phase("awaiting_health")
  <2>1. pend \in Update
    BY <1>2, PendingFields DEF Phase
  <2>2. pend' = [pend EXCEPT !.phase = "healthy"]
    BY <1>2 DEF MarkHealthy
  <2> QED
    BY <1>2, <2>1, <2>2, PendingUpdated DEF Update
<1> QED
  BY <1>1, <1>2

\* stage records no revision twice: what it writes is newer than what it finds.
LEMMA StageIsNewer ==
  ASSUME TypeOK, InProgress, RevisionsGrow, StageWrite
  PROVE  pend # None => pend.rev < manifest.rev
<1>1. manifest # None /\ manifest.bin \in Binaries
  BY StageRecorded
<1>2. pend # None => pend.rev <= manifest.rev /\ (pend.rev = manifest.rev => pend.bin = manifest.bin)
  BY DEF RevisionsGrow
<1>3. pend # None => ~ (pend.rev = manifest.rev /\ pend.bin = manifest.bin)
  BY DEF StageWrite, Matches
<1> QED
  BY <1>1, <1>2, <1>3, PendingFields, ManifestFields

LEMMA InvariantInit == Init => IInv
<1> SUFFICES ASSUME Init PROVE IInv
  OBVIOUS
<1>1. TypeOK
  <2>1. offer \in Offer /\ desired \in 0..MaxRevision
    BY BoundAssumption DEF Init, Offer
  <2>2. artifact \in [Binaries -> Binaries \cup {None, Torn}]
    BY DEF Init
  <2>3. supervised \in BOOLEAN /\ steady \in BOOLEAN
    BY SwitchAssumption DEF Init
  <2> QED
    BY <2>1, <2>2, <2>3, BinariesAssumption DEF Init, TypeOK
<1>2. ~ Phase("pending") /\ ~ Phase("awaiting_health") /\ ~ Phase("healthy")
  BY DEF Init, Phase
<1> QED
  BY <1>1, <1>2, BinariesAssumption
     DEF Init, IInv, InProgress, TargetWhole, RollbackReady, Interrupted, HealthyIsProven,
         RevisionsGrow, TriesCounted

----------------------------------------------------------------------------
(* Every variable keeps its type, and files are in place in order. *)

LEMMA TypeStep == IInv /\ [Next]_vars => TypeOK'
<1> SUFFICES ASSUME IInv, [Next]_vars PROVE TypeOK'
  OBVIOUS
<1> USE DEF TypeOK
<1>0. TypeOK /\ InProgress /\ TargetWhole
  BY DEF IInv
<1>1. CASE Launch
  BY <1>0, <1>1 DEF Launch, files, env, history
<1>2. CASE ReconcileIdle
  BY <1>0, <1>2 DEF ReconcileIdle, Finish, files, env, history
<1>3. CASE ApplyStart
  BY <1>0, <1>3 DEF ApplyStart, env, history
<1>4. CASE ApplyBackup
  BY <1>0, <1>4 DEF ApplyBackup, env, history, TargetWhole
<1>5. CASE ApplySwap
  BY <1>0, <1>5, PendingFields DEF ApplySwap, env, history, InProgress, Phase
<1>6. CASE ApplyRecord
  BY <1>0, <1>6, ApplyRecorded DEF ApplyRecord, Finish
<1>7. CASE Retry
  <2>1. starts' \in Nat
    <3>1. starts \in Nat /\ starts + 1 \in Nat
      BY <1>0
    <3>2. starts' = starts \/ starts' = starts + 1
      BY <1>7 DEF Retry
    <3> QED
      BY <3>1, <3>2
  <2> QED
    BY <1>0, <1>7, <2>1, RetryRecorded DEF Retry, Finish, env
<1>8. CASE RollbackSwap
  BY <1>0, <1>8 DEF RollbackSwap, env, history
<1>9. CASE RollbackRecord
  <2>1. <<pend.rev, pend.bin>> \in (0..MaxRevision) \X Binaries
    BY <1>0, <1>9, RollbackRecorded, PendingFields DEF Phase
  <2> QED
    BY <1>0, <1>9, <2>1, RollbackRecorded DEF RollbackRecord, Finish, env
<1>10. CASE Refused
  BY <1>0, <1>10 DEF Refused, Bail, files, env, history
<1>11. CASE Fetch("boot", "boot_stage") \/ Fetch("tick", "tick_stage")
  BY <1>0, <1>11 DEF Fetch, files, env, history
<1>12. CASE NoExchange
  BY <1>0, <1>12 DEF NoExchange, files, env, history
<1>13. CASE StageMatch
  BY <1>0, <1>13 DEF StageMatch, Staging, NextStored, files, env, history
<1>14. CASE StageDownload
  <2>1. artifact' \in [Binaries -> Binaries \cup {None, Torn}]
    <3>1. manifest.bin \in Binaries
      BY <1>0, <1>14, ManifestFields DEF StageDownload, Staging, Matches, InProgress
    <3> QED
      BY <1>0, <1>14, <3>1 DEF StageDownload
  <2> QED
    BY <1>0, <1>14, <2>1 DEF StageDownload, env, history
<1>15. CASE StageFails
  BY <1>0, <1>15 DEF StageFails, Staging, files, env, history
<1>16. CASE StageWrite
  BY <1>0, <1>16, StageRecorded DEF StageWrite, NextStored, env, history
<1>17. CASE BootStore
  BY <1>0, <1>17, ManifestFields DEF BootStore, InProgress, env, history
<1>18. CASE TickStore
  BY <1>0, <1>18, ManifestFields DEF TickStore, AgentExits, InProgress, env, history
<1>19. CASE MarkHealthy
  BY <1>0, <1>19, HealthRecorded DEF MarkHealthy, env, history
<1>20. CASE Fail
  BY <1>0, <1>20 DEF Fail, AgentExits, files, env, history
<1>21. ASSUME NEW b \in Binaries \cup {None}, Publish(b) PROVE TypeOK'
  <2>1. offer' \in Offer
    BY <1>0, <1>21, OfferFields, BoundAssumption DEF Publish, Offer
  <2> QED
    BY <1>0, <1>21, <2>1 DEF Publish, files, history
<1>22. CASE Expire
  BY <1>0, <1>22 DEF Expire, files, history
<1>23. CASE ClockBack
  BY <1>0, <1>23 DEF ClockBack, files, history
<1>24. CASE Kill
  <2>1. kills' \in Nat
    BY <1>0, <1>24 DEF Kill, Killed
  <2> QED
    BY <1>0, <1>24, <2>1 DEF Kill, Killed, history
<1>25. ASSUME NEW b \in Binaries, PowerLoss(b) PROVE TypeOK'
  <2>1. kills' \in Nat
    BY <1>0, <1>25 DEF PowerLoss, Killed
  <2>2. artifact' \in [Binaries -> Binaries \cup {None, Torn}]
    BY <1>0, <1>25 DEF PowerLoss
  <2> QED
    BY <1>0, <1>25, <2>1, <2>2 DEF PowerLoss, Killed, history
<1>26. CASE UNCHANGED vars \* also Hang
  BY <1>0, <1>26 DEF vars
<1>27. CASE AgentDies
  BY <1>0, <1>27 DEF AgentDies, AgentUp, AgentExits, files, history
<1> QED
  BY <1>1, <1>2, <1>3, <1>4, <1>5, <1>6, <1>7, <1>8, <1>9, <1>10, <1>11, <1>12, <1>13, <1>14,
     <1>15, <1>16, <1>17, <1>18, <1>19, <1>20, <1>21, <1>22, <1>23, <1>24, <1>25, <1>26, <1>27
     DEF Next, Updater, Agent, Environment, Hang


\* The files are in place before the phase says so: the executable and the copy to
\* go back to are whole whatever dies.
LEMMA FilesStep == IInv /\ [Next]_vars => (InProgress /\ TargetWhole /\ RollbackReady)'
<1> SUFFICES ASSUME IInv, [Next]_vars PROVE (InProgress /\ TargetWhole /\ RollbackReady)'
  OBVIOUS
<1> USE DEF InProgress, TargetWhole, RollbackReady, Phase, Due
<1>0. TypeOK /\ InProgress /\ TargetWhole /\ RollbackReady
  BY DEF IInv
<1>1. CASE Launch
  BY <1>0, <1>1 DEF Launch, files, env, history
<1>2. CASE ReconcileIdle
  BY <1>0, <1>2, FinishEnds DEF ReconcileIdle, files, env, history
<1>3. CASE ApplyStart
  BY <1>0, <1>3 DEF ApplyStart, env, history
<1>4. CASE ApplyBackup
  BY <1>0, <1>4 DEF ApplyBackup, env, history
<1>5. CASE ApplySwap
  BY <1>0, <1>5, PendingFields DEF ApplySwap, env, history
<1>6. CASE ApplyRecord
  BY <1>0, <1>6, ApplyRecorded, FinishEnds DEF ApplyRecord
<1>7. CASE Retry
  BY <1>0, <1>7, RetryRecorded, FinishEnds DEF Retry, env
<1>8. CASE RollbackSwap
  BY <1>0, <1>8 DEF RollbackSwap, env, history
<1>9. CASE RollbackRecord
  BY <1>0, <1>9, RollbackRecorded, FinishEnds DEF RollbackRecord, env
<1>10. CASE Refused
  BY <1>0, <1>10 DEF Refused, Bail, files, env, history
<1>11. CASE Fetch("boot", "boot_stage") \/ Fetch("tick", "tick_stage")
  BY <1>0, <1>11, OfferFields DEF Fetch, files, env, history
<1>12. CASE NoExchange
  BY <1>0, <1>12 DEF NoExchange, files, env, history
<1>13. CASE StageMatch
  BY <1>0, <1>13 DEF StageMatch, Staging, NextStored, files, env, history
<1>14. CASE StageDownload
  BY <1>0, <1>14 DEF StageDownload, env, history
<1>15. CASE StageFails
  BY <1>0, <1>15 DEF StageFails, Staging, files, env, history
<1>16. CASE StageWrite
  BY <1>0, <1>16, StageRecorded DEF StageWrite, NextStored, env, history
<1>17. CASE BootStore
  BY <1>0, <1>17 DEF BootStore, env, history
<1>18. CASE TickStore
  BY <1>0, <1>18 DEF TickStore, AgentExits, env, history
<1>19. CASE MarkHealthy
  BY <1>0, <1>19, HealthRecorded DEF MarkHealthy, env, history
<1>20. CASE Fail
  BY <1>0, <1>20 DEF Fail, AgentExits, files, env, history
<1>21. ASSUME NEW b \in Binaries \cup {None}, Publish(b) PROVE (InProgress /\ TargetWhole /\ RollbackReady)'
  BY <1>0, <1>21 DEF Publish, files, history
<1>22. CASE Expire
  BY <1>0, <1>22 DEF Expire, files, history
<1>23. CASE ClockBack
  BY <1>0, <1>23 DEF ClockBack, files, history
<1>24. CASE Kill
  BY <1>0, <1>24 DEF Kill, Killed, history
<1>25. ASSUME NEW b \in Binaries, PowerLoss(b) PROVE (InProgress /\ TargetWhole /\ RollbackReady)'
  BY <1>0, <1>25 DEF PowerLoss, Killed, history
<1>26. CASE UNCHANGED vars \* also Hang
  BY <1>0, <1>26 DEF vars
<1>27. CASE AgentDies
  BY <1>0, <1>27 DEF AgentDies, AgentUp, AgentExits, files, history
<1> QED
  BY <1>1, <1>2, <1>3, <1>4, <1>5, <1>6, <1>7, <1>8, <1>9, <1>10, <1>11, <1>12, <1>13, <1>14,
     <1>15, <1>16, <1>17, <1>18, <1>19, <1>20, <1>21, <1>22, <1>23, <1>24, <1>25, <1>26, <1>27
     DEF Next, Updater, Agent, Environment, Hang

\* With a steady clock, a rollback that was cut short is taken up again before any
\* agent runs, so only the update itself can be marked healthy.
LEMMA TrialStep == IInv /\ [Next]_vars => (Interrupted /\ HealthyIsProven)'
<1> SUFFICES ASSUME IInv, [Next]_vars PROVE (Interrupted /\ HealthyIsProven)'
  OBVIOUS
<1> USE DEF Interrupted, HealthyIsProven, InProgress, Phase, AgentUp, Due
<1>0. TypeOK /\ InProgress /\ Interrupted /\ HealthyIsProven
  BY DEF IInv
<1>1. CASE Launch
  BY <1>0, <1>1 DEF Launch, files, env, history
<1>2. CASE ReconcileIdle
  BY <1>0, <1>2, FinishEnds DEF ReconcileIdle, files, env, history
<1>3. CASE ApplyStart
  BY <1>0, <1>3 DEF ApplyStart, env, history
<1>4. CASE ApplyBackup
  BY <1>0, <1>4 DEF ApplyBackup, env, history
<1>5. CASE ApplySwap
  BY <1>0, <1>5 DEF ApplySwap, env, history
<1>6. CASE ApplyRecord
  BY <1>0, <1>6, ApplyRecorded, FinishEnds DEF ApplyRecord
<1>7. CASE Retry
  BY <1>0, <1>7, RetryRecorded, FinishEnds DEF Retry, env
<1>8. CASE RollbackSwap
  BY <1>0, <1>8 DEF RollbackSwap, env, history
<1>9. CASE RollbackRecord
  BY <1>0, <1>9, RollbackRecorded, FinishEnds DEF RollbackRecord, env
<1>10. CASE Refused
  BY <1>0, <1>10 DEF Refused, Bail, files, env, history
<1>11. CASE Fetch("boot", "boot_stage") \/ Fetch("tick", "tick_stage")
  BY <1>0, <1>11 DEF Fetch, files, env, history
<1>12. CASE NoExchange
  BY <1>0, <1>12 DEF NoExchange, files, env, history
<1>13. CASE StageMatch
  BY <1>0, <1>13 DEF StageMatch, Staging, NextStored, files, env, history
<1>14. CASE StageDownload
  BY <1>0, <1>14 DEF StageDownload, env, history
<1>15. CASE StageFails
  BY <1>0, <1>15 DEF StageFails, Staging, files, env, history
<1>16. CASE StageWrite
  BY <1>0, <1>16, StageRecorded DEF StageWrite, NextStored, env, history
<1>17. CASE BootStore
  BY <1>0, <1>17 DEF BootStore, env, history
<1>18. CASE TickStore
  BY <1>0, <1>18 DEF TickStore, AgentExits, env, history
<1>19. CASE MarkHealthy
  BY <1>0, <1>19, HealthRecorded DEF MarkHealthy, env, history
<1>20. CASE Fail
  BY <1>0, <1>20 DEF Fail, AgentExits, files, env, history
<1>21. ASSUME NEW b \in Binaries \cup {None}, Publish(b) PROVE (Interrupted /\ HealthyIsProven)'
  BY <1>0, <1>21 DEF Publish, files, history
<1>22. CASE Expire
  BY <1>0, <1>22 DEF Expire, files, history
<1>23. CASE ClockBack
  BY <1>0, <1>23 DEF ClockBack, files, history
<1>24. CASE Kill
  BY <1>0, <1>24 DEF Kill, Killed, history
<1>25. ASSUME NEW b \in Binaries, PowerLoss(b) PROVE (Interrupted /\ HealthyIsProven)'
  BY <1>0, <1>25 DEF PowerLoss, Killed, history
<1>26. CASE UNCHANGED vars \* also Hang
  BY <1>0, <1>26 DEF vars
<1>27. CASE AgentDies
  BY <1>0, <1>27 DEF AgentDies, AgentUp, AgentExits, files, history
<1> QED
  BY <1>1, <1>2, <1>3, <1>4, <1>5, <1>6, <1>7, <1>8, <1>9, <1>10, <1>11, <1>12, <1>13, <1>14,
     <1>15, <1>16, <1>17, <1>18, <1>19, <1>20, <1>21, <1>22, <1>23, <1>24, <1>25, <1>26, <1>27
     DEF Next, Updater, Agent, Environment, Hang

\* Revisions only grow, and one that was rolled back is not recorded again.
LEMMA RevisionsStep == IInv /\ [Next]_vars => RevisionsGrow'
<1> SUFFICES ASSUME IInv, [Next]_vars PROVE RevisionsGrow'
  OBVIOUS
<1> USE DEF RevisionsGrow, Phase
<1>0. TypeOK /\ InProgress /\ RevisionsGrow
  BY DEF IInv
<1>1. CASE Launch
  BY <1>0, <1>1 DEF Launch, files, env, history
<1>2. CASE ReconcileIdle
  BY <1>0, <1>2, FinishEnds DEF ReconcileIdle, files, env, history
<1>3. CASE ApplyStart
  BY <1>0, <1>3 DEF ApplyStart, env, history
<1>4. CASE ApplyBackup
  BY <1>0, <1>4 DEF ApplyBackup, env, history
<1>5. CASE ApplySwap
  BY <1>0, <1>5 DEF ApplySwap, env, history
<1>6. CASE ApplyRecord
  BY <1>0, <1>6, ApplyRecorded, FinishEnds DEF ApplyRecord
<1>7. CASE Retry
  BY <1>0, <1>7, RetryRecorded, FinishEnds DEF Retry, env
<1>8. CASE RollbackSwap
  BY <1>0, <1>8 DEF RollbackSwap, env, history
<1>9. CASE RollbackRecord
  <2>1. pend # None /\ pend' # None /\ pend'.rev = pend.rev /\ pend'.bin = pend.bin
        /\ pend'.phase = "rolled_back"
    BY <1>0, <1>9, RollbackRecorded
  <2>2. /\ rolled' = rolled \cup {<<pend.rev, pend.bin>>}
        /\ manifest' = manifest /\ offer' = offer
    BY <1>9 DEF RollbackRecord, env
  <2>3. pend.rev <= pend.rev
    BY <1>0, <2>1, PendingFields
  <2> QED
    BY <1>0, <2>1, <2>2, <2>3
<1>10. CASE Refused
  BY <1>0, <1>10 DEF Refused, Bail, files, env, history
<1>11. CASE Fetch("boot", "boot_stage") \/ Fetch("tick", "tick_stage")
  <2>1. manifest' = offer /\ pend' = pend /\ offer' = offer /\ rolled' = rolled
    BY <1>11 DEF Fetch, files, env, history
  <2>2. offer.rev <= offer.rev
    BY <1>0, OfferFields
  <2>3. pend # None => pend.rev <= offer.rev /\ (pend.rev = offer.rev => pend.bin = offer.bin)
    BY <1>0, PendingFields, ManifestFields, OfferFields
  <2> QED
    BY <1>0, <2>1, <2>2, <2>3, OfferFields
<1>12. CASE NoExchange
  BY <1>0, <1>12 DEF NoExchange, files, env, history
<1>13. CASE StageMatch
  BY <1>0, <1>13 DEF StageMatch, Staging, NextStored, files, env, history
<1>14. CASE StageDownload
  BY <1>0, <1>14 DEF StageDownload, env, history
<1>15. CASE StageFails
  BY <1>0, <1>15 DEF StageFails, Staging, files, env, history
<1>16. CASE StageWrite
  <2>1. /\ manifest # None /\ pend' # None /\ pend'.phase = "pending"
        /\ pend'.rev = manifest.rev /\ pend'.bin = manifest.bin
    BY <1>0, <1>16, StageRecorded
  <2>2. manifest' = manifest /\ offer' = offer /\ rolled' = rolled
    BY <1>16 DEF StageWrite, env, history
  <2>3. pend # None => pend.rev < manifest.rev
    BY <1>0, <1>16, StageIsNewer
  <2>4. ASSUME NEW r \in rolled PROVE r[1] < manifest.rev
    BY <1>0, <2>1, <2>3, <2>4, PendingFields, ManifestFields, BoundAssumption DEF TypeOK
  <2>5. manifest.rev <= manifest.rev
    BY <1>0, <2>1, ManifestFields
  <2>6. \A r \in rolled : r[1] <= manifest.rev /\ r[1] # manifest.rev
    BY <1>0, <2>1, <2>4, ManifestFields, BoundAssumption DEF TypeOK
  <2> QED
    BY <1>0, <2>1, <2>2, <2>5, <2>6
<1>17. CASE BootStore
  BY <1>0, <1>17 DEF BootStore, env, history
<1>18. CASE TickStore
  BY <1>0, <1>18 DEF TickStore, AgentExits, env, history
<1>19. CASE MarkHealthy
  BY <1>0, <1>19, HealthRecorded DEF MarkHealthy, env, history
<1>20. CASE Fail
  BY <1>0, <1>20 DEF Fail, AgentExits, files, env, history
<1>21. ASSUME NEW b \in Binaries \cup {None}, Publish(b) PROVE RevisionsGrow'
  <2>1. manifest' = manifest /\ pend' = pend /\ rolled' = rolled /\ offer'.rev = offer.rev + 1
    BY <1>21 DEF Publish, files, history
  <2>2. manifest # None => manifest.rev <= offer'.rev /\ manifest.rev # offer'.rev
    BY <1>0, <2>1, ManifestFields, OfferFields
  <2> QED
    BY <1>0, <2>1, <2>2
<1>22. CASE Expire
  BY <1>0, <1>22 DEF Expire, files, history
<1>23. CASE ClockBack
  BY <1>0, <1>23 DEF ClockBack, files, history
<1>24. CASE Kill
  BY <1>0, <1>24 DEF Kill, Killed, history
<1>25. ASSUME NEW b \in Binaries, PowerLoss(b) PROVE RevisionsGrow'
  BY <1>0, <1>25 DEF PowerLoss, Killed, history
<1>26. CASE UNCHANGED vars \* also Hang
  BY <1>0, <1>26 DEF vars
<1>27. CASE AgentDies
  BY <1>0, <1>27 DEF AgentDies, AgentUp, AgentExits, files, history
<1> QED
  BY <1>1, <1>2, <1>3, <1>4, <1>5, <1>6, <1>7, <1>8, <1>9, <1>10, <1>11, <1>12, <1>13, <1>14,
     <1>15, <1>16, <1>17, <1>18, <1>19, <1>20, <1>21, <1>22, <1>23, <1>24, <1>25, <1>26, <1>27
     DEF Next, Updater, Agent, Environment, Hang

\* Every try but the first is counted.
LEMMA TriesStep == IInv /\ [Next]_vars => TriesCounted'
<1> SUFFICES ASSUME IInv, [Next]_vars PROVE TriesCounted'
  OBVIOUS
<1> USE DEF TriesCounted, Phase
<1>0. TypeOK /\ InProgress /\ TriesCounted
  BY DEF IInv
<1>1. CASE Launch
  BY <1>0, <1>1 DEF Launch, files, env, history
<1>2. CASE ReconcileIdle
  BY <1>0, <1>2, FinishEnds DEF ReconcileIdle, files, env, history
<1>3. CASE ApplyStart
  BY <1>0, <1>3 DEF ApplyStart, env, history
<1>4. CASE ApplyBackup
  BY <1>0, <1>4 DEF ApplyBackup, env, history
<1>5. CASE ApplySwap
  BY <1>0, <1>5 DEF ApplySwap, env, history
<1>6. CASE ApplyRecord
  BY <1>0, <1>6, ApplyRecorded, FinishEnds DEF ApplyRecord
<1>7. CASE Retry
  <2>1. starts' = starts \/ starts' = starts + 1
    BY <1>7 DEF Retry
  <2>2. pend # None /\ starts <= pend.attempts + 1 /\ pend'.attempts = pend.attempts + 1
    BY <1>0, <1>7, RetryRecorded
  <2>3. starts \in Nat /\ pend.attempts \in Nat
    BY <1>0, <2>2, PendingFields DEF TypeOK
  <2> QED
    BY <2>1, <2>2, <2>3
<1>8. CASE RollbackSwap
  BY <1>0, <1>8 DEF RollbackSwap, env, history
<1>9. CASE RollbackRecord
  BY <1>0, <1>9, RollbackRecorded, FinishEnds DEF RollbackRecord, env
<1>10. CASE Refused
  BY <1>0, <1>10 DEF Refused, Bail, files, env, history
<1>11. CASE Fetch("boot", "boot_stage") \/ Fetch("tick", "tick_stage")
  BY <1>0, <1>11 DEF Fetch, files, env, history
<1>12. CASE NoExchange
  BY <1>0, <1>12 DEF NoExchange, files, env, history
<1>13. CASE StageMatch
  BY <1>0, <1>13 DEF StageMatch, Staging, NextStored, files, env, history
<1>14. CASE StageDownload
  BY <1>0, <1>14 DEF StageDownload, env, history
<1>15. CASE StageFails
  BY <1>0, <1>15 DEF StageFails, Staging, files, env, history
<1>16. CASE StageWrite
  BY <1>0, <1>16, StageRecorded DEF StageWrite, NextStored, env, history
<1>17. CASE BootStore
  BY <1>0, <1>17 DEF BootStore, env, history
<1>18. CASE TickStore
  BY <1>0, <1>18 DEF TickStore, AgentExits, env, history
<1>19. CASE MarkHealthy
  BY <1>0, <1>19, HealthRecorded DEF MarkHealthy, env, history
<1>20. CASE Fail
  BY <1>0, <1>20 DEF Fail, AgentExits, files, env, history
<1>21. ASSUME NEW b \in Binaries \cup {None}, Publish(b) PROVE TriesCounted'
  BY <1>0, <1>21 DEF Publish, files, history
<1>22. CASE Expire
  BY <1>0, <1>22 DEF Expire, files, history
<1>23. CASE ClockBack
  BY <1>0, <1>23 DEF ClockBack, files, history
<1>24. CASE Kill
  BY <1>0, <1>24 DEF Kill, Killed, history
<1>25. ASSUME NEW b \in Binaries, PowerLoss(b) PROVE TriesCounted'
  BY <1>0, <1>25 DEF PowerLoss, Killed, history
<1>26. CASE UNCHANGED vars \* also Hang
  BY <1>0, <1>26 DEF vars
<1>27. CASE AgentDies
  BY <1>0, <1>27 DEF AgentDies, AgentUp, AgentExits, files, history
<1> QED
  BY <1>1, <1>2, <1>3, <1>4, <1>5, <1>6, <1>7, <1>8, <1>9, <1>10, <1>11, <1>12, <1>13, <1>14,
     <1>15, <1>16, <1>17, <1>18, <1>19, <1>20, <1>21, <1>22, <1>23, <1>24, <1>25, <1>26, <1>27
     DEF Next, Updater, Agent, Environment, Hang

----------------------------------------------------------------------------
(* Results *)

LEMMA InvariantStep == IInv /\ [Next]_vars => IInv'
BY TypeStep, FilesStep, TrialStep, RevisionsStep, TriesStep DEF IInv

\* The conjuncts of IInv hold together in every reachable state.
THEOREM Invariance == Spec => []IInv
BY InvariantInit, InvariantStep, PTL DEF Spec
\* Every variable keeps its type; the try count stays 0 or 1.
THEOREM TypeCorrect == Spec => []TypeOK
<1>1. IInv => TypeOK
  BY DEF IInv
<1> QED
  BY <1>1, Invariance, PTL

\* Whatever is killed when, the service finds a whole executable.
THEOREM TargetWholeHolds == Spec => []TargetWhole
<1>1. IInv => TargetWhole
  BY DEF IInv
<1> QED
  BY <1>1, Invariance, PTL

\* An update on trial always has a whole executable to go back to.
THEOREM RollbackReadyHolds == Spec => []RollbackReady
<1>1. IInv => RollbackReady
  BY DEF IInv
<1> QED
  BY <1>1, Invariance, PTL

\* With a steady clock an update is marked healthy by itself only.
THEOREM HealthyIsProvenHolds == Spec => []HealthyIsProven
<1>1. IInv => HealthyIsProven
  BY DEF IInv
<1> QED
  BY <1>1, Invariance, PTL

\* An update on trial is started twice at most.
THEOREM RetryBudgetHolds == Spec => []RetryBudget
<1>1. IInv => RetryBudget
  <2> SUFFICES ASSUME IInv, Phase("awaiting_health") PROVE starts <= 2
    BY DEF RetryBudget
  <2>1. starts <= pend.attempts + 1 /\ TypeOK
    BY DEF IInv, TriesCounted
  <2>2. pend.attempts \in 0..1
    BY <2>1, PendingFields DEF Phase
  <2>3. starts \in Nat
    BY <2>1 DEF TypeOK
  <2> QED
    BY <2>1, <2>2, <2>3
<1> QED
  BY <1>1, Invariance, PTL

\* An update that was rolled back is never tried again under its revision.
THEOREM RolledBackStaysHolds == Spec => []RolledBackStays
<1>1. IInv => RolledBackStays
  <2> SUFFICES ASSUME IInv, Phase("pending") \/ Phase("awaiting_health"),
                      <<pend.rev, pend.bin>> \in rolled
               PROVE  FALSE
    BY DEF RolledBackStays
  <2>1. <<pend.rev, pend.bin>>[1] = pend.rev
    OBVIOUS
  <2>2. Phase("rolled_back")
    BY <2>1 DEF IInv, RevisionsGrow
  <2> QED
    BY <2>2 DEF Phase
<1> QED
  BY <1>1, Invariance, PTL

----------------------------------------------------------------------------
(* OtaUpdate implements UpdateLifecycle: an update is offered when stage writes  *)
(* the record, put aside by the copy to .previous (first torn, then whole),      *)
(* installed by the swap, on trial, healthy and given up when the record says so, *)
(* restored by the swap back.  All else is a stutter, kills included.            *)

LifecycleVars == <<pend, target, previous, steady>>

LEMMA LifecycleVarsExpand == Lifecycle!lvars = LifecycleVars
BY DEF Lifecycle!lvars, LifecycleVars

LEMMA LifecycleInitHolds == Init => Lifecycle!LInit
BY SwitchAssumption DEF Init, Lifecycle!LInit

\* Copy and swap: the executable is overwritten when the copy aside is whole.
LEMMA ApplyStepHolds ==
  ASSUME IInv, ApplyStart \/ ApplyBackup \/ ApplySwap \/ ApplyRecord
  PROVE  Lifecycle!LNext
<1> USE DEF Lifecycle!On, Phase
<1>0. TypeOK /\ InProgress /\ TargetWhole
  BY DEF IInv
<1>1. CASE ApplyStart
  <2>1. Lifecycle!PutAside
    BY <1>1 DEF ApplyStart, env, Lifecycle!PutAside
  <2> QED
    BY <2>1 DEF Lifecycle!LNext
<1>2. CASE ApplyBackup
  <2>1. Lifecycle!PutAside
    BY <1>0, <1>2 DEF ApplyBackup, env, InProgress, Lifecycle!PutAside
  <2> QED
    BY <2>1 DEF Lifecycle!LNext
<1>3. CASE ApplySwap
  <2>1. Lifecycle!Install
    BY <1>0, <1>3 DEF ApplySwap, env, InProgress, Lifecycle!Install
  <2> QED
    BY <2>1 DEF Lifecycle!LNext
<1>4. CASE ApplyRecord
  <2>1. Phase("pending") /\ previous \in Binaries /\ target = pend.bin /\ pend \in Update
    BY <1>0, <1>4, PendingFields DEF ApplyRecord, InProgress
  <2>2. pend' = [rev |-> pend.rev, bin |-> pend.bin, attempts |-> 0, phase |-> "awaiting_health"]
    BY <1>4 DEF ApplyRecord
  <2>3. Lifecycle!BeginTrial
    BY <1>4, <2>1, <2>2 DEF ApplyRecord, Lifecycle!BeginTrial
  <2> QED
    BY <2>3 DEF Lifecycle!LNext
<1> QED
  BY <1>1, <1>2, <1>3, <1>4

\* The second try, and the way back: the record follows the swap.
LEMMA TrialStepHolds ==
  ASSUME IInv, Retry \/ RollbackSwap \/ RollbackRecord
  PROVE  Lifecycle!LNext
<1> USE DEF Lifecycle!On, Phase
<1>0. TypeOK /\ InProgress /\ RollbackReady
  BY DEF IInv
<1>1. CASE Retry
  <2>1. Phase("awaiting_health") /\ ~ Due
    BY <1>1 DEF Retry
  <2>2. pend.attempts = 0
    BY <1>0, <2>1, PendingFields DEF Due
  <2>3. pend' = [pend EXCEPT !.attempts = pend.attempts + 1]
    BY <1>1 DEF Retry
  <2>4. pend.attempts + 1 = 1
    BY <2>2
  <2>5. Lifecycle!TryAgain
    BY <1>1, <2>1, <2>2, <2>3, <2>4 DEF Retry, env, Lifecycle!TryAgain
  <2> QED
    BY <2>5 DEF Lifecycle!LNext
<1>2. CASE RollbackSwap
  <2>1. Lifecycle!Restore
    BY <1>0, <1>2 DEF RollbackSwap, env, RollbackReady, Lifecycle!Restore
  <2> QED
    BY <2>1 DEF Lifecycle!LNext
<1>3. CASE RollbackRecord
  <2>1. Lifecycle!GiveUp
    BY <1>0, <1>3 DEF RollbackRecord, env, InProgress, Lifecycle!GiveUp
  <2> QED
    BY <2>1 DEF Lifecycle!LNext
<1> QED
  BY <1>1, <1>2, <1>3

\* What the agent writes: a newer update, or the marker of one that works.
LEMMA AgentStepHolds ==
  ASSUME IInv, StageWrite \/ MarkHealthy
  PROVE  Lifecycle!LNext \/ UNCHANGED LifecycleVars
<1> USE DEF Lifecycle!On, Phase
<1>0. TypeOK /\ InProgress /\ RevisionsGrow /\ HealthyIsProven
  BY DEF IInv
<1>1. CASE StageWrite
  <2>1. manifest.rev \in 0..MaxRevision /\ manifest.bin \in Binaries
    BY <1>0, <1>1, StageRecorded, ManifestFields
  <2>2. pend # None => manifest.rev > pend.rev
    BY <1>0, <1>1, <2>1, StageIsNewer, PendingFields
  <2>3. Lifecycle!Offered(manifest.rev, manifest.bin)
    BY <1>1, <2>2 DEF StageWrite, env, Lifecycle!Offered
  <2> QED
    BY <2>1, <2>3 DEF Lifecycle!LNext
<1>2. CASE MarkHealthy /\ Phase("awaiting_health")
  <2>1. steady => target = pend.bin
    BY <1>0, <1>2 DEF MarkHealthy, HealthyIsProven, AgentUp
  <2>2. Lifecycle!Accept
    BY <1>2, <2>1 DEF MarkHealthy, env, Lifecycle!Accept
  <2> QED
    BY <2>2 DEF Lifecycle!LNext
<1>3. CASE MarkHealthy /\ ~ Phase("awaiting_health")
  BY <1>3 DEF MarkHealthy, env, LifecycleVars
<1> QED
  BY <1>1, <1>2, <1>3

\* Kills, restarts, downloads and the passing of time touch neither the record nor
\* the two executables.
LEMMA OtherStepStutters ==
  ASSUME [Next]_vars,
         ~ (ApplyStart \/ ApplyBackup \/ ApplySwap \/ ApplyRecord),
         ~ (Retry \/ RollbackSwap \/ RollbackRecord), ~ (StageWrite \/ MarkHealthy)
  PROVE  UNCHANGED LifecycleVars
<1> USE DEF LifecycleVars
<1>1. CASE Launch \/ ReconcileIdle \/ Refused
  BY <1>1 DEF Launch, ReconcileIdle, Refused, files, env
<1>2. CASE Fetch("boot", "boot_stage") \/ Fetch("tick", "tick_stage") \/ NoExchange
           \/ StageMatch \/ StageFails \/ Fail
  BY <1>2 DEF Fetch, NoExchange, StageMatch, StageFails, Fail, files, env
<1>3. CASE StageDownload \/ BootStore \/ TickStore
  BY <1>3 DEF StageDownload, BootStore, TickStore, env
<1>4. ASSUME NEW b \in Binaries \cup {None}, Publish(b) PROVE UNCHANGED LifecycleVars
  BY <1>4 DEF Publish, files
<1>5. CASE Expire \/ ClockBack \/ AgentDies
  BY <1>5 DEF Expire, ClockBack, AgentDies, files
<1>6. CASE Kill
  BY <1>6 DEF Kill, Killed
<1>7. ASSUME NEW b \in Binaries, PowerLoss(b) PROVE UNCHANGED LifecycleVars
  BY <1>7 DEF PowerLoss, Killed
<1>8. CASE UNCHANGED vars \* also Hang
  BY <1>8 DEF vars
<1> QED
  BY <1>1, <1>2, <1>3, <1>4, <1>5, <1>6, <1>7, <1>8 DEF Next, Updater, Agent, Environment, Hang

LEMMA LifecycleStepHolds == IInv /\ [Next]_vars => [Lifecycle!LNext]_(Lifecycle!lvars)
<1> SUFFICES ASSUME IInv, [Next]_vars PROVE Lifecycle!LNext \/ UNCHANGED LifecycleVars
  BY LifecycleVarsExpand DEF Lifecycle!lvars, LifecycleVars
<1> QED
  BY ApplyStepHolds, TrialStepHolds, AgentStepHolds, OtherStepStutters

\* Whatever is killed when, updater and agent together keep to the life of an update
\* that UpdateLifecycle promises.
THEOREM UpdateImplementsLifecycle == Spec => ImplementsLifecycle
BY LifecycleInitHolds, LifecycleStepHolds, Invariance, PTL
   DEF Spec, ImplementsLifecycle, Lifecycle!LSpec

----------------------------------------------------------------------------
(* The life of an update goes forward *)

LEMMA RecordStep ==
  ASSUME IInv, [Next]_vars, pend # None, pend' # pend
  PROVE  /\ pend' # None
         /\ \/ pend'.rev > pend.rev
            \/ pend'.rev = pend.rev /\ pend'.bin = pend.bin /\ Rank(pend') > Rank(pend)
<1>0. TypeOK /\ InProgress /\ RevisionsGrow /\ pend \in Update
  BY PendingFields DEF IInv
<1>1. /\ Phase("pending") => Rank(pend) = 0
      /\ Phase("awaiting_health") => Rank(pend) = 1 + pend.attempts /\ Rank(pend) \in 1..2
  BY <1>0, PendingFields DEF Phase, Rank
<1>2. CASE ApplyRecord
  <2>1. Phase("pending") /\ pend' # None /\ pend'.rev = pend.rev /\ pend'.bin = pend.bin
        /\ pend'.phase = "awaiting_health" /\ pend'.attempts = 0
    BY <1>0, <1>2, ApplyRecorded
  <2>2. Rank(pend') = 1
    BY <2>1 DEF Rank
  <2> QED
    BY <1>1, <2>1, <2>2
<1>3. CASE Retry
  <2>1. Phase("awaiting_health") /\ pend' # None /\ pend'.rev = pend.rev /\ pend'.bin = pend.bin
        /\ pend'.phase = "awaiting_health" /\ pend'.attempts = pend.attempts + 1
    BY <1>0, <1>3, RetryRecorded DEF Phase
  <2>2. Rank(pend') = 1 + (pend.attempts + 1)
    BY <2>1 DEF Rank
  <2> QED
    BY <1>0, <1>1, <2>1, <2>2, PendingFields
<1>4. CASE RollbackRecord
  <2>1. Phase("awaiting_health") /\ pend' # None /\ pend'.rev = pend.rev /\ pend'.bin = pend.bin
        /\ pend'.phase = "rolled_back"
    BY <1>0, <1>4, RollbackRecorded
  <2>2. Rank(pend') = 3
    BY <2>1 DEF Rank
  <2> QED
    BY <1>1, <2>1, <2>2
<1>5. CASE StageWrite
  <2>1. pend' # None /\ pend'.rev = manifest.rev /\ pend.rev < manifest.rev
        /\ manifest.rev \in Nat /\ pend.rev \in Nat
    BY <1>0, <1>5, StageRecorded, StageIsNewer, PendingFields, ManifestFields
  <2> QED
    BY <2>1
<1>6. CASE MarkHealthy
  <2>1. Phase("awaiting_health") /\ pend' # None /\ pend'.rev = pend.rev /\ pend'.bin = pend.bin
        /\ pend'.phase = "healthy"
    BY <1>0, <1>6, HealthRecorded
  <2>2. Rank(pend') = 3
    BY <2>1 DEF Rank
  <2> QED
    BY <1>1, <2>1, <2>2
<1>7. CASE ApplyStart \/ ApplyBackup \/ ApplySwap \/ RollbackSwap
  BY <1>7 DEF ApplyStart, ApplyBackup, ApplySwap, RollbackSwap
<1> QED
  BY <1>2, <1>3, <1>4, <1>5, <1>6, <1>7, OtherStepStutters DEF LifecycleVars

\* Every write of pending-update.json advances the update or replaces it by a newer.
THEOREM RecordAdvancesHolds == Spec => RecordAdvances
<1>1. IInv /\ [Next]_vars =>
        [pend # None /\ pend' # pend =>
           /\ pend' # None
           /\ \/ pend'.rev > pend.rev
              \/ pend'.rev = pend.rev /\ pend'.bin = pend.bin /\ Rank(pend') > Rank(pend)]_vars
  BY RecordStep
<1> QED
  BY <1>1, Invariance, PTL DEF Spec, RecordAdvances

----------------------------------------------------------------------------
(* What it takes to lose the prior executable *)

\* Nothing dies between the swap and its record, and no update is staged that is
\* what runs already.
Undisturbed ==
  /\ pc = "record" => pc' # "stopped"
  /\ StageWrite => manifest.bin # target

\* While nothing is lost: an update that is not yet installed is another binary
\* than the one that runs, and so than the copy of it.
PriorApart ==
  /\ Phase("pending") /\ pc # "record" => target # pend.bin
  /\ pc \in {"swap", "record"} => previous # pend.bin
  /\ Phase("awaiting_health") => previous # pend.bin

\* apply is entered and left by its own steps, or cut short.
LEMMA OtherStepsOfApply ==
  ASSUME [Next]_vars,
         ~ (ApplyStart \/ ApplyBackup \/ ApplySwap \/ ApplyRecord),
         ~ (Retry \/ RollbackSwap \/ RollbackRecord), ~ (StageWrite \/ MarkHealthy)
  PROVE  \/ pc' = pc
         \/ pc' = "stopped"
         \/ pc \notin {"swap", "record"} /\ pc' \notin {"swap", "record"}
<1>1. CASE Launch \/ ReconcileIdle \/ Refused
  BY <1>1 DEF Launch, ReconcileIdle, Refused, Finish, Bail
<1>2. CASE Fetch("boot", "boot_stage") \/ Fetch("tick", "tick_stage") \/ NoExchange
           \/ StageMatch \/ StageFails \/ Fail
  BY <1>2 DEF Fetch, NoExchange, StageMatch, StageFails, Fail, Staging, NextStored, AgentExits
<1>3. CASE StageDownload \/ BootStore \/ TickStore
  BY <1>3 DEF StageDownload, BootStore, TickStore, AgentExits
<1>4. ASSUME NEW b \in Binaries \cup {None}, Publish(b) PROVE pc' = pc
  BY <1>4 DEF Publish
<1>5. CASE Expire \/ ClockBack \/ AgentDies
  BY <1>5 DEF Expire, ClockBack, AgentDies, AgentUp, AgentExits
<1>6. CASE Kill
  BY <1>6 DEF Kill, Killed
<1>7. ASSUME NEW b \in Binaries, PowerLoss(b) PROVE pc' = "stopped"
  BY <1>7 DEF PowerLoss, Killed
<1>8. CASE UNCHANGED vars \* also Hang
  BY <1>8 DEF vars
<1> QED
  BY <1>1, <1>2, <1>3, <1>4, <1>5, <1>6, <1>7, <1>8 DEF Next, Updater, Agent, Environment, Hang

LEMMA PriorStep == IInv /\ PriorApart /\ [Next]_vars /\ [Undisturbed]_vars => PriorApart'
<1> SUFFICES ASSUME IInv, PriorApart, [Next]_vars, [Undisturbed]_vars PROVE PriorApart'
  OBVIOUS
<1> USE DEF PriorApart, Phase
<1>0. TypeOK /\ InProgress /\ TargetWhole
  BY DEF IInv
<1>1. CASE ApplyStart
  BY <1>0, <1>1 DEF ApplyStart
<1>2. CASE ApplyBackup
  BY <1>0, <1>2 DEF ApplyBackup, InProgress
<1>3. CASE ApplySwap
  BY <1>0, <1>3 DEF ApplySwap, InProgress
<1>4. CASE ApplyRecord
  <2>1. pend'.phase = "awaiting_health" /\ pend'.bin = pend.bin /\ pc' \in {"stopped", "boot"}
    BY <1>0, <1>4, ApplyRecorded, FinishEnds DEF ApplyRecord
  <2> QED
    BY <1>4, <2>1 DEF ApplyRecord
<1>5. CASE Retry
  BY <1>0, <1>5, RetryRecorded, FinishEnds DEF Retry
<1>6. CASE RollbackSwap
  BY <1>0, <1>6 DEF RollbackSwap
<1>7. CASE RollbackRecord
  BY <1>0, <1>7, RollbackRecorded, FinishEnds DEF RollbackRecord
<1>8. CASE StageWrite
  <2>1. pend' # None /\ pend'.bin = manifest.bin /\ pend'.phase = "pending"
    BY <1>0, <1>8, StageRecorded
  <2>2. pc' \in {"boot_store", "tick_store"} /\ target' = target /\ vars' # vars
    BY <1>0, <1>8 DEF StageWrite, NextStored, Staging, vars
  <2> QED
    BY <1>8, <2>1, <2>2 DEF Undisturbed
<1>9. CASE MarkHealthy
  BY <1>0, <1>9, HealthRecorded DEF MarkHealthy
<1>10. CASE UNCHANGED LifecycleVars /\ pc = "record" /\ pc' = "stopped"
  BY <1>10 DEF Undisturbed, vars
<1>11. CASE /\ UNCHANGED LifecycleVars
            /\ \/ pc' = pc
               \/ pc' = "stopped" /\ pc # "record"
               \/ pc \notin {"swap", "record"} /\ pc' \notin {"swap", "record"}
  BY <1>11 DEF LifecycleVars
<1> QED
  BY <1>1, <1>2, <1>3, <1>4, <1>5, <1>6, <1>7, <1>8, <1>9, <1>10, <1>11,
     OtherStepStutters, OtherStepsOfApply

\* The prior executable is kept as the README says unless something dies between the
\* swap and its record or an update is staged that runs already: nothing else loses it.
THEOREM PriorKeptUndisturbed == Spec /\ [][Undisturbed]_vars => []PriorKept
<1>1. Init => PriorApart
  BY DEF Init, PriorApart, Phase
<1>2. PriorApart => PriorKept
  BY DEF PriorApart, PriorKept
<1> QED
  BY <1>1, <1>2, PriorStep, Invariance, PTL DEF Spec
==============================================================================
