------------------------ MODULE PdrawBackend_proofs ------------------------
(***************************************************************************)
(* Proofs about PdrawBackend, for any set of threads, any commands and any *)
(* number of calls: the inductive invariant IInv, and what follows from    *)
(* it, one lemma per conjunct of IInv; then the refinement of BackendApi.   *)
(***************************************************************************)
EXTENDS PdrawBackend, TLAPS

\* The calls in use are answered in the member they read: what the table of
\* BackendRpc says of every call but getPeerSessionMetadata.
AllMatched == \A c \in Calls \cup CallbackCalls : Matched(c)

-----------------------------------------------------------------------------
\* The initial state satisfies the type invariant.
LEMMA InitType == Init => TypeOK
  <1> SUFFICES ASSUME Init PROVE TypeOK
    OBVIOUS
  <1>1. ApiTypeOK
    <2>1. mMbox \in Seq([cmd : Cmds, by : Threads]) /\ ret \in [Slots -> Nat]
      BY DEF Init
    <2>. QED
      BY <2>1 DEF Init, ApiTypeOK
  <1>2. LifeTypeOK /\ LoopTypeOK
    BY DEF Init, LifeTypeOK, LoopTypeOK, LoopPcs
  <1>3. ThreadTypeOK /\ HistoryTypeOK
    BY DEF Init, ThreadTypeOK, HistoryTypeOK, Pcs
  <1>. QED
    BY <1>1, <1>2, <1>3 DEF TypeOK

\* The initial state satisfies the inductive invariant.
LEMMA InitInv == Init => IInv
  <1> SUFFICES ASSUME Init PROVE IInv
    OBVIOUS
  <1> USE ThreadsOK DEF Init, Threads
  <1>1. PlaceInv /\ ApiMutexInv /\ MutexInv /\ StartInv
    BY DEF PlaceInv, ApiMutexInv, MutexInv, StartInv, Holds, InSection, Waiting,
           Starting, InCall
  <1>2. InitLoopInv /\ ArmedInv /\ ExchangeInv /\ HistoryInv /\ AnswerIsOwn
    BY DEF InitLoopInv, ArmedInv, ExchangeInv, HistoryInv, AnswerIsOwn, Waiting,
           Serving, Starting
  <1>. QED
    BY <1>1, <1>2, InitType DEF IInv

-----------------------------------------------------------------------------
(* Who takes part in the exchange of a command and its answer.             *)

\* mApiMutex lets one thread at a time wait for an answer.
LEMMA OneWaiter ==
  ASSUME ThreadTypeOK, ApiTypeOK, ApiMutexInv,
         NEW t \in Threads, Waiting(t), NEW u \in Threads, Waiting(u)
  PROVE  t = u
  BY DEF ApiMutexInv, Holds, InSection

\* The command in the hands of the loop thread is the one of the waiting call.
LEMMA InHand ==
  ASSUME ExchangeInv, Serving
  PROVE  /\ cur.by \in Threads /\ Waiting(cur.by) /\ cur = Msg(cur.by)
         /\ mMbox = <<>> /\ ~mRetValReady
         /\ loopPc = "serve" => ver[cur.by] = 0
         /\ loopPc = "reply" => ver[cur.by] = val /\ val # 0
  <1>1. PICK t \in Threads : Waiting(t)
    BY DEF ExchangeInv
  <1>2. Served(t) \/ Executed(t)
    BY <1>1 DEF ExchangeInv, Posted, Answered
  <1>3. cur = Msg(t) /\ cur.by = t
    BY <1>2 DEF Served, Executed, Msg
  <1>. QED
    BY <1>1, <1>2, <1>3 DEF Served, Executed

\* So is a command in the mailbox.
LEMMA InMailbox ==
  ASSUME ExchangeInv, mMbox # <<>>
  PROVE  \E t \in Threads : Waiting(t) /\ Posted(t)
  <1>1. PICK t \in Threads : Waiting(t)
    BY DEF ExchangeInv
  <1>. QED
    BY <1>1 DEF ExchangeInv, Served, Executed, Answered

-----------------------------------------------------------------------------
(* Every step preserves each part of the type invariant.                   *)

\* The head of a sequence is one of its elements.
LEMMA HeadType == ASSUME NEW S, NEW s \in Seq(S), s # <<>> PROVE Head(s) \in S
  OBVIOUS

\* A thread that unlocks mApiMutex holds it, so that the depth stays a number.
LEMMA UnlockType ==
  ASSUME TypeOK, PlaceInv, ApiMutexInv,
         NEW t \in Threads, UnlockApi(t) \/ Join(t) \/ RenderLeave(t)
  PROVE  ApiTypeOK'
  <1>1. Holds(t) /\ (InSection(t) \/ inRender[t])
    BY DEF UnlockApi, Join, RenderLeave, Goto, Holds, InSection, PlaceInv
  <1>2. mApiMutex.depth \in Nat \ {0}
    BY <1>1 DEF ApiMutexInv, TypeOK, ApiTypeOK
  <1>3. Unlocked \in [owner : Threads \cup {None}, depth : Nat]
    BY <1>2 DEF Unlocked, TypeOK, ApiTypeOK
  <1>. QED
    BY <1>3 DEF UnlockApi, Join, RenderLeave, TypeOK, ApiTypeOK

\* Every step preserves the types of the mutexes, the mailbox and the answers.
LEMMA ApiTypeStep ==
  ASSUME TypeOK, PlaceInv, ApiMutexInv, Next
  PROVE  ApiTypeOK'
  <1> USE ThreadsOK, CallsOK, RpcTablesOK DEF TypeOK, ApiTypeOK, ThreadTypeOK,
         LoopTypeOK, Goto, AtRest, apiVars, lifeVars, loopVars, threadVars, history
  <1>1. ASSUME NEW t \in Threads, NEW call \in Calls \cup CallbackCalls,
               Invoke(t, call)
        PROVE  ApiTypeOK'
    BY <1>1 DEF Invoke, InApplication
  <1>2. ASSUME NEW t \in Threads, LockApi(t) PROVE ApiTypeOK'
    BY <1>2 DEF LockApi, LockedBy, CanLockApi
  <1>3. ASSUME NEW t \in Threads, LockMutex(t) PROVE ApiTypeOK'
    BY <1>3 DEF LockMutex
  <1>4. ASSUME NEW t \in Threads, Push(t) PROVE ApiTypeOK'
    <2>1. op[t] \in ApiCalls
      BY <1>4 DEF Push, PlaceInv, InCall
    <2>2. Msg(t) \in [cmd : Cmds, by : Threads]
      BY <2>1 DEF Msg
    <2>3. mMbox' \in Seq([cmd : Cmds, by : Threads])
      BY <1>4, <2>2 DEF Push
    <2>. QED
      BY <1>4, <2>3 DEF Push
  <1>5. ASSUME NEW t \in Threads, PushFails(t) PROVE ApiTypeOK'
    BY <1>5 DEF PushFails
  <1>6. ASSUME NEW t \in Threads, Wait(t) PROVE ApiTypeOK'
    BY <1>6 DEF Wait
  <1>7. ASSUME NEW t \in Threads, SpuriousWakeup(t) PROVE ApiTypeOK'
    BY <1>7 DEF SpuriousWakeup
  <1>8. ASSUME NEW t \in Threads, Relock(t) PROVE ApiTypeOK'
    BY <1>8 DEF Relock
  <1>9. ASSUME NEW t \in Threads, Take(t) PROVE ApiTypeOK'
    BY <1>9 DEF Take
  <1>10. ASSUME NEW t \in Threads, UnlockApi(t) PROVE ApiTypeOK'
    BY <1>10, UnlockType
  <1>11. ASSUME NEW t \in Threads, Rendering(t) PROVE ApiTypeOK'
    BY <1>11 DEF Rendering
  <1>12. ASSUME NEW t \in Threads, RenderEnter(t) PROVE ApiTypeOK'
    BY <1>12 DEF RenderEnter, LockedBy, CanLockApi
  <1>13. ASSUME NEW t \in Threads, RenderLeave(t) PROVE ApiTypeOK'
    BY <1>13, UnlockType
  <1>14. ASSUME NEW t \in Threads, Start(t) PROVE ApiTypeOK'
    <2>1. mMbox' \in Seq([cmd : Cmds, by : Threads])
      BY <1>14 DEF Start
    <2>. QED
      BY <1>14, <2>1 DEF Start
  <1>15. ASSUME NEW t \in Threads, StartReturns(t) PROVE ApiTypeOK'
    BY <1>15 DEF StartReturns
  <1>16. ASSUME NEW t \in Threads, Stop(t) PROVE ApiTypeOK'
    BY <1>16 DEF Stop, InApplication
  <1>17. ASSUME NEW t \in Threads, StopLoop(t) PROVE ApiTypeOK'
    BY <1>17 DEF StopLoop, LockedBy, CanLockApi
  <1>18. ASSUME NEW t \in Threads, Join(t) PROVE ApiTypeOK'
    BY <1>18, UnlockType
  <1>19. CASE Direct
    BY <1>19 DEF Direct
  <1>20. CASE LoopInit
    BY <1>20 DEF LoopInit
  <1>21. CASE Peek
    BY <1>21 DEF Peek
  <1>22. CASE Drained
    BY <1>22 DEF Drained
  <1>23. CASE Execute
    BY <1>23 DEF Execute
  <1>24. CASE Reply
    BY <1>24 DEF Reply
  <1>25. CASE SignalReply
    BY <1>25 DEF SignalReply, Signal
  <1>26. CASE LoopExit
    BY <1>26 DEF LoopExit
  <1>27. CASE CallbackBegin
    BY <1>27 DEF CallbackBegin
  <1>28. CASE CallbackEnd
    BY <1>28 DEF CallbackEnd
  <1>. QED
    BY <1>1, <1>2, <1>3, <1>4, <1>5, <1>6, <1>7, <1>8, <1>9, <1>10, <1>11, <1>12,
           <1>13, <1>14, <1>15, <1>16, <1>17, <1>18, <1>19, <1>20, <1>21, <1>22,
           <1>23, <1>24, <1>25, <1>26, <1>27, <1>28 DEF Next, ThreadStep, LoopStep

\* Every step preserves the types of the life-cycle flags.
LEMMA LifeTypeStep ==
  ASSUME TypeOK, Next
  PROVE  LifeTypeOK'
  <1> USE DEF TypeOK, LifeTypeOK, Goto, AtRest, apiVars, lifeVars, loopVars,
         threadVars, history
  <1>1. ASSUME NEW t \in Threads, NEW call \in Calls \cup CallbackCalls,
               Invoke(t, call)
        PROVE  LifeTypeOK'
    BY <1>1 DEF Invoke, InApplication
  <1>2. ASSUME NEW t \in Threads, LockApi(t) PROVE LifeTypeOK'
    BY <1>2 DEF LockApi, LockedBy, CanLockApi
  <1>3. ASSUME NEW t \in Threads, LockMutex(t) PROVE LifeTypeOK'
    BY <1>3 DEF LockMutex
  <1>4. ASSUME NEW t \in Threads, Push(t) PROVE LifeTypeOK'
    BY <1>4 DEF Push, Msg
  <1>5. ASSUME NEW t \in Threads, PushFails(t) PROVE LifeTypeOK'
    BY <1>5 DEF PushFails
  <1>6. ASSUME NEW t \in Threads, Wait(t) PROVE LifeTypeOK'
    BY <1>6 DEF Wait
  <1>7. ASSUME NEW t \in Threads, SpuriousWakeup(t) PROVE LifeTypeOK'
    BY <1>7 DEF SpuriousWakeup
  <1>8. ASSUME NEW t \in Threads, Relock(t) PROVE LifeTypeOK'
    BY <1>8 DEF Relock
  <1>9. ASSUME NEW t \in Threads, Take(t) PROVE LifeTypeOK'
    BY <1>9 DEF Take
  <1>10. ASSUME NEW t \in Threads, UnlockApi(t) PROVE LifeTypeOK'
    BY <1>10 DEF UnlockApi, Unlocked
  <1>11. ASSUME NEW t \in Threads, Rendering(t) PROVE LifeTypeOK'
    BY <1>11 DEF Rendering
  <1>12. ASSUME NEW t \in Threads, RenderEnter(t) PROVE LifeTypeOK'
    BY <1>12 DEF RenderEnter, LockedBy, CanLockApi
  <1>13. ASSUME NEW t \in Threads, RenderLeave(t) PROVE LifeTypeOK'
    BY <1>13 DEF RenderLeave, Unlocked
  <1>14. ASSUME NEW t \in Threads, Start(t) PROVE LifeTypeOK'
    BY <1>14 DEF Start
  <1>15. ASSUME NEW t \in Threads, StartReturns(t) PROVE LifeTypeOK'
    BY <1>15 DEF StartReturns
  <1>16. ASSUME NEW t \in Threads, Stop(t) PROVE LifeTypeOK'
    BY <1>16 DEF Stop, InApplication
  <1>17. ASSUME NEW t \in Threads, StopLoop(t) PROVE LifeTypeOK'
    BY <1>17 DEF StopLoop, LockedBy, CanLockApi
  <1>18. ASSUME NEW t \in Threads, Join(t) PROVE LifeTypeOK'
    BY <1>18 DEF Join, Unlocked
  <1>19. CASE Direct
    BY <1>19 DEF Direct
  <1>20. CASE LoopInit
    BY <1>20 DEF LoopInit
  <1>21. CASE Peek
    BY <1>21 DEF Peek
  <1>22. CASE Drained
    BY <1>22 DEF Drained
  <1>23. CASE Execute
    BY <1>23 DEF Execute
  <1>24. CASE Reply
    BY <1>24 DEF Reply
  <1>25. CASE SignalReply
    BY <1>25 DEF SignalReply, Signal
  <1>26. CASE LoopExit
    BY <1>26 DEF LoopExit
  <1>27. CASE CallbackBegin
    BY <1>27 DEF CallbackBegin
  <1>28. CASE CallbackEnd
    BY <1>28 DEF CallbackEnd
  <1>. QED
    BY <1>1, <1>2, <1>3, <1>4, <1>5, <1>6, <1>7, <1>8, <1>9, <1>10, <1>11, <1>12,
           <1>13, <1>14, <1>15, <1>16, <1>17, <1>18, <1>19, <1>20, <1>21, <1>22,
           <1>23, <1>24, <1>25, <1>26, <1>27, <1>28 DEF Next, ThreadStep, LoopStep

\* Every step preserves the types of the loop thread's variables.
LEMMA LoopTypeStep ==
  ASSUME TypeOK, Next
  PROVE  LoopTypeOK'
  <1> USE DEF TypeOK, ApiTypeOK, LoopTypeOK, HistoryTypeOK, LoopPcs, Goto, AtRest,
         apiVars, lifeVars, loopVars, threadVars, history
  <1>1. ASSUME NEW t \in Threads, NEW call \in Calls \cup CallbackCalls,
               Invoke(t, call)
        PROVE  LoopTypeOK'
    BY <1>1 DEF Invoke, InApplication
  <1>2. ASSUME NEW t \in Threads, LockApi(t) PROVE LoopTypeOK'
    BY <1>2 DEF LockApi, LockedBy, CanLockApi
  <1>3. ASSUME NEW t \in Threads, LockMutex(t) PROVE LoopTypeOK'
    BY <1>3 DEF LockMutex
  <1>4. ASSUME NEW t \in Threads, Push(t) PROVE LoopTypeOK'
    BY <1>4 DEF Push, Msg
  <1>5. ASSUME NEW t \in Threads, PushFails(t) PROVE LoopTypeOK'
    BY <1>5 DEF PushFails
  <1>6. ASSUME NEW t \in Threads, Wait(t) PROVE LoopTypeOK'
    BY <1>6 DEF Wait
  <1>7. ASSUME NEW t \in Threads, SpuriousWakeup(t) PROVE LoopTypeOK'
    BY <1>7 DEF SpuriousWakeup
  <1>8. ASSUME NEW t \in Threads, Relock(t) PROVE LoopTypeOK'
    BY <1>8 DEF Relock
  <1>9. ASSUME NEW t \in Threads, Take(t) PROVE LoopTypeOK'
    BY <1>9 DEF Take
  <1>10. ASSUME NEW t \in Threads, UnlockApi(t) PROVE LoopTypeOK'
    BY <1>10 DEF UnlockApi, Unlocked
  <1>11. ASSUME NEW t \in Threads, Rendering(t) PROVE LoopTypeOK'
    BY <1>11 DEF Rendering
  <1>12. ASSUME NEW t \in Threads, RenderEnter(t) PROVE LoopTypeOK'
    BY <1>12 DEF RenderEnter, LockedBy, CanLockApi
  <1>13. ASSUME NEW t \in Threads, RenderLeave(t) PROVE LoopTypeOK'
    BY <1>13 DEF RenderLeave, Unlocked
  <1>14. ASSUME NEW t \in Threads, Start(t) PROVE LoopTypeOK'
    BY <1>14 DEF Start
  <1>15. ASSUME NEW t \in Threads, StartReturns(t) PROVE LoopTypeOK'
    BY <1>15 DEF StartReturns
  <1>16. ASSUME NEW t \in Threads, Stop(t) PROVE LoopTypeOK'
    BY <1>16 DEF Stop, InApplication
  <1>17. ASSUME NEW t \in Threads, StopLoop(t) PROVE LoopTypeOK'
    BY <1>17 DEF StopLoop, LockedBy, CanLockApi
  <1>18. ASSUME NEW t \in Threads, Join(t) PROVE LoopTypeOK'
    BY <1>18 DEF Join, Unlocked
  <1>19. CASE Direct
    BY <1>19 DEF Direct
  <1>20. CASE LoopInit
    BY <1>20 DEF LoopInit
  <1>21. CASE Peek
    <2>1. Head(mMbox) \in [cmd : Cmds, by : Threads]
      BY <1>21, HeadType DEF Peek
    <2>. QED
      BY <1>21, <2>1 DEF Peek
  <1>22. CASE Drained
    BY <1>22 DEF Drained
  <1>23. CASE Execute
    BY <1>23 DEF Execute
  <1>24. CASE Reply
    BY <1>24 DEF Reply
  <1>25. CASE SignalReply
    BY <1>25 DEF SignalReply, Signal
  <1>26. CASE LoopExit
    BY <1>26 DEF LoopExit
  <1>27. CASE CallbackBegin
    BY <1>27 DEF CallbackBegin
  <1>28. CASE CallbackEnd
    BY <1>28 DEF CallbackEnd
  <1>. QED
    BY <1>1, <1>2, <1>3, <1>4, <1>5, <1>6, <1>7, <1>8, <1>9, <1>10, <1>11, <1>12,
           <1>13, <1>14, <1>15, <1>16, <1>17, <1>18, <1>19, <1>20, <1>21, <1>22,
           <1>23, <1>24, <1>25, <1>26, <1>27, <1>28 DEF Next, ThreadStep, LoopStep

\* Every step preserves the types of the threads' variables.
LEMMA ThreadTypeStep ==
  ASSUME TypeOK, PlaceInv, Next
  PROVE  ThreadTypeOK'
  <1> USE ThreadsOK, CallsOK, RpcTablesOK DEF TypeOK, ApiTypeOK, ThreadTypeOK,
         HistoryTypeOK, Pcs, Goto, AtRest, apiVars, lifeVars, loopVars, threadVars,
         history
  <1>1. ASSUME NEW t \in Threads, NEW call \in Calls \cup CallbackCalls,
               Invoke(t, call)
        PROVE  ThreadTypeOK'
    BY <1>1 DEF Invoke, InApplication
  <1>2. ASSUME NEW t \in Threads, LockApi(t) PROVE ThreadTypeOK'
    BY <1>2 DEF LockApi, LockedBy, CanLockApi
  <1>3. ASSUME NEW t \in Threads, LockMutex(t) PROVE ThreadTypeOK'
    BY <1>3 DEF LockMutex
  <1>4. ASSUME NEW t \in Threads, Push(t) PROVE ThreadTypeOK'
    BY <1>4 DEF Push, Msg
  <1>5. ASSUME NEW t \in Threads, PushFails(t) PROVE ThreadTypeOK'
    BY <1>5 DEF PushFails
  <1>6. ASSUME NEW t \in Threads, Wait(t) PROVE ThreadTypeOK'
    BY <1>6 DEF Wait
  <1>7. ASSUME NEW t \in Threads, SpuriousWakeup(t) PROVE ThreadTypeOK'
    BY <1>7 DEF SpuriousWakeup
  <1>8. ASSUME NEW t \in Threads, Relock(t) PROVE ThreadTypeOK'
    BY <1>8 DEF Relock
  <1>9. ASSUME NEW t \in Threads, Take(t) PROVE ThreadTypeOK'
    <2>1. ReadSlot(op[t]) \in Slots
      BY <1>9 DEF Take, PlaceInv, InCall
    <2>2. ret[ReadSlot(op[t])] \in Nat
      BY <2>1
    <2>. QED
      BY <1>9, <2>2 DEF Take
  <1>10. ASSUME NEW t \in Threads, UnlockApi(t) PROVE ThreadTypeOK'
    BY <1>10 DEF UnlockApi, Unlocked
  <1>11. ASSUME NEW t \in Threads, Rendering(t) PROVE ThreadTypeOK'
    BY <1>11 DEF Rendering
  <1>12. ASSUME NEW t \in Threads, RenderEnter(t) PROVE ThreadTypeOK'
    BY <1>12 DEF RenderEnter, LockedBy, CanLockApi
  <1>13. ASSUME NEW t \in Threads, RenderLeave(t) PROVE ThreadTypeOK'
    BY <1>13 DEF RenderLeave, Unlocked
  <1>14. ASSUME NEW t \in Threads, Start(t) PROVE ThreadTypeOK'
    BY <1>14 DEF Start
  <1>15. ASSUME NEW t \in Threads, StartReturns(t) PROVE ThreadTypeOK'
    BY <1>15 DEF StartReturns
  <1>16. ASSUME NEW t \in Threads, Stop(t) PROVE ThreadTypeOK'
    BY <1>16 DEF Stop, InApplication
  <1>17. ASSUME NEW t \in Threads, StopLoop(t) PROVE ThreadTypeOK'
    BY <1>17 DEF StopLoop, LockedBy, CanLockApi
  <1>18. ASSUME NEW t \in Threads, Join(t) PROVE ThreadTypeOK'
    BY <1>18 DEF Join, Unlocked
  <1>19. CASE Direct
    <2>1. version + 1 \in Nat
      OBVIOUS
    <2>. QED
      BY <1>19, <2>1 DEF Direct
  <1>20. CASE LoopInit
    BY <1>20 DEF LoopInit
  <1>21. CASE Peek
    BY <1>21 DEF Peek
  <1>22. CASE Drained
    BY <1>22 DEF Drained
  <1>23. CASE Execute
    BY <1>23 DEF Execute
  <1>24. CASE Reply
    BY <1>24 DEF Reply
  <1>25. CASE SignalReply
    BY <1>25 DEF SignalReply, Signal
  <1>26. CASE LoopExit
    BY <1>26 DEF LoopExit
  <1>27. CASE CallbackBegin
    BY <1>27 DEF CallbackBegin
  <1>28. CASE CallbackEnd
    BY <1>28 DEF CallbackEnd
  <1>. QED
    BY <1>1, <1>2, <1>3, <1>4, <1>5, <1>6, <1>7, <1>8, <1>9, <1>10, <1>11, <1>12,
           <1>13, <1>14, <1>15, <1>16, <1>17, <1>18, <1>19, <1>20, <1>21, <1>22,
           <1>23, <1>24, <1>25, <1>26, <1>27, <1>28 DEF Next, ThreadStep, LoopStep

\* Every step preserves the types of the history variables.
LEMMA HistoryTypeStep ==
  ASSUME TypeOK, Next
  PROVE  HistoryTypeOK'
  <1> USE DEF TypeOK, ThreadTypeOK, HistoryTypeOK, Goto, AtRest, apiVars, lifeVars,
         loopVars, threadVars, history
  <1>1. ASSUME NEW t \in Threads, NEW call \in Calls \cup CallbackCalls,
               Invoke(t, call)
        PROVE  HistoryTypeOK'
    BY <1>1 DEF Invoke, InApplication
  <1>2. ASSUME NEW t \in Threads, LockApi(t) PROVE HistoryTypeOK'
    BY <1>2 DEF LockApi, LockedBy, CanLockApi
  <1>3. ASSUME NEW t \in Threads, LockMutex(t) PROVE HistoryTypeOK'
    BY <1>3 DEF LockMutex
  <1>4. ASSUME NEW t \in Threads, Push(t) PROVE HistoryTypeOK'
    BY <1>4 DEF Push, Msg
  <1>5. ASSUME NEW t \in Threads, PushFails(t) PROVE HistoryTypeOK'
    BY <1>5 DEF PushFails
  <1>6. ASSUME NEW t \in Threads, Wait(t) PROVE HistoryTypeOK'
    BY <1>6 DEF Wait
  <1>7. ASSUME NEW t \in Threads, SpuriousWakeup(t) PROVE HistoryTypeOK'
    BY <1>7 DEF SpuriousWakeup
  <1>8. ASSUME NEW t \in Threads, Relock(t) PROVE HistoryTypeOK'
    BY <1>8 DEF Relock
  <1>9. ASSUME NEW t \in Threads, Take(t) PROVE HistoryTypeOK'
    BY <1>9 DEF Take
  <1>10. ASSUME NEW t \in Threads, UnlockApi(t) PROVE HistoryTypeOK'
    BY <1>10 DEF UnlockApi, Unlocked
  <1>11. ASSUME NEW t \in Threads, Rendering(t) PROVE HistoryTypeOK'
    BY <1>11 DEF Rendering
  <1>12. ASSUME NEW t \in Threads, RenderEnter(t) PROVE HistoryTypeOK'
    BY <1>12 DEF RenderEnter, LockedBy, CanLockApi
  <1>13. ASSUME NEW t \in Threads, RenderLeave(t) PROVE HistoryTypeOK'
    BY <1>13 DEF RenderLeave, Unlocked
  <1>14. ASSUME NEW t \in Threads, Start(t) PROVE HistoryTypeOK'
    BY <1>14 DEF Start
  <1>15. ASSUME NEW t \in Threads, StartReturns(t) PROVE HistoryTypeOK'
    BY <1>15 DEF StartReturns
  <1>16. ASSUME NEW t \in Threads, Stop(t) PROVE HistoryTypeOK'
    BY <1>16 DEF Stop, InApplication
  <1>17. ASSUME NEW t \in Threads, StopLoop(t) PROVE HistoryTypeOK'
    BY <1>17 DEF StopLoop, LockedBy, CanLockApi
  <1>18. ASSUME NEW t \in Threads, Join(t) PROVE HistoryTypeOK'
    BY <1>18 DEF Join, Unlocked
  <1>19. CASE Direct
    <2>1. version + 1 \in Nat
      OBVIOUS
    <2>. QED
      BY <1>19, <2>1 DEF Direct
  <1>20. CASE LoopInit
    BY <1>20 DEF LoopInit
  <1>21. CASE Peek
    BY <1>21 DEF Peek
  <1>22. CASE Drained
    BY <1>22 DEF Drained
  <1>23. CASE Execute
    <2>1. version + 1 \in Nat
      OBVIOUS
    <2>. QED
      BY <1>23, <2>1 DEF Execute
  <1>24. CASE Reply
    BY <1>24 DEF Reply
  <1>25. CASE SignalReply
    BY <1>25 DEF SignalReply, Signal
  <1>26. CASE LoopExit
    BY <1>26 DEF LoopExit
  <1>27. CASE CallbackBegin
    BY <1>27 DEF CallbackBegin
  <1>28. CASE CallbackEnd
    BY <1>28 DEF CallbackEnd
  <1>. QED
    BY <1>1, <1>2, <1>3, <1>4, <1>5, <1>6, <1>7, <1>8, <1>9, <1>10, <1>11, <1>12,
           <1>13, <1>14, <1>15, <1>16, <1>17, <1>18, <1>19, <1>20, <1>21, <1>22,
           <1>23, <1>24, <1>25, <1>26, <1>27, <1>28 DEF Next, ThreadStep, LoopStep

-----------------------------------------------------------------------------
(* Every step preserves each of the other conjuncts of the invariant.      *)

\* Threads are where their role allows.
LEMMA PlaceStep ==
  ASSUME TypeOK, PlaceInv, Next
  PROVE  PlaceInv'
  <1> USE ThreadsOK, CallsOK, RpcTablesOK DEF Threads, PlaceInv, Starting, TypeOK,
         ThreadTypeOK, InCall, Pcs, Goto, AtRest, apiVars, lifeVars, loopVars,
         threadVars, history
  <1>1. ASSUME NEW t \in Threads, NEW call \in Calls \cup CallbackCalls,
               Invoke(t, call)
        PROVE  PlaceInv'
    BY <1>1 DEF Invoke, InApplication
  <1>2. ASSUME NEW t \in Threads, LockApi(t) PROVE PlaceInv'
    BY <1>2 DEF LockApi, LockedBy, CanLockApi
  <1>3. ASSUME NEW t \in Threads, LockMutex(t) PROVE PlaceInv'
    BY <1>3 DEF LockMutex
  <1>4. ASSUME NEW t \in Threads, Push(t) PROVE PlaceInv'
    BY <1>4 DEF Push, Msg
  <1>5. ASSUME NEW t \in Threads, PushFails(t) PROVE PlaceInv'
    BY <1>5 DEF PushFails
  <1>6. ASSUME NEW t \in Threads, Wait(t) PROVE PlaceInv'
    BY <1>6 DEF Wait
  <1>7. ASSUME NEW t \in Threads, SpuriousWakeup(t) PROVE PlaceInv'
    BY <1>7 DEF SpuriousWakeup
  <1>8. ASSUME NEW t \in Threads, Relock(t) PROVE PlaceInv'
    BY <1>8 DEF Relock
  <1>9. ASSUME NEW t \in Threads, Take(t) PROVE PlaceInv'
    BY <1>9 DEF Take
  <1>10. ASSUME NEW t \in Threads, UnlockApi(t) PROVE PlaceInv'
    BY <1>10 DEF UnlockApi, Unlocked
  <1>11. ASSUME NEW t \in Threads, Rendering(t) PROVE PlaceInv'
    BY <1>11 DEF Rendering
  <1>12. ASSUME NEW t \in Threads, RenderEnter(t) PROVE PlaceInv'
    BY <1>12 DEF RenderEnter, LockedBy, CanLockApi
  <1>13. ASSUME NEW t \in Threads, RenderLeave(t) PROVE PlaceInv'
    BY <1>13 DEF RenderLeave, Unlocked
  <1>14. ASSUME NEW t \in Threads, Start(t) PROVE PlaceInv'
    BY <1>14 DEF Start
  <1>15. ASSUME NEW t \in Threads, StartReturns(t) PROVE PlaceInv'
    BY <1>15 DEF StartReturns
  <1>16. ASSUME NEW t \in Threads, Stop(t) PROVE PlaceInv'
    BY <1>16 DEF Stop, InApplication
  <1>17. ASSUME NEW t \in Threads, StopLoop(t) PROVE PlaceInv'
    BY <1>17 DEF StopLoop, LockedBy, CanLockApi
  <1>18. ASSUME NEW t \in Threads, Join(t) PROVE PlaceInv'
    BY <1>18 DEF Join, Unlocked
  <1>19. CASE Direct
    BY <1>19 DEF Direct
  <1>20. CASE LoopInit
    BY <1>20 DEF LoopInit
  <1>21. CASE Peek
    BY <1>21 DEF Peek
  <1>22. CASE Drained
    BY <1>22 DEF Drained
  <1>23. CASE Execute
    BY <1>23 DEF Execute
  <1>24. CASE Reply
    BY <1>24 DEF Reply
  <1>25. CASE SignalReply
    BY <1>25 DEF SignalReply, Signal
  <1>26. CASE LoopExit
    BY <1>26 DEF LoopExit
  <1>27. CASE CallbackBegin
    BY <1>27 DEF CallbackBegin
  <1>28. CASE CallbackEnd
    BY <1>28 DEF CallbackEnd
  <1>. QED
    BY <1>1, <1>2, <1>3, <1>4, <1>5, <1>6, <1>7, <1>8, <1>9, <1>10, <1>11, <1>12,
           <1>13, <1>14, <1>15, <1>16, <1>17, <1>18, <1>19, <1>20, <1>21, <1>22,
           <1>23, <1>24, <1>25, <1>26, <1>27, <1>28 DEF Next, ThreadStep, LoopStep

\* mApiMutex belongs to the thread between its lock and its unlock, at the depth
\* of its nested calls.
LEMMA ApiMutexStep ==
  ASSUME TypeOK, PlaceInv, ApiMutexInv, Next
  PROVE  ApiMutexInv'
  <1> USE ThreadsOK DEF ApiMutexInv, Holds, InSection, Waiting, PlaceInv, TypeOK,
         ApiTypeOK, ThreadTypeOK, InCall, Goto, AtRest, apiVars, lifeVars, loopVars,
         threadVars, history
  <1>1. ASSUME NEW t \in Threads, NEW call \in Calls \cup CallbackCalls,
               Invoke(t, call)
        PROVE  ApiMutexInv'
    BY <1>1 DEF Invoke, InApplication
  <1>2. ASSUME NEW t \in Threads, LockApi(t) PROVE ApiMutexInv'
    BY <1>2 DEF LockApi, LockedBy, CanLockApi
  <1>3. ASSUME NEW t \in Threads, LockMutex(t) PROVE ApiMutexInv'
    BY <1>3 DEF LockMutex
  <1>4. ASSUME NEW t \in Threads, Push(t) PROVE ApiMutexInv'
    BY <1>4 DEF Push, Msg
  <1>5. ASSUME NEW t \in Threads, PushFails(t) PROVE ApiMutexInv'
    BY <1>5 DEF PushFails
  <1>6. ASSUME NEW t \in Threads, Wait(t) PROVE ApiMutexInv'
    BY <1>6 DEF Wait
  <1>7. ASSUME NEW t \in Threads, SpuriousWakeup(t) PROVE ApiMutexInv'
    BY <1>7 DEF SpuriousWakeup
  <1>8. ASSUME NEW t \in Threads, Relock(t) PROVE ApiMutexInv'
    BY <1>8 DEF Relock
  <1>9. ASSUME NEW t \in Threads, Take(t) PROVE ApiMutexInv'
    BY <1>9 DEF Take
  <1>10. ASSUME NEW t \in Threads, UnlockApi(t) PROVE ApiMutexInv'
    BY <1>10 DEF UnlockApi, Unlocked
  <1>11. ASSUME NEW t \in Threads, Rendering(t) PROVE ApiMutexInv'
    BY <1>11 DEF Rendering
  <1>12. ASSUME NEW t \in Threads, RenderEnter(t) PROVE ApiMutexInv'
    BY <1>12 DEF RenderEnter, LockedBy, CanLockApi
  <1>13. ASSUME NEW t \in Threads, RenderLeave(t) PROVE ApiMutexInv'
    BY <1>13 DEF RenderLeave, Unlocked
  <1>14. ASSUME NEW t \in Threads, Start(t) PROVE ApiMutexInv'
    BY <1>14 DEF Start
  <1>15. ASSUME NEW t \in Threads, StartReturns(t) PROVE ApiMutexInv'
    BY <1>15 DEF StartReturns
  <1>16. ASSUME NEW t \in Threads, Stop(t) PROVE ApiMutexInv'
    BY <1>16 DEF Stop, InApplication
  <1>17. ASSUME NEW t \in Threads, StopLoop(t) PROVE ApiMutexInv'
    BY <1>17 DEF StopLoop, LockedBy, CanLockApi
  <1>18. ASSUME NEW t \in Threads, Join(t) PROVE ApiMutexInv'
    BY <1>18 DEF Join, Unlocked
  <1>19. CASE Direct
    BY <1>19 DEF Direct
  <1>20. CASE LoopInit
    BY <1>20 DEF LoopInit
  <1>21. CASE Peek
    BY <1>21 DEF Peek
  <1>22. CASE Drained
    BY <1>22 DEF Drained
  <1>23. CASE Execute
    BY <1>23 DEF Execute
  <1>24. CASE Reply
    BY <1>24 DEF Reply
  <1>25. CASE SignalReply
    BY <1>25 DEF SignalReply, Signal
  <1>26. CASE LoopExit
    BY <1>26 DEF LoopExit
  <1>27. CASE CallbackBegin
    BY <1>27 DEF CallbackBegin
  <1>28. CASE CallbackEnd
    BY <1>28 DEF CallbackEnd
  <1>. QED
    BY <1>1, <1>2, <1>3, <1>4, <1>5, <1>6, <1>7, <1>8, <1>9, <1>10, <1>11, <1>12,
           <1>13, <1>14, <1>15, <1>16, <1>17, <1>18, <1>19, <1>20, <1>21, <1>22,
           <1>23, <1>24, <1>25, <1>26, <1>27, <1>28 DEF Next, ThreadStep, LoopStep

\* mMutex belongs to the thread that posts or checks the flag.
LEMMA MutexStep ==
  ASSUME TypeOK, PlaceInv, MutexInv, Next
  PROVE  MutexInv'
  <1> USE ThreadsOK DEF MutexInv, TypeOK, ApiTypeOK, ThreadTypeOK, Goto, AtRest,
         apiVars, lifeVars, loopVars, threadVars, history
  <1>1. ASSUME NEW t \in Threads, NEW call \in Calls \cup CallbackCalls,
               Invoke(t, call)
        PROVE  MutexInv'
    BY <1>1 DEF Invoke, InApplication
  <1>2. ASSUME NEW t \in Threads, LockApi(t) PROVE MutexInv'
    BY <1>2 DEF LockApi, LockedBy, CanLockApi
  <1>3. ASSUME NEW t \in Threads, LockMutex(t) PROVE MutexInv'
    BY <1>3 DEF LockMutex
  <1>4. ASSUME NEW t \in Threads, Push(t) PROVE MutexInv'
    BY <1>4 DEF Push, Msg
  <1>5. ASSUME NEW t \in Threads, PushFails(t) PROVE MutexInv'
    BY <1>5 DEF PushFails
  <1>6. ASSUME NEW t \in Threads, Wait(t) PROVE MutexInv'
    BY <1>6 DEF Wait
  <1>7. ASSUME NEW t \in Threads, SpuriousWakeup(t) PROVE MutexInv'
    BY <1>7 DEF SpuriousWakeup
  <1>8. ASSUME NEW t \in Threads, Relock(t) PROVE MutexInv'
    BY <1>8 DEF Relock
  <1>9. ASSUME NEW t \in Threads, Take(t) PROVE MutexInv'
    BY <1>9 DEF Take
  <1>10. ASSUME NEW t \in Threads, UnlockApi(t) PROVE MutexInv'
    BY <1>10 DEF UnlockApi, Unlocked
  <1>11. ASSUME NEW t \in Threads, Rendering(t) PROVE MutexInv'
    BY <1>11 DEF Rendering
  <1>12. ASSUME NEW t \in Threads, RenderEnter(t) PROVE MutexInv'
    BY <1>12 DEF RenderEnter, LockedBy, CanLockApi
  <1>13. ASSUME NEW t \in Threads, RenderLeave(t) PROVE MutexInv'
    BY <1>13 DEF RenderLeave, Unlocked
  <1>14. ASSUME NEW t \in Threads, Start(t) PROVE MutexInv'
    BY <1>14 DEF Start
  <1>15. ASSUME NEW t \in Threads, StartReturns(t) PROVE MutexInv'
    BY <1>15 DEF StartReturns
  <1>16. ASSUME NEW t \in Threads, Stop(t) PROVE MutexInv'
    BY <1>16 DEF Stop, InApplication
  <1>17. ASSUME NEW t \in Threads, StopLoop(t) PROVE MutexInv'
    BY <1>17 DEF StopLoop, LockedBy, CanLockApi
  <1>18. ASSUME NEW t \in Threads, Join(t) PROVE MutexInv'
    BY <1>18 DEF Join, Unlocked
  <1>19. CASE Direct
    BY <1>19 DEF Direct
  <1>20. CASE LoopInit
    BY <1>20 DEF LoopInit
  <1>21. CASE Peek
    BY <1>21 DEF Peek
  <1>22. CASE Drained
    BY <1>22 DEF Drained
  <1>23. CASE Execute
    BY <1>23 DEF Execute
  <1>24. CASE Reply
    BY <1>24 DEF Reply
  <1>25. CASE SignalReply
    BY <1>25 DEF SignalReply, Signal
  <1>26. CASE LoopExit
    BY <1>26 DEF LoopExit
  <1>27. CASE CallbackBegin
    BY <1>27 DEF CallbackBegin
  <1>28. CASE CallbackEnd
    BY <1>28 DEF CallbackEnd
  <1>. QED
    BY <1>1, <1>2, <1>3, <1>4, <1>5, <1>6, <1>7, <1>8, <1>9, <1>10, <1>11, <1>12,
           <1>13, <1>14, <1>15, <1>16, <1>17, <1>18, <1>19, <1>20, <1>21, <1>22,
           <1>23, <1>24, <1>25, <1>26, <1>27, <1>28 DEF Next, ThreadStep, LoopStep

\* start() is alone in the API.
LEMMA StartStep ==
  ASSUME TypeOK, PlaceInv, StartInv, ExchangeInv, Next
  PROVE  StartInv'
  <1> USE ThreadsOK DEF StartInv, Starting, PlaceInv, TypeOK, LifeTypeOK,
         ThreadTypeOK, LoopTypeOK, Goto, AtRest, apiVars, lifeVars, loopVars,
         threadVars, history
  <1>1. ASSUME NEW t \in Threads, NEW call \in Calls \cup CallbackCalls,
               Invoke(t, call)
        PROVE  StartInv'
    BY <1>1 DEF Invoke, InApplication
  <1>2. ASSUME NEW t \in Threads, LockApi(t) PROVE StartInv'
    BY <1>2 DEF LockApi, LockedBy, CanLockApi
  <1>3. ASSUME NEW t \in Threads, LockMutex(t) PROVE StartInv'
    BY <1>3 DEF LockMutex
  <1>4. ASSUME NEW t \in Threads, Push(t) PROVE StartInv'
    BY <1>4 DEF Push, Msg
  <1>5. ASSUME NEW t \in Threads, PushFails(t) PROVE StartInv'
    BY <1>5 DEF PushFails
  <1>6. ASSUME NEW t \in Threads, Wait(t) PROVE StartInv'
    BY <1>6 DEF Wait
  <1>7. ASSUME NEW t \in Threads, SpuriousWakeup(t) PROVE StartInv'
    BY <1>7 DEF SpuriousWakeup
  <1>8. ASSUME NEW t \in Threads, Relock(t) PROVE StartInv'
    BY <1>8 DEF Relock
  <1>9. ASSUME NEW t \in Threads, Take(t) PROVE StartInv'
    BY <1>9 DEF Take
  <1>10. ASSUME NEW t \in Threads, UnlockApi(t) PROVE StartInv'
    BY <1>10 DEF UnlockApi, Unlocked
  <1>11. ASSUME NEW t \in Threads, Rendering(t) PROVE StartInv'
    BY <1>11 DEF Rendering
  <1>12. ASSUME NEW t \in Threads, RenderEnter(t) PROVE StartInv'
    BY <1>12 DEF RenderEnter, LockedBy, CanLockApi
  <1>13. ASSUME NEW t \in Threads, RenderLeave(t) PROVE StartInv'
    BY <1>13 DEF RenderLeave, Unlocked
  <1>14. ASSUME NEW t \in Threads, Start(t) PROVE StartInv'
    BY <1>14 DEF Start
  <1>15. ASSUME NEW t \in Threads, StartReturns(t) PROVE StartInv'
    BY <1>15 DEF StartReturns
  <1>16. ASSUME NEW t \in Threads, Stop(t) PROVE StartInv'
    BY <1>16 DEF Stop, InApplication
  <1>17. ASSUME NEW t \in Threads, StopLoop(t) PROVE StartInv'
    BY <1>17 DEF StopLoop, LockedBy, CanLockApi
  <1>18. ASSUME NEW t \in Threads, Join(t) PROVE StartInv'
    BY <1>18 DEF Join, Unlocked
  <1>19. CASE Direct
    BY <1>19 DEF Direct
  <1>20. CASE LoopInit
    BY <1>20 DEF LoopInit
  <1>21. CASE Peek
    <2>1. PICK t \in Threads : Waiting(t)
      BY <1>21, InMailbox DEF Peek
    <2>. QED
      BY <1>21, <2>1 DEF Peek, Waiting
  <1>22. CASE Drained
    BY <1>22 DEF Drained
  <1>23. CASE Execute
    BY <1>23 DEF Execute
  <1>24. CASE Reply
    BY <1>24 DEF Reply
  <1>25. CASE SignalReply
    BY <1>25 DEF SignalReply, Signal
  <1>26. CASE LoopExit
    BY <1>26 DEF LoopExit
  <1>27. CASE CallbackBegin
    BY <1>27 DEF CallbackBegin
  <1>28. CASE CallbackEnd
    BY <1>28 DEF CallbackEnd
  <1>. QED
    BY <1>1, <1>2, <1>3, <1>4, <1>5, <1>6, <1>7, <1>8, <1>9, <1>10, <1>11, <1>12,
           <1>13, <1>14, <1>15, <1>16, <1>17, <1>18, <1>19, <1>20, <1>21, <1>22,
           <1>23, <1>24, <1>25, <1>26, <1>27, <1>28 DEF Next, ThreadStep, LoopStep

\* The loop thread is created by a start() that waits for it.
LEMMA InitLoopStep ==
  ASSUME TypeOK, PlaceInv, StartInv, InitLoopInv, MutexInv, Next
  PROVE  InitLoopInv'
  <1> USE ThreadsOK DEF InitLoopInv, Starting, PlaceInv, StartInv, TypeOK,
         LifeTypeOK, ThreadTypeOK, LoopTypeOK, Goto, AtRest, apiVars, lifeVars,
         loopVars, threadVars, history
  <1>1. ASSUME NEW t \in Threads, NEW call \in Calls \cup CallbackCalls,
               Invoke(t, call)
        PROVE  InitLoopInv'
    BY <1>1 DEF Invoke, InApplication
  <1>2. ASSUME NEW t \in Threads, LockApi(t) PROVE InitLoopInv'
    BY <1>2 DEF LockApi, LockedBy, CanLockApi
  <1>3. ASSUME NEW t \in Threads, LockMutex(t) PROVE InitLoopInv'
    BY <1>3 DEF LockMutex
  <1>4. ASSUME NEW t \in Threads, Push(t) PROVE InitLoopInv'
    BY <1>4 DEF Push, Msg
  <1>5. ASSUME NEW t \in Threads, PushFails(t) PROVE InitLoopInv'
    BY <1>5 DEF PushFails
  <1>6. ASSUME NEW t \in Threads, Wait(t) PROVE InitLoopInv'
    BY <1>6 DEF Wait
  <1>7. ASSUME NEW t \in Threads, SpuriousWakeup(t) PROVE InitLoopInv'
    BY <1>7 DEF SpuriousWakeup
  <1>8. ASSUME NEW t \in Threads, Relock(t) PROVE InitLoopInv'
    BY <1>8 DEF Relock
  <1>9. ASSUME NEW t \in Threads, Take(t) PROVE InitLoopInv'
    BY <1>9 DEF Take
  <1>10. ASSUME NEW t \in Threads, UnlockApi(t) PROVE InitLoopInv'
    BY <1>10 DEF UnlockApi, Unlocked
  <1>11. ASSUME NEW t \in Threads, Rendering(t) PROVE InitLoopInv'
    BY <1>11 DEF Rendering
  <1>12. ASSUME NEW t \in Threads, RenderEnter(t) PROVE InitLoopInv'
    BY <1>12 DEF RenderEnter, LockedBy, CanLockApi
  <1>13. ASSUME NEW t \in Threads, RenderLeave(t) PROVE InitLoopInv'
    BY <1>13 DEF RenderLeave, Unlocked
  <1>14. ASSUME NEW t \in Threads, Start(t) PROVE InitLoopInv'
    BY <1>14 DEF Start
  <1>15. ASSUME NEW t \in Threads, StartReturns(t) PROVE InitLoopInv'
    BY <1>15 DEF StartReturns
  <1>16. ASSUME NEW t \in Threads, Stop(t) PROVE InitLoopInv'
    BY <1>16 DEF Stop, InApplication
  <1>17. ASSUME NEW t \in Threads, StopLoop(t) PROVE InitLoopInv'
    BY <1>17 DEF StopLoop, LockedBy, CanLockApi
  <1>18. ASSUME NEW t \in Threads, Join(t) PROVE InitLoopInv'
    BY <1>18 DEF Join, Unlocked
  <1>19. CASE Direct
    BY <1>19 DEF Direct
  <1>20. CASE LoopInit
    BY <1>20 DEF LoopInit
  <1>21. CASE Peek
    BY <1>21 DEF Peek
  <1>22. CASE Drained
    BY <1>22 DEF Drained
  <1>23. CASE Execute
    BY <1>23 DEF Execute
  <1>24. CASE Reply
    BY <1>24 DEF Reply
  <1>25. CASE SignalReply
    BY <1>25 DEF SignalReply, Signal
  <1>26. CASE LoopExit
    BY <1>26 DEF LoopExit
  <1>27. CASE CallbackBegin
    BY <1>27 DEF CallbackBegin
  <1>28. CASE CallbackEnd
    BY <1>28 DEF CallbackEnd
  <1>. QED
    BY <1>1, <1>2, <1>3, <1>4, <1>5, <1>6, <1>7, <1>8, <1>9, <1>10, <1>11, <1>12,
           <1>13, <1>14, <1>15, <1>16, <1>17, <1>18, <1>19, <1>20, <1>21, <1>22,
           <1>23, <1>24, <1>25, <1>26, <1>27, <1>28 DEF Next, ThreadStep, LoopStep

\* The flag stays down from its reset to the command that is posted next.
LEMMA ArmedStep ==
  ASSUME TypeOK, MutexInv, ArmedInv, Next
  PROVE  ArmedInv'
  <1> USE ThreadsOK DEF ArmedInv, MutexInv, TypeOK, ThreadTypeOK, Goto, AtRest,
         apiVars, lifeVars, loopVars, threadVars, history
  <1>1. ASSUME NEW t \in Threads, NEW call \in Calls \cup CallbackCalls,
               Invoke(t, call)
        PROVE  ArmedInv'
    BY <1>1 DEF Invoke, InApplication
  <1>2. ASSUME NEW t \in Threads, LockApi(t) PROVE ArmedInv'
    BY <1>2 DEF LockApi, LockedBy, CanLockApi
  <1>3. ASSUME NEW t \in Threads, LockMutex(t) PROVE ArmedInv'
    BY <1>3 DEF LockMutex
  <1>4. ASSUME NEW t \in Threads, Push(t) PROVE ArmedInv'
    BY <1>4 DEF Push, Msg
  <1>5. ASSUME NEW t \in Threads, PushFails(t) PROVE ArmedInv'
    BY <1>5 DEF PushFails
  <1>6. ASSUME NEW t \in Threads, Wait(t) PROVE ArmedInv'
    BY <1>6 DEF Wait
  <1>7. ASSUME NEW t \in Threads, SpuriousWakeup(t) PROVE ArmedInv'
    BY <1>7 DEF SpuriousWakeup
  <1>8. ASSUME NEW t \in Threads, Relock(t) PROVE ArmedInv'
    BY <1>8 DEF Relock
  <1>9. ASSUME NEW t \in Threads, Take(t) PROVE ArmedInv'
    BY <1>9 DEF Take
  <1>10. ASSUME NEW t \in Threads, UnlockApi(t) PROVE ArmedInv'
    BY <1>10 DEF UnlockApi, Unlocked
  <1>11. ASSUME NEW t \in Threads, Rendering(t) PROVE ArmedInv'
    BY <1>11 DEF Rendering
  <1>12. ASSUME NEW t \in Threads, RenderEnter(t) PROVE ArmedInv'
    BY <1>12 DEF RenderEnter, LockedBy, CanLockApi
  <1>13. ASSUME NEW t \in Threads, RenderLeave(t) PROVE ArmedInv'
    BY <1>13 DEF RenderLeave, Unlocked
  <1>14. ASSUME NEW t \in Threads, Start(t) PROVE ArmedInv'
    BY <1>14 DEF Start
  <1>15. ASSUME NEW t \in Threads, StartReturns(t) PROVE ArmedInv'
    BY <1>15 DEF StartReturns
  <1>16. ASSUME NEW t \in Threads, Stop(t) PROVE ArmedInv'
    BY <1>16 DEF Stop, InApplication
  <1>17. ASSUME NEW t \in Threads, StopLoop(t) PROVE ArmedInv'
    BY <1>17 DEF StopLoop, LockedBy, CanLockApi
  <1>18. ASSUME NEW t \in Threads, Join(t) PROVE ArmedInv'
    BY <1>18 DEF Join, Unlocked
  <1>19. CASE Direct
    BY <1>19 DEF Direct
  <1>20. CASE LoopInit
    BY <1>20 DEF LoopInit
  <1>21. CASE Peek
    BY <1>21 DEF Peek
  <1>22. CASE Drained
    BY <1>22 DEF Drained
  <1>23. CASE Execute
    BY <1>23 DEF Execute
  <1>24. CASE Reply
    BY <1>24 DEF Reply
  <1>25. CASE SignalReply
    BY <1>25 DEF SignalReply, Signal
  <1>26. CASE LoopExit
    BY <1>26 DEF LoopExit
  <1>27. CASE CallbackBegin
    BY <1>27 DEF CallbackBegin
  <1>28. CASE CallbackEnd
    BY <1>28 DEF CallbackEnd
  <1>. QED
    BY <1>1, <1>2, <1>3, <1>4, <1>5, <1>6, <1>7, <1>8, <1>9, <1>10, <1>11, <1>12,
           <1>13, <1>14, <1>15, <1>16, <1>17, <1>18, <1>19, <1>20, <1>21, <1>22,
           <1>23, <1>24, <1>25, <1>26, <1>27, <1>28 DEF Next, ThreadStep, LoopStep

\* A call that waits for nobody else's answer finds the mailbox empty.
LEMMA PushedMailbox ==
  ASSUME NEW t \in Threads, ApiMutexInv, ExchangeInv, Push(t)
  PROVE  mMbox' = <<Msg(t)>> /\ Msg(t)' = Msg(t) /\ ~Serving
  <1>1. \A u \in Threads : ~Waiting(u)
    BY SMTT(60) DEF Push, Goto, ApiMutexInv, Holds, InSection, Waiting
  <1>2. mMbox = <<>> /\ ~Serving
    BY <1>1 DEF ExchangeInv
  <1>. QED
    BY <1>2 DEF Push, Msg

\* The command of the waiting call is in one place.
LEMMA ExchangeStep ==
  ASSUME AllMatched, TypeOK, PlaceInv, ApiMutexInv, MutexInv, StartInv, InitLoopInv,
         ArmedInv, HistoryInv, ExchangeInv, Next
  PROVE  ExchangeInv'
  <1> USE DEF ExchangeInv, Posted, Served, Executed, Answered, Waiting, Serving,
         PlaceInv, TypeOK, ThreadTypeOK, Msg, Goto, AtRest, apiVars, lifeVars,
         loopVars, threadVars, history
  <1>1. ASSUME NEW t \in Threads, NEW call \in Calls \cup CallbackCalls,
               Invoke(t, call)
        PROVE  ExchangeInv'
    BY <1>1 DEF Invoke, InApplication
  <1>2. ASSUME NEW t \in Threads, LockApi(t) PROVE ExchangeInv'
    BY <1>2 DEF LockApi, LockedBy, CanLockApi
  <1>3. ASSUME NEW t \in Threads, LockMutex(t) PROVE ExchangeInv'
    <2>1. \A u \in Threads : ~Waiting(u)
      BY <1>3 DEF LockMutex, ApiMutexInv, Holds, InSection
    <2>. QED
      BY <1>3, <2>1 DEF LockMutex
  <1>4. ASSUME NEW t \in Threads, Push(t) PROVE ExchangeInv'
    <2>1. \A u \in Threads : ~Waiting(u)
      BY <1>4 DEF Push, ApiMutexInv, Holds, InSection
    <2>2. \A u \in Threads : Waiting(u)' => u = t
      BY <1>4, <2>1 DEF Push
    <2>3. Waiting(t)'
      BY <1>4 DEF Push
    <2>4. Posted(t)'
      <3>1. mMbox' = <<Msg(t)>> /\ Msg(t)' = Msg(t)
        BY <1>4, PushedMailbox
      <3>2. ver[t] = 0 /\ ~mRetValReady
        BY <1>4 DEF Push, HistoryInv, ArmedInv
      <3>. QED
        BY <1>4, <2>1, <3>1, <3>2 DEF Push
    <2>. QED
      BY <2>2, <2>3, <2>4
  <1>5. ASSUME NEW t \in Threads, PushFails(t) PROVE ExchangeInv'
    BY <1>5 DEF PushFails
  <1>6. ASSUME NEW t \in Threads, Wait(t) PROVE ExchangeInv'
    BY <1>6 DEF Wait
  <1>7. ASSUME NEW t \in Threads, SpuriousWakeup(t) PROVE ExchangeInv'
    BY <1>7 DEF SpuriousWakeup
  <1>8. ASSUME NEW t \in Threads, Relock(t) PROVE ExchangeInv'
    BY <1>8 DEF Relock
  <1>9. ASSUME NEW t \in Threads, Take(t) PROVE ExchangeInv'
    <2>1. Waiting(t) /\ Answered(t)
      BY <1>9 DEF Take
    <2>2. \A u \in Threads : ~Waiting(u)'
      BY <1>9, <2>1, OneWaiter DEF Take
    <2>. QED
      BY <1>9, <2>1, <2>2 DEF Take
  <1>10. ASSUME NEW t \in Threads, UnlockApi(t) PROVE ExchangeInv'
    BY <1>10 DEF UnlockApi, Unlocked
  <1>11. ASSUME NEW t \in Threads, Rendering(t) PROVE ExchangeInv'
    BY <1>11 DEF Rendering
  <1>12. ASSUME NEW t \in Threads, RenderEnter(t) PROVE ExchangeInv'
    BY <1>12 DEF RenderEnter, LockedBy, CanLockApi
  <1>13. ASSUME NEW t \in Threads, RenderLeave(t) PROVE ExchangeInv'
    BY <1>13 DEF RenderLeave, Unlocked
  <1>14. ASSUME NEW t \in Threads, Start(t) PROVE ExchangeInv'
    BY <1>14 DEF Start
  <1>15. ASSUME NEW t \in Threads, StartReturns(t) PROVE ExchangeInv'
    <2>1. Starting(t) /\ \A u \in Threads : ~Waiting(u)
      BY <1>15 DEF StartReturns, StartInv, Starting
    <2>2. \A u \in Threads : ~Waiting(u)'
      BY <1>15, <2>1 DEF StartReturns
    <2>. QED
      BY <1>15, <2>1, <2>2 DEF StartReturns
  <1>16. ASSUME NEW t \in Threads, Stop(t) PROVE ExchangeInv'
    BY <1>16 DEF Stop, InApplication
  <1>17. ASSUME NEW t \in Threads, StopLoop(t) PROVE ExchangeInv'
    BY <1>17 DEF StopLoop, LockedBy, CanLockApi
  <1>18. ASSUME NEW t \in Threads, Join(t) PROVE ExchangeInv'
    BY <1>18 DEF Join, Unlocked
  <1>19. CASE Direct
    BY <1>19 DEF Direct
  <1>20. CASE LoopInit
    <2>1. PICK t \in Threads : Starting(t)
      BY <1>20 DEF LoopInit, InitLoopInv
    <2>2. \A u \in Threads : ~Waiting(u) /\ ~Waiting(u)'
      BY <1>20, <2>1 DEF LoopInit, StartInv, Starting
    <2>. QED
      BY <1>20, <2>2 DEF LoopInit
  <1>21. CASE Peek
    <2>1. PICK t \in Threads : Waiting(t) /\ Posted(t)
      BY <1>21, InMailbox DEF Peek
    <2>2. Served(t)'
      BY <1>21, <2>1 DEF Peek
    <2>3. \A u \in Threads : Waiting(u)' <=> Waiting(u)
      BY <1>21 DEF Peek
    <2>. QED
      BY <2>1, <2>2, <2>3, OneWaiter
  <1>22. CASE Drained
    BY <1>22 DEF Drained
  <1>23. CASE Execute
    <2>1. PICK t \in Threads : /\ t = cur.by /\ Waiting(t) /\ cur = Msg(t)
                             /\ mMbox = <<>> /\ ~mRetValReady
      BY <1>23, InHand DEF Execute
    <2>2. Executed(t)'
      BY <1>23, <2>1 DEF Execute, HistoryTypeOK
    <2>3. \A u \in Threads : Waiting(u)' <=> Waiting(u)
      BY <1>23 DEF Execute
    <2>. QED
      BY <2>1, <2>2, <2>3, OneWaiter
  <1>24. CASE Reply
    <2>1. PICK t \in Threads : /\ t = cur.by /\ Waiting(t) /\ cur = Msg(t)
                             /\ ver[t] = val /\ val # 0 /\ mMbox = <<>>
      BY <1>24, InHand DEF Reply
    <2>2. HandlerSlot(cur.cmd) = ReadSlot(op[t]) /\ ReadSlot(op[t]) \in Slots
      <3>1. op[t] \in Calls \cup CallbackCalls
        BY <2>1 DEF InCall
      <3>. QED
        BY <2>1, <3>1, RpcTablesOK, CallsOK DEF AllMatched, Matched
    <2>3. Answered(t)'
      BY <1>24, <2>1, <2>2 DEF Reply, ApiTypeOK
    <2>4. \A u \in Threads : Waiting(u)' <=> Waiting(u)
      BY <1>24 DEF Reply
    <2>. QED
      BY <2>1, <2>3, <2>4, OneWaiter
  <1>25. CASE SignalReply
    BY <1>25 DEF SignalReply, Signal
  <1>26. CASE LoopExit
    BY <1>26 DEF LoopExit
  <1>27. CASE CallbackBegin
    BY <1>27 DEF CallbackBegin
  <1>28. CASE CallbackEnd
    BY <1>28 DEF CallbackEnd
  <1>. QED
    BY <1>1, <1>2, <1>3, <1>4, <1>5, <1>6, <1>7, <1>8, <1>9, <1>10, <1>11, <1>12,
           <1>13, <1>14, <1>15, <1>16, <1>17, <1>18, <1>19, <1>20, <1>21, <1>22,
           <1>23, <1>24, <1>25, <1>26, <1>27, <1>28 DEF Next, ThreadStep, LoopStep

\* Only a call whose operation was executed has a version.
LEMMA HistoryStep ==
  ASSUME TypeOK, PlaceInv, ExchangeInv, HistoryInv, Next
  PROVE  HistoryInv'
  <1> USE ThreadsOK DEF HistoryInv, Starting, TypeOK, ThreadTypeOK, HistoryTypeOK,
         Goto, AtRest, apiVars, lifeVars, loopVars, threadVars, history
  <1>1. ASSUME NEW t \in Threads, NEW call \in Calls \cup CallbackCalls,
               Invoke(t, call)
        PROVE  HistoryInv'
    BY <1>1 DEF Invoke, InApplication
  <1>2. ASSUME NEW t \in Threads, LockApi(t) PROVE HistoryInv'
    BY <1>2 DEF LockApi, LockedBy, CanLockApi
  <1>3. ASSUME NEW t \in Threads, LockMutex(t) PROVE HistoryInv'
    BY <1>3 DEF LockMutex
  <1>4. ASSUME NEW t \in Threads, Push(t) PROVE HistoryInv'
    BY <1>4 DEF Push, Msg
  <1>5. ASSUME NEW t \in Threads, PushFails(t) PROVE HistoryInv'
    BY <1>5 DEF PushFails
  <1>6. ASSUME NEW t \in Threads, Wait(t) PROVE HistoryInv'
    BY <1>6 DEF Wait
  <1>7. ASSUME NEW t \in Threads, SpuriousWakeup(t) PROVE HistoryInv'
    BY <1>7 DEF SpuriousWakeup
  <1>8. ASSUME NEW t \in Threads, Relock(t) PROVE HistoryInv'
    BY <1>8 DEF Relock
  <1>9. ASSUME NEW t \in Threads, Take(t) PROVE HistoryInv'
    BY <1>9 DEF Take
  <1>10. ASSUME NEW t \in Threads, UnlockApi(t) PROVE HistoryInv'
    BY <1>10 DEF UnlockApi, Unlocked
  <1>11. ASSUME NEW t \in Threads, Rendering(t) PROVE HistoryInv'
    BY <1>11 DEF Rendering
  <1>12. ASSUME NEW t \in Threads, RenderEnter(t) PROVE HistoryInv'
    BY <1>12 DEF RenderEnter, LockedBy, CanLockApi
  <1>13. ASSUME NEW t \in Threads, RenderLeave(t) PROVE HistoryInv'
    BY <1>13 DEF RenderLeave, Unlocked
  <1>14. ASSUME NEW t \in Threads, Start(t) PROVE HistoryInv'
    BY <1>14 DEF Start
  <1>15. ASSUME NEW t \in Threads, StartReturns(t) PROVE HistoryInv'
    BY <1>15 DEF StartReturns
  <1>16. ASSUME NEW t \in Threads, Stop(t) PROVE HistoryInv'
    BY <1>16 DEF Stop, InApplication
  <1>17. ASSUME NEW t \in Threads, StopLoop(t) PROVE HistoryInv'
    BY <1>17 DEF StopLoop, LockedBy, CanLockApi
  <1>18. ASSUME NEW t \in Threads, Join(t) PROVE HistoryInv'
    BY <1>18 DEF Join, Unlocked
  <1>19. CASE Direct
    BY <1>19 DEF Direct
  <1>20. CASE LoopInit
    BY <1>20 DEF LoopInit
  <1>21. CASE Peek
    BY <1>21 DEF Peek
  <1>22. CASE Drained
    BY <1>22 DEF Drained
  <1>23. CASE Execute
    <2>1. cur.by \in Threads /\ Waiting(cur.by)
      BY <1>23, InHand DEF Execute, Serving
    <2>. QED
      BY <1>23, <2>1 DEF Execute, Waiting
  <1>24. CASE Reply
    BY <1>24 DEF Reply
  <1>25. CASE SignalReply
    BY <1>25 DEF SignalReply, Signal
  <1>26. CASE LoopExit
    BY <1>26 DEF LoopExit
  <1>27. CASE CallbackBegin
    BY <1>27 DEF CallbackBegin
  <1>28. CASE CallbackEnd
    BY <1>28 DEF CallbackEnd
  <1>. QED
    BY <1>1, <1>2, <1>3, <1>4, <1>5, <1>6, <1>7, <1>8, <1>9, <1>10, <1>11, <1>12,
           <1>13, <1>14, <1>15, <1>16, <1>17, <1>18, <1>19, <1>20, <1>21, <1>22,
           <1>23, <1>24, <1>25, <1>26, <1>27, <1>28 DEF Next, ThreadStep, LoopStep

\* What a call is about to return is what its operation produced.
LEMMA AnswerStep ==
  ASSUME TypeOK, PlaceInv, ExchangeInv, HistoryInv, AnswerIsOwn, Next
  PROVE  AnswerIsOwn'
  <1> USE ThreadsOK DEF AnswerIsOwn, HistoryInv, Starting, TypeOK, ThreadTypeOK,
         HistoryTypeOK, Goto, AtRest, apiVars, lifeVars, loopVars, threadVars,
         history
  <1>1. ASSUME NEW t \in Threads, NEW call \in Calls \cup CallbackCalls,
               Invoke(t, call)
        PROVE  AnswerIsOwn'
    BY <1>1 DEF Invoke, InApplication
  <1>2. ASSUME NEW t \in Threads, LockApi(t) PROVE AnswerIsOwn'
    BY <1>2 DEF LockApi, LockedBy, CanLockApi
  <1>3. ASSUME NEW t \in Threads, LockMutex(t) PROVE AnswerIsOwn'
    BY <1>3 DEF LockMutex
  <1>4. ASSUME NEW t \in Threads, Push(t) PROVE AnswerIsOwn'
    BY <1>4 DEF Push, Msg
  <1>5. ASSUME NEW t \in Threads, PushFails(t) PROVE AnswerIsOwn'
    BY <1>5 DEF PushFails
  <1>6. ASSUME NEW t \in Threads, Wait(t) PROVE AnswerIsOwn'
    BY <1>6 DEF Wait
  <1>7. ASSUME NEW t \in Threads, SpuriousWakeup(t) PROVE AnswerIsOwn'
    BY <1>7 DEF SpuriousWakeup
  <1>8. ASSUME NEW t \in Threads, Relock(t) PROVE AnswerIsOwn'
    BY <1>8 DEF Relock
  <1>9. ASSUME NEW t \in Threads, Take(t) PROVE AnswerIsOwn'
    <2>1. Answered(t)
      BY <1>9 DEF Take, ExchangeInv, Waiting, Posted, Served, Executed
    <2>. QED
      BY <1>9, <2>1 DEF Take, Answered
  <1>10. ASSUME NEW t \in Threads, UnlockApi(t) PROVE AnswerIsOwn'
    BY <1>10 DEF UnlockApi, Unlocked
  <1>11. ASSUME NEW t \in Threads, Rendering(t) PROVE AnswerIsOwn'
    BY <1>11 DEF Rendering
  <1>12. ASSUME NEW t \in Threads, RenderEnter(t) PROVE AnswerIsOwn'
    BY <1>12 DEF RenderEnter, LockedBy, CanLockApi
  <1>13. ASSUME NEW t \in Threads, RenderLeave(t) PROVE AnswerIsOwn'
    BY <1>13 DEF RenderLeave, Unlocked
  <1>14. ASSUME NEW t \in Threads, Start(t) PROVE AnswerIsOwn'
    BY <1>14 DEF Start
  <1>15. ASSUME NEW t \in Threads, StartReturns(t) PROVE AnswerIsOwn'
    BY <1>15 DEF StartReturns
  <1>16. ASSUME NEW t \in Threads, Stop(t) PROVE AnswerIsOwn'
    BY <1>16 DEF Stop, InApplication
  <1>17. ASSUME NEW t \in Threads, StopLoop(t) PROVE AnswerIsOwn'
    BY <1>17 DEF StopLoop, LockedBy, CanLockApi
  <1>18. ASSUME NEW t \in Threads, Join(t) PROVE AnswerIsOwn'
    BY <1>18 DEF Join, Unlocked
  <1>19. CASE Direct
    BY <1>19 DEF Direct
  <1>20. CASE LoopInit
    BY <1>20 DEF LoopInit
  <1>21. CASE Peek
    BY <1>21 DEF Peek
  <1>22. CASE Drained
    BY <1>22 DEF Drained
  <1>23. CASE Execute
    <2>1. cur.by \in Threads /\ Waiting(cur.by)
      BY <1>23, InHand DEF Execute, Serving
    <2>. QED
      BY <1>23, <2>1 DEF Execute, Waiting
  <1>24. CASE Reply
    BY <1>24 DEF Reply
  <1>25. CASE SignalReply
    BY <1>25 DEF SignalReply, Signal
  <1>26. CASE LoopExit
    BY <1>26 DEF LoopExit
  <1>27. CASE CallbackBegin
    BY <1>27 DEF CallbackBegin
  <1>28. CASE CallbackEnd
    BY <1>28 DEF CallbackEnd
  <1>. QED
    BY <1>1, <1>2, <1>3, <1>4, <1>5, <1>6, <1>7, <1>8, <1>9, <1>10, <1>11, <1>12,
           <1>13, <1>14, <1>15, <1>16, <1>17, <1>18, <1>19, <1>20, <1>21, <1>22,
           <1>23, <1>24, <1>25, <1>26, <1>27, <1>28 DEF Next, ThreadStep, LoopStep

-----------------------------------------------------------------------------
(* The theorems.                                                           *)

\* IInv is inductive.
LEMMA InvStep == ASSUME AllMatched, IInv, [Next]_vars PROVE IInv'
  <1>1. CASE Next
    <2> USE <1>1 DEF IInv
    <2>1. TypeOK'
      BY ApiTypeStep, LifeTypeStep, LoopTypeStep, ThreadTypeStep, HistoryTypeStep
      DEF TypeOK
    <2>2. PlaceInv' /\ ApiMutexInv' /\ MutexInv'
      BY PlaceStep, ApiMutexStep, MutexStep
    <2>3. StartInv' /\ InitLoopInv' /\ ArmedInv'
      BY StartStep, InitLoopStep, ArmedStep
    <2>4. ExchangeInv' /\ HistoryInv' /\ AnswerIsOwn'
      BY ExchangeStep, HistoryStep, AnswerStep
    <2>. QED
      BY <2>1, <2>2, <2>3, <2>4
  <1>2. CASE UNCHANGED vars
    <2> USE <1>2 DEF vars, apiVars, lifeVars, loopVars, threadVars, history
    <2>1. TypeOK'
      BY DEF IInv, TypeOK, ApiTypeOK, LifeTypeOK, LoopTypeOK, ThreadTypeOK,
             HistoryTypeOK
    <2>2. PlaceInv' /\ ApiMutexInv' /\ MutexInv'
      BY DEF IInv, PlaceInv, Starting, ApiMutexInv, Holds, InSection, Waiting, MutexInv
    <2>3. StartInv' /\ InitLoopInv' /\ ArmedInv'
      BY DEF IInv, StartInv, Starting, InitLoopInv, ArmedInv
    <2>4. ExchangeInv'
      BY DEF IInv, ExchangeInv, Waiting, Posted, Served, Executed, Answered, Serving, Msg
    <2>5. HistoryInv' /\ AnswerIsOwn'
      BY DEF IInv, HistoryInv, Starting, AnswerIsOwn
    <2>. QED
      BY <2>1, <2>2, <2>3, <2>4, <2>5 DEF IInv
  <1>. QED
    BY <1>1, <1>2

\* IInv holds in every reachable state.
THEOREM Invariance == ASSUME AllMatched PROVE Spec => []IInv
  <1>1. Init => IInv
    BY InitInv
  <1>2. IInv /\ [Next]_vars => IInv'
    BY InvStep
  <1>. QED
    BY <1>1, <1>2, PTL DEF Spec

\* Type correctness of the call protocol.
THEOREM TypeCorrect == ASSUME AllMatched PROVE Spec => []TypeOK
  <1>1. IInv => TypeOK
    BY DEF IInv
  <1>. QED
    BY <1>1, Invariance, PTL

\* No caller is handed another call's answer, a stale one or none
\* (pdraw_backend_impl.cpp: every API function from the lock of mApiMutex on).
THEOREM AnswersAreOwn == ASSUME AllMatched PROVE Spec => []AnswerIsOwn
  <1>1. IInv => AnswerIsOwn
    BY DEF IInv
  <1>. QED
    BY <1>1, Invariance, PTL

\* While a rendering thread is inside mPdraw the loop thread executes no call
\* of another thread on it.
THEOREM RenderingIsExclusive == ASSUME AllMatched PROVE Spec => []RenderExcludesCalls
  <1>1. ASSUME IInv PROVE RenderExcludesCalls
    <2> SUFFICES ASSUME NEW t \in Threads, inRender[t]
                 PROVE  /\ pc[Loop] # "direct"
                        /\ loopPc \in {"serve", "reply"} => cur.by = t
      BY DEF RenderExcludesCalls
    <2>1. mApiMutex.owner = t /\ t # Loop
      BY <1>1 DEF IInv, ApiMutexInv, Holds, PlaceInv
    <2>2. pc[Loop] # "direct"
      BY <1>1, <2>1 DEF IInv, ApiMutexInv, Holds, InSection, Threads
    <2>3. ASSUME loopPc \in {"serve", "reply"} PROVE cur.by = t
      <3>1. cur.by \in Threads /\ Waiting(cur.by)
        BY <1>1, <2>3, InHand DEF IInv, Serving
      <3>. QED
        BY <1>1, <2>1, <3>1 DEF IInv, ApiMutexInv, Holds, InSection
    <2>. QED
      BY <2>2, <2>3
  <1>. QED
    BY <1>1, Invariance, PTL

-----------------------------------------------------------------------------
(* The deletion of mPdraw.                                                 *)

\* An instance is started and stopped once, and stop() is called neither on a
\* rendering thread nor on the loop thread.  The code does not check it, and
\* without any of the three mPdraw can be deleted under a rendering function:
\* a loop thread that is started again finds mThreadShouldStop set, a stop() in
\* a video renderer listener function waits inside the rendering function, and
\* one on the loop thread does not wait at all.
StopOnceFromOutside == ~Restart /\ Stoppers \cap (Render \cup {Loop}) = {}

\* A stop() in progress keeps the loop thread alive until it noticed the flag.
LEMMA StopStep ==
  ASSUME StopOnceFromOutside, IInv, StopInv, Next
  PROVE  StopInv'
  <1> USE ThreadsOK DEF StopOnceFromOutside, IInv, StopInv, TypeOK, ThreadTypeOK,
         StartInv, Starting, Threads, Goto, AtRest, apiVars, lifeVars, loopVars,
         threadVars, history
  <1>1. ASSUME NEW t \in Threads, NEW call \in Calls \cup CallbackCalls,
               Invoke(t, call)
        PROVE  StopInv'
    BY <1>1 DEF Invoke, InApplication
  <1>2. ASSUME NEW t \in Threads, LockApi(t) PROVE StopInv'
    BY <1>2 DEF LockApi
  <1>3. ASSUME NEW t \in Threads, LockMutex(t) PROVE StopInv'
    BY <1>3 DEF LockMutex
  <1>4. ASSUME NEW t \in Threads, Push(t) PROVE StopInv'
    BY <1>4 DEF Push
  <1>5. ASSUME NEW t \in Threads, PushFails(t) PROVE StopInv'
    BY <1>5 DEF PushFails
  <1>6. ASSUME NEW t \in Threads, Wait(t) PROVE StopInv'
    BY <1>6 DEF Wait
  <1>7. ASSUME NEW t \in Threads, SpuriousWakeup(t) PROVE StopInv'
    BY <1>7 DEF SpuriousWakeup
  <1>8. ASSUME NEW t \in Threads, Relock(t) PROVE StopInv'
    BY <1>8 DEF Relock
  <1>9. ASSUME NEW t \in Threads, Take(t) PROVE StopInv'
    BY <1>9 DEF Take
  <1>10. ASSUME NEW t \in Threads, UnlockApi(t) PROVE StopInv'
    BY <1>10 DEF UnlockApi
  <1>11. ASSUME NEW t \in Threads, Rendering(t) PROVE StopInv'
    BY <1>11 DEF Rendering
  <1>12. ASSUME NEW t \in Threads, RenderEnter(t) PROVE StopInv'
    BY <1>12 DEF RenderEnter
  <1>13. ASSUME NEW t \in Threads, RenderLeave(t) PROVE StopInv'
    BY <1>13 DEF RenderLeave
  <1>14. ASSUME NEW t \in Threads, Start(t) PROVE StopInv'
    BY <1>14 DEF Start
  <1>15. ASSUME NEW t \in Threads, StartReturns(t) PROVE StopInv'
    BY <1>15 DEF StartReturns
  <1>16. ASSUME NEW t \in Threads, Stop(t) PROVE StopInv'
    BY <1>16 DEF Stop, InApplication
  <1>17. ASSUME NEW t \in Threads, StopLoop(t) PROVE StopInv'
    BY <1>17 DEF StopLoop
  <1>18. ASSUME NEW t \in Threads, Join(t) PROVE StopInv'
    BY <1>18 DEF Join
  <1>19. CASE Direct
    BY <1>19 DEF Direct
  <1>20. CASE LoopInit
    BY <1>20 DEF LoopInit
  <1>21. CASE Peek
    BY <1>21 DEF Peek
  <1>22. CASE Drained
    BY <1>22 DEF Drained
  <1>23. CASE Execute
    BY <1>23 DEF Execute
  <1>24. CASE Reply
    BY <1>24 DEF Reply
  <1>25. CASE SignalReply
    BY <1>25 DEF SignalReply, Signal
  <1>26. CASE LoopExit
    BY <1>26 DEF LoopExit
  <1>27. CASE CallbackBegin
    BY <1>27 DEF CallbackBegin
  <1>28. CASE CallbackEnd
    BY <1>28 DEF CallbackEnd
  <1>. QED
    BY <1>1, <1>2, <1>3, <1>4, <1>5, <1>6, <1>7, <1>8, <1>9, <1>10, <1>11,
           <1>12, <1>13, <1>14, <1>15, <1>16, <1>17, <1>18, <1>19, <1>20,
           <1>21, <1>22, <1>23, <1>24, <1>25, <1>26, <1>27, <1>28 DEF Next, ThreadStep,
           LoopStep

\* StopInv holds in every reachable state.
LEMMA StopInvariance ==
  ASSUME AllMatched, StopOnceFromOutside
  PROVE  Spec => []StopInv
  <1>1. Init => StopInv
    BY DEF Init, StopInv
  <1>2. IInv /\ StopInv /\ [Next]_vars => StopInv'
    <2>1. ASSUME UNCHANGED vars, StopInv PROVE StopInv'
      BY <2>1 DEF vars, apiVars, lifeVars, loopVars, threadVars, StopInv
    <2>. QED
      BY <2>1, StopStep
  <1>. QED
    BY <1>1, <1>2, Invariance, PTL DEF Spec

\* Only the loop thread deletes mPdraw, and then the stop() it obeys holds
\* mApiMutex.
LEMMA DeletedByLoopExit ==
  ASSUME TypeOK, Next, mPdraw, ~mPdraw'
  PROVE  LoopExit
  BY ZenonT(60) DEF Next, ThreadStep, LoopStep, Invoke, LockApi, LockMutex, Push, PushFails,
         Wait, SpuriousWakeup, Relock, Take, UnlockApi, Rendering, RenderEnter,
         RenderLeave, Start, StartReturns, Stop, StopLoop, Join, Direct, LoopInit,
         Peek, Drained, Execute, Reply, SignalReply, CallbackBegin, CallbackEnd,
         lifeVars, TypeOK

\* mPdraw is deleted when no rendering function is inside it, though the loop
\* thread does not lock mApiMutex for it (pdraw_backend_impl.cpp: stop,
\* loopThread).
THEOREM DeletionIsSafe ==
  ASSUME AllMatched, StopOnceFromOutside
  PROVE  Spec => DeletedUnused
  <1>1. ASSUME IInv, StopInv, [Next]_vars
        PROVE  [mPdraw /\ ~mPdraw' => \A t \in Threads : ~inRender[t]]_vars
    <2> SUFFICES ASSUME Next, mPdraw, ~mPdraw', NEW t \in Threads, inRender[t]
                 PROVE  FALSE
      BY <1>1
    <2>1. LoopExit
      BY <1>1, DeletedByLoopExit DEF IInv
    <2>2. PICK u \in Threads : pc[u] = "joining"
      BY <1>1, <2>1 DEF StopInv, LoopExit
    <2>3. u # t
      BY <1>1, <2>2 DEF StopInv, StopOnceFromOutside
    <2>. QED
      BY <1>1, <2>2, <2>3 DEF IInv, ApiMutexInv, Holds, InSection
  <1>. QED
    BY <1>1, Invariance, StopInvariance, PTL DEF Spec, DeletedUnused

-----------------------------------------------------------------------------
(***************************************************************************)
(* PdrawBackend implements BackendApi: the mailbox, the flag and the       *)
(* shared mRet... members look to the callers like one operation at a time *)
(* executed on mPdraw.  The mapping keeps the history variables and makes  *)
(* a thread busy while it is inside a call.  Three steps of the backend    *)
(* are steps of the abstract one (a call begins, mPdraw executes it, it    *)
(* returns), every other one is a stutter.                                 *)
(***************************************************************************)

Busy == [t \in Threads |-> Calling(t)]

\* The callers see nothing of a step.
Unseen == UNCHANGED <<Busy, ver, out, version>>

\* A step that leaves every thread in its call, or out of one, changes no call.
LEMMA SameBusy ==
  ASSUME \A t \in Threads : Calling(t)' <=> Calling(t)
  PROVE  Busy' = Busy
  <1>1. \A t \in Threads : Calling(t)' = Calling(t)
    BY DEF Calling
  <1>. QED
    BY <1>1, Zenon DEF Busy

\* A call begins.
LEMMA InvokeStep ==
  ASSUME IInv, NEW t \in Threads, NEW call \in Calls \cup CallbackCalls,
         Invoke(t, call)
  PROVE  Api!Invoke(t)
  <1> USE DEF IInv, TypeOK, ThreadTypeOK, Invoke, InApplication, Goto, AtRest, history
  <1>1. ~Calling(t)
    BY DEF Calling, InCall
  <1>2. call # "start"
    BY CallsOK, RpcTablesOK
  <1>3. Calling(t)' = TRUE
    BY <1>2 DEF Calling, InCall
  <1>4. \A u \in Threads \ {t} : Calling(u)' = Calling(u)
    BY DEF Calling
  <1>5. Busy' = [Busy EXCEPT ![t] = TRUE]
    BY <1>3, <1>4, Zenon DEF Busy
  <1>. QED
    BY <1>1, <1>5 DEF Api!Invoke, Busy

\* Inside a call: the steps of a thread change nothing the callers see.
LEMMA InsideStep ==
  ASSUME IInv, NEW t \in Threads,
         \/ LockApi(t) \/ LockMutex(t) \/ Push(t) \/ PushFails(t) \/ Wait(t)
         \/ SpuriousWakeup(t) \/ Relock(t) \/ Take(t)
  PROVE  Unseen
  <1> USE DEF IInv, TypeOK, ThreadTypeOK, Goto, history, LockApi, LockMutex, Push,
         PushFails, Wait, SpuriousWakeup, Relock, Take
  <1>1. UNCHANGED history
    OBVIOUS
  <1>2. \A u \in Threads : Calling(u)' <=> Calling(u)
    BY DEF Calling, InCall
  <1>. QED
    BY <1>1, <1>2, SameBusy DEF Unseen

\* Outside the calls: rendering, start() and stop().
LEMMA OutsideStep ==
  ASSUME IInv, NEW t \in Threads,
         \/ Rendering(t) \/ RenderEnter(t) \/ RenderLeave(t) \/ Start(t)
         \/ StartReturns(t) \/ Stop(t) \/ StopLoop(t) \/ Join(t)
  PROVE  Unseen
  <1> USE DEF IInv, TypeOK, ThreadTypeOK, Goto, AtRest, history, Rendering,
         RenderEnter, RenderLeave, Start, StartReturns, Stop, StopLoop, Join,
         InApplication
  <1>1. UNCHANGED history
    OBVIOUS
  <1>2. \A u \in Threads : Calling(u)' <=> Calling(u)
    BY DEF Calling, InCall
  <1>. QED
    BY <1>1, <1>2, SameBusy DEF Unseen

\* The loop thread, but for the moment mPdraw executes a command.
LEMMA LoopQuiet ==
  ASSUME IInv, \/ LoopInit \/ Peek \/ Drained \/ Reply \/ SignalReply \/ LoopExit
               \/ CallbackBegin \/ CallbackEnd
  PROVE  Unseen
  <1> USE DEF IInv, TypeOK, ThreadTypeOK, Goto, history, threadVars, LoopInit, Peek,
         Drained, Reply, SignalReply, Signal, LoopExit, CallbackBegin, CallbackEnd
  <1>1. UNCHANGED history
    OBVIOUS
  <1>2. \A u \in Threads : Calling(u)' <=> Calling(u)
    BY DEF Calling, InCall
  <1>. QED
    BY <1>1, <1>2, SameBusy DEF Unseen

\* The loop thread executes the command of the call that waits, which has not
\* been executed before.
LEMMA ExecuteStep == ASSUME IInv, Execute PROVE \E t \in Threads : Api!Apply(t)
  <1>1. cur.by \in Threads /\ Waiting(cur.by) /\ ver[cur.by] = 0
    BY InHand DEF IInv, Execute, Serving
  <1>2. Busy[cur.by] /\ Busy' = Busy
    <2>1. \A u \in Threads : Calling(u)' <=> Calling(u)
      BY DEF Execute, threadVars, Calling
    <2>. QED
      BY <1>1, <2>1, SameBusy DEF Busy, Calling, InCall, Waiting
  <1>3. Api!Apply(cur.by)
    BY <1>1, <1>2 DEF Api!Apply, Execute, Busy
  <1>. QED
    BY <1>1, <1>3

\* A call made on the loop thread is executed there and then.
LEMMA DirectStep == ASSUME IInv, Direct PROVE Api!Apply(Loop)
  <1>1. Loop \in Threads /\ Calling(Loop) /\ ver[Loop] = 0
    BY DEF Direct, Goto, IInv, PlaceInv, HistoryInv, Starting, Calling, InCall, Threads
  <1>2. Busy[Loop] /\ Busy' = Busy
    <2>1. \A u \in Threads : Calling(u)' <=> Calling(u)
      BY <1>1 DEF Direct, Goto, Calling, InCall, IInv, TypeOK, ThreadTypeOK
    <2>. QED
      BY <1>1, <2>1, SameBusy DEF Busy
  <1>. QED
    BY <1>1, <1>2 DEF Api!Apply, Direct, Busy

\* A call returns the version its operation created, or 0.
LEMMA ReturnStep ==
  ASSUME IInv, NEW t \in Threads, UnlockApi(t)
  PROVE  Api!Return(t)
  <1> USE DEF IInv, TypeOK, ThreadTypeOK, UnlockApi, Goto, AtRest
  <1>1. Calling(t) /\ Calling(t)' = FALSE
    BY DEF Calling, InCall, PlaceInv
  <1>2. res[t] = ver[t]
    BY DEF AnswerIsOwn
  <1>3. \A u \in Threads \ {t} : Calling(u)' = Calling(u)
    BY DEF Calling
  <1>4. Busy' = [Busy EXCEPT ![t] = FALSE]
    BY <1>1, <1>3, Zenon DEF Busy
  <1>. QED
    BY <1>1, <1>2, <1>4 DEF Api!Return, Busy

\* Every step of the backend is a step of the abstract API or a stutter.
LEMMA ApiStep == ASSUME IInv, [Next]_vars PROVE [Api!Next]_(Api!vars)
  <1>1. Unseen => UNCHANGED Api!vars
    BY DEF Unseen, Busy, Api!vars
  <1>2. ASSUME UNCHANGED vars PROVE Unseen
    <2>1. \A u \in Threads : Calling(u)' <=> Calling(u)
      BY <1>2 DEF vars, threadVars, Calling
    <2>. QED
      BY <1>2, <2>1, SameBusy DEF vars, history, Unseen
  <1>3. ASSUME NEW t \in Threads, NEW call \in Calls \cup CallbackCalls,
               Invoke(t, call)
        PROVE  Api!Next
    BY <1>3, InvokeStep DEF Api!Next
  <1>4. ASSUME NEW t \in Threads, UnlockApi(t) PROVE Api!Next
    BY <1>4, ReturnStep DEF Api!Next
  <1>5. CASE Execute
    BY <1>5, ExecuteStep DEF Api!Next
  <1>6. CASE Direct
    BY <1>6, DirectStep DEF Api!Next, Threads
  <1>7. ASSUME NEW t \in Threads, ThreadStep(t), ~UnlockApi(t) PROVE Unseen
    BY <1>7, InsideStep, OutsideStep DEF ThreadStep
  <1>8. ASSUME NEW t \in Threads, Rendering(t) \/ Start(t) \/ Stop(t)
        PROVE  Unseen
    BY <1>8, OutsideStep
  <1>9. ASSUME NEW t \in Threads, SpuriousWakeup(t) PROVE Unseen
    BY <1>9, InsideStep
  <1>10. ASSUME LoopStep \/ CallbackBegin, ~Execute, ~Direct PROVE Unseen
    BY <1>10, LoopQuiet DEF LoopStep
  <1>. QED
    BY <1>1, <1>2, <1>3, <1>4, <1>5, <1>6, <1>7, <1>8, <1>9, <1>10 DEF Next

\* The calls of the backend are executed one at a time, each at one moment
\* between the call and its return, and each returns what that moment produced
\* (pdraw_backend_impl.cpp: the API functions, mboxCb and the internalXxx).
THEOREM BackendImplementsApi == ASSUME AllMatched PROVE Spec => Linearizable
  <1>1. Init => Api!Init
    BY DEF Init, Api!Init, Calling, InCall
  <1>2. IInv /\ [Next]_vars => [Api!Next]_(Api!vars)
    BY ApiStep
  <1>. QED
    BY <1>1, <1>2, Invariance, PTL DEF Spec, Linearizable, Api!Spec
=============================================================================
