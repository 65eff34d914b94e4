----------------------- MODULE RecordPlayback_proofs -----------------------
(***************************************************************************)
(* Proofs about RecordPlayback, for a record of any length, with any       *)
(* synchronization samples, and any number of calls, missing buffers and   *)
(* samples that cannot be read.                                            *)
(***************************************************************************)
EXTENDS RecordPlayback, WellFoundedInduction, TLAPS

-----------------------------------------------------------------------------
(* Greatest and least elements.                                            *)

\* A set of numbers that is not empty has a least element ...
LEMMA MinIsLeast ==
  ASSUME NEW S \in SUBSET Nat, S # {}
  PROVE  Min(S) \in S /\ \A y \in S : Min(S) <= y
  <1> DEFINE Less == {p \in Nat \X Nat : p[1] < p[2]}
  <1>1. OpToRel(<, Nat) = Less
    BY Zenon DEF OpToRel
  <1>2. IsWellFoundedOn(Less, Nat)
    BY <1>1, NatLessThanWellFounded, Zenon
  <1>3. PICK x \in S : \A y \in S : ~ (<<y, x>> \in Less)
    BY <1>2, WFMin, Zenon
  <1>4. ASSUME NEW y \in S PROVE x <= y
    <2>1. <<y, x>> \in Nat \X Nat
      OBVIOUS
    <2>2. ~ (y < x)
      BY <1>3, <2>1
    <2>. QED
      BY <2>2
  <1>. QED
    BY <1>4 DEF Min

\* ... and, if it is bounded, a greatest one.
LEMMA MaxIsGreatest ==
  ASSUME NEW N \in Nat, NEW S \in SUBSET (0..N), S # {}
  PROVE  Max(S) \in S /\ \A y \in S : y <= Max(S)
  <1> DEFINE Below == {N - x : x \in S}
  <1>1. Below \in SUBSET Nat
    OBVIOUS
  <1>2. Below # {}
    OBVIOUS
  <1>3. PICK m \in Below : \A y \in Below : m <= y
    BY <1>1, <1>2, MinIsLeast
  <1>4. PICK x \in S : m = N - x
    OBVIOUS
  <1>5. ASSUME NEW y \in S PROVE x >= y
    <2>1. N - x <= N - y
      BY <1>3, <1>4
    <2>2. x \in Int /\ y \in Int
      OBVIOUS
    <2>. QED
      BY <2>1, <2>2
  <1>. QED
    BY <1>5 DEF Max

-----------------------------------------------------------------------------
(* Where the reader goes.                                                  *)

\* Synchronization samples are samples.
LEMMA SyncIsSample == \A j \in Sync : j \in Int /\ 1 <= j /\ j <= Samples
  BY SamplesOK
LEMMA SyncIsNext == \A j \in Sync : j \in 1..(Samples + 1)
  BY SyncIsSample, SamplesOK

\* A seek to a sample goes to a synchronization sample that is not behind it.
LEMMA SyncFound ==
  ASSUME NEW i \in 1..Samples
  PROVE  SyncAtOrBefore(i) \in Sync /\ SyncAtOrBefore(i) \in 1..i
  <1> DEFINE S == {j \in Sync : j <= i}
  <1>1. S \in SUBSET (0..Samples)
    BY SyncIsSample
  <1>2. 1 \in S
    BY SamplesOK
  <1>3. Max(S) \in S
    BY <1>1, <1>2, SamplesOK, MaxIsGreatest
  <1>4. Max(S) \in Sync /\ Max(S) <= i
    BY <1>3
  <1>. QED
    BY <1>4, SyncIsSample DEF SyncAtOrBefore

\* What the pending seek results in: it never leads behind the last sample.
LEMMA SeekResultOK ==
  ASSUME PlaybackTypeOK
  PROVE  /\ SeekResult.next \in 1..(Samples + 1)
         /\ SeekResult.silentUntil \in 0..Samples
         /\ SeekResult.result \in Statuses /\ SeekResult.did \in BOOLEAN
         /\ SeekResult.next > Samples => SeekResult.next = next
  <1> USE SamplesOK DEF PlaybackTypeOK, Statuses, At
  <1>1. CASE mPendingSeekTs > 0
    <2>1. SyncAtOrBefore(mPendingSeekTs) \in 1..mPendingSeekTs
      BY <1>1, SyncFound
    <2>. QED
      BY <1>1, <2>1 DEF SeekResult
  <1>2. CASE ~(mPendingSeekTs > 0) /\ mPendingSeekToPrevSample /\ next > 2
    <2>1. SyncAtOrBefore(next - 2) \in 1..(next - 2)
      BY <1>2, SyncFound
    <2>. QED
      BY <1>2, <2>1 DEF SeekResult
  <1>3. CASE ~(mPendingSeekTs > 0) /\ ~(mPendingSeekToPrevSample /\ next > 2)
    BY <1>3 DEF SeekResult
  <1>. QED
    BY <1>1, <1>2, <1>3

\* Playing on from a sample leads to a sample, or behind the last one.
LEMMA ForwardOK ==
  ASSUME NEW i \in 1..Samples, NEW f \in ForwardFrom(i), mLastFrameDuration \in BOOLEAN
  PROVE  /\ f.next \in 1..(Samples + 1) /\ f.timer \in BOOLEAN
         /\ ~f.timer => f.next > Samples \/ SyncAfter(f.next) = {}
  <1>1. CASE f = [next |-> i + 1, timer |-> i < Samples]
    <2>1. f.next = i + 1 /\ f.timer = (i < Samples)
      BY <1>1, Zenon
    <2>2. (i < Samples) \in BOOLEAN /\ i + 1 \in 1..(Samples + 1)
      BY SamplesOK
    <2>3. ~(i < Samples) => i + 1 > Samples
      BY SamplesOK
    <2>. QED
      BY <2>1, <2>2, <2>3, Zenon
  <1>2. ASSUME NEW j \in SyncAfter(i + 1),
               \/ f = [next |-> j, timer |-> TRUE]
               \/ f = [next |-> j, timer |-> FALSE] /\ SyncAfter(j) = {}
        PROVE  /\ f.next \in 1..(Samples + 1) /\ f.timer \in BOOLEAN
               /\ ~f.timer => f.next > Samples \/ SyncAfter(f.next) = {}
    <2>1. j \in 1..(Samples + 1)
      BY SyncIsSample, SamplesOK DEF SyncAfter
    <2>2. CASE f = [next |-> j, timer |-> TRUE]
      BY <2>1, <2>2
    <2>3. CASE f = [next |-> j, timer |-> FALSE] /\ SyncAfter(j) = {}
      BY <2>1, <2>3
    <2>. QED
      BY <1>2, <2>2, <2>3
  <1>. QED
    BY <1>1, <1>2 DEF ForwardFrom

LEMMA BackwardOK ==
  ASSUME NEW i \in 1..Samples, NEW f \in BackwardFrom(i), mLastFrameDuration \in BOOLEAN
  PROVE  /\ f.next \in 1..(Samples + 1) /\ f.timer \in BOOLEAN
         /\ ~f.timer => \/ SyncBefore(i) \subseteq {1} \/ f.next > Samples
                        \/ SyncBefore(f.next) \subseteq {1}
  <1> DEFINE before == SyncBefore(i) \ {1}
  <1>1. CASE before = {} \/ i = Samples
    <2>1. f = [next |-> i + 1, timer |-> FALSE]
      BY <1>1 DEF BackwardFrom
    <2>. QED
      BY <1>1, <2>1, SamplesOK
  <1>2. CASE before # {} /\ i # Samples
    <2>1. \A j \in before : j \in 1..Samples
      BY SyncIsSample, SamplesOK DEF SyncBefore
    <2>2. before \in SUBSET (0..Samples) /\ before \in SUBSET Nat
      BY <2>1, SamplesOK
    <2>3. Max(before) \in before
      BY <1>2, <2>2, SamplesOK, MaxIsGreatest
    <2>4. Min(before) \in before /\ \A y \in before : Min(before) <= y
      BY <1>2, <2>2, MinIsLeast
    <2>5. SyncBefore(Min(before)) \subseteq {1}
      <3>1. SUFFICES ASSUME NEW j \in SyncBefore(Min(before)), j # 1 PROVE FALSE
        OBVIOUS
      <3>2. j \in Sync /\ j < Min(before)
        BY DEF SyncBefore
      <3>3. Min(before) < i /\ Min(before) \in Int
        BY <2>1, <2>4 DEF SyncBefore
      <3>4. j \in before
        BY <3>1, <3>2, <3>3, SyncIsSample DEF SyncBefore
      <3>. QED
        BY <2>1, <2>4, <3>2, <3>4
    <2>6. ASSUME NEW j \in before, f = [next |-> j, timer |-> TRUE]
          PROVE  f.next \in before /\ f.timer = TRUE
      BY <2>6
    <2>7. ASSUME f = [next |-> Min(before), timer |-> FALSE]
          PROVE  /\ f.next \in before /\ f.timer = FALSE
                 /\ SyncBefore(f.next) \subseteq {1}
      <3>1. f.next = Min(before) /\ f.timer = FALSE
        BY <2>7
      <3>. QED
        BY <2>4, <2>5, <3>1, Zenon
    <2>8. \/ \E j \in before : f = [next |-> j, timer |-> TRUE]
          \/ f = [next |-> Min(before), timer |-> FALSE]
      BY <1>2, <2>3 DEF BackwardFrom
    <2>9. /\ f.next \in before /\ f.timer \in BOOLEAN
          /\ ~f.timer => SyncBefore(f.next) \subseteq {1}
      BY <2>6, <2>7, <2>8, Zenon
    <2>. QED
      BY <2>1, <2>9, SamplesOK
  <1>. QED
    BY <1>1, <1>2

-----------------------------------------------------------------------------
(* Every step preserves each part of the invariant.                        *)

\* A call of the application.
LEMMA CalledType ==
  ASSUME PlaybackTypeOK, AppCall
  PROVE  /\ app' \in [call : Calls \cup {"none"}, waiting : BOOLEAN,
                      unasked : BOOLEAN, shown : Nat]
         /\ app'.shown = 0 /\ app'.call \in Calls
         /\ bound' \in [calls : Nat, noBuffer : Nat, readErrors : Nat]
         /\ bound'.noBuffer = bound.noBuffer /\ bound'.readErrors = bound.readErrors
         /\ UNCHANGED <<position, flushing, mSeekResponse, mLastFrameDuration,
                        mCurrentTime, landed>>
  <1>1. PICK call \in Calls : SeekCalled(call) \/ OtherCalled(call)
    BY DEF AppCall, Play, Pause, PreviousFrame, NextFrame, SeekTo, SeekCalled,
           OtherCalled, Called
  <1> DEFINE Known == [call : Calls \cup {"none"}, waiting : BOOLEAN,
                       unasked : BOOLEAN, shown : Nat]
  <1>2. Called(call) /\ call \in Calls \cup {"none"} /\ app \in Known
    BY <1>1 DEF SeekCalled, OtherCalled, Called, PlaybackTypeOK
  <1>3. CASE app' = [app EXCEPT !.call = call, !.waiting = TRUE, !.shown = 0]
    <2>1. app' \in Known /\ app'.shown = 0 /\ app'.call = call
      BY <1>2, <1>3
    <2>. QED
      BY <1>2, <2>1 DEF Called, PlaybackTypeOK
  <1>4. CASE app' = [app EXCEPT !.call = call, !.shown = 0]
    <2>1. app' \in Known /\ app'.shown = 0 /\ app'.call = call
      BY <1>2, <1>4
    <2>. QED
      BY <1>2, <2>1 DEF Called, PlaybackTypeOK
  <1>. QED
    BY <1>1, <1>3, <1>4, SMTT(60) DEF SeekCalled, OtherCalled

\* The part of the state a call changes, but for app and bound: flags, and
\* samples.
FlagsOK == /\ timer \in BOOLEAN /\ backward \in BOOLEAN
           /\ mRunning \in BOOLEAN /\ mFrameByFrame \in BOOLEAN
           /\ mPendingSeekExact \in BOOLEAN
           /\ mPendingSeekToPrevSample \in BOOLEAN
           /\ mPendingSeekToNextSample \in BOOLEAN
SamplesAskedOK == mPendingSeekTs \in 0..Samples /\ due \in 0..(Samples + 1)

LEMMA CallFlags ==
  ASSUME FlagsOK, AppCall
  PROVE  FlagsOK'
  BY Zenon DEF FlagsOK, AppCall, Play, Pause, PreviousFrame, NextFrame, SeekTo,
               pending

LEMMA CallSamples ==
  ASSUME PlaybackTypeOK, AppCall
  PROVE  SamplesAskedOK'
  <1>0. mPendingSeekTs \in 0..Samples /\ mCurrentTime \in 0..Samples
    BY DEF PlaybackTypeOK
  <1>1. CASE Play \/ Pause
    BY <1>0, <1>1, SamplesOK DEF SamplesAskedOK, Play, Pause, OtherCalled, pending
  <1>2. CASE PreviousFrame
    BY <1>0, <1>2, SamplesOK DEF SamplesAskedOK, PreviousFrame, pending
  <1>3. CASE NextFrame
    BY <1>0, <1>3, SamplesOK DEF SamplesAskedOK, NextFrame
  <1>4. ASSUME NEW i \in 1..Samples, SeekTo(i) PROVE SamplesAskedOK'
    <2>1. SyncAtOrBefore(i) \in 0..(Samples + 1) /\ i \in 0..(Samples + 1)
      BY SyncFound, SamplesOK
    <2>. QED
      BY <1>4, <2>1, SamplesOK DEF SamplesAskedOK, SeekTo
  <1>. QED
    BY <1>1, <1>2, <1>3, <1>4 DEF AppCall

LEMMA CallTypeStep ==
  ASSUME PlaybackTypeOK, AppCall
  PROVE  PlaybackTypeOK'
  <1>1. FlagsOK'
    BY CallFlags DEF PlaybackTypeOK, FlagsOK
  <1>2. UNCHANGED <<position, flushing, mSeekResponse, mLastFrameDuration,
                    mCurrentTime, landed>>
    BY CalledType
  <1>. QED
    BY <1>1, <1>2, CallSamples, CalledType, Zenon
    DEF PlaybackTypeOK, FlagsOK, SamplesAskedOK, position

\* What the timer leads to.
LEMMA NoBufferNext ==
  ASSUME PlaybackTypeOK, TimerNoBuffer
  PROVE  next' \in 1..(Samples + 1) /\ silentUntil' \in 0..Samples
  <1> DEFINE syncs == {j \in Sync : j >= SeekResult.next}
  <1>1. CASE syncs = {}
    BY <1>1, SeekResultOK DEF TimerNoBuffer
  <1>2. CASE syncs # {}
    <2>1. syncs \in SUBSET Nat
      BY SyncIsSample
    <2>2. Min(syncs) \in Sync
      BY <1>2, <2>1, MinIsLeast
    <2>3. Min(syncs) \in 1..(Samples + 1)
      BY <2>2, SyncIsNext, Zenon
    <2>4. 0 \in 0..Samples
      BY SamplesOK
    <2>. QED
      BY <1>2, <2>3, <2>4, Zenon DEF TimerNoBuffer
  <1>. QED
    BY <1>1, <1>2

LEMMA SampleNext ==
  ASSUME PlaybackTypeOK, TimerSample
  PROVE  /\ next' \in 1..(Samples + 1) /\ timer' \in BOOLEAN
         /\ mLastFrameDuration' \in BOOLEAN
         /\ mRunning' /\ ~timer' =>
                \/ next' > Samples
                \/ IF backward THEN \/ SyncBefore(mCurrentTime') \subseteq {1}
                                    \/ SyncBefore(next') \subseteq {1}
                   ELSE SyncAfter(next') = {}
  <1> DEFINE i == SeekResult.next
             silent == i < SeekResult.silentUntil /\ mPendingSeekExact
  <1>1. i \in 1..Samples /\ mCurrentTime' = i
    BY SeekResultOK, SamplesOK DEF TimerSample
  <1>2. CASE ~mRunning'
    <2>1. next' = i + 1 /\ timer' = FALSE /\ mLastFrameDuration' = FALSE
      BY <1>2, Zenon DEF TimerSample
    <2>2. i + 1 \in 1..(Samples + 1)
      BY <1>1, SamplesOK
    <2>. QED
      BY <1>2, <2>1, <2>2, Zenon
  <1>3. CASE mRunning' /\ silent
    <2>1. next' = i + 1 /\ timer' = (i < Samples) /\ mLastFrameDuration' = FALSE
      BY <1>3, Zenon DEF TimerSample
    <2>2. i + 1 \in 1..(Samples + 1) /\ (i < Samples) \in BOOLEAN
      BY <1>1, SamplesOK
    <2>3. ~(i < Samples) => i + 1 > Samples
      BY <1>1, SamplesOK
    <2>. QED
      BY <2>1, <2>2, <2>3, Zenon
  <1>4. CASE mRunning' /\ ~silent
    <2>1. PICK f \in (IF backward THEN BackwardFrom(i) ELSE ForwardFrom(i)) :
            next' = f.next /\ timer' = f.timer
      BY <1>4 DEF TimerSample
    <2>2. mLastFrameDuration' \in BOOLEAN
      BY <1>1, <1>4 DEF TimerSample
    <2>3. mLastFrameDuration \in BOOLEAN /\ backward \in BOOLEAN
      BY DEF PlaybackTypeOK
    <2>4. CASE backward
      BY <1>1, <2>1, <2>2, <2>3, <2>4, BackwardOK
    <2>5. CASE ~backward
      BY <1>1, <2>1, <2>2, <2>3, <2>5, ForwardOK
    <2>. QED
      BY <2>4, <2>5
  <1>. QED
    BY <1>2, <1>3, <1>4

\* What the application knows.
Knowledge == [call : Calls \cup {"none"}, waiting : BOOLEAN, unasked : BOOLEAN,
              shown : Nat]

\* After a sample the application was shown one more, unless the sample is
\* silent.
LEMMA SampleShown ==
  ASSUME PlaybackTypeOK, TimerSample
  PROVE  /\ app' \in Knowledge /\ app'.call = app.call
         /\ \/ mPendingSeekExact' = TRUE /\ mRunning' = TRUE /\ app'.shown = app.shown
            \/ /\ mPendingSeekExact' = FALSE /\ mRunning' = ~mFrameByFrame
               /\ app'.shown = app.shown + 1
  <1> DEFINE i == SeekResult.next
             silent == i < SeekResult.silentUntil /\ mPendingSeekExact
  <1>1. /\ mPendingSeekExact' = silent /\ mRunning' = (silent \/ ~mFrameByFrame)
        /\ silent \in BOOLEAN /\ mFrameByFrame \in BOOLEAN
    BY Zenon DEF TimerSample, PlaybackTypeOK
  <1>2. PICK u \in BOOLEAN, w \in BOOLEAN :
            app' = [app EXCEPT !.unasked = u, !.waiting = w,
                               !.shown = app.shown + (IF silent THEN 0 ELSE 1)]
    BY Zenon DEF TimerSample
  <1>3. app \in Knowledge
    BY DEF PlaybackTypeOK, Knowledge
  <1>4. app.shown \in Nat
    BY <1>3 DEF Knowledge
  <1>5. PICK n \in Nat : n = app.shown + (IF silent THEN 0 ELSE 1)
    BY <1>4
  <1>6. app' = [app EXCEPT !.unasked = u, !.waiting = w, !.shown = n]
    BY <1>2, <1>5, Zenon
  <1>7. app' \in Knowledge
    BY <1>3, <1>6 DEF Knowledge
  <1>8. app'.call = app.call /\ app'.shown = n
    BY <1>3, <1>6 DEF Knowledge
  <1>9. CASE silent
    <2>1. n = app.shown
      BY <1>4, <1>5, <1>9
    <2>. QED
      BY <1>1, <1>7, <1>8, <1>9, <2>1, Zenon
  <1>10. CASE ~silent
    <2>1. silent = FALSE
      BY <1>1, <1>10, Zenon
    <2>. QED
      BY <1>1, <1>5, <1>7, <1>8, <2>1, Zenon
  <1>. QED
    BY <1>9, <1>10

\* Where the reader is and what is due after a sample.
LEMMA SampleReader ==
  ASSUME PlaybackTypeOK, TimerSample
  PROVE  /\ silentUntil' \in 0..Samples /\ mCurrentTime' \in 0..Samples
         /\ due' \in 0..(Samples + 1)
         /\ landed' \in [want : 0..(Samples + 1), got : 0..Samples]
         /\ mPendingSeekTs' = 0 /\ mSeekResponse' \in Statuses
  <1> DEFINE i == SeekResult.next
             silent == i < SeekResult.silentUntil /\ mPendingSeekExact
  <1>1. i \in 0..Samples /\ mCurrentTime' = i
    <2>1. i <= Samples /\ mCurrentTime' = i
      BY Zenon DEF TimerSample
    <2>. QED
      BY <2>1, SeekResultOK, SamplesOK
  <1>2. 0 \in 0..Samples /\ 0 \in 0..(Samples + 1)
    BY SamplesOK
  <1>3. silentUntil' \in {0, SeekResult.silentUntil}
    BY Zenon DEF TimerSample
  <1>4. due' \in {0, due}
    BY Zenon DEF TimerSample
  <1>5. landed' = landed \/ landed' = [want |-> 0, got |-> i]
        \/ landed' = [want |-> due, got |-> i]
    BY Zenon DEF TimerSample
  <1>6. landed' \in [want : 0..(Samples + 1), got : 0..Samples]
    <2>1. due \in 0..(Samples + 1) /\ landed \in [want : 0..(Samples + 1), got : 0..Samples]
      BY DEF PlaybackTypeOK
    <2>. QED
      BY <1>1, <1>2, <1>5, <2>1
  <1>7. mPendingSeekTs' = 0 /\ mSeekResponse' = SeekResult.result
    BY Zenon DEF TimerSample
  <1>. QED
    BY <1>1, <1>2, <1>3, <1>4, <1>6, <1>7, SeekResultOK, Zenon DEF PlaybackTypeOK

LEMMA TypeStep ==
  ASSUME PlaybackTypeOK, Next
  PROVE  PlaybackTypeOK'
  <1>1. CASE AppCall
    BY <1>1, CallTypeStep
  <1>2. CASE TimerStopped
    BY <1>2, ZenonT(60) DEF TimerStopped, PlaybackTypeOK, position, pending
  <1>3. CASE TimerNoBuffer
    <2>1. bound' \in [calls : Nat, noBuffer : Nat, readErrors : Nat]
      BY <1>3 DEF TimerNoBuffer, PlaybackTypeOK
    <2>2. /\ timer' \in BOOLEAN /\ flushing' \in BOOLEAN
          /\ mLastFrameDuration' \in BOOLEAN
      BY <1>3, Zenon DEF TimerNoBuffer, LastDurationAfterSeek, PlaybackTypeOK
    <2>. QED
      BY <1>3, <2>1, <2>2, NoBufferNext, SeekResultOK, ZenonT(60)
      DEF TimerNoBuffer, PlaybackTypeOK, pending
  <1>4. CASE TimerReadError
    <2>1. bound' \in [calls : Nat, noBuffer : Nat, readErrors : Nat]
      BY <1>4 DEF TimerReadError, PlaybackTypeOK
    <2>2. next' \in 1..(Samples + 1)
      <3>1. /\ SeekResult.next \in 1..(Samples + 1) /\ SeekResult.next <= Samples
            /\ next' = SeekResult.next \/ next' = SeekResult.next + 1
        BY <1>4, SeekResultOK, Zenon DEF TimerReadError
      <3>. QED
        BY <3>1, SamplesOK
    <2>3. mLastFrameDuration' \in BOOLEAN
      BY <1>4, Zenon DEF TimerReadError, LastDurationAfterSeek, PlaybackTypeOK
    <2>4. silentUntil' \in 0..Samples /\ mSeekResponse' \in Statuses
      BY <1>4, SeekResultOK, Zenon DEF TimerReadError
    <2>5. UNCHANGED <<timer, flushing, backward, mRunning, mFrameByFrame, pending,
                      mCurrentTime, app, due, landed>>
      BY <1>4, Zenon DEF TimerReadError
    <2>. QED
      BY <2>1, <2>2, <2>3, <2>4, <2>5, ZenonT(60) DEF PlaybackTypeOK, pending
  <1>5. CASE TimerEndOfFile
    BY <1>5, SeekResultOK, ZenonT(60) DEF TimerEndOfFile, PlaybackTypeOK, position, pending
  <1>6. CASE TimerSample
    <2>1. mRunning' \in BOOLEAN
      BY <1>6, SampleShown, Zenon DEF PlaybackTypeOK
    <2>2. /\ mPendingSeekToPrevSample' = FALSE /\ mPendingSeekToNextSample' = FALSE
          /\ UNCHANGED <<flushing, backward, mFrameByFrame, bound>>
      BY <1>6, Zenon DEF TimerSample
    <2>3. mPendingSeekTs' \in 0..Samples
      BY <1>6, SampleReader, SamplesOK
    <2>. QED
      BY <1>6, <2>1, <2>2, <2>3, SampleNext, SampleShown, SampleReader, Zenon
      DEF PlaybackTypeOK, Knowledge
  <1>7. CASE FlushDone
    BY <1>7, ZenonT(60) DEF FlushDone, PlaybackTypeOK, position, pending
  <1>. QED
    BY <1>1, <1>2, <1>3, <1>4, <1>5, <1>6, <1>7 DEF Next, TimerCb

\* Paused, what was asked for is shown once: showing it ends the request.
LEMMA StepStep ==
  ASSUME PlaybackTypeOK, StepInv, OneFramePerStep, Next
  PROVE  StepInv' /\ OneFramePerStep'
  <1>1. CASE AppCall
    <2>1. app'.shown = 0
      BY <1>1, CalledType
    <2>2. mFrameByFrame' /\ mRunning' => app'.call \notin {"pause", "none"}
      BY <1>1, ZenonT(60) DEF AppCall, Play, Pause, PreviousFrame, NextFrame, SeekTo, SeekCalled,
                  PlaybackTypeOK
    <2>. QED
      BY <2>1, <2>2 DEF StepInv, OneFramePerStep
  <1>2. CASE TimerStopped
    BY <1>2 DEF TimerStopped, StepInv, OneFramePerStep
  <1>3. CASE TimerNoBuffer
    BY <1>3 DEF TimerNoBuffer, StepInv, OneFramePerStep
  <1>4. CASE TimerReadError
    BY <1>4 DEF TimerReadError, StepInv, OneFramePerStep
  <1>5. CASE TimerEndOfFile
    BY <1>5 DEF TimerEndOfFile, StepInv, OneFramePerStep
  <1>6. CASE TimerSample
    <2>1. mRunning /\ mFrameByFrame' = mFrameByFrame
      BY <1>6, Zenon DEF TimerSample, TimerFires
    <2>2. mFrameByFrame => app.shown = 0 /\ app.call \notin {"pause", "none"}
      BY <2>1, Zenon DEF StepInv
    <2>3. CASE mRunning' = TRUE /\ app'.shown = app.shown /\ app'.call = app.call
      BY <2>1, <2>2, <2>3 DEF StepInv, OneFramePerStep
    <2>4. CASE /\ mRunning' = ~mFrameByFrame /\ app'.shown = app.shown + 1
               /\ app'.call = app.call
      <3>1. mFrameByFrame => ~mRunning'
        BY <2>4, Zenon
      <3>2. mFrameByFrame => app'.shown = 1
        BY <2>2, <2>4
      <3>. QED
        BY <2>1, <2>2, <2>4, <3>1, <3>2 DEF StepInv, OneFramePerStep
    <2>. QED
      BY <1>6, <2>3, <2>4, SampleShown, Zenon
  <1>7. CASE FlushDone
    BY <1>7 DEF FlushDone, StepInv, OneFramePerStep
  <1>. QED
    BY <1>1, <1>2, <1>3, <1>4, <1>5, <1>6, <1>7 DEF Next, TimerCb

\* The timer is left unarmed, with no flush to arm it, only at the end of the
\* range.
LEMMA GoesOnStep ==
  ASSUME PlaybackTypeOK, PlayingGoesOn, Next
  PROVE  PlayingGoesOn'
  <1>1. CASE AppCall
    <2>1. CASE timer' \/ ~mRunning'
      BY <2>1, Zenon DEF PlayingGoesOn
    <2>2. CASE PreviousFrame
      BY <2>2, <1>1, CalledType, Zenon
      DEF PreviousFrame, pending, position, PlayingGoesOn
    <2>. QED
      BY <1>1, <2>1, <2>2, Zenon DEF AppCall, Play, Pause, NextFrame, SeekTo
  <1>2. CASE TimerStopped
    BY <1>2, Zenon DEF TimerStopped, PlayingGoesOn
  <1>3. CASE TimerNoBuffer
    BY <1>3, Zenon DEF TimerNoBuffer, PlayingGoesOn
  <1>4. CASE TimerReadError
    BY <1>4, Zenon DEF TimerReadError, TimerFires, PlayingGoesOn
  <1>5. CASE TimerEndOfFile
    <2>1. next > Samples /\ next' = next
      BY <1>5, SeekResultOK, Zenon DEF TimerEndOfFile, position
    <2>. QED
      BY <2>1, Zenon DEF PlayingGoesOn
  <1>6. CASE TimerSample
    BY <1>6, SampleNext, Zenon DEF PlayingGoesOn, TimerSample
  <1>7. CASE FlushDone
    BY <1>7, Zenon DEF FlushDone, PlayingGoesOn
  <1>. QED
    BY <1>1, <1>2, <1>3, <1>4, <1>5, <1>6, <1>7 DEF Next, TimerCb

\* No step but a sample shown changes what is due but a call, which says it anew.
LEMMA DueCall ==
  ASSUME PlaybackTypeOK, DueInv, AppCall
  PROVE  DueInv'
  <1> SUFFICES ASSUME due' # 0 PROVE DueInv'
    BY DEF DueInv
  <1>1. next' = next /\ silentUntil' = silentUntil
    BY CalledType DEF position
  <1>2. CASE Play \/ Pause
    BY <1>2 DEF Play, Pause, OtherCalled
  <1>3. CASE PreviousFrame
    <2>1. Quiet /\ due' = mCurrentTime - 1 /\ mCurrentTime > 1
      BY <1>3 DEF PreviousFrame
    <2>2. /\ mPendingSeekTs' = 0 /\ mPendingSeekToPrevSample' = TRUE
          /\ mPendingSeekExact' = TRUE
      BY <1>3, <2>1, Zenon DEF PreviousFrame, Quiet
    <2>3. due' = next' - 2
      BY <1>1, <2>1 DEF Quiet, PlaybackTypeOK
    <2>. QED
      BY <2>2, <2>3 DEF DueInv
  <1>4. CASE NextFrame
    <2>1. Quiet /\ due' = mCurrentTime + 1
      BY <1>4 DEF NextFrame
    <2>2. /\ mPendingSeekTs' = 0 /\ mPendingSeekToPrevSample' = FALSE
          /\ ~mPendingSeekExact'
      BY <1>4, <2>1, Zenon DEF NextFrame, Quiet
    <2>3. due' = next'
      BY <1>1, <2>1 DEF Quiet, PlaybackTypeOK
    <2>. QED
      BY <2>2, <2>3 DEF DueInv
  <1>5. ASSUME NEW i \in 1..Samples, SeekTo(i) PROVE DueInv'
    <2>1. /\ mPendingSeekTs' = i /\ i > 0
          /\ due' = IF mPendingSeekExact' THEN i ELSE SyncAtOrBefore(i)
      BY <1>5 DEF SeekTo
    <2>. QED
      BY <2>1 DEF DueInv
  <1>. QED
    BY <1>2, <1>3, <1>4, <1>5 DEF AppCall

\* The sample that is shown is the one that was due.
LEMMA DueSample ==
  ASSUME PlaybackTypeOK, DueInv, TimerSample,
         due # 0, bound.noBuffer = 0, bound.readErrors = 0
  PROVE  IF SeekResult.next < SeekResult.silentUntil /\ mPendingSeekExact
         THEN due = SeekResult.silentUntil
         ELSE due = SeekResult.next
  <1> USE SamplesOK DEF At
  <1>1. CASE /\ mPendingSeekTs > 0
             /\ due = IF mPendingSeekExact THEN mPendingSeekTs
                      ELSE SyncAtOrBefore(mPendingSeekTs)
    <2>1. SyncAtOrBefore(mPendingSeekTs) \in 1..mPendingSeekTs
      BY <1>1, SyncFound DEF PlaybackTypeOK
    <2>. QED
      BY <1>1, <2>1 DEF SeekResult, PlaybackTypeOK
  <1>2. CASE /\ mPendingSeekTs = 0 /\ mPendingSeekToPrevSample /\ mPendingSeekExact
             /\ due = next - 2
    <2>1. next > 2
      BY <1>2 DEF PlaybackTypeOK
    <2>2. SyncAtOrBefore(next - 2) \in 1..(next - 2)
      BY <2>1, SyncFound DEF PlaybackTypeOK
    <2>. QED
      BY <1>2, <2>1, <2>2 DEF SeekResult, PlaybackTypeOK
  <1>3. CASE /\ mPendingSeekTs = 0 /\ ~mPendingSeekToPrevSample /\ mPendingSeekExact
             /\ due = silentUntil /\ next <= silentUntil
    BY <1>3 DEF SeekResult, PlaybackTypeOK
  <1>4. CASE /\ mPendingSeekTs = 0 /\ ~mPendingSeekToPrevSample /\ ~mPendingSeekExact
             /\ due = next
    BY <1>4 DEF SeekResult
  <1>. QED
    BY <1>1, <1>2, <1>3, <1>4 DEF DueInv

\* Missing buffers and samples that cannot be read are counted, and nothing
\* takes them back.
LEMMA DueStep ==
  ASSUME PlaybackTypeOK, DueInv, RequestLandsUnhindered, Next
  PROVE  DueInv' /\ RequestLandsUnhindered'
  <1>1. CASE AppCall
    <2>1. RequestLandsUnhindered'
      BY <1>1, CalledType, Zenon DEF RequestLandsUnhindered, RequestLands
    <2>. QED
      BY <1>1, <2>1, DueCall
  <1>2. CASE TimerStopped
    BY <1>2, Zenon DEF TimerStopped, position, pending, DueInv, RequestLandsUnhindered,
                       RequestLands
  <1>3. CASE TimerNoBuffer
    <2>1. bound'.noBuffer # 0
      BY <1>3 DEF TimerNoBuffer, PlaybackTypeOK
    <2>. QED
      BY <2>1 DEF DueInv, RequestLandsUnhindered
  <1>4. CASE TimerReadError
    <2>1. bound'.readErrors # 0
      BY <1>4 DEF TimerReadError, PlaybackTypeOK
    <2>. QED
      BY <2>1 DEF DueInv, RequestLandsUnhindered
  <1>5. CASE TimerEndOfFile
    BY <1>5, Zenon DEF TimerEndOfFile, position, pending, DueInv,
                       RequestLandsUnhindered, RequestLands
  <1>6. CASE TimerSample
    <2> DEFINE i == SeekResult.next
               silent == i < SeekResult.silentUntil /\ mPendingSeekExact
    <2>1. bound' = bound /\ mPendingSeekTs' = 0 /\ mPendingSeekToPrevSample' = FALSE
      BY <1>6, Zenon DEF TimerSample
    <2>2. CASE silent
      <3>1. /\ due' = due /\ landed' = landed /\ mPendingSeekExact' = silent
            /\ mRunning' = (silent \/ ~mFrameByFrame)
        BY <1>6, <2>2, Zenon DEF TimerSample
      <3>2. /\ next' = i + 1
            /\ silentUntil' = IF i < SeekResult.silentUntil /\ next' = i + 1
                              THEN SeekResult.silentUntil ELSE 0
        BY <1>6, <2>2, <3>1, Zenon DEF TimerSample
      <3>3. silentUntil' = SeekResult.silentUntil /\ next' <= silentUntil'
        BY <2>2, <3>2, SeekResultOK
      <3>4. RequestLandsUnhindered'
        BY <2>1, <3>1, Zenon DEF RequestLandsUnhindered, RequestLands
      <3>5. ASSUME due # 0, bound.noBuffer = 0, bound.readErrors = 0
            PROVE  due = SeekResult.silentUntil
        BY <1>6, <2>2, <3>5, DueSample
      <3>. QED
        BY <2>1, <2>2, <3>1, <3>3, <3>4, <3>5, Zenon DEF DueInv
    <2>3. CASE ~silent
      <3>1. /\ due' = 0
            /\ landed' = [want |-> IF SeekResult.result = "ok" THEN due ELSE 0, got |-> i]
        BY <1>6, <2>3, Zenon DEF TimerSample
      <3>2. ASSUME due # 0, bound.noBuffer = 0, bound.readErrors = 0
            PROVE  due = i
        BY <1>6, <2>3, <3>2, DueSample
      <3>3. RequestLandsUnhindered'
        BY <2>1, <3>1, <3>2 DEF RequestLandsUnhindered, RequestLands
      <3>. QED
        BY <3>1, <3>3 DEF DueInv
    <2>. QED
      BY <2>2, <2>3
  <1>7. CASE FlushDone
    BY <1>7, Zenon DEF FlushDone, position, pending, DueInv, RequestLandsUnhindered,
                       RequestLands
  <1>. QED
    BY <1>1, <1>2, <1>3, <1>4, <1>5, <1>6, <1>7 DEF Next, TimerCb

-----------------------------------------------------------------------------
(* The theorems.                                                           *)

\* The record is opened in a state that satisfies the invariant.
LEMMA InitPlayback == Init => PlaybackInv
  <1> SUFFICES ASSUME Init PROVE PlaybackInv
    OBVIOUS
  <1>1. PlaybackTypeOK
    <2>1. next \in 1..(Samples + 1) /\ silentUntil \in 0..Samples
          /\ mPendingSeekTs \in 0..Samples /\ mCurrentTime \in 0..Samples
          /\ due \in 0..(Samples + 1)
      BY SamplesOK DEF Init
    <2>2. landed \in [want : 0..(Samples + 1), got : 0..Samples]
      BY SamplesOK DEF Init
    <2>3. bound \in [calls : Nat, noBuffer : Nat, readErrors : Nat]
      BY DEF Init
    <2>4. app \in [call : Calls \cup {"none"}, waiting : BOOLEAN, unasked : BOOLEAN,
                   shown : Nat]
      BY DEF Init
    <2>. QED
      BY <2>1, <2>2, <2>3, <2>4, Zenon DEF Init, PlaybackTypeOK, Statuses
  <1>2. StepInv /\ OneFramePerStep /\ DueInv
    BY DEF Init, StepInv, OneFramePerStep, DueInv
  <1>3. RequestLandsUnhindered /\ PlayingGoesOn
    BY DEF Init, RequestLandsUnhindered, RequestLands, PlayingGoesOn
  <1>. QED
    BY <1>1, <1>2, <1>3 DEF PlaybackInv

LEMMA PlaybackStep == PlaybackInv /\ [Next]_vars => PlaybackInv'
  <1> SUFFICES ASSUME PlaybackInv, [Next]_vars PROVE PlaybackInv'
    OBVIOUS
  <1>1. CASE Next
    BY <1>1, TypeStep, StepStep, DueStep, GoesOnStep DEF PlaybackInv
  <1>2. CASE UNCHANGED vars
    <2> USE <1>2 DEF PlaybackInv, vars, position, pending
    <2>1. PlaybackTypeOK'
      BY DEF PlaybackTypeOK
    <2>2. StepInv' /\ OneFramePerStep'
      BY DEF StepInv, OneFramePerStep
    <2>3. DueInv'
      BY Zenon DEF DueInv
    <2>4. RequestLandsUnhindered' /\ PlayingGoesOn'
      BY DEF RequestLandsUnhindered, RequestLands, PlayingGoesOn
    <2>. QED
      BY <2>1, <2>2, <2>3, <2>4
  <1>. QED
    BY <1>1, <1>2

THEOREM PlaybackInvariance == Spec => []PlaybackInv
  BY InitPlayback, PlaybackStep, PTL DEF Spec

\* Type correctness of the playback: the reader never leaves the record.
THEOREM PlaybackTypeCorrect == Spec => []PlaybackTypeOK
  <1>1. PlaybackInv => PlaybackTypeOK
    BY DEF PlaybackInv
  <1>. QED
    BY <1>1, PlaybackInvariance, PTL

\* Paused, one frame is shown for each that is asked for
\* (pdraw_demuxer_record.cpp: previous, next, seekTo and timerCb).
THEOREM StepsShowOneFrame == Spec => []OneFramePerStep
  <1>1. PlaybackInv => OneFramePerStep
    BY DEF PlaybackInv
  <1>. QED
    BY <1>1, PlaybackInvariance, PTL

\* A seek or a step that is not hindered shows the sample it was asked for.
THEOREM RequestsLand == Spec => []RequestLandsUnhindered
  <1>1. PlaybackInv => RequestLandsUnhindered
    BY DEF PlaybackInv
  <1>. QED
    BY <1>1, PlaybackInvariance, PTL

\* Playing stops only at the end of the range.
THEOREM PlayingStopsAtTheEnd == Spec => []PlayingGoesOn
  <1>1. PlaybackInv => PlayingGoesOn
    BY DEF PlaybackInv
  <1>. QED
    BY <1>1, PlaybackInvariance, PTL
=============================================================================
