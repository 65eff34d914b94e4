--------------------------- MODULE RecordPlayback ---------------------------
(***************************************************************************)
(* How the demuxer of a record plays it (pdraw_demuxer_record.cpp, the     *)
(* functions of the playback control API and timerCb()): the application   *)
(* plays, pauses, steps and seeks at any time; the timer does what is      *)
(* pending, then reads one sample.  Samples are 1 .. Samples, in the order *)
(* of their time; one of time zero is the first.  The reader of the file   *)
(* (libmp4) is external: a seek goes to a synchronization sample, after    *)
(* which samples are silent until the one asked for.                       *)
(***************************************************************************)
EXTENDS Naturals, Integers, FiniteSets, FiniteSetsExt

CONSTANTS
    Samples,        \* number of samples of the record
    Sync,           \* its synchronization samples
    Calls,          \* what the application calls, see AllCalls
    MaxCalls,       \* bound: number of calls
    MaxNoBuffer,    \* bound: times no buffer is left
    MaxReadErrors   \* bound: samples that cannot be read

AllCalls == {"play", "playBackward", "pause", "previous", "next", "seek", "seekExact"}

ASSUME SamplesOK == Samples \in Nat /\ Sync \subseteq 1..Samples /\ 1 \in Sync
ASSUME CallsOK == Calls \subseteq AllCalls
ASSUME PlaybackBoundsOK ==
    MaxCalls \in Nat /\ MaxNoBuffer \in Nat /\ MaxReadErrors \in Nat

VARIABLES
    \* libmp4: the next sample to read, the first that is not silent
    next, silentUntil,
    \* RecordDemuxer: the timer is armed, a flush downstream is in progress,
    \* the speed is negative, and its attributes
    timer, flushing, backward,
    mRunning, mFrameByFrame, mPendingSeekTs, mPendingSeekExact,
    mPendingSeekToPrevSample, mPendingSeekToNextSample, mSeekResponse,
    mLastFrameDuration, mCurrentTime,
    \* What the application knows: its last call, whether it waits for an
    \* answer, whether it got one it did not wait for, frames shown since its
    \* last call; the sample its last seek asked for (0: any), and the one it
    \* was shown
    app, due, landed,
    \* Counters for the bounds
    bound

position == <<next, silentUntil>>
pending == <<mPendingSeekTs, mPendingSeekExact, mPendingSeekToPrevSample,
             mPendingSeekToNextSample>>
vars == <<position, timer, flushing, backward, mRunning, mFrameByFrame, pending,
          mSeekResponse, mLastFrameDuration, mCurrentTime, app, due, landed, bound>>

Statuses == {"ok", "failed"}
PlaybackTypeOK ==
    /\ next \in 1..(Samples + 1) /\ silentUntil \in 0..Samples
    /\ timer \in BOOLEAN /\ flushing \in BOOLEAN /\ backward \in BOOLEAN
    /\ mRunning \in BOOLEAN /\ mFrameByFrame \in BOOLEAN
    /\ mPendingSeekTs \in 0..Samples /\ mPendingSeekExact \in BOOLEAN
    /\ mPendingSeekToPrevSample \in BOOLEAN /\ mPendingSeekToNextSample \in BOOLEAN
    /\ mSeekResponse \in Statuses /\ mLastFrameDuration \in BOOLEAN
    /\ mCurrentTime \in 0..Samples
    /\ app \in [call : Calls \cup {"none"}, waiting : BOOLEAN, unasked : BOOLEAN,
                shown : Nat]
    /\ due \in 0..(Samples + 1) /\ landed \in [want : 0..(Samples + 1), got : 0..Samples]
    /\ bound \in [calls : Nat, noBuffer : Nat, readErrors : Nat]

\* The state after start().  Zero stands for no pending time.
Init ==
    /\ next = 1 /\ silentUntil = 0
    /\ timer = FALSE /\ flushing = FALSE /\ backward = FALSE
    /\ mRunning = FALSE /\ mFrameByFrame = TRUE
    /\ mPendingSeekTs = 0 /\ mPendingSeekExact = FALSE
    /\ mPendingSeekToPrevSample = FALSE /\ mPendingSeekToNextSample = FALSE
    /\ mSeekResponse = "ok" /\ mLastFrameDuration = FALSE /\ mCurrentTime = 0
    /\ app = [call |-> "none", waiting |-> FALSE, unasked |-> FALSE, shown |-> 0]
    /\ due = 0 /\ landed = [want |-> 0, got |-> 0]
    /\ bound = [calls |-> 0, noBuffer |-> 0, readErrors |-> 0]

-----------------------------------------------------------------------------
(* The playback control API.                                               *)

SyncAtOrBefore(i) == Max({j \in Sync : j <= i})
SyncBefore(i) == {j \in Sync : j < i}
SyncAfter(i) == {j \in Sync : j > i}

Called(call) ==
    /\ call \in Calls /\ bound.calls < MaxCalls
    /\ bound' = [bound EXCEPT !.calls = @ + 1]
    /\ UNCHANGED <<position, flushing, mSeekResponse, mLastFrameDuration, mCurrentTime,
                   landed>>
SeekCalled(call) ==
    /\ Called(call)
    /\ app' = [app EXCEPT !.call = call, !.waiting = TRUE, !.shown = 0]
OtherCalled(call) ==
    /\ Called(call)
    /\ app' = [app EXCEPT !.call = call, !.shown = 0]
    /\ due' = 0

\* play() at a speed that is not zero
Play ==
    /\ \/ OtherCalled("play") /\ backward' = FALSE
       \/ OtherCalled("playBackward") /\ backward' = TRUE
    /\ mRunning' = TRUE /\ mFrameByFrame' = FALSE /\ timer' = TRUE
    /\ mPendingSeekToPrevSample' = FALSE /\ mPendingSeekToNextSample' = FALSE
    /\ UNCHANGED <<mPendingSeekTs, mPendingSeekExact>>

\* Mutant: pause() lets the playback run.
PauseRunning ==
    /\ OtherCalled("pause")
    /\ mFrameByFrame' = TRUE
    /\ UNCHANGED <<mRunning, timer, backward, pending>>

\* pause(): the timer is left armed.
Pause ==
    /\ OtherCalled("pause")
    /\ mRunning' = FALSE /\ mFrameByFrame' = TRUE
    /\ UNCHANGED <<timer, backward, pending>>

\* Nothing is pending or on its way, so that the sample a step asks for is
\* the one next to the sample shown last.
Quiet == /\ ~timer /\ ~flushing /\ ~mRunning /\ mPendingSeekTs = 0 /\ ~mPendingSeekExact
         /\ mCurrentTime > 0 /\ next = mCurrentTime + 1

PreviousFrame ==
    /\ mFrameByFrame
    /\ SeekCalled("previous")
    /\ IF mPendingSeekExact THEN UNCHANGED <<pending, mRunning, timer>>
       ELSE /\ mPendingSeekToPrevSample' = TRUE /\ mPendingSeekToNextSample' = FALSE
            /\ mPendingSeekExact' = TRUE
            /\ mRunning' = TRUE /\ timer' = TRUE
            /\ UNCHANGED mPendingSeekTs
    /\ due' = IF Quiet /\ mCurrentTime > 1 THEN mCurrentTime - 1 ELSE 0
    /\ UNCHANGED <<backward, mFrameByFrame>>

NextFrame ==
    /\ mFrameByFrame
    /\ SeekCalled("next")
    /\ mPendingSeekToNextSample' = TRUE /\ mPendingSeekToPrevSample' = FALSE
    /\ mRunning' = TRUE /\ timer' = TRUE
    /\ due' = IF Quiet /\ mCurrentTime < Samples THEN mCurrentTime + 1 ELSE 0
    /\ UNCHANGED <<backward, mFrameByFrame, mPendingSeekTs, mPendingSeekExact>>

\* seekTo(), and seek(), which calls it with a time between 0 and mDuration
SeekTo(i) ==
    /\ \/ SeekCalled("seek") /\ mPendingSeekExact' = FALSE /\ due' = SyncAtOrBefore(i)
       \/ SeekCalled("seekExact") /\ mPendingSeekExact' = TRUE /\ due' = i
    /\ mPendingSeekTs' = i
    /\ mPendingSeekToPrevSample' = FALSE /\ mPendingSeekToNextSample' = FALSE
    /\ mRunning' = TRUE /\ timer' = TRUE
    /\ UNCHANGED <<backward, mFrameByFrame>>

AppCall == Play \/ Pause \/ PreviousFrame \/ NextFrame \/ (\E i \in 1..Samples : SeekTo(i))

-----------------------------------------------------------------------------
(* timerCb().                                                              *)

\* Where libmp4 stands after the pending seek, if any, its result, and whether
\* it is to be answered with the next sample (didSeek).
At(n, s, result, did) == [next |-> n, silentUntil |-> s, result |-> result, did |-> did]

\* Mutant: the step back goes to the sample that was read last.
SeekResultLastSample ==
    IF mPendingSeekTs > 0
    THEN At(SyncAtOrBefore(mPendingSeekTs), mPendingSeekTs, "ok", TRUE)
    ELSE IF mPendingSeekToPrevSample
    THEN IF next > 1 THEN At(SyncAtOrBefore(next - 1), next - 1, "ok", FALSE)
                     ELSE At(next, silentUntil, "failed", TRUE)
    ELSE At(next, silentUntil, IF mPendingSeekToNextSample THEN "ok" ELSE mSeekResponse,
            mPendingSeekToNextSample)

SeekResult ==
    IF mPendingSeekTs > 0
    THEN At(SyncAtOrBefore(mPendingSeekTs), mPendingSeekTs, "ok", TRUE)
    ELSE IF mPendingSeekToPrevSample
    THEN IF next > 2 THEN At(SyncAtOrBefore(next - 2), next - 2, "ok", FALSE)
                     ELSE At(next, silentUntil, "failed", TRUE)
    ELSE At(next, silentUntil, IF mPendingSeekToNextSample THEN "ok" ELSE mSeekResponse,
            mPendingSeekToNextSample)

TimerFires == timer /\ mRunning
LastDurationAfterSeek(p) == mLastFrameDuration /\ ~(p.result = "ok"
                                /\ (mPendingSeekTs > 0 \/ mPendingSeekToPrevSample))

TimerStopped ==
    /\ timer /\ ~mRunning
    /\ timer' = FALSE /\ mLastFrameDuration' = FALSE
    /\ UNCHANGED <<position, flushing, backward, mRunning, mFrameByFrame, pending,
                   mSeekResponse, mCurrentTime, app, due, landed, bound>>

\* No buffer is left (waitFlush): everything downstream is flushed, now or
\* later, and the reader goes on at a synchronization sample.  What was
\* pending still is.
TimerNoBuffer ==
    /\ TimerFires /\ bound.noBuffer < MaxNoBuffer
    /\ bound' = [bound EXCEPT !.noBuffer = @ + 1]
    /\ flushing' \in {flushing, TRUE}
    /\ timer' = ~flushing'
    /\ mSeekResponse' = SeekResult.result
    /\ mLastFrameDuration' = LastDurationAfterSeek(SeekResult)
    /\ LET syncs == {j \in Sync : j >= SeekResult.next} IN
       IF syncs = {}
       THEN next' = SeekResult.next /\ silentUntil' = SeekResult.silentUntil
       ELSE next' = Min(syncs) /\ silentUntil' = 0
    /\ UNCHANGED <<backward, mRunning, mFrameByFrame, pending, mCurrentTime, app, due,
                   landed>>

\* Mutant: the timer is not armed again after a flush.
FlushDoneOnly ==
    /\ flushing
    /\ flushing' = FALSE
    /\ UNCHANGED <<position, timer, backward, mRunning, mFrameByFrame, pending,
                   mSeekResponse, mLastFrameDuration, mCurrentTime, app, due, landed, bound>>

\* onChannelFlushed() and completeFlush()
FlushDone ==
    /\ flushing
    /\ flushing' = FALSE
    /\ timer' = (timer \/ mRunning)
    /\ UNCHANGED <<position, backward, mRunning, mFrameByFrame, pending, mSeekResponse,
                   mLastFrameDuration, mCurrentTime, app, due, landed, bound>>

\* The sample cannot be read (retry); one that is too large is skipped.
TimerReadError ==
    /\ TimerFires /\ bound.readErrors < MaxReadErrors
    /\ SeekResult.next <= Samples
    /\ bound' = [bound EXCEPT !.readErrors = @ + 1]
    /\ next' \in {SeekResult.next, SeekResult.next + 1}
    /\ silentUntil' = SeekResult.silentUntil
    /\ mSeekResponse' = SeekResult.result
    /\ mLastFrameDuration' = LastDurationAfterSeek(SeekResult)
    /\ UNCHANGED <<timer, flushing, backward, mRunning, mFrameByFrame, pending,
                   mCurrentTime, app, due, landed>>

\* There is no sample left; when playing the end of range is notified.
TimerEndOfFile ==
    /\ TimerFires
    /\ SeekResult.next > Samples
    /\ timer' = FALSE
    /\ mRunning' = (mRunning /\ ~mFrameByFrame)
    /\ mSeekResponse' = SeekResult.result
    /\ mLastFrameDuration' = FALSE
    /\ UNCHANGED <<position, flushing, backward, mFrameByFrame, pending, mCurrentTime,
                   app, due, landed, bound>>

\* What follows sample i when playing goes on: where the reader goes, and
\* whether the timer is armed again (if not the end of range is notified).
\* Playing that is late goes to another synchronization sample, the first that
\* is not late; when there is none it stops at the last it tried.
ForwardFrom(i) ==
    {[next |-> i + 1, timer |-> i < Samples]}
    \cup (IF ~mLastFrameDuration \/ i = Samples THEN {} ELSE
          {[next |-> j, timer |-> TRUE] : j \in SyncAfter(i + 1)}
          \cup {[next |-> j, timer |-> FALSE] :
                    j \in {k \in SyncAfter(i + 1) : SyncAfter(k) = {}}})

\* A synchronization sample of time zero is never gone to, and from the last
\* sample, which none follows, playing does not go back.
BackwardFrom(i) ==
    LET before == SyncBefore(i) \ {1}
    IN  IF before = {} \/ i = Samples THEN {[next |-> i + 1, timer |-> FALSE]}
        ELSE {[next |-> Max(before), timer |-> TRUE]}
             \cup (IF ~mLastFrameDuration THEN {} ELSE
                   {[next |-> j, timer |-> TRUE] : j \in before}
                   \cup {[next |-> Min(before), timer |-> FALSE]})

\* A sample is read, queued, and what was pending is answered.
TimerSample ==
    /\ TimerFires
    /\ LET p == SeekResult
           i == p.next
           silent == i < p.silentUntil /\ mPendingSeekExact
           didSeek == p.did \/ (mPendingSeekExact /\ ~silent)
       IN  /\ i <= Samples
           /\ mSeekResponse' = p.result
           /\ mPendingSeekTs' = 0
           /\ mPendingSeekToPrevSample' = FALSE /\ mPendingSeekToNextSample' = FALSE
           /\ mPendingSeekExact' = silent
           /\ mCurrentTime' = i
           /\ app' = [app EXCEPT !.unasked = @ \/ (didSeek /\ ~app.waiting),
                                 !.waiting = @ /\ ~didSeek,
                                 !.shown = @ + (IF silent THEN 0 ELSE 1)]
           /\ IF silent THEN UNCHANGED <<due, landed>>
              ELSE /\ due' = 0
                   /\ landed' = [want |-> IF p.result = "ok" THEN due ELSE 0, got |-> i]
           /\ mRunning' = (silent \/ ~mFrameByFrame)
           /\ IF ~mRunning' THEN next' = i + 1 /\ timer' = FALSE /\ mLastFrameDuration' = FALSE
              ELSE IF silent
              THEN next' = i + 1 /\ timer' = (i < Samples) /\ mLastFrameDuration' = FALSE
              ELSE \E f \in IF backward THEN BackwardFrom(i) ELSE ForwardFrom(i) :
                      /\ next' = f.next /\ timer' = f.timer
                      /\ mLastFrameDuration' = (i < Samples /\ (backward => i > 1))
           /\ silentUntil' = IF i < p.silentUntil /\ next' = i + 1 THEN p.silentUntil ELSE 0
    /\ UNCHANGED <<flushing, backward, mFrameByFrame, bound>>

TimerCb == \/ TimerStopped \/ TimerNoBuffer \/ TimerReadError \/ TimerEndOfFile
           \/ TimerSample

Next == AppCall \/ TimerCb \/ FlushDone
Spec == Init /\ [][Next]_vars

\* The timer expires, and flushes end.
FairSpec == Spec /\ WF_vars(TimerCb) /\ WF_vars(FlushDone)

-----------------------------------------------------------------------------
(* Properties.                                                             *)

\* While the playback is paused a frame is shown only when the application
\* asks for one, and one only, however many silent frames are read first and
\* whatever flushes and errors come in between.
OneFramePerStep ==
    mFrameByFrame => app.shown <= (IF app.call \in {"pause", "none"} THEN 0 ELSE 1)

\* The first frame shown after a successful seek or step is the one that was
\* asked for: the sample at that time, or the synchronization sample before it
\* if the seek is not exact, or the one next to the frame shown last.
RequestLands == landed.want # 0 => landed.got = landed.want

\* The same, as long as there is a buffer for every sample and every sample
\* can be read.
RequestLandsUnhindered == bound.noBuffer = 0 /\ bound.readErrors = 0 => RequestLands

\* A seek that was accepted is answered, unless the application pauses or steps
\* meanwhile: the timer, no buffer, a sample that cannot be read and the end of
\* the record each go on with what is pending.
SeekAnswered ==
    app.waiting /\ app.call \in {"seek", "seekExact"}
        ~> ~app.waiting \/ app.call \in {"pause", "previous", "next"}

\* The application gets no answer when it waits for none.
AnswersAreAsked == ~app.unasked

\* When playing is on, the timer is armed or a flush will arm it, unless the
\* reader is at the end of the range: playing forward, behind the last sample
\* or, when it was late, at the last synchronization sample; playing backward,
\* where no synchronization sample is before it but the first sample.  (Playing
\* backward from the last sample, or from behind it, ends at once too.)
PlayingGoesOn ==
    mRunning /\ ~timer /\ ~flushing =>
        IF backward THEN \/ SyncBefore(mCurrentTime) \subseteq {1}
                         \/ SyncBefore(next) \subseteq {1}
                         \/ next > Samples
        ELSE next > Samples \/ SyncAfter(next) = {}

-----------------------------------------------------------------------------
(* The inductive invariant.                                                *)

\* A step that is not done yet has shown nothing.
StepInv ==
    mFrameByFrame /\ mRunning => app.shown = 0 /\ app.call \notin {"pause", "none"}

\* The sample that is due is the one the reader will show next, wherever the
\* request stands: a seek or a step back is pending, the reader is on its way
\* to the sample from the synchronization sample before it, or at it.
DueInv ==
    due # 0 /\ bound.noBuffer = 0 /\ bound.readErrors = 0 =>
        \/ /\ mPendingSeekTs > 0
           /\ due = IF mPendingSeekExact THEN mPendingSeekTs
                    ELSE SyncAtOrBefore(mPendingSeekTs)
        \/ /\ mPendingSeekTs = 0 /\ mPendingSeekToPrevSample /\ mPendingSeekExact
           /\ due = next - 2
        \/ /\ mPendingSeekTs = 0 /\ ~mPendingSeekToPrevSample /\ mPendingSeekExact
           /\ due = silentUntil /\ next <= silentUntil
        \/ /\ mPendingSeekTs = 0 /\ ~mPendingSeekToPrevSample /\ ~mPendingSeekExact
           /\ due = next

PlaybackInv == /\ PlaybackTypeOK /\ StepInv /\ OneFramePerStep
               /\ DueInv /\ RequestLandsUnhindered /\ PlayingGoesOn
=============================================================================
