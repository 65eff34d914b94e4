--------------------------- MODULE RecordDemuxer ----------------------------
(***************************************************************************)
(* The demuxer of a record, as far as its life cycle and its flushes go    *)
(* (pdraw_demuxer_record.cpp).  Its timer outputs frames; when no buffer   *)
(* is left it flushes everything downstream and waits for the channels to  *)
(* be flushed before it arms the timer again.                              *)
(***************************************************************************)
EXTENDS Pipeline

otherThanDmx == <<mState, mDemuxer, mElements, mMbox, port, mFlushPending, vdec, appVars>>

\* Mutant: the timer is not armed again.
TimerNotRestarted == mTimer

\* completeFlush(): playing goes on.
TimerAfterFlush == mTimer \/ mRunning

\* stop(); onReadyToPlay(false) and updateReadyToPlay() are called on the way.
DmxStop ==
    /\ Runs("stop", D)
    /\ est' = [est EXCEPT ![D] = "STOPPING"]
    /\ mDemuxerReady' = FALSE /\ mReadyToPlay' = FALSE
    /\ idle' = IF mReadyToPlay THEN Append(idle, Idle("notReady", None)) ELSE idle
    /\ mRunning' = FALSE /\ mTimer' = FALSE
    /\ Then(<<Call("flush", D)>>)
    /\ UNCHANGED <<dmxMedia, dmxOut, mChannelsFlushing, link, dec, sink, counters,
                   otherThanDmx>>

\* flush(): the output channels, counted when it starts, by their index.
DmxFlush ==
    /\ Runs("flush", D)
    /\ Then(<<CallLoop("flushAt", D, 1, Len(dmxOut))>>)
    /\ UNCHANGED <<mDemuxerReady, mReadyToPlay, idle, est, link, dmxVars, dec, sink,
                   counters, otherThanDmx>>

DmxFlushAt ==
    /\ Runs("flushAt", D)
    /\ LET i == Head(agenda).i
           n == Head(agenda).n
       IN  \/ /\ i <= n /\ i <= Len(dmxOut)
              /\ Then(<<Call("channel.flush", dmxOut[i]), CallLoop("flushed", D, i, n)>>)
              /\ UNCHANGED mTimer
           \/ /\ i <= n /\ i > Len(dmxOut)      \* "failed to get channel"
              /\ Then(<<CallLoop("flushAt", D, i + 1, n)>>)
              /\ UNCHANGED mTimer
           \/ /\ i > n
              /\ mTimer' = IF mChannelsFlushing = 0 THEN TimerAfterFlush ELSE mTimer
              /\ Return
    /\ UNCHANGED <<mDemuxerReady, mReadyToPlay, idle, est, link, dmxMedia, dmxOut,
                   mChannelsFlushing, mRunning, dec, sink, counters, otherThanDmx>>

\* The channel is counted after its flush() returned, which may already have
\* called onChannelFlushed().
DmxChannelCounted ==
    /\ Runs("flushed", D)
    /\ mChannelsFlushing' = mChannelsFlushing + 1
    /\ Then(<<CallLoop("flushAt", D, Head(agenda).i + 1, Head(agenda).n)>>)
    /\ UNCHANGED <<mDemuxerReady, mReadyToPlay, idle, est, link, dmxMedia, dmxOut,
                   mRunning, mTimer, dec, sink, counters, otherThanDmx>>

DmxOnChannelFlushed ==
    /\ Runs("onChannelFlushed", D)
    /\ Then((IF est[D] = "STOPPING" THEN <<Call("onChannelTeardown", Subject)>> ELSE <<>>)
            \o <<Call("channelFlushed", D)>>)
    /\ UNCHANGED <<mDemuxerReady, mReadyToPlay, idle, est, link, dmxVars, dec, sink,
                   counters, otherThanDmx>>

\* Mutant: mChannelsFlushing is not reset when it goes below zero.
DmxChannelFlushedNoReset ==
    /\ Runs("channelFlushed", D)
    /\ mChannelsFlushing' = mChannelsFlushing - 1
    /\ mTimer' = IF mChannelsFlushing <= 1 THEN TimerAfterFlush ELSE mTimer
    /\ Return
    /\ UNCHANGED <<mDemuxerReady, mReadyToPlay, idle, est, link, dmxMedia, dmxOut,
                   mRunning, dec, sink, counters, otherThanDmx>>

DmxChannelFlushed ==
    /\ Runs("channelFlushed", D)
    /\ mChannelsFlushing' = IF mChannelsFlushing <= 1 THEN 0 ELSE mChannelsFlushing - 1
    /\ mTimer' = IF mChannelsFlushing <= 1 THEN TimerAfterFlush ELSE mTimer
    /\ Return
    /\ UNCHANGED <<mDemuxerReady, mReadyToPlay, idle, est, link, dmxMedia, dmxOut,
                   mRunning, dec, sink, counters, otherThanDmx>>

\* Mutant: the other channels are not looked at.
DmxOnChannelUnlinkFirst ==
    /\ Runs("onChannelUnlink", D)
    /\ link' = [link EXCEPT ![Subject] = None]
    /\ dmxOut' = Without(dmxOut, Subject)
    /\ IdleAdd("mediaRemoved", D)
    /\ dmxMedia' = FALSE
    /\ IF est[D] = "STOPPING"
       THEN /\ est' = [est EXCEPT ![D] = "STOPPED"]
            /\ Then(<<CallOn("onElementStopped", None, D)>>)
       ELSE Return /\ UNCHANGED est
    /\ UNCHANGED <<mDemuxerReady, mReadyToPlay, mChannelsFlushing, mRunning, mTimer,
                   dec, sink, counters, otherThanDmx>>

\* onChannelUnlink() and completeTeardown().
DmxOnChannelUnlink ==
    /\ Runs("onChannelUnlink", D)
    /\ link' = [link EXCEPT ![Subject] = None]
    /\ dmxOut' = Without(dmxOut, Subject)
    /\ IF dmxOut' # <<>> THEN Return /\ UNCHANGED <<dmxMedia, idle, est>>
       ELSE /\ IdleAdd("mediaRemoved", D)
            /\ dmxMedia' = FALSE
            /\ IF est[D] = "STOPPING"
               THEN /\ est' = [est EXCEPT ![D] = "STOPPED"]
                    /\ Then(<<CallOn("onElementStopped", None, D)>>)
               ELSE Return /\ UNCHANGED est
    /\ UNCHANGED <<mDemuxerReady, mReadyToPlay, mChannelsFlushing, mRunning, mTimer,
                   dec, sink, counters, otherThanDmx>>

-----------------------------------------------------------------------------
(* Events.                                                                 *)

\* play(), or seekTo(): the application plays the record, and may seek, or play
\* again, at any time later.
Play ==
    /\ AtEvent /\ est[D] = "STARTED" /\ (mRunning => "SeekAnytime" \in Allowed)
    /\ mRunning' = TRUE /\ mTimer' = TRUE
    /\ UNCHANGED <<agenda, mDemuxerReady, mReadyToPlay, idle, est, link, dmxMedia, dmxOut,
                   mChannelsFlushing, dec, sink, counters, otherThanDmx>>

\* An element that accepts a frame queued on its input channel.
DecAccepts == /\ est[V] = "STARTED" /\ dec.mInputMedia
              /\ ~dec.mVdecFlushPending /\ ~dec.mInputChannelFlushPending
SinkAccepts(s) == /\ est[s] = "STARTED" /\ sink[s].mInputMedia
                  /\ ~sink[s].mInputChannelFlushPending
Queued(out) ==
    [s \in Sinks |-> IF Contains(out, s) /\ SinkAccepts(s)
                     THEN [sink[s] EXCEPT !.mIsFlushed = FALSE] ELSE sink[s]]

\* timerCb(): a frame is queued on every output channel.
TimerFrame ==
    /\ AtEvent /\ mTimer /\ est[D] = "STARTED" /\ mRunning
    /\ dmxMedia /\ frames < MaxFrames
    /\ frames' = frames + 1
    /\ sink' = Queued(dmxOut)
    /\ IF Contains(dmxOut, V) /\ DecAccepts
       THEN \E isSync \in BOOLEAN :
               /\ dec' = [dec EXCEPT !.mIsFlushed = FALSE, !.mIsSync = isSync]
               /\ vdec' = [vdec EXCEPT !.busy = TRUE]
       ELSE UNCHANGED <<dec, vdec>>
    /\ UNCHANGED <<agenda, sessionVars, mMbox, idle, est, chanVars, dmxVars, appVars,
                   flushes, errors>>

\* timerCb(): there is no buffer left, since frames are still in use, or no
\* media any more.  The timer is not armed again.
TimerNoBuffer ==
    /\ AtEvent /\ mTimer /\ est[D] = "STARTED" /\ mRunning
    /\ \/ ~dmxMedia \/ vdec.busy
       \/ \E s \in H264Sinks : Contains(dmxOut, s) /\ ~sink[s].mIsFlushed
    /\ flushes < MaxFlushes
    /\ flushes' = flushes + 1
    /\ mTimer' = FALSE
    /\ agenda' = <<Call("flush", D)>>
    /\ UNCHANGED <<mDemuxerReady, mReadyToPlay, idle, est, link, dmxMedia, dmxOut,
                   mChannelsFlushing, mRunning, dec, sink, frames, errors, otherThanDmx>>

DmxStep == \/ DmxStop \/ DmxFlush \/ DmxFlushAt \/ DmxChannelCounted
           \/ DmxOnChannelFlushed \/ DmxChannelFlushed \/ DmxOnChannelUnlink
DmxEvent == Play \/ TimerFrame \/ TimerNoBuffer
=============================================================================
