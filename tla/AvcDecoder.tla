----------------------------- MODULE AvcDecoder -----------------------------
(***************************************************************************)
(* The decoder element (pdraw_avcdecoder.cpp) and the thread of the        *)
(* decoding library vdec that calls it back.  A flush is complete when     *)
(* vdec and the output channels are flushed; a stop begins with a flush    *)
(* and is complete when vdec is stopped and the output channels are        *)
(* unlinked.  Both ends are reached through messages to the loop thread.   *)
(***************************************************************************)
EXTENDS RecordDemuxer

otherThanDec == <<sessionVars, dmxVars, port, mFlushPending, sink, appVars, counters>>

\* stop(), also called by onChannelTeardown().
DecStop ==
    /\ Runs("onChannelTeardown", V)
    /\ IF est[V] = "STARTED"
       THEN /\ est' = [est EXCEPT ![V] = "STOPPING"]
            /\ dec' = [dec EXCEPT !.mVdecStopPending = TRUE]
            /\ Then(<<Call("flush", V)>>)
       ELSE Return /\ UNCHANGED <<est, dec>>
    /\ UNCHANGED <<mMbox, idle, link, vdec, otherThanDec>>

DecOnChannelFlush ==
    /\ Runs("onChannelFlush", V)
    /\ dec' = [dec EXCEPT !.mInputChannelFlushPending = TRUE]
    /\ Then(<<Call("flush", V)>>)
    /\ UNCHANGED <<mMbox, idle, est, link, vdec, otherThanDec>>

\* flush(): flushing an output channel does not unlink any.
DecFlush ==
    /\ Runs("flush", V)
    /\ IF dec.mIsFlushed
       THEN Then(<<Call("completeFlush", V)>>) /\ UNCHANGED dec
       ELSE /\ dec' = [dec EXCEPT !.mVdecFlushPending = TRUE]
            /\ Then([i \in DOMAIN dec.out |-> Call("channel.flush", dec.out[i])]
                    \o <<Call("vdec_flush", V)>>)
    /\ UNCHANGED <<mMbox, idle, est, link, vdec, otherThanDec>>

VdecFlush ==
    /\ Runs("vdec_flush", V)
    /\ vdec' = [vdec EXCEPT !.flushing = TRUE]
    /\ Return
    /\ UNCHANGED <<dec, mMbox, idle, est, link, otherThanDec>>

\* Mutant: a flush is complete without the output channels.
NoOutputFlushPending == FALSE

DecOutputFlushPending == \E i \in DOMAIN dec.out : mFlushPending[dec.out[i]]

\* completeFlush()
DecCompleteFlush ==
    /\ Runs("completeFlush", V)
    /\ IF dec.mVdecFlushPending \/ DecOutputFlushPending THEN Return /\ UNCHANGED dec
       ELSE IF ~dec.mInputMedia THEN Then(<<Call("afterFlush", V)>>) /\ UNCHANGED dec
       ELSE /\ dec' = [dec EXCEPT !.mIsFlushed = TRUE,
                                  !.mInputChannelFlushPending = FALSE]
            /\ Then((IF dec.mInputChannelFlushPending
                     THEN <<Call("channel.flushDone", V)>> ELSE <<>>)
                    \o <<Call("afterFlush", V)>>)
    /\ UNCHANGED <<mMbox, idle, est, link, vdec, otherThanDec>>

\* completeResync() and the first half of tryStop().
DecAfterFlush ==
    /\ Runs("afterFlush", V)
    /\ dec' = IF dec.mResyncPending
              THEN [dec EXCEPT !.mResyncPending = FALSE, !.mIsSync = TRUE] ELSE dec
    /\ IF est[V] = "STOPPING"
       THEN Then((IF dec.mInputMedia THEN <<Call("removeInputMedia", V)>> ELSE <<>>)
                 \o <<Call("teardownOutputs", V)>>)
       ELSE Return
    /\ UNCHANGED <<mMbox, idle, est, link, vdec, otherThanDec>>

\* The second half: the input media is removed; the output channels are torn
\* down, the last one first.
DecTeardownOutputs ==
    /\ Runs("teardownOutputs", V)
    /\ dec' = [dec EXCEPT !.mInputMedia = FALSE]
    /\ Then([i \in DOMAIN dec.out |-> Call("onChannelTeardown", Reverse(dec.out)[i])]
            \o <<Call("vdec_stop", V)>>)
    /\ UNCHANGED <<mMbox, idle, est, link, vdec, otherThanDec>>

\* vdec answers the first stop only.
VdecStop ==
    /\ Runs("vdec_stop", V)
    /\ vdec' = [vdec EXCEPT !.stopping = dec.mVdecStopPending]
    /\ Return
    /\ UNCHANGED <<dec, mMbox, idle, est, link, otherThanDec>>

\* Mutant: the stop of vdec is not waited for.
DecCompleteStopEarly ==
    /\ Runs("completeStop", V)
    /\ dec' = [dec EXCEPT !.mCompleteStopPendingCount = @ - 1,
                          !.mOutputMedia = @ /\ dec.out # <<>>]
    /\ IF dec.mOutputMedia /\ ~dec'.mOutputMedia THEN IdleAdd("mediaRemoved", V)
       ELSE UNCHANGED idle
    /\ IF /\ ~dec'.mOutputMedia /\ dec'.mCompleteStopPendingCount = 0
          /\ est[V] # "STOPPED"
       THEN /\ est' = [est EXCEPT ![V] = "STOPPED"]
            /\ Then(<<CallOn("onElementStopped", None, V)>>)
       ELSE Return /\ UNCHANGED est
    /\ UNCHANGED <<mMbox, link, vdec, otherThanDec>>

\* completeStop()
DecCompleteStop ==
    /\ Runs("completeStop", V)
    /\ dec' = [dec EXCEPT !.mCompleteStopPendingCount = @ - 1,
                          !.mOutputMedia = @ /\ dec.out # <<>>]
    /\ IF dec.mOutputMedia /\ ~dec'.mOutputMedia THEN IdleAdd("mediaRemoved", V)
       ELSE UNCHANGED idle
    /\ IF /\ ~dec'.mOutputMedia /\ ~dec.mVdecStopPending
          /\ dec'.mCompleteStopPendingCount = 0 /\ est[V] # "STOPPED"
       THEN /\ est' = [est EXCEPT ![V] = "STOPPED"]
            /\ Then(<<CallOn("onElementStopped", None, V)>>)
       ELSE Return /\ UNCHANGED est
    /\ UNCHANGED <<mMbox, link, vdec, otherThanDec>>

\* Mutant: a flushed output channel is not reported to the loop thread.
DecOnChannelFlushedSilent ==
    /\ Runs("onChannelFlushed", V)
    /\ Return
    /\ UNCHANGED <<dec, mMbox, idle, est, link, vdec, otherThanDec>>

DecOnChannelFlushed ==
    /\ Runs("onChannelFlushed", V)
    /\ Post("COMPLETE_FLUSH", V)
    /\ Return
    /\ UNCHANGED <<dec, idle, est, link, vdec, otherThanDec>>

DecOnChannelUnlink ==
    /\ Runs("onChannelUnlink", V)
    /\ link' = [link EXCEPT ![Subject] = None]
    /\ dec' = [dec EXCEPT !.out = Without(@, Subject),
                          !.mCompleteStopPendingCount =
                               IF est[V] = "STOPPING" THEN @ + 1 ELSE @]
    /\ IF est[V] = "STOPPING" THEN Post("COMPLETE_STOP", V) ELSE UNCHANGED mMbox
    /\ Return
    /\ UNCHANGED <<idle, est, vdec, otherThanDec>>

\* resync(): vdec is flushed, the output channels are not.
DecResync ==
    /\ Runs("resync", V)
    /\ IF dec.mIsSync THEN UNCHANGED <<dec, vdec>>
       ELSE /\ dec' = [dec EXCEPT !.mResyncPending = TRUE]
            /\ vdec' = [vdec EXCEPT !.flushing = TRUE]
    /\ Return
    /\ UNCHANGED <<mMbox, idle, est, link, otherThanDec>>

-----------------------------------------------------------------------------
(* The callbacks of vdec, on its thread.                                   *)

otherThanVdec == <<agenda, idle, est, link, otherThanDec>>

\* Between two callbacks; ~AvcDecoder() destroys vdec, which ends its thread.
VdecFree == vdec.cb = "none" /\ Exists(V)

\* flushCb(): its two statements.
FlushCb ==
    /\ VdecFree /\ vdec.flushing
    /\ dec' = [dec EXCEPT !.mVdecFlushPending = FALSE]
    /\ vdec' = [vdec EXCEPT !.flushing = FALSE, !.busy = FALSE, !.cb = "flush"]
    /\ UNCHANGED <<mMbox, otherThanVdec>>

FlushCbPost ==
    /\ vdec.cb = "flush"
    /\ Post("COMPLETE_FLUSH", V)
    /\ vdec' = [vdec EXCEPT !.cb = "none"]
    /\ UNCHANGED <<dec, otherThanVdec>>

\* stopCb(): its statements; ++ is a load and a store.
StopCb ==
    /\ VdecFree /\ vdec.stopping /\ ~vdec.flushing
    /\ dec' = [dec EXCEPT !.mVdecStopPending = FALSE]
    /\ vdec' = [vdec EXCEPT !.stopping = FALSE, !.busy = FALSE, !.cb = "stop"]
    /\ UNCHANGED <<mMbox, otherThanVdec>>

StopCbCount ==
    /\ vdec.cb = "stop" /\ "RacyCount" \notin Allowed
    /\ dec' = [dec EXCEPT !.mCompleteStopPendingCount = @ + 1]
    /\ Post("COMPLETE_STOP", V)
    /\ vdec' = [vdec EXCEPT !.cb = "none"]
    /\ UNCHANGED otherThanVdec

StopCbLoad ==
    /\ vdec.cb = "stop" /\ "RacyCount" \in Allowed
    /\ vdec' = [vdec EXCEPT !.cb = "stopLoaded", !.count = dec.mCompleteStopPendingCount]
    /\ UNCHANGED <<dec, mMbox, otherThanVdec>>

StopCbStore ==
    /\ vdec.cb = "stopLoaded"
    /\ dec' = [dec EXCEPT !.mCompleteStopPendingCount = vdec.count + 1]
    /\ Post("COMPLETE_STOP", V)
    /\ vdec' = [vdec EXCEPT !.cb = "none", !.count = 0]
    /\ UNCHANGED otherThanVdec

\* frameOutputCb(): an error is reported to the loop thread ...
OutputError ==
    /\ VdecFree /\ vdec.busy /\ errors < MaxErrors
    /\ errors' = errors + 1
    /\ Post("RESYNC", V)
    /\ UNCHANGED <<agenda, sessionVars, idle, est, chanVars, dmxVars, dec, vdec, sink,
                   appVars, frames, flushes>>

\* ... a frame that is not to be discarded ...
OutputCb ==
    /\ VdecFree /\ vdec.busy
    /\ est[V] = "STARTED"
    /\ ~dec.mVdecFlushPending /\ ~dec.mInputChannelFlushPending
    /\ vdec' = [vdec EXCEPT !.cb = "output"]
    /\ UNCHANGED <<dec, mMbox, otherThanVdec>>

\* ... is queued on the output channels, once the loop thread has left the
\* parts of the decoder that lock Sink::mMutex and Source::mMutex; vdec may
\* hold more frames.
LoopInDecoder ==
    \E i \in 2..Len(agenda) : /\ agenda[i].e = V
                              /\ agenda[i].f \in {"vdec_flush", "afterFlush",
                                                 "teardownOutputs", "vdec_stop"}

OutputCbQueue ==
    /\ vdec.cb = "output" /\ ~LoopInDecoder
    /\ sink' = IF dec.mInputMedia /\ dec.mOutputMedia THEN Queued(dec.out) ELSE sink
    /\ \E busy \in BOOLEAN : vdec' = [vdec EXCEPT !.cb = "none", !.busy = busy]
    /\ UNCHANGED <<agenda, sessionVars, mMbox, idle, est, chanVars, dmxVars, dec, appVars,
                   counters>>

DecStep == \/ DecStop \/ DecOnChannelFlush \/ DecFlush \/ VdecFlush \/ DecCompleteFlush
           \/ DecAfterFlush \/ DecTeardownOutputs \/ VdecStop \/ DecCompleteStop
           \/ DecOnChannelFlushed \/ DecOnChannelUnlink \/ DecResync
VdecCallback == \/ FlushCb \/ FlushCbPost \/ StopCb \/ StopCbCount \/ StopCbLoad
                \/ StopCbStore \/ OutputCb \/ OutputCbQueue
=============================================================================
