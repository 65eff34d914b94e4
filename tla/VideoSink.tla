----------------------------- MODULE VideoSink ------------------------------
(***************************************************************************)
(* The video sinks (pdraw_sink_video.cpp): the application reads frames    *)
(* from the queue of a sink on its own threads, and must be asked to flush *)
(* it.  A sink that is stopped gives up its channel first.                 *)
(***************************************************************************)
EXTENDS AvcDecoder

otherThanSinks == <<sessionVars, mMbox, chanVars, dmxVars, dec, vdec, appVars, counters>>

\* stop(): the listener is not called any more.
SinkStop(s) ==
    /\ Runs("stop", s)
    /\ sink' = [sink EXCEPT ![s].mVideoSinkListener = FALSE]
    /\ IF sink[s].mInputMedia
       THEN /\ est' = [est EXCEPT ![s] = "STOPPING"]
            /\ Then(<<Call("onChannelTeardown", s)>>)
       ELSE /\ est' = [est EXCEPT ![s] = "STOPPED"]
            /\ Then(<<CallOn("onElementStopped", None, s)>>)
    /\ UNCHANGED <<idle, otherThanSinks>>

\* channelTeardown()
SinkTeardown(s) ==
    /\ Runs("onChannelTeardown", s)
    /\ IF sink[s].mInputMedia
       THEN Then(<<Call("removeInputMedia", s), Call("inputRemoved", s)>>)
       ELSE Return
    /\ UNCHANGED <<sink, est, idle, otherThanSinks>>

SinkInputRemoved(s) ==
    /\ Runs("inputRemoved", s)
    /\ sink' = [sink EXCEPT ![s].mInputMedia = FALSE]
    /\ Then(<<Call("flush", s)>>)
    /\ UNCHANGED <<est, idle, otherThanSinks>>

SinkOnChannelFlush(s) ==
    /\ Runs("onChannelFlush", s)
    /\ sink' = [sink EXCEPT ![s].mInputChannelFlushPending = TRUE]
    /\ Then(<<Call("flush", s)>>)
    /\ UNCHANGED <<est, idle, otherThanSinks>>

\* flush(): the application is asked from an idle function.
SinkFlush(s) ==
    /\ Runs("flush", s)
    /\ IF sink[s].mIsFlushed THEN Then(<<Call("flushDone", s)>>) /\ UNCHANGED idle
       ELSE Return /\ IdleAdd("sinkFlush", s)
    /\ UNCHANGED <<sink, est, otherThanSinks>>

\* flushDone()
SinkFlushDone(s) ==
    /\ Runs("flushDone", s)
    /\ IF sink[s].mInputMedia /\ sink[s].mInputChannelFlushPending
       THEN /\ sink' = [sink EXCEPT ![s].mIsFlushed = TRUE,
                                    ![s].mInputChannelFlushPending = FALSE]
            /\ Then(<<Call("channel.flushDone", s), Call("completeStop", s)>>)
       ELSE Then(<<Call("completeStop", s)>>) /\ UNCHANGED sink
    /\ UNCHANGED <<est, idle, otherThanSinks>>

\* The end of flushDone().
SinkCompleteStop(s) ==
    /\ Runs("completeStop", s)
    /\ IF est[s] = "STOPPING"
       THEN /\ est' = [est EXCEPT ![s] = "STOPPED"]
            /\ Then(<<CallOn("onElementStopped", None, s)>>)
       ELSE Return /\ UNCHANGED est
    /\ UNCHANGED <<sink, idle, otherThanSinks>>

SinkStep == \E s \in Sinks : \/ SinkStop(s) \/ SinkTeardown(s) \/ SinkInputRemoved(s)
                             \/ SinkOnChannelFlush(s) \/ SinkFlush(s)
                             \/ SinkFlushDone(s) \/ SinkCompleteStop(s)
=============================================================================
