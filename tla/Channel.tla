------------------------------ MODULE Channel -------------------------------
(***************************************************************************)
(* Channels and the ends of them that all elements share                   *)
(* (pdraw_channel.cpp, pdraw_source.cpp, pdraw_sink.cpp).  A downstream    *)
(* call goes to the sink element of the channel, after which the channel   *)
(* is named; an upstream one goes to the source element it is linked to,   *)
(* if any.                                                                 *)
(***************************************************************************)
EXTENDS Pipeline

otherThanChannels == <<sessionVars, mMbox, idle, est, dmxVars, dec, vdec, sink,
                       appVars, counters>>

\* Channel::flush()
ChannelFlush(c) ==
    /\ Runs("channel.flush", c)
    /\ mFlushPending' = [mFlushPending EXCEPT ![c] = TRUE]
    /\ Then(<<Call("onChannelFlush", c)>>)
    /\ UNCHANGED <<link, port, otherThanChannels>>

\* Channel::flushDone(): without a source nobody is told.
ChannelFlushDone(c) ==
    /\ Runs("channel.flushDone", c)
    /\ mFlushPending' = [mFlushPending EXCEPT ![c] = FALSE]
    /\ IF mFlushPending[c] /\ link[c] # None
       THEN Then(<<CallOn("onChannelFlushed", link[c], c)>>)
       ELSE Return
    /\ UNCHANGED <<link, port, otherThanChannels>>

\* Sink::removeInputMedia(): the channel is unlinked from its source ...
RemoveInputMedia(c) ==
    /\ Runs("removeInputMedia", c)
    /\ Then((IF link[c] = None THEN <<>> ELSE <<CallOn("onChannelUnlink", link[c], c)>>)
            \o <<Call("deleteChannel", c)>>)
    /\ UNCHANGED <<chanVars, otherThanChannels>>

\* ... and deleted; what is pending on it is forgotten.
DeleteChannel(c) ==
    /\ Runs("deleteChannel", c)
    /\ port' = [port EXCEPT ![c] = FALSE]
    /\ mFlushPending' = [mFlushPending EXCEPT ![c] = FALSE]
    /\ Return
    /\ UNCHANGED <<link, otherThanChannels>>

ChannelStep == \E c \in SinkElements : \/ ChannelFlush(c) \/ ChannelFlushDone(c)
                                       \/ RemoveInputMedia(c) \/ DeleteChannel(c)
=============================================================================
