------------------------------ MODULE Session -------------------------------
(***************************************************************************)
(* The session (pdraw_session.cpp) as long as it plays a record: open(),   *)
(* close(), the video sink functions, the messages its elements post to    *)
(* the loop thread, the reaction to elements that stop, and the functions  *)
(* of the application it calls back from idle functions.                   *)
(***************************************************************************)
EXTENDS VideoSink

\* open() of a record, and all it calls: the demuxer is created, adds its
\* media (for which the session adds a decoder, which adds its own media) and
\* starts.
OpenOk ==
    /\ mState' = "OPENED" /\ mDemuxer' = TRUE
    /\ mDemuxerReady' = TRUE /\ mReadyToPlay' = TRUE
    /\ mElements' = {D} \cup (IF DecodeAll THEN {V} ELSE {})
    /\ est' = [e \in Elements |-> IF e \in mElements' THEN "STARTED" ELSE "none"]
    /\ port' = [port EXCEPT ![V] = DecodeAll]
    /\ link' = [link EXCEPT ![V] = IF DecodeAll THEN D ELSE None]
    /\ dmxMedia' = TRUE /\ dmxOut' = (IF DecodeAll THEN <<V>> ELSE <<>>)
    /\ dec' = [dec EXCEPT !.mInputMedia = DecodeAll, !.mOutputMedia = DecodeAll]
    /\ idle' = (IF DecodeAll THEN <<Idle("mediaAdded", V)>> ELSE <<>>)
               \o <<Idle("mediaAdded", D), Idle("openResponse", None),
                    Idle("ready", None)>>
    /\ told' = [told EXCEPT !.open = TRUE]
    /\ UNCHANGED <<agenda, mMbox, mFlushPending, mChannelsFlushing, mRunning, mTimer,
                   vdec, sink, appFlush, appMedia, counters>>

\* The decoder could not start: addDecoderForMedia() returns before it links
\* it, and onOutputMediaAdded() goes on.
OpenWithoutDecoder ==
    /\ "DecoderFails" \in Allowed /\ DecodeAll
    /\ mState' = "OPENED" /\ mDemuxer' = TRUE
    /\ mDemuxerReady' = TRUE /\ mReadyToPlay' = TRUE
    /\ mElements' = {D, V}
    /\ est' = [est EXCEPT ![D] = "STARTED", ![V] = "STARTING"]
    /\ port' = [port EXCEPT ![V] = TRUE]
    /\ dmxMedia' = TRUE /\ dec' = [dec EXCEPT !.mInputMedia = TRUE]
    /\ idle' = <<Idle("mediaAdded", D), Idle("openResponse", None), Idle("ready", None)>>
    /\ told' = [told EXCEPT !.open = TRUE]
    /\ UNCHANGED <<agenda, mMbox, link, mFlushPending, dmxOut, mChannelsFlushing, mRunning,
                   mTimer, vdec, sink, appFlush, appMedia, counters>>

\* The session metadata could not be read: start() of the demuxer fails after
\* its media was added, and open() deletes the demuxer.
OpenFails ==
    /\ "MetadataFails" \in Allowed /\ DecodeAll
    /\ mElements' = {V}
    /\ est' = [est EXCEPT ![D] = "deleted", ![V] = "STARTED"]
    /\ port' = [port EXCEPT ![V] = TRUE] /\ link' = [link EXCEPT ![V] = D]
    /\ dmxMedia' = TRUE /\ dmxOut' = <<V>>
    /\ dec' = [dec EXCEPT !.mInputMedia = TRUE, !.mOutputMedia = TRUE]
    /\ idle' = <<Idle("mediaAdded", V), Idle("mediaAdded", D)>>
    /\ told' = [told EXCEPT !.open = TRUE]
    /\ UNCHANGED <<agenda, mState, mDemuxer, mDemuxerReady, mReadyToPlay, mMbox,
                   mFlushPending, mChannelsFlushing, mRunning, mTimer, vdec, sink,
                   appFlush, appMedia, counters>>

Open == AtEvent /\ ~told.open /\ (OpenOk \/ OpenWithoutDecoder \/ OpenFails)

AllStopped(elements) == \A e \in elements : est[e] = "STOPPED"

\* Mutant: close() clears mReadyToPlay without telling the application.
CloseUnannounced ==
    /\ AtEvent /\ told.open /\ ~told.closing
    /\ told' = [told EXCEPT !.closing = TRUE]
    /\ IF mState # "OPENED"
       THEN IdleAdd("closeResponse", None) /\ UNCHANGED <<agenda, mState, mReadyToPlay>>
       ELSE /\ mState' = "CLOSING" /\ mReadyToPlay' = FALSE
            /\ agenda' = <<Call("stop", D)>>
            /\ UNCHANGED idle
    /\ UNCHANGED <<mDemuxer, mDemuxerReady, mElements, mMbox, est, chanVars, dmxVars, dec,
                   vdec, sink, appFlush, appMedia, counters>>

\* close(), which the application calls once.
Close ==
    /\ AtEvent /\ told.open /\ ~told.closing
    /\ told' = [told EXCEPT !.closing = TRUE]
    /\ IF mState # "OPENED"
       THEN IdleAdd("closeResponse", None) /\ UNCHANGED <<agenda, mState, mReadyToPlay>>
       ELSE /\ mState' = "CLOSING"
            /\ mReadyToPlay' = FALSE
            /\ idle' = IF mReadyToPlay THEN Append(idle, Idle("notReady", None)) ELSE idle
            /\ agenda' = <<Call("stop", D)>>
    /\ UNCHANGED <<mDemuxer, mDemuxerReady, mElements, mMbox, est, chanVars, dmxVars, dec,
                   vdec, sink, appFlush, appMedia, counters>>

-----------------------------------------------------------------------------
(* Video sinks.                                                            *)

SourceOf(s) == IF s \in H264Sinks THEN D ELSE V

\* startVideoSink() on a media the application knows and that still exists;
\* the session does not refuse it while it is closing.  The resync at its end
\* finds a sink that is flushed, and a source that only logs it.
StartVideoSink(s) ==
    /\ AtEvent /\ est[s] = "none"
    /\ SourceOf(s) \in appMedia
    /\ told.closing => "LateSink" \in Allowed
    /\ SourceOf(s) \in mElements
    /\ IF SourceOf(s) = D THEN dmxMedia ELSE dec.mOutputMedia
    /\ mElements' = mElements \cup {s}
    /\ est' = [est EXCEPT ![s] = "STARTED"]
    /\ port' = [port EXCEPT ![s] = TRUE]
    /\ link' = [link EXCEPT ![s] = SourceOf(s)]
    /\ dmxOut' = IF SourceOf(s) = D THEN Append(dmxOut, s) ELSE dmxOut
    /\ dec' = IF SourceOf(s) = V THEN [dec EXCEPT !.out = Append(@, s)] ELSE dec
    /\ sink' = [sink EXCEPT ![s].mInputMedia = TRUE, ![s].mVideoSinkListener = TRUE]
    /\ UNCHANGED <<agenda, mState, mDemuxer, mDemuxerReady, mReadyToPlay, mMbox, idle,
                   mFlushPending, dmxMedia, mChannelsFlushing, mRunning, mTimer, vdec,
                   appVars, counters>>

\* stopVideoSink(): the application stops a sink when it was told that the
\* media is gone, or when it wants to; it has no more to flush then.
StopVideoSink(s) ==
    /\ AtEvent /\ sink[s].mVideoSinkListener
    /\ SourceOf(s) \notin appMedia \/ "StopAnytime" \in Allowed
    /\ agenda' = <<Call("stop", s)>>
    /\ appFlush' = appFlush \ {s}
    /\ UNCHANGED <<sessionVars, mMbox, idle, est, chanVars, dmxVars, dec, vdec, sink,
                   appMedia, told, counters>>

\* resyncVideoSink(): the sink is flushed, its source only logs it; the
\* application does not ask again before it has flushed the sink.
ResyncVideoSink(s) ==
    /\ AtEvent /\ "Resync" \in Allowed /\ est[s] = "STARTED"
    /\ s \notin appFlush /\ ~Contains(idle, Idle("sinkFlush", s))
    /\ agenda' = <<Call("flush", s)>>
    /\ UNCHANGED <<sessionVars, mMbox, idle, est, chanVars, dmxVars, dec, vdec, sink,
                   appVars, counters>>

\* videoSinkQueueFlushed()
VideoSinkQueueFlushed(s) ==
    /\ AtEvent /\ s \in appFlush
    /\ agenda' = <<Call("flushDone", s)>>
    /\ appFlush' = appFlush \ {s}
    /\ UNCHANGED <<sessionVars, mMbox, idle, est, chanVars, dmxVars, dec, vdec, sink,
                   appMedia, told, counters>>

-----------------------------------------------------------------------------
(* Idle functions, and messages to the loop thread.                        *)

\* The loop runs all the idle functions there are in one go; it may look at
\* its sockets before them or after them.
RunIdle ==
    /\ AtEvent /\ idle # <<>>
    /\ agenda' = <<Call("idle", None)>>
    /\ UNCHANGED <<sessionVars, mMbox, idle, est, chanVars, dmxVars, dec, vdec, sink,
                   appVars, counters>>

\* callVideoSinkFlush(): the sink flushes itself once it has no listener.
CallVideoSinkFlush(s) ==
    /\ Exists(s)
    /\ IF sink[s].mVideoSinkListener
       THEN appFlush' = appFlush \cup {s} /\ UNCHANGED agenda
       ELSE agenda' = <<Call("flushDone", s)>> \o agenda /\ UNCHANGED appFlush
    /\ UNCHANGED <<appMedia, told>>

\* The functions of the application, which remembers what it is told.
CallListener(cb, e) ==
    /\ appMedia' = CASE cb = "mediaAdded" -> appMedia \cup {e}
                     [] cb = "mediaRemoved" -> appMedia \ {e}
                     [] OTHER -> appMedia
    /\ told' = [told EXCEPT !.closed = @ + (IF cb = "closeResponse" THEN 1 ELSE 0),
                            !.ready = (cb = "ready" \/ (@ /\ cb # "notReady"))]
    /\ UNCHANGED <<agenda, appFlush>>

IdleFunction ==
    /\ Runs("idle", None) /\ idle # <<>>
    /\ idle' = Tail(idle)
    /\ IF Head(idle).cb = "sinkFlush" THEN CallVideoSinkFlush(Head(idle).e)
       ELSE CallListener(Head(idle).cb, Head(idle).e)
    /\ UNCHANGED <<sessionVars, mMbox, est, chanVars, dmxVars, dec, vdec, sink, counters>>

\* mboxCb(), which reads messages until there is none.
RunMbox ==
    /\ AtEvent /\ mMbox # <<>>
    /\ agenda' = <<Call("mboxCb", None)>>
    /\ UNCHANGED <<sessionVars, mMbox, idle, est, chanVars, dmxVars, dec, vdec, sink,
                   appVars, counters>>

\* inloopElementDelete(); deleting the decoder waits for the thread of vdec.
ElementDelete(e) ==
    /\ e = V => vdec.cb = "none"
    /\ mElements' = mElements \ {e}
    /\ est' = [est EXCEPT ![e] = "deleted"]
    /\ mDemuxer' = (mDemuxer /\ e # D)
    /\ mDemuxerReady' = (mDemuxerReady /\ e # D)
    /\ UNCHANGED <<agenda, mState, mReadyToPlay>>

MboxMessage ==
    /\ Runs("mboxCb", None) /\ mMbox # <<>>
    /\ mMbox' = Tail(mMbox)
    /\ LET m == Head(mMbox) IN
       \/ m.cmd = "ELEMENT_DELETE" /\ ElementDelete(m.e)
       \/ /\ \/ /\ m.cmd = "COMPLETE_FLUSH"
                /\ agenda' = <<Call("completeFlush", m.e)>> \o agenda
             \/ /\ m.cmd = "COMPLETE_STOP"
                /\ agenda' = <<Call("completeStop", m.e)>> \o agenda
             \/ /\ m.cmd = "RESYNC"
                /\ agenda' = <<Call("resync", m.e)>> \o agenda
          /\ UNCHANGED <<sessionVars, est>>
    /\ UNCHANGED <<idle, chanVars, dmxVars, dec, vdec, sink, appVars, counters>>

EventDone ==
    /\ \/ Runs("idle", None) /\ idle = <<>>
       \/ Runs("mboxCb", None) /\ mMbox = <<>>
    /\ Return
    /\ UNCHANGED <<sessionVars, mMbox, idle, est, chanVars, dmxVars, dec, vdec, sink,
                   appVars, counters>>

\* Mutant: the session is closed as soon as its demuxer has stopped.
OnDemuxerStopped ==
    /\ Runs("onElementStopped", None)
    /\ Post("ELEMENT_DELETE", Subject)
    /\ IF Subject = D /\ mState = "CLOSING"
       THEN mState' = "CLOSED" /\ IdleAdd("closeResponse", None)
       ELSE UNCHANGED <<mState, idle>>
    /\ Return
    /\ UNCHANGED <<mDemuxer, mDemuxerReady, mReadyToPlay, mElements, est, chanVars, dmxVars,
                   dec, vdec, sink, appVars, counters>>

\* Mutant: only the demuxer is expected to stop last.
OnDemuxerStoppedLast ==
    /\ Runs("onElementStopped", None)
    /\ Post("ELEMENT_DELETE", Subject)
    /\ IF Subject = D /\ AllStopped(mElements) /\ mState = "CLOSING"
       THEN mState' = "CLOSED" /\ IdleAdd("closeResponse", None)
       ELSE UNCHANGED <<mState, idle>>
    /\ Return
    /\ UNCHANGED <<mDemuxer, mDemuxerReady, mReadyToPlay, mElements, est, chanVars, dmxVars,
                   dec, vdec, sink, appVars, counters>>

\* onElementStateChanged(STOPPED).  (The demuxer of a record does not stop
\* by itself: the branches for one that does are left out.)
OnElementStopped ==
    /\ Runs("onElementStopped", None)
    /\ Post("ELEMENT_DELETE", Subject)
    /\ IF AllStopped(mElements) /\ mState = "CLOSING"
       THEN mState' = "CLOSED" /\ IdleAdd("closeResponse", None)
       ELSE UNCHANGED <<mState, idle>>
    /\ Return
    /\ UNCHANGED <<mDemuxer, mDemuxerReady, mReadyToPlay, mElements, est, chanVars, dmxVars,
                   dec, vdec, sink, appVars, counters>>

SessionStep == IdleFunction \/ MboxMessage \/ EventDone \/ OnElementStopped
=============================================================================
