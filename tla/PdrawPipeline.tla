--------------------------- MODULE PdrawPipeline ----------------------------
(***************************************************************************)
(* The pipeline of a record: its session, demuxer, decoder and video sinks *)
(* composed, with the thread of the decoding library and the application.  *)
(***************************************************************************)
EXTENDS Session, Channel

\* The next call of the chain the loop thread is in.
CallStep == ChannelStep \/ DmxStep \/ DecStep \/ SinkStep \/ SessionStep
LoopStep == CallStep \/ RunIdle \/ RunMbox

AppEvent == \/ Open \/ Close \/ Play
            \/ \E s \in Sinks : \/ StartVideoSink(s) \/ StopVideoSink(s)
                                \/ VideoSinkQueueFlushed(s) \/ ResyncVideoSink(s)

Next == \/ LoopStep \/ AppEvent \/ TimerFrame \/ TimerNoBuffer
        \/ VdecCallback \/ OutputError

Spec == Init /\ [][Next]_vars

\* The loop thread runs whenever it can, again and again between two callbacks
\* of vdec, and serves its idle functions and its messages whatever else it is
\* asked to do; vdec ends its callbacks, each flush and each stop.  The
\* application flushes the sinks it is asked to flush, and stops those whose
\* media is gone (pdraw.hpp:130, pdraw.hpp:336).  Nothing makes it open, play or
\* close; no frame has to be output.
AppReaction == \E s \in Sinks : \/ VideoSinkQueueFlushed(s)
                                \/ SourceOf(s) \notin appMedia /\ StopVideoSink(s)
Fairness == /\ SF_vars(CallStep) /\ SF_vars(RunIdle) /\ SF_vars(RunMbox)
            /\ SF_vars(AppReaction)
            /\ WF_vars(VdecCallback) /\ SF_vars(FlushCb \/ StopCb)
FairSpec == Spec /\ Fairness

-----------------------------------------------------------------------------
(* Properties.                                                             *)

\* close() completes: once it was called the application is told so, however
\* far the flushes, the frames in vdec and the messages are.  (Session::close:
\* "Waiting for the asynchronous stop; closeResponse() will be called when
\* it's done".)
CloseCompletes == told.closing ~> told.closed > 0

\* A flush of the decoder that its source asked for is answered, whatever
\* order the decoding library and the sinks finish in.
FlushAnswered == dec.mInputChannelFlushPending ~> ~dec.mInputChannelFlushPending

\* No function of a deleted element is called, by a message, an idle function
\* or another element: an element is deleted when it was the last to know of
\* itself.
NoUseAfterDelete ==
    /\ agenda # <<>> => Exists(Head(agenda).e)
    /\ agenda # <<>> /\ Head(agenda).f = "idle" /\ idle # <<>>
          /\ Head(idle).cb = "sinkFlush" => Exists(Head(idle).e)
    /\ vdec.cb # "none" => Exists(V)

\* When a session that was opened is closed every element has stopped, no
\* channel is left, and the application learns it once, after it was told of
\* all the medias that were removed and that it is not ready to play any more.
ClosedIsFinal ==
    /\ mState = "CLOSED" => /\ \A e \in Elements : est[e] \in {"none", "STOPPED", "deleted"}
                            /\ \A c \in SinkElements : ~port[c]
    /\ told.closed > 0 /\ mState # "CREATED" => appMedia = {} /\ ~told.ready
    /\ told.closed <= 1

\* The last word about e in the queue q, with the notices on and off, or what
\* is known when there is none, is the truth.
Notices(q, on, off, e) == {i \in DOMAIN q : q[i].cb \in {on, off} /\ q[i].e = e}
LastSays(q, on, off, e, known, truth) ==
    IF Notices(q, on, off, e) = {} THEN known <=> truth
    ELSE \E i \in Notices(q, on, off, e) :
             /\ \A j \in Notices(q, on, off, e) : j <= i
             /\ q[i].cb = on <=> truth

\* The session says it is ready to play only while its demuxer can play, and
\* the last word the application has got, or is about to get, says the same.
ReadyToPlayTruth ==
    /\ mReadyToPlay => mState = "OPENED" /\ est[D] = "STARTED"
    /\ LastSays(idle, "ready", "notReady", None, told.ready, mReadyToPlay)

\* A decoder that calls itself flushed has no frame left in vdec, nor in the
\* sinks after it: the next flush is answered at once, and the frames after a
\* seek must not follow older ones.
FlushedIsEmpty ==
    dec.mIsFlushed /\ est[V] = "STARTED" =>
        /\ ~vdec.busy \/ vdec.cb = "flush"
        /\ \A i \in DOMAIN dec.out : sink[dec.out[i]].mIsFlushed

\* Playing goes on after a flush: when the demuxer plays and no flush is in
\* progress downstream its timer is armed.
PlaybackResumes ==
    agenda = <<>> /\ est[D] = "STARTED" /\ mRunning
        /\ (\A i \in DOMAIN dmxOut : ~mFlushPending[dmxOut[i]])
    => mTimer

\* In a session that was opened the source a channel is linked to exists, and
\* knows the channel.  (When open() fails after its media was added the demuxer
\* is deleted with the decoder still linked to it.)
LinkedSourceAlive ==
    mState # "CREATED" =>
    \A c \in SinkElements : link[c] # None =>
        Exists(link[c]) /\ Contains(IF link[c] = D THEN dmxOut ELSE dec.out, c)

-----------------------------------------------------------------------------
(* What makes ReadyToPlayTruth, LinkedSourceAlive and ClosedIsFinal        *)
(* inductive, in a session that was opened.                                *)

Calls(f, e) == \E i \in DOMAIN agenda : agenda[i].f = f /\ agenda[i].e = e
Gone == {"none", "STOPPED", "deleted"}

\* Before open() nothing happens; close() is answered once.
AnswerInv ==
    /\ told.open \/ Init
    /\ mState \in {"OPENED", "CLOSING"} \/ (mState = "CREATED" /\ ~told.closing) =>
           told.closed = 0 /\ \A i \in DOMAIN idle : idle[i].cb # "closeResponse"
    /\ mState \in {"CLOSING", "CLOSED"} => told.closing
    /\ told.closed > 0 => told.closed = 1 /\ \A i \in DOMAIN idle : idle[i].cb # "closeResponse"
    /\ \A i, j \in DOMAIN idle :
           idle[i].cb = "closeResponse" /\ idle[j].cb = "closeResponse" => i = j

\* The elements: what is deleted has stopped, what the session does not know
\* does not exist.
LifeInv ==
    /\ est[D] \in {"STARTED", "STOPPING", "STOPPED", "deleted"}
    /\ \A s \in Sinks : est[s] \in {"none", "STARTED", "STOPPING", "STOPPED", "deleted"}
    /\ mState = "OPENED" => est[D] = "STARTED"
    /\ mReadyToPlay => mState = "OPENED"
    /\ \A s \in Sinks : sink[s].mVideoSinkListener => est[s] = "STARTED"
    /\ \A e \in Elements \ mElements : est[e] \in {"none", "deleted"}
    /\ mState = "CLOSED" => \A e \in Elements : est[e] \in Gone

\* What is stopped is started, and nothing else is called meanwhile.
StopCall ==
    \A i \in DOMAIN agenda : agenda[i].f = "stop" =>
        /\ agenda = <<agenda[i]>> /\ est[agenda[i].e] = "STARTED"
        /\ agenda[i].e = D => mState = "CLOSING"

\* What the session is told has stopped, and what it deletes, has stopped.
StoppedCall ==
    /\ \A i \in DOMAIN agenda : agenda[i].f = "onElementStopped" =>
           est[agenda[i].c] \in {"STOPPED", "deleted"}
    /\ \A i \in DOMAIN mMbox : mMbox[i].cmd = "ELEMENT_DELETE" =>
           est[mMbox[i].e] \in {"STOPPED", "deleted"}

\* The medias go before their elements, their channels before them.
MediaInv ==
    /\ est[D] \in Gone => ~dmxMedia
    /\ est[V] \in Gone => ~dec.mOutputMedia
    /\ ~dmxMedia => dmxOut = <<>>
    /\ ~dec.mOutputMedia => dec.out = <<>>
    /\ \A c \in SinkElements : link[c] = D => Contains(dmxOut, c)
    /\ \A c \in SinkElements : link[c] = V => Contains(dec.out, c)

\* A channel is unlinked from the source it is linked to, at once.
UnlinkCall ==
    \A i \in DOMAIN agenda : agenda[i].f = "onChannelUnlink" =>
        i = 1 /\ link[agenda[i].c] = agenda[i].e

\* The decoder is stopped after its input channel is gone.
DecoderInv ==
    /\ \/ Calls("vdec_stop", V) \/ vdec.stopping \/ est[V] \in {"STOPPED", "deleted"}
       \/ est[V] = "STOPPING" /\ ~dec.mVdecStopPending
       => ~dec.mInputMedia
    /\ \/ Calls("teardownOutputs", V) \/ Calls("vdec_stop", V) \/ vdec.stopping
       \/ Calls("completeStop", V) \/ vdec.cb \in {"stop", "stopLoaded"}
       \/ dec.mVdecStopPending
       \/ \E i \in DOMAIN mMbox : mMbox[i].cmd = "COMPLETE_STOP"
       => est[V] \in {"STOPPING", "STOPPED", "deleted"}

\* An element forgets its input media right after its channel was deleted.
TeardownCall ==
    \A i \in DOMAIN agenda : agenda[i].f \in {"inputRemoved", "teardownOutputs"} =>
        IF i = 1 THEN ~port[agenda[i].e]
        ELSE /\ agenda[i - 1].f \in {"removeInputMedia", "deleteChannel"}
             /\ agenda[i - 1].e = agenda[i].e

\* A sink that stops with a channel is on its way to lose it.
LosesChannel(s) ==
    \/ agenda = <<Call("onChannelTeardown", s)>>
    \/ agenda = <<Call("removeInputMedia", s), Call("inputRemoved", s)>>
    \/ agenda = <<Call("deleteChannel", s), Call("inputRemoved", s)>>
    \/ /\ Len(agenda) = 3 /\ agenda[1].f \in {"onChannelUnlink", "onElementStopped"}
       /\ Tail(agenda) = <<Call("deleteChannel", s), Call("inputRemoved", s)>>

\* A channel that exists belongs to an element that has an input media, and an
\* element that is gone has none.
PortInv ==
    /\ \A s \in Sinks : port[s] => sink[s].mInputMedia /\ est[s] \notin Gone
    /\ port[V] => dec.mInputMedia /\ est[V] # "none"
    /\ \A s \in Sinks : est[s] = "STOPPING" /\ port[s] => LosesChannel(s)

\* The application learns of the medias, and of all of them before close() is
\* answered.
NoticeInv ==
    /\ LastSays(idle, "ready", "notReady", None, told.ready, mReadyToPlay)
    /\ LastSays(idle, "mediaAdded", "mediaRemoved", D, D \in appMedia, dmxMedia)
    /\ LastSays(idle, "mediaAdded", "mediaRemoved", V, V \in appMedia, dec.mOutputMedia)
    /\ told.closed > 0 \/ (\E i \in DOMAIN idle : idle[i].cb = "closeResponse") =>
           mState = "CLOSED"
    /\ \A i, j \in DOMAIN idle : i < j /\ idle[i].cb = "closeResponse" =>
           idle[j].cb = "sinkFlush"
    /\ told.closed > 0 => \A i \in DOMAIN idle : idle[i].cb = "sinkFlush"

OpenedInv == /\ LifeInv /\ StopCall /\ StoppedCall /\ MediaInv /\ UnlinkCall
             /\ DecoderInv /\ TeardownCall /\ PortInv /\ NoticeInv

\* A session that could not open has nothing to say about playing.
SilentInv ==
    mState = "CREATED" => /\ ~mReadyToPlay /\ ~told.ready
                          /\ \A i \in DOMAIN idle : idle[i].cb \notin {"ready", "notReady"}

PipelineInv == TypeOK /\ AnswerInv /\ SilentInv /\ (mState # "CREATED" => OpenedInv)
=============================================================================
