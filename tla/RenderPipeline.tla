--------------------------- MODULE RenderPipeline ----------------------------
(***************************************************************************)
(* The loop thread on the other side of the renderers: the messages they   *)
(* post, the media that decoders add, flush and take away, the events of   *)
(* the queues and the timer that tell the application to render, and the   *)
(* close of the session.                                                   *)
(***************************************************************************)
EXTENDS Renderer

InLoop(where, r, m, todo) == [at |-> where, r |-> r, m |-> m, todo |-> todo, l |-> 0]
NoLoop == InLoop("poll", None, None, {})
Adding(todo) == InLoop("adding", None, None, todo)
Polls == loop.at = "poll"
Message(type, r) == Polls /\ mMbox # <<>> /\ Head(mMbox) = Msg(type, r)

InElements(r) == state[r] # "free"
Alive(m) == media[m] \in {"added", "stopping"}

-----------------------------------------------------------------------------
(* Media are added to renderers: one to all of them when its decoder adds  *)
(* it, all of them to one when it has started.                             *)

MediaAdded(m) ==
    /\ Polls /\ media[m] = "new" /\ session = "OPENED"
    /\ media' = Set(media, m, "added")
    /\ loop' = Adding({r \in Renderers : InElements(r)} \X {m})
    /\ UNCHANGED <<lifeVars, bufVars, portVars, mapVars, rt, timer, mMbox, session, demuxer>>

\* Mutant: only the media that come later are added.
RendererStartedWithout(r) ==
    /\ Message("STARTED", r)
    /\ mMbox' = Tail(mMbox)
    /\ loop' = Adding({})
    /\ UNCHANGED <<lifeVars, bufVars, portVars, mapVars, rt, timer, sessionVars>>

RendererStarted(r) ==
    /\ Message("STARTED", r)
    /\ mMbox' = Tail(mMbox)
    /\ loop' = Adding({r} \X {m \in Media : Alive(m)})
    /\ UNCHANGED <<lifeVars, bufVars, portVars, mapVars, rt, timer, sessionVars>>

AddInputMedia(r, m) ==
    /\ m \notin mInputPorts[r]
    /\ mInputPorts' = Set(mInputPorts, r, mInputPorts[r] \cup {m})
    /\ mLastAddedMedia' = Set(mLastAddedMedia, r, m)
    /\ loop' = IF video[r] = "absent" THEN Adding(loop.todo \ {<<r, m>>})
               ELSE InLoop("setMedia", r, m, loop.todo \ {<<r, m>>})

\* addMediaToRenderer(): -EEXIST is no error.
AddMediaToRenderer(r, m) ==
    /\ loop.at = "adding" /\ <<r, m>> \in loop.todo
    /\ \/ AddInputMedia(r, m)
       \/ /\ m \in mInputPorts[r]
          /\ loop' = Adding(loop.todo \ {<<r, m>>})
          /\ UNCHANGED <<mInputPorts, mLastAddedMedia>>
    /\ UNCHANGED <<lifeVars, bufVars, queue, event, mapVars, rt, timer, mMbox, sessionVars>>

\* setVideoMedia(), on the mGles2Video that was seen before.
SetVideoMedia ==
    /\ loop.at = "setMedia"
    /\ video' = IF video[loop.r] = "absent" THEN video ELSE Set(video, loop.r, loop.m)
    /\ loop' = Adding(loop.todo)
    /\ UNCHANGED <<state, listens, bufVars, portVars, mapVars, rt, timer, mMbox, sessionVars>>

\* The end of a loop over renderers or media.
LoopEnd ==
    /\ loop.at \in {"adding", "flush", "teardown"} /\ loop.todo = {}
    /\ loop' = NoLoop
    /\ UNCHANGED <<lifeVars, bufVars, portVars, mapVars, rt, timer, mMbox, sessionVars>>

-----------------------------------------------------------------------------
(* A decoder: frames, flushes, and the teardown of its channels when it    *)
(* stops.                                                                  *)

\* The channel is added to the source once the renderer knows the medium.
Linked(r, m) == m \in mInputPorts[r] /\ ~(loop.at = "setMedia" /\ loop.r = r /\ loop.m = m)

\* frameOutputCb(), on the thread of the decoder, which waits while the loop
\* thread holds Source::mMutex.
FrameOutput(m) ==
    LET sinks == {r \in Renderers : Linked(r, m)}
    IN  /\ media[m] = "added"
        /\ ~(loop.at \in {"flush", "flushQueue", "teardown", "remove"} /\ loop.m = m)
        /\ "earlyFrame" \in Allowed \/ \A r \in sinks : state[r] # "CREATED"
        /\ queue' = [r \in Renderers |-> queue[r] \cup IF r \in sinks THEN {m} ELSE {}]
        /\ event' = [r \in Renderers |-> event[r] \cup IF r \in sinks THEN {m} ELSE {}]
        /\ UNCHANGED <<lifeVars, bufVars, mLastAddedMedia, mInputPorts, mapVars, rt, loopVars,
                       mMbox, sessionVars>>

Flush(m) ==
    /\ Polls /\ media[m] = "added"
    /\ loop' = InLoop("flush", None, m, {r \in Renderers : Linked(r, m)} \X {m})
    /\ UNCHANGED <<lifeVars, bufVars, portVars, mapVars, rt, timer, mMbox, sessionVars>>

\* Mutant: onChannelFlush() does not wait for the end of the rendering.
FlushCurrentAtOnce(r, m) ==
    /\ loop.at = "flush" /\ <<r, m>> \in loop.todo
    /\ mCurrentBuffer' = Set(mCurrentBuffer, r, None)
    /\ loop' = InLoop("flushQueue", r, m, loop.todo \ {<<r, m>>})
    /\ UNCHANGED <<lifeVars, mRendering, portVars, mapVars, rt, timer, mMbox, sessionVars>>

\* onChannelFlush(): the frame being shown, under mRenderMutex ...
FlushCurrent(r, m) ==
    /\ loop.at = "flush" /\ <<r, m>> \in loop.todo
    /\ ~mRendering[r]
    /\ mCurrentBuffer' = Set(mCurrentBuffer, r, None)
    /\ loop' = InLoop("flushQueue", r, m, loop.todo \ {<<r, m>>})
    /\ UNCHANGED <<lifeVars, mRendering, portVars, mapVars, rt, timer, mMbox, sessionVars>>

\* ... then the queue, under Sink::mMutex.
FlushQueue ==
    /\ loop.at = "flushQueue"
    /\ queue' = Set(queue, loop.r, queue[loop.r] \ {loop.m})
    /\ loop' = InLoop("flush", None, loop.m, loop.todo)
    /\ UNCHANGED <<lifeVars, bufVars, mLastAddedMedia, mInputPorts, event, mapVars, rt, timer,
                   mMbox, sessionVars>>

\* tryStop() of the decoder: when the session closes, or when its input ends.
DecoderStop(m) ==
    /\ Polls /\ media[m] = "added"
    /\ media' = Set(media, m, "stopping")
    /\ loop' = InLoop("teardown", None, m, {r \in Renderers : Linked(r, m)} \X {m})
    /\ UNCHANGED <<lifeVars, bufVars, portVars, mapVars, rt, timer, mMbox, session, demuxer>>

\* Sink::onChannelTeardown() locks Sink::mMutex ...
OnChannelTeardown(r, m) ==
    /\ loop.at = "teardown" /\ <<r, m>> \in loop.todo
    /\ loop' = InLoop("remove", r, m, loop.todo \ {<<r, m>>})
    /\ UNCHANGED <<lifeVars, bufVars, portVars, mapVars, rt, timer, mMbox, sessionVars>>

\* The ports, the queues and all that belongs to media that leave r.
WithoutMedia(r, ms) ==
    /\ mCurrentBuffer' = Set(mCurrentBuffer, r, None)
    /\ mInputPorts' = Set(mInputPorts, r, mInputPorts[r] \ ms)
    /\ queue' = Set(queue, r, queue[r] \ ms)
    /\ event' = Set(event, r, event[r] \ ms)
    /\ mLastAddedMedia' = Set(mLastAddedMedia, r, IF mLastAddedMedia[r] \in ms THEN None
                                                  ELSE mLastAddedMedia[r])
    /\ video' = IF mLastAddedMedia[r] \in ms /\ video[r] # "absent" THEN Set(video, r, None)
                ELSE video

\* Mutant: removeInputMedia() does not wait for the end of the rendering.
RemoveInputMediaAtOnce ==
    /\ loop.at = "remove"
    /\ WithoutMedia(loop.r, {loop.m})
    /\ loop' = InLoop("teardown", None, loop.m, loop.todo)
    /\ UNCHANGED <<state, listens, mRendering, mapVars, rt, timer, mMbox, sessionVars>>

\* ... and removeInputMedia() waits for the end of the rendering.
RemoveInputMedia ==
    /\ loop.at = "remove" /\ ~mRendering[loop.r]
    /\ WithoutMedia(loop.r, {loop.m})
    /\ loop' = InLoop("teardown", None, loop.m, loop.todo)
    /\ UNCHANGED <<state, listens, mRendering, mapVars, rt, timer, mMbox, sessionVars>>

AllStopped(st, md) == /\ \A r \in Renderers : st[r] \in {"STOPPED", "free"}
                      /\ \A m \in Media : md[m] \in {"new", "deleted"}

\* Mutant: only the demuxer closes the session.
CloseWithDemuxer(st, md, dm) ==
    session' = IF session = "CLOSING" /\ dm = "STOPPED" /\ demuxer # dm /\ AllStopped(st, md)
               THEN "CLOSED" ELSE session

\* onElementStateChanged(): the last element to stop closes the session.
CloseIfStopped(st, md, dm) ==
    session' = IF session = "CLOSING" /\ dm = "STOPPED" /\ AllStopped(st, md)
               THEN "CLOSED" ELSE session

\* completeStop() of the decoder, when its channels are unlinked and vdec has
\* stopped: the medium is deleted.
DecoderStopped(m) ==
    /\ Polls /\ media[m] = "stopping"
    /\ \A r \in Renderers : ~Linked(r, m)
    /\ media' = Set(media, m, "deleted")
    /\ CloseIfStopped(state, media', demuxer)
    /\ UNCHANGED <<lifeVars, bufVars, portVars, mapVars, rt, loopVars, mMbox, demuxer>>

-----------------------------------------------------------------------------
(* Something to render.                                                    *)

\* The listener is called under mListenerMutex, when there is one.
Notify(r) == loop' = IF listens[r] THEN InLoop("notice", r, None, {}) ELSE loop

QueueEventCb(r) ==
    /\ Polls
    /\ \E m \in event[r] : event' = Set(event, r, event[r] \ {m})
    /\ Notify(r)
    /\ UNCHANGED <<lifeVars, bufVars, mLastAddedMedia, mInputPorts, queue, mapVars, rt, timer,
                   mMbox, sessionVars>>

\* The timer is set again only by the call of the listener.
TimerCb(r) ==
    /\ Polls /\ timer[r]
    /\ timer' = Set(timer, r, FALSE)
    /\ IF state[r] = "STARTED" THEN Notify(r) ELSE UNCHANGED loop
    /\ UNCHANGED <<lifeVars, bufVars, portVars, mapVars, rt, mMbox, sessionVars>>

\* onVideoRenderReady() of the back-end finds the listener in its map, or
\* takes the one of the start in progress.
FindListener ==
    /\ loop.at = "notice"
    /\ LET found == mVideoRendererListenersMap[loop.r]
       IN  loop' = [loop EXCEPT !.at = "call",
                                !.l = IF found # 0 THEN found ELSE mPendingVideoRendererListener]
    /\ UNCHANGED <<lifeVars, bufVars, portVars, mapVars, rt, timer, mMbox, sessionVars>>

\* Mutant: the timer is not set again.
CalledOnce ==
    /\ loop.at = "call"
    /\ loop' = NoLoop
    /\ UNCHANGED <<lifeVars, bufVars, portVars, mapVars, rt, timer, mMbox, sessionVars>>

Called ==
    /\ loop.at = "call"
    /\ timer' = Set(timer, loop.r, TRUE)
    /\ loop' = NoLoop
    /\ UNCHANGED <<lifeVars, bufVars, portVars, mapVars, rt, mMbox, sessionVars>>

-----------------------------------------------------------------------------
(* The end of a renderer, and of the session.                              *)

\* completeStop(): nobody renders any more; the session posts the deletion.
CompleteStop(r) ==
    /\ Message("COMPLETE_STOP", r)
    /\ timer' = Set(timer, r, FALSE)
    /\ WithoutMedia(r, Media)
    /\ state' = Set(state, r, "STOPPED")
    /\ mMbox' = Append(Tail(mMbox), Msg("ELEMENT_DELETE", r))
    /\ CloseIfStopped(state', media, demuxer)
    /\ UNCHANGED <<listens, mRendering, mapVars, rt, loop, demuxer, media>>

\* inloopElementDelete(): the destructor removes media that came meanwhile.
ElementDelete(r) ==
    /\ Message("ELEMENT_DELETE", r)
    /\ mMbox' = Tail(mMbox)
    /\ WithoutMedia(r, Media)
    /\ state' = Set(state, r, "free")
    /\ UNCHANGED <<listens, mRendering, mapVars, rt, loopVars, sessionVars>>

\* close(), and the stop of the demuxer once its decoders have left it.
Close ==
    /\ Polls /\ session = "OPENED"
    /\ session' = "CLOSING"
    /\ UNCHANGED <<lifeVars, bufVars, portVars, mapVars, rt, loopVars, mMbox, demuxer, media>>

DemuxerStopped ==
    /\ Polls /\ session = "CLOSING" /\ demuxer = "STARTED"
    /\ \A m \in Media : media[m] # "added"
    /\ demuxer' = "STOPPED"
    /\ CloseIfStopped(state, media, demuxer')
    /\ UNCHANGED <<lifeVars, bufVars, portVars, mapVars, rt, loopVars, mMbox, media>>

-----------------------------------------------------------------------------

Init ==
    /\ state = [r \in Renderers |-> "free"]
    /\ listens = [r \in Renderers |-> FALSE]
    /\ video = [r \in Renderers |-> "absent"]
    /\ mRendering = [r \in Renderers |-> FALSE]
    /\ mCurrentBuffer = [r \in Renderers |-> None]
    /\ mLastAddedMedia = [r \in Renderers |-> None]
    /\ mInputPorts = [r \in Renderers |-> {}]
    /\ queue = [r \in Renderers |-> {}]
    /\ event = [r \in Renderers |-> {}]
    /\ timer = [r \in Renderers |-> FALSE]
    /\ mVideoRendererListenersMap = [r \in Renderers |-> 0]
    /\ mPendingVideoRendererListener = 0
    /\ owner = [r \in Renderers |-> 0]
    /\ gone = {} /\ starts = 0
    /\ rt = Idle /\ loop = NoLoop /\ mMbox = <<>>
    /\ session = "OPENED" /\ demuxer = "STARTED"
    /\ media = [m \in Media |-> "new"]

MediaStep == \E m \in Media : \/ MediaAdded(m) \/ FrameOutput(m) \/ Flush(m)
                              \/ DecoderStop(m) \/ DecoderStopped(m)
ChannelStep == \E r \in Renderers, m \in Media :
    AddMediaToRenderer(r, m) \/ FlushCurrent(r, m) \/ OnChannelTeardown(r, m)
RendererStep == \E r \in Renderers : \/ RendererStarted(r) \/ QueueEventCb(r) \/ TimerCb(r)
                                     \/ CompleteStop(r) \/ ElementDelete(r)
LoopStep == \/ SetVideoMedia \/ FlushQueue \/ RemoveInputMedia \/ LoopEnd
            \/ FindListener \/ Called \/ Close \/ DemuxerStopped

Next == RenderingStep \/ MediaStep \/ ChannelStep \/ RendererStep \/ LoopStep
Spec == Init /\ [][Next]_vars

\* The rendering thread goes on with what it has begun, and so does the loop,
\* which is woken in the end when the rendering it waits for is over.  It serves
\* the queue and the timer of every renderer.  What a thread can do only so many
\* times in all - take mListenerMutex to stop a renderer, handle a message, stop
\* a decoder when the session closes, when the application stops its renderers
\* as well - it does in the end.
Closing == /\ session = "CLOSING"
           /\ \/ \E r \in Renderers : StopBegin(r)
              \/ \E m \in Media : DecoderStop(m)
Bounded == \/ Closing \/ DemuxerStopped
           \/ \E m \in Media : DecoderStopped(m)
           \/ \E r \in Renderers : \/ RemoveListener(r) \/ RendererStarted(r)
                                  \/ CompleteStop(r) \/ ElementDelete(r)

FairSpec ==
    /\ Spec
    /\ WF_vars(\E r \in Renderers : InCall(r))
    /\ WF_vars(LoopStep /\ ~Polls)
    /\ SF_vars(ChannelStep)
    /\ \A r \in Renderers : SF_vars(QueueEventCb(r) \/ TimerCb(r))
    /\ SF_vars(Bounded)

-----------------------------------------------------------------------------
(* Properties.                                                             *)

RendererTypes ==
    /\ state \in [Renderers -> {"free", "CREATED", "STARTED", "STOPPING", "STOPPED"}]
    /\ listens \in [Renderers -> BOOLEAN] /\ mRendering \in [Renderers -> BOOLEAN]
    /\ video \in [Renderers -> Media \cup {None, "absent"}]
    /\ mCurrentBuffer \in [Renderers -> Media \cup {None}]
    /\ mLastAddedMedia \in [Renderers -> Media \cup {None}]
    /\ mInputPorts \in [Renderers -> SUBSET Media]
    /\ queue \in [Renderers -> SUBSET Media] /\ event \in [Renderers -> SUBSET Media]
    /\ timer \in [Renderers -> BOOLEAN]
    /\ mVideoRendererListenersMap \in [Renderers -> 0..MaxStarts]
    /\ mPendingVideoRendererListener \in 0..MaxStarts
    /\ owner \in [Renderers -> 0..MaxStarts] /\ gone \subseteq 0..MaxStarts
    /\ starts \in 0..MaxStarts
    /\ session \in {"OPENED", "CLOSING", "CLOSED"} /\ demuxer \in {"STARTED", "STOPPED"}
    /\ media \in [Media -> {"new", "added", "stopping", "deleted"}]

\* Types, and what the vectors and queues of a renderer have in common: an
\* event that is attached to the loop is that of a queue that exists.
RendererTypeOK ==
    /\ RendererTypes
    /\ \A r \in Renderers : /\ mInputPorts[r] \subseteq {m \in Media : Alive(m)}
                            /\ queue[r] \subseteq mInputPorts[r]
                            /\ event[r] \subseteq mInputPorts[r]

\* The frame a draw works on is referenced until it ends: no flush, no removal
\* and no stop drops it meanwhile.
DrawnIsHeld == rt.at \in {"transition", "draw"} => mCurrentBuffer[rt.r] # None

\* The medium whose field of view a draw reads is not deleted before it ends.
DrawnMediaAlive == rt.at = "draw" /\ rt.m \in Media => media[rt.m] # "deleted"

\* A notice goes to the listener its renderer was started with, and never to one
\* whose stopVideoRenderer() has returned, as the application may delete it.
NoticeToOwner == loop.at = "call" => loop.l = owner[loop.r] /\ loop.l \notin gone

\* A renderer that the session knows to be started has every medium that is
\* there, whether the medium came before or after it.
NoMediaMissed == \A r \in Renderers, m \in Media :
    /\ state[r] = "STARTED" /\ media[m] = "added"
    /\ \A i \in DOMAIN mMbox : mMbox[i] # Msg("STARTED", r)
    /\ loop.at \notin {"adding", "setMedia"}
    => m \in mInputPorts[r]

\* A renderer is not used after it was deleted: by the rendering thread, by a
\* message, by an event of its queues or its timer, or by the loop thread.
UsesRenderer == rt.at \in {"setup", "start", "pop", "transition", "draw", "out",
                           "removeListener", "release", "post"}
NotUsedDeleted == \A r \in Renderers : state[r] = "free" =>
    /\ ~(UsesRenderer /\ rt.r = r)
    /\ \A i \in DOMAIN mMbox : mMbox[i].r # r
    /\ event[r] = {} /\ ~timer[r]
    /\ ~(loop.at \in {"setMedia", "flushQueue", "remove", "notice", "call"} /\ loop.r = r)

\* The loop thread holds Sink::mMutex and waits for the end of a rendering that
\* waits for Sink::mMutex.
Hung == /\ loop.at = "remove" /\ rt.r = loop.r
        /\ rt.at \in {"pop", "transition"}

\* While there is a frame to show the application is told to render, again and
\* again until it does.
NoticeComes == \A r \in Renderers :
    state[r] = "STARTED" /\ queue[r] # {}
        ~> (loop.at = "call" /\ loop.r = r) \/ queue[r] = {} \/ state[r] # "STARTED" \/ Hung

\* A session that is being closed is closed in the end ...
CloseCompletes == session = "CLOSING" ~> session = "CLOSED" \/ Hung

\* ... which is to say that close() is answered.
CloseAnswered == session = "CLOSING" ~> session = "CLOSED"

\* Promises the code does not keep.  A flush leaves no frame of the renderer.
FlushHoldsNothing == [][loop.at = "flushQueue" /\ loop'.at = "flush"
                        => mCurrentBuffer[loop.r] = None]_vars

\* mGles2Video is there when a medium is set on it.
VideoInUse == loop.at = "setMedia" => video[loop.r] # "absent"

\* A started renderer draws by the medium it shows.
VideoKnowsMedia == \A r \in Renderers :
    state[r] = "STARTED" /\ Polls => video[r] = mLastAddedMedia[r]
=============================================================================
