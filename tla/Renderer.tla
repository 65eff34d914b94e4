------------------------------ MODULE Renderer ------------------------------
(***************************************************************************)
(* Renderers (pdraw_renderer_gles2.cpp) on the side of the application's   *)
(* rendering thread: it starts them, renders and stops them, through the   *)
(* back-end and the session.  The loop thread, which adds media to them,   *)
(* takes media away and tells the application that there is something to   *)
(* render, is in RenderPipeline.                                           *)
(***************************************************************************)
EXTENDS Naturals, Sequences

CONSTANTS
    Renderers,  \* addresses a renderer may have
    Media,      \* decoded media, one for each decoder the session may have
    None,
    MaxStarts,  \* bound: calls of startVideoRenderer()
    Allowed     \* what may happen, see AllAllowed

\* setupFails   resize() or setParams() may fail in setup()
\* earlyFrame   a frame may arrive before the renderer has started
AllAllowed == {"setupFails", "earlyFrame"}

ASSUME RendererConstantsOK ==
    /\ None \notin Media /\ "absent" \notin Media /\ None # "absent"
    /\ MaxStarts \in Nat
    /\ Allowed \subseteq AllAllowed

VARIABLES
    state,      \* mState of each renderer; "free": no renderer there
    listens,    \* mRendererListener is set
    video,      \* mMedia of mGles2Video; "absent": mGles2Video is NULL
    mRendering,
    mCurrentBuffer, \* the medium of the frame
    mLastAddedMedia,
    mInputPorts,
    queue,      \* media whose queue has a frame
    event,      \* media whose queue has signalled its event
    timer,      \* mTimer is set
    \* the back-end: the n-th start comes with the n-th listener, 0 is NULL
    mVideoRendererListenersMap, mPendingVideoRendererListener,
    owner,      \* the listener the renderer was started with
    gone,       \* listeners whose stopVideoRenderer() has returned
    starts,
    rt,         \* the rendering thread: where it is, in which renderer, the medium it
                \* draws by
    loop,       \* the loop thread: where it is, and what it has still to do
    mMbox,
    session,    \* mState of the session
    demuxer,    \* mState of the demuxer
    media       \* each medium: "new", "added", "stopping" or "deleted"

lifeVars == <<state, listens, video>>
bufVars == <<mRendering, mCurrentBuffer>>
portVars == <<mLastAddedMedia, mInputPorts, queue, event>>
mapVars == <<mVideoRendererListenersMap, mPendingVideoRendererListener, owner, gone, starts>>
loopVars == <<loop, timer>>
sessionVars == <<session, demuxer, media>>
vars == <<lifeVars, bufVars, portVars, mapVars, rt, loopVars, mMbox, sessionVars>>

Set(f, r, v) == [f EXCEPT ![r] = v]
At(where, r) == [at |-> where, r |-> r, m |-> None]
In(where, r) == rt.at = where /\ rt.r = r
Idle == At("app", None)

\* The locks the loop thread holds: Session::mMutex while it adds media,
\* Sink::mMutex of a renderer, and mListenerMutex.
HoldsSession == loop.at \in {"adding", "setMedia"}
HoldsSink(r) == loop.at \in {"setMedia", "remove"} /\ loop.r = r
HoldsListener(r) == loop.at \in {"notice", "call"} /\ loop.r = r

Msg(type, r) == [type |-> type, r |-> r]
Post(type, r) == mMbox' = Append(mMbox, Msg(type, r))

-----------------------------------------------------------------------------
(* startVideoRenderer(), of the back-end, of the session, and what they    *)
(* call.                                                                   *)

\* The back-end notes the listener, the session creates the renderer and has
\* it among its elements.
Create(r) ==
    /\ rt = Idle /\ state[r] = "free" /\ starts < MaxStarts
    /\ session = "OPENED" /\ ~HoldsSession
    /\ starts' = starts + 1
    /\ mPendingVideoRendererListener' = starts'
    /\ owner' = Set(owner, r, starts')
    /\ state' = Set(state, r, "CREATED") /\ listens' = Set(listens, r, TRUE)
    /\ rt' = At("setup", r)
    /\ UNCHANGED <<video, bufVars, portVars, mVideoRendererListenersMap, gone, loopVars,
                   mMbox, sessionVars>>

Setup(r) ==
    /\ In("setup", r)
    /\ video' = Set(video, r, None)
    /\ rt' = At("start", r)
    /\ UNCHANGED <<state, listens, bufVars, portVars, mapVars, loopVars, mMbox, sessionVars>>

\* startVideoRenderer() returns an error; the renderer stays where it is.
SetupFails(r) ==
    /\ "setupFails" \in Allowed /\ In("setup", r)
    /\ mPendingVideoRendererListener' = 0
    /\ rt' = Idle
    /\ UNCHANGED <<lifeVars, bufVars, portVars, mVideoRendererListenersMap, owner, gone,
                   starts, loopVars, mMbox, sessionVars>>

\* start(); of the changes of state it posts the session heeds the last one.
StartRenderer(r) ==
    /\ In("start", r)
    /\ state' = Set(state, r, "STARTED")
    /\ Post("STARTED", r)
    /\ rt' = At("insert", r)
    /\ UNCHANGED <<listens, video, bufVars, portVars, mapVars, loopVars, sessionVars>>

Insert(r) ==
    /\ In("insert", r)
    /\ mVideoRendererListenersMap' = Set(mVideoRendererListenersMap, r,
                                         mPendingVideoRendererListener)
    /\ mPendingVideoRendererListener' = 0
    /\ rt' = Idle
    /\ UNCHANGED <<lifeVars, bufVars, portVars, owner, gone, starts, loopVars, mMbox,
                   sessionVars>>

-----------------------------------------------------------------------------
(* renderVideo().                                                          *)

RenderBegin(r) ==
    /\ rt = Idle /\ state[r] = "STARTED"
    /\ mRendering' = Set(mRendering, r, TRUE)
    /\ rt' = At("pop", r)
    /\ UNCHANGED <<lifeVars, mCurrentBuffer, portVars, mapVars, loopVars, mMbox, sessionVars>>

\* The newest frame of the last medium that was added replaces the one shown
\* before.  Without a frame, or with one of another medium, which has no
\* metadata for this one, there is nothing to draw.
Pop(r) ==
    /\ In("pop", r) /\ ~HoldsSink(r)
    /\ LET m == mLastAddedMedia[r]
           shown == IF m \in queue[r] THEN m ELSE mCurrentBuffer[r]
       IN  /\ mCurrentBuffer' = Set(mCurrentBuffer, r, shown)
           /\ queue' = Set(queue, r, queue[r] \ {m})
           /\ rt' = At(IF m # None /\ shown = m THEN "transition" ELSE "out", r)
    /\ UNCHANGED <<lifeVars, mRendering, mLastAddedMedia, mInputPorts, event, mapVars,
                   loopVars, mMbox, sessionVars>>

\* doTransition() locks Sink::mMutex for every frame; then mGles2Video draws it
\* by its medium.
DoTransition(r) ==
    /\ In("transition", r) /\ ~HoldsSink(r)
    /\ rt' = [At("draw", r) EXCEPT !.m = video[r]]
    /\ UNCHANGED <<lifeVars, bufVars, portVars, mapVars, loopVars, mMbox, sessionVars>>

Draw(r) ==
    /\ In("draw", r)
    /\ rt' = At("out", r)
    /\ UNCHANGED <<lifeVars, bufVars, portVars, mapVars, loopVars, mMbox, sessionVars>>

RenderOut(r) ==
    /\ In("out", r)
    /\ mRendering' = Set(mRendering, r, FALSE)
    /\ rt' = Idle
    /\ UNCHANGED <<lifeVars, mCurrentBuffer, portVars, mapVars, loopVars, mMbox, sessionVars>>

-----------------------------------------------------------------------------
(* stopVideoRenderer().                                                    *)

\* Mutant: the listener leaves the map before the renderer is stopped.
StopBeginErased(r) ==
    /\ rt = Idle /\ state[r] = "STARTED"
    /\ rt' = At("removeListener", r)
    /\ mVideoRendererListenersMap' = Set(mVideoRendererListenersMap, r, 0)
    /\ UNCHANGED <<lifeVars, bufVars, portVars, mPendingVideoRendererListener, owner, gone,
                   starts, loopVars, mMbox, sessionVars>>

StopBegin(r) ==
    /\ rt = Idle /\ state[r] = "STARTED"
    /\ rt' = At("removeListener", r)
    /\ UNCHANGED <<lifeVars, bufVars, portVars, mapVars, loopVars, mMbox, sessionVars>>

\* removeRendererListener()
RemoveListener(r) ==
    /\ In("removeListener", r) /\ ~HoldsListener(r)
    /\ listens' = Set(listens, r, FALSE)
    /\ rt' = At("release", r)
    /\ UNCHANGED <<state, video, bufVars, portVars, mapVars, loopVars, mMbox, sessionVars>>

\* Mutant: stop() posts its message before it deletes mGles2Video.
ReleasePosted(r) ==
    /\ In("release", r)
    /\ IF state[r] = "STARTED"
       THEN /\ state' = Set(state, r, "STOPPING") /\ Post("COMPLETE_STOP", r)
            /\ UNCHANGED <<rt, video>>
       ELSE /\ video' = Set(video, r, "absent") /\ rt' = At("erase", r)
            /\ UNCHANGED <<state, mMbox>>
    /\ UNCHANGED <<listens, bufVars, portVars, mapVars, loopVars, sessionVars>>

\* mState and mRunning change, and mGles2Video is deleted, under no lock.
Release(r) ==
    /\ In("release", r)
    /\ state' = Set(state, r, "STOPPING")
    /\ video' = Set(video, r, "absent")
    /\ rt' = At("post", r)
    /\ UNCHANGED <<listens, bufVars, portVars, mapVars, loopVars, mMbox, sessionVars>>

\* asyncRendererCompleteStop()
PostCompleteStop(r) ==
    /\ In("post", r)
    /\ Post("COMPLETE_STOP", r)
    /\ rt' = At("erase", r)
    /\ UNCHANGED <<lifeVars, bufVars, portVars, mapVars, loopVars, sessionVars>>

\* The back-end forgets the listener, and the application may delete it.
Erase(r) ==
    /\ In("erase", r)
    /\ mVideoRendererListenersMap' = Set(mVideoRendererListenersMap, r, 0)
    /\ gone' = gone \cup {owner[r]}
    /\ rt' = Idle
    /\ UNCHANGED <<lifeVars, bufVars, portVars, mPendingVideoRendererListener, owner, starts,
                   loopVars, mMbox, sessionVars>>

\* What the rendering thread does once it has called a function.
InCall(r) == \/ Setup(r) \/ SetupFails(r) \/ StartRenderer(r) \/ Insert(r)
             \/ Pop(r) \/ DoTransition(r) \/ Draw(r) \/ RenderOut(r)
             \/ RemoveListener(r) \/ Release(r) \/ PostCompleteStop(r) \/ Erase(r)
RenderingStep == \E r \in Renderers : Create(r) \/ RenderBegin(r) \/ StopBegin(r) \/ InCall(r)
=============================================================================
