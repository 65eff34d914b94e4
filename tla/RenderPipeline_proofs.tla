----------------------- MODULE RenderPipeline_proofs -------------------------
(***************************************************************************)
(* Proofs about RenderPipeline, for any renderers, media and bounds.  The  *)
(* invariant says, part by part, what the other side may still do with a   *)
(* renderer while one thread is where it is.                               *)
(***************************************************************************)
EXTENDS RenderPipeline, TLAPS

-----------------------------------------------------------------------------
(* The inductive invariant.                                                *)

InFrame == {"pop", "transition", "draw", "out"}
InStart == {"setup", "start", "insert"}
RtStates == InStart \cup InFrame
                \cup {"app", "removeListener", "release", "post", "erase"}
LoopStates == {"poll", "adding", "setMedia", "flush", "flushQueue", "teardown", "remove",
               "notice", "call"}
Messages == [type : {"STARTED", "COMPLETE_STOP", "ELEMENT_DELETE"}, r : Renderers]
\* The messages of a mailbox, and those to come for a renderer.
Contents(q) == {q[i] : i \in DOMAIN q}
Pending(type, r) == Msg(type, r) \in Contents(mMbox)

\* Where the two threads are, and what is in the mailbox.
ThreadTypes ==
    /\ rt \in [at : RtStates, r : Renderers \cup {None}, m : Media \cup {None, "absent"}]
    /\ rt.at # "app" => rt.r \in Renderers
    /\ loop \in [at : LoopStates, r : Renderers \cup {None}, m : Media \cup {None},
                 todo : SUBSET (Renderers \X Media), l : 0..MaxStarts]
    /\ loop.at \in {"setMedia", "flushQueue", "remove", "notice", "call"}
        => loop.r \in Renderers
    /\ loop.at \in {"setMedia", "flush", "flushQueue", "teardown", "remove"}
        => loop.m \in Media
    /\ mMbox \in Seq(Messages)

TypeInv == RendererTypes /\ ThreadTypes

\* Media that are connected to a renderer are alive, and have its queues.
PortInv == \A r \in Renderers :
    /\ \A m \in mInputPorts[r] : Alive(m)
    /\ queue[r] \subseteq mInputPorts[r] /\ event[r] \subseteq mInputPorts[r]
    /\ state[r] = "free" => mInputPorts[r] = {}

\* What the loop thread works on stays as it found it.
LoopInv ==
    /\ Polls => loop.todo = {}
    /\ \A r \in Renderers, m \in Media : <<r, m>> \in loop.todo =>
        /\ state[r] # "free"
        /\ loop.at \in {"adding", "setMedia"} => Alive(m)
        /\ loop.at \in {"flush", "flushQueue", "teardown", "remove"} => m = loop.m
    /\ loop.at \in {"setMedia", "flushQueue", "remove"} => state[loop.r] # "free"
    /\ loop.at = "setMedia" => /\ loop.m \in mInputPorts[loop.r]
                               /\ mLastAddedMedia[loop.r] = loop.m
    /\ loop.at \in {"teardown", "remove"} => media[loop.m] = "stopping"
    /\ loop.at \in {"notice", "call"} => listens[loop.r]

\* The state of a renderer follows from where the rendering thread is in it.
ThreadInv ==
    /\ rt.at \in {"setup", "start"} => state[rt.r] = "CREATED"
    /\ rt.at \in InFrame \cup {"insert", "removeListener", "release"}
        => state[rt.r] = "STARTED"
    /\ rt.at = "post" => state[rt.r] = "STOPPING"
    /\ rt.at = "erase" => state[rt.r] \notin {"CREATED", "STARTED"}
    /\ \A r \in Renderers :
        /\ mRendering[r] <=> rt.at \in InFrame /\ rt.r = r
        /\ listens[r] => /\ state[r] \in {"CREATED", "STARTED"}
                         /\ ~(rt.at \in {"release", "post", "erase"} /\ rt.r = r)
        /\ timer[r] => state[r] \notin {"STOPPED", "free"}

\* A message is only there in the state it was posted in, and a renderer has at
\* most two of them, in the order of its life.
MsgOK(e) ==
    /\ e.type = "STARTED" => state[e.r] \in {"STARTED", "STOPPING"}
    /\ e.type = "COMPLETE_STOP" => state[e.r] = "STOPPING" /\ ~In("post", e.r)
    /\ e.type = "ELEMENT_DELETE" => state[e.r] = "STOPPED"
Ordered(d, e) == d.r = e.r => d.type = "STARTED" /\ e.type = "COMPLETE_STOP"
InOrder(q) == \A i, j \in DOMAIN q : i < j => Ordered(q[i], q[j])

MboxInv == (\A e \in Contents(mMbox) : MsgOK(e)) /\ InOrder(mMbox)

\* The frame, its medium and the one mGles2Video knows are connected.
DrawInv ==
    /\ DrawnIsHeld
    /\ rt.at = "draw" /\ rt.m \in Media => rt.m \in mInputPorts[rt.r]
    /\ \A r \in Renderers : video[r] \in Media =>
        /\ video[r] \in mInputPorts[r]
        /\ video[r] = mLastAddedMedia[r] \/ (loop.at = "setMedia" /\ loop.r = r)

\* A medium is connected to a started renderer, or will be by what is under way.
MediaInv == \A r \in Renderers, m \in Media :
    state[r] = "STARTED" /\ media[m] = "added" =>
        \/ m \in mInputPorts[r]
        \/ Pending("STARTED", r)
        \/ loop.at \in {"adding", "setMedia"} /\ <<r, m>> \in loop.todo

\* The map of the back-end, its pending member and the listeners themselves.
OwnerInv ==
    /\ \A r \in Renderers :
        /\ owner[r] <= starts
        /\ listens[r] => owner[r] \notin gone /\ owner[r] # 0
        /\ \A q \in Renderers \ {r} : owner[r] # 0 => owner[r] # owner[q]
        /\ state[r] = "CREATED" => \/ rt.at \in {"setup", "start"} /\ rt.r = r
                                   \/ "setupFails" \in Allowed
        /\ state[r] = "STARTED" /\ ~In("insert", r)
            => mVideoRendererListenersMap[r] = owner[r] /\ owner[r] # 0
        /\ state[r] # "STARTED" /\ ~(rt.at \in {"post", "erase"} /\ rt.r = r)
            => mVideoRendererListenersMap[r] = 0
        /\ /\ state[r] = "CREATED"
           /\ event[r] # {} \/ (loop.at \in {"notice", "call"} /\ loop.r = r)
           => "earlyFrame" \in Allowed
    /\ rt.at \in InStart => /\ mPendingVideoRendererListener = owner[rt.r]
                            /\ mVideoRendererListenersMap[rt.r] = 0
                            /\ owner[rt.r] # 0
    /\ gone \subseteq 0..starts
    /\ loop.at = "call" => loop.l = owner[loop.r]

IInv == TypeInv /\ PortInv /\ LoopInv /\ ThreadInv /\ MboxInv /\ DrawInv /\ MediaInv

\* No renderer fails in setup(), or no frame reaches one that has not started.
Orderly == "setupFails" \notin Allowed \/ "earlyFrame" \notin Allowed

-----------------------------------------------------------------------------
(* The mailbox.                                                            *)

\* A mailbox of which the first message is handled.
LEMMA Tailed ==
    ASSUME NEW q \in Seq(Messages), q # <<>>
    PROVE  /\ Tail(q) \in Seq(Messages) /\ Head(q) \in Messages
           /\ Contents(q) = {Head(q)} \cup Contents(Tail(q))
           /\ InOrder(q) => /\ InOrder(Tail(q))
                            /\ \A e \in Contents(Tail(q)) : Ordered(Head(q), e)
  <1>1. /\ Tail(q) \in Seq(Messages) /\ Head(q) \in Messages /\ Head(q) = q[1]
        /\ Len(q) \in Nat \ {0} /\ DOMAIN q = 1..Len(q) /\ DOMAIN Tail(q) = 1..(Len(q) - 1)
        /\ \A i \in DOMAIN Tail(q) : Tail(q)[i] = q[i + 1]
    OBVIOUS
  <1>2. \A i \in DOMAIN q : i = 1 \/ (i - 1 \in DOMAIN Tail(q) /\ q[i] = Tail(q)[i - 1])
    BY <1>1
  <1>3. Contents(q) = {Head(q)} \cup Contents(Tail(q))
    <2>1. ASSUME NEW e \in Contents(q) PROVE e = Head(q) \/ e \in Contents(Tail(q))
      <3>1. PICK i \in DOMAIN q : e = q[i]
        BY <2>1 DEF Contents
      <3>2. CASE i = 1
        BY <1>1, <3>1, <3>2
      <3>3. CASE i - 1 \in DOMAIN Tail(q) /\ q[i] = Tail(q)[i - 1]
        BY <3>1, <3>3 DEF Contents
      <3> QED
        BY <1>2, <3>2, <3>3
    <2>2. ASSUME NEW e \in Contents(Tail(q)) PROVE e \in Contents(q)
      BY <1>1, <2>2 DEF Contents
    <2>3. Head(q) \in Contents(q)
      BY <1>1 DEF Contents
    <2> QED
      BY <2>1, <2>2, <2>3
  <1>4. ASSUME InOrder(q)
        PROVE  InOrder(Tail(q)) /\ \A e \in Contents(Tail(q)) : Ordered(Head(q), e)
    BY <1>1, <1>4 DEF InOrder, Contents
  <1> QED
    BY <1>1, <1>3, <1>4

\* A mailbox to which a message is posted.
LEMMA Appended ==
    ASSUME NEW q \in Seq(Messages), NEW e \in Messages
    PROVE  /\ Append(q, e) \in Seq(Messages)
           /\ Contents(Append(q, e)) = Contents(q) \cup {e}
           /\ InOrder(q) /\ (\A d \in Contents(q) : Ordered(d, e)) => InOrder(Append(q, e))
  <1>1. /\ Append(q, e) \in Seq(Messages) /\ Len(q) \in Nat /\ DOMAIN q = 1..Len(q)
        /\ DOMAIN Append(q, e) = 1..(Len(q) + 1)
        /\ \A i \in DOMAIN q : Append(q, e)[i] = q[i]
        /\ Append(q, e)[Len(q) + 1] = e
    OBVIOUS
  <1>2. Contents(Append(q, e)) = Contents(q) \cup {e}
    BY <1>1 DEF Contents
  <1>3. ASSUME InOrder(q), \A d \in Contents(q) : Ordered(d, e)
        PROVE  InOrder(Append(q, e))
    BY <1>1, <1>3 DEF InOrder, Contents
  <1> QED
    BY <1>1, <1>2, <1>3

\* What is in a mailbox is a message.
LEMMA Received == ASSUME NEW q \in Seq(Messages) PROVE Contents(q) \subseteq Messages
  BY DEF Contents

\* What a message that is handled says of its renderer, and of the others.
LEMMA Heads ==
    ASSUME TypeInv, MboxInv, NEW type, NEW r \in Renderers, Message(type, r)
    PROVE  /\ type = "STARTED" => state[r] \in {"STARTED", "STOPPING"}
           /\ type = "COMPLETE_STOP" => state[r] = "STOPPING" /\ ~In("post", r)
           /\ type = "ELEMENT_DELETE" => state[r] = "STOPPED"
           /\ Tail(mMbox) \in Seq(Messages) /\ InOrder(Tail(mMbox))
           /\ Contents(mMbox) = {Msg(type, r)} \cup Contents(Tail(mMbox))
           /\ type # "STARTED" => \A e \in Contents(Tail(mMbox)) : e.r # r
  <1>1. Head(mMbox) = Msg(type, r) /\ mMbox \in Seq(Messages) /\ mMbox # <<>>
    BY DEF Message, TypeInv, ThreadTypes
  <1>2. Msg(type, r).type = type /\ Msg(type, r).r = r
    BY DEF Msg
  <1>3. /\ Tail(mMbox) \in Seq(Messages) /\ InOrder(Tail(mMbox))
        /\ Contents(mMbox) = {Msg(type, r)} \cup Contents(Tail(mMbox))
        /\ \A e \in Contents(Tail(mMbox)) : Ordered(Msg(type, r), e)
    BY <1>1, Tailed DEF MboxInv
  <1>4. MsgOK(Msg(type, r))
    BY <1>3 DEF MboxInv
  <1> QED
    BY <1>2, <1>3, <1>4 DEF MsgOK, Ordered

\* The messages after one that ends a renderer are about others.
LEMMA AfterLast ==
    ASSUME TypeInv, MboxInv, NEW type, type # "STARTED", NEW r \in Renderers,
           Message(type, r)
    PROVE  /\ Tail(mMbox) \in Seq(Messages) /\ InOrder(Tail(mMbox))
           /\ \A e \in Contents(Tail(mMbox)) : e.r # r /\ MsgOK(e) /\ e \in Messages
  <1>1. /\ Tail(mMbox) \in Seq(Messages) /\ InOrder(Tail(mMbox))
        /\ Contents(Tail(mMbox)) \subseteq Contents(mMbox)
        /\ \A e \in Contents(Tail(mMbox)) : e.r # r
    BY Heads
  <1>2. Contents(mMbox) \subseteq Messages
    BY Received DEF TypeInv, ThreadTypes
  <1> QED
    BY <1>1, <1>2 DEF MboxInv

-----------------------------------------------------------------------------
(* The initial states and the steps.                                       *)

\* The invariant holds at first.
LEMMA InitInv == Init => IInv /\ OwnerInv
  <1> SUFFICES ASSUME Init PROVE IInv /\ OwnerInv
    OBVIOUS
  <1> USE RendererConstantsOK DEF Init, Idle, At, NoLoop, InLoop, Polls
  <1>1. TypeInv
    BY DEF TypeInv, RendererTypes, ThreadTypes, RtStates, InStart, InFrame, LoopStates
  <1>2. PortInv /\ LoopInv /\ ThreadInv /\ DrawInv /\ MediaInv
    BY DEF PortInv, LoopInv, ThreadInv, DrawInv, DrawnIsHeld, MediaInv, InStart, InFrame
  <1>3. MboxInv
    BY DEF MboxInv, Contents, InOrder
  <1>4. OwnerInv
    BY DEF OwnerInv, InStart, In
  <1> QED
    BY <1>1, <1>2, <1>3, <1>4 DEF IInv

\* The input ports of a renderer that gets one.
LEMMA PortAdded ==
    ASSUME NEW f \in [Renderers -> SUBSET Media], NEW r \in Renderers, NEW m \in Media
    PROVE  [f EXCEPT ![r] = f[r] \cup {m}] \in [Renderers -> SUBSET Media]
  OBVIOUS

\* Types of the state.
LEMMA TypesKept ==
    ASSUME TypeInv, [Next]_vars
    PROVE  RendererTypes'
  <1> USE RendererConstantsOK DEF TypeInv, RendererTypes, ThreadTypes, Set, In,
          RtStates, InStart, InFrame, LoopStates, lifeVars, bufVars, portVars,
          mapVars, loopVars, sessionVars
  <1>1. ASSUME NEW r \in Renderers, Create(r) PROVE RendererTypes'
    BY <1>1 DEF Create, Idle
  <1>2. ASSUME NEW r \in Renderers, Setup(r) PROVE RendererTypes'
    BY <1>2 DEF Setup
  <1>3. ASSUME NEW r \in Renderers, SetupFails(r) PROVE RendererTypes'
    BY <1>3 DEF SetupFails, Idle
  <1>4. ASSUME NEW r \in Renderers, StartRenderer(r) PROVE RendererTypes'
    BY <1>4 DEF StartRenderer, Post
  <1>5. ASSUME NEW r \in Renderers, Insert(r) PROVE RendererTypes'
    BY <1>5 DEF Insert, Idle
  <1>6. ASSUME NEW r \in Renderers, RenderBegin(r) PROVE RendererTypes'
    BY <1>6 DEF RenderBegin, Idle
  <1>7. ASSUME NEW r \in Renderers, Pop(r) PROVE RendererTypes'
    BY <1>7 DEF Pop
  <1>8. ASSUME NEW r \in Renderers, DoTransition(r) PROVE RendererTypes'
    BY <1>8 DEF DoTransition
  <1>9. ASSUME NEW r \in Renderers, Draw(r) PROVE RendererTypes'
    BY <1>9 DEF Draw
  <1>10. ASSUME NEW r \in Renderers, RenderOut(r) PROVE RendererTypes'
    BY <1>10 DEF RenderOut, Idle
  <1>11. ASSUME NEW r \in Renderers, StopBegin(r) PROVE RendererTypes'
    BY <1>11 DEF StopBegin, Idle
  <1>12. ASSUME NEW r \in Renderers, RemoveListener(r) PROVE RendererTypes'
    BY <1>12 DEF RemoveListener
  <1>13. ASSUME NEW r \in Renderers, Release(r) PROVE RendererTypes'
    BY <1>13 DEF Release
  <1>14. ASSUME NEW r \in Renderers, PostCompleteStop(r) PROVE RendererTypes'
    BY <1>14 DEF PostCompleteStop, Post
  <1>15. ASSUME NEW r \in Renderers, Erase(r) PROVE RendererTypes'
    <2>1. gone' \subseteq 0..MaxStarts
      <3>1. gone \subseteq 0..MaxStarts /\ owner[r] \in 0..MaxStarts
        OBVIOUS
      <3> QED
        BY ONLY <1>15, <3>1 DEF Erase
    <2> QED
      BY <1>15, <2>1 DEF Erase, Idle, At
  <1>16. ASSUME NEW m \in Media, MediaAdded(m) PROVE RendererTypes'
    BY <1>16 DEF MediaAdded, Adding, InLoop
  <1>17. ASSUME NEW m \in Media, FrameOutput(m) PROVE RendererTypes'
    BY <1>17 DEF FrameOutput
  <1>18. ASSUME NEW m \in Media, Flush(m) PROVE RendererTypes'
    BY <1>18 DEF Flush, InLoop
  <1>19. ASSUME NEW m \in Media, DecoderStop(m) PROVE RendererTypes'
    BY <1>19 DEF DecoderStop, InLoop
  <1>20. ASSUME NEW m \in Media, DecoderStopped(m) PROVE RendererTypes'
    BY <1>20 DEF DecoderStopped, CloseIfStopped
  <1>21. ASSUME NEW r \in Renderers, NEW m \in Media, AddMediaToRenderer(r, m)
        PROVE  RendererTypes'
    <2>1. CASE m \in mInputPorts[r]
      BY <1>21, <2>1 DEF AddMediaToRenderer, AddInputMedia
    <2>2. CASE m \notin mInputPorts[r]
      <3>0. mInputPorts' = [mInputPorts EXCEPT ![r] = mInputPorts[r] \cup {m}]
        BY <1>21, <2>2 DEF AddMediaToRenderer, AddInputMedia
      <3>1. mInputPorts' \in [Renderers -> SUBSET Media]
        <4>1. mInputPorts \in [Renderers -> SUBSET Media]
          OBVIOUS
        <4> QED
          BY ONLY <3>0, <4>1, PortAdded, r \in Renderers, m \in Media
      <3>2. mLastAddedMedia' \in [Renderers -> Media \cup {None}]
        BY <1>21, <2>2 DEF AddMediaToRenderer, AddInputMedia
      <3> QED
        BY <1>21, <3>1, <3>2 DEF AddMediaToRenderer
    <2> QED
      BY <2>1, <2>2
  <1>22. ASSUME NEW r \in Renderers, NEW m \in Media, FlushCurrent(r, m)
        PROVE  RendererTypes'
    BY <1>22 DEF FlushCurrent, InLoop
  <1>23. ASSUME NEW r \in Renderers, NEW m \in Media, OnChannelTeardown(r, m)
        PROVE  RendererTypes'
    BY <1>23 DEF OnChannelTeardown, InLoop
  <1>24. ASSUME NEW r \in Renderers, RendererStarted(r) PROVE RendererTypes'
    BY <1>24 DEF RendererStarted, Adding, InLoop, Message
  <1>25. ASSUME NEW r \in Renderers, QueueEventCb(r) PROVE RendererTypes'
    BY <1>25 DEF QueueEventCb, Notify, InLoop
  <1>26. ASSUME NEW r \in Renderers, TimerCb(r) PROVE RendererTypes'
    BY <1>26 DEF TimerCb, Notify, InLoop
  <1>27. ASSUME NEW r \in Renderers, CompleteStop(r) PROVE RendererTypes'
    BY <1>27 DEF CompleteStop, WithoutMedia, CloseIfStopped, Message
  <1>28. ASSUME NEW r \in Renderers, ElementDelete(r) PROVE RendererTypes'
    BY <1>28 DEF ElementDelete, WithoutMedia, Message
  <1>29. ASSUME SetVideoMedia PROVE RendererTypes'
    BY <1>29 DEF SetVideoMedia, Adding, InLoop
  <1>30. ASSUME FlushQueue PROVE RendererTypes'
    BY <1>30 DEF FlushQueue, InLoop
  <1>31. ASSUME RemoveInputMedia PROVE RendererTypes'
    BY <1>31 DEF RemoveInputMedia, WithoutMedia, InLoop
  <1>32. ASSUME LoopEnd PROVE RendererTypes'
    BY <1>32 DEF LoopEnd, NoLoop, InLoop
  <1>33. ASSUME FindListener PROVE RendererTypes'
    BY <1>33 DEF FindListener
  <1>34. ASSUME Called PROVE RendererTypes'
    BY <1>34 DEF Called, NoLoop, InLoop
  <1>35. ASSUME Close PROVE RendererTypes'
    BY <1>35 DEF Close
  <1>36. ASSUME DemuxerStopped PROVE RendererTypes'
    BY <1>36 DEF DemuxerStopped, CloseIfStopped
  <1>37. ASSUME UNCHANGED vars PROVE RendererTypes'
    BY <1>37, SMTT(60) DEF vars
  <1> QED
    BY <1>1, <1>2, <1>3, <1>4, <1>5, <1>6, <1>7, <1>8, <1>9, <1>10, <1>11,
       <1>12, <1>13, <1>14, <1>15, <1>16, <1>17, <1>18, <1>19, <1>20, <1>21,
       <1>22, <1>23, <1>24, <1>25, <1>26, <1>27, <1>28, <1>29, <1>30, <1>31,
       <1>32, <1>33, <1>34, <1>35, <1>36, <1>37
    DEF Next, RenderingStep, InCall, MediaStep, ChannelStep, RendererStep, LoopStep

\* Types of the two threads and of the mailbox.
LEMMA ThreadTypesKept ==
    ASSUME TypeInv, [Next]_vars
    PROVE  ThreadTypes'
  <1> USE RendererConstantsOK DEF TypeInv, RendererTypes, ThreadTypes, Set, In, At,
          Msg, Messages, RtStates, InStart, InFrame, LoopStates, lifeVars, bufVars,
          portVars, mapVars, loopVars, sessionVars
  <1>1. ASSUME NEW r \in Renderers, Create(r) PROVE ThreadTypes'
    BY <1>1 DEF Create, Idle
  <1>2. ASSUME NEW r \in Renderers, Setup(r) PROVE ThreadTypes'
    BY <1>2 DEF Setup
  <1>3. ASSUME NEW r \in Renderers, SetupFails(r) PROVE ThreadTypes'
    BY <1>3 DEF SetupFails, Idle
  <1>4. ASSUME NEW r \in Renderers, StartRenderer(r) PROVE ThreadTypes'
    BY Appended, <1>4 DEF StartRenderer, Post
  <1>5. ASSUME NEW r \in Renderers, Insert(r) PROVE ThreadTypes'
    BY <1>5 DEF Insert, Idle
  <1>6. ASSUME NEW r \in Renderers, RenderBegin(r) PROVE ThreadTypes'
    BY <1>6 DEF RenderBegin, Idle
  <1>7. ASSUME NEW r \in Renderers, Pop(r) PROVE ThreadTypes'
    BY <1>7 DEF Pop
  <1>8. ASSUME NEW r \in Renderers, DoTransition(r) PROVE ThreadTypes'
    BY <1>8 DEF DoTransition
  <1>9. ASSUME NEW r \in Renderers, Draw(r) PROVE ThreadTypes'
    BY <1>9 DEF Draw
  <1>10. ASSUME NEW r \in Renderers, RenderOut(r) PROVE ThreadTypes'
    BY <1>10 DEF RenderOut, Idle
  <1>11. ASSUME NEW r \in Renderers, StopBegin(r) PROVE ThreadTypes'
    BY <1>11 DEF StopBegin, Idle
  <1>12. ASSUME NEW r \in Renderers, RemoveListener(r) PROVE ThreadTypes'
    BY <1>12 DEF RemoveListener
  <1>13. ASSUME NEW r \in Renderers, Release(r) PROVE ThreadTypes'
    BY <1>13 DEF Release
  <1>14. ASSUME NEW r \in Renderers, PostCompleteStop(r) PROVE ThreadTypes'
    BY Appended, <1>14 DEF PostCompleteStop, Post
  <1>15. ASSUME NEW r \in Renderers, Erase(r) PROVE ThreadTypes'
    BY <1>15 DEF Erase, Idle
  <1>16. ASSUME NEW m \in Media, MediaAdded(m) PROVE ThreadTypes'
    BY <1>16 DEF MediaAdded, Adding, InLoop
  <1>17. ASSUME NEW m \in Media, FrameOutput(m) PROVE ThreadTypes'
    BY <1>17 DEF FrameOutput
  <1>18. ASSUME NEW m \in Media, Flush(m) PROVE ThreadTypes'
    BY <1>18 DEF Flush, InLoop
  <1>19. ASSUME NEW m \in Media, DecoderStop(m) PROVE ThreadTypes'
    BY <1>19 DEF DecoderStop, InLoop
  <1>20. ASSUME NEW m \in Media, DecoderStopped(m) PROVE ThreadTypes'
    BY <1>20 DEF DecoderStopped, CloseIfStopped
  <1>21. ASSUME NEW r \in Renderers, NEW m \in Media, AddMediaToRenderer(r, m)
        PROVE  ThreadTypes'
    <2>1. loop.todo \ {<<r, m>>} \in SUBSET (Renderers \X Media) /\ UNCHANGED <<rt, mMbox>>
      BY <1>21 DEF AddMediaToRenderer
    <2>2. \/ loop' = Adding(loop.todo \ {<<r, m>>})
          \/ loop' = InLoop("setMedia", r, m, loop.todo \ {<<r, m>>})
      BY <1>21 DEF AddMediaToRenderer, AddInputMedia
    <2> QED
      BY <2>1, <2>2 DEF Adding, InLoop
  <1>22. ASSUME NEW r \in Renderers, NEW m \in Media, FlushCurrent(r, m)
        PROVE  ThreadTypes'
    BY <1>22 DEF FlushCurrent, InLoop
  <1>23. ASSUME NEW r \in Renderers, NEW m \in Media, OnChannelTeardown(r, m)
        PROVE  ThreadTypes'
    BY <1>23 DEF OnChannelTeardown, InLoop
  <1>24. ASSUME NEW r \in Renderers, RendererStarted(r) PROVE ThreadTypes'
    BY Tailed, <1>24 DEF RendererStarted, Adding, InLoop, Message
  <1>25. ASSUME NEW r \in Renderers, QueueEventCb(r) PROVE ThreadTypes'
    BY <1>25 DEF QueueEventCb, Notify, InLoop
  <1>26. ASSUME NEW r \in Renderers, TimerCb(r) PROVE ThreadTypes'
    BY <1>26 DEF TimerCb, Notify, InLoop
  <1>27. ASSUME NEW r \in Renderers, CompleteStop(r) PROVE ThreadTypes'
    BY Appended, Tailed, <1>27 DEF CompleteStop, WithoutMedia, CloseIfStopped, Message
  <1>28. ASSUME NEW r \in Renderers, ElementDelete(r) PROVE ThreadTypes'
    BY Tailed, <1>28 DEF ElementDelete, WithoutMedia, Message
  <1>29. ASSUME SetVideoMedia PROVE ThreadTypes'
    BY <1>29 DEF SetVideoMedia, Adding, InLoop
  <1>30. ASSUME FlushQueue PROVE ThreadTypes'
    BY <1>30 DEF FlushQueue, InLoop
  <1>31. ASSUME RemoveInputMedia PROVE ThreadTypes'
    BY <1>31 DEF RemoveInputMedia, WithoutMedia, InLoop
  <1>32. ASSUME LoopEnd PROVE ThreadTypes'
    BY <1>32 DEF LoopEnd, NoLoop, InLoop
  <1>33. ASSUME FindListener PROVE ThreadTypes'
    BY <1>33, ZenonT(60) DEF FindListener
  <1>34. ASSUME Called PROVE ThreadTypes'
    BY <1>34 DEF Called, NoLoop, InLoop
  <1>35. ASSUME Close PROVE ThreadTypes'
    BY <1>35 DEF Close
  <1>36. ASSUME DemuxerStopped PROVE ThreadTypes'
    BY <1>36 DEF DemuxerStopped, CloseIfStopped
  <1>37. ASSUME UNCHANGED vars PROVE ThreadTypes'
    BY <1>37 DEF vars
  <1> QED
    BY <1>1, <1>2, <1>3, <1>4, <1>5, <1>6, <1>7, <1>8, <1>9, <1>10, <1>11,
       <1>12, <1>13, <1>14, <1>15, <1>16, <1>17, <1>18, <1>19, <1>20, <1>21,
       <1>22, <1>23, <1>24, <1>25, <1>26, <1>27, <1>28, <1>29, <1>30, <1>31,
       <1>32, <1>33, <1>34, <1>35, <1>36, <1>37
    DEF Next, RenderingStep, InCall, MediaStep, ChannelStep, RendererStep, LoopStep

\* Ports go when their media do.
LEMMA PortKept ==
    ASSUME TypeInv, PortInv, LoopInv, ThreadInv, MboxInv, [Next]_vars
    PROVE  PortInv'
  <1> USE RendererConstantsOK DEF PortInv, LoopInv, TypeInv, RendererTypes,
          ThreadTypes, Set, In, At, Msg, Polls, Alive, InElements, Linked, RtStates,
          InStart, InFrame, LoopStates, lifeVars, bufVars, portVars, mapVars,
          loopVars, sessionVars
  <1>1. ASSUME NEW r \in Renderers, Create(r) PROVE PortInv'
    BY <1>1 DEF Create, Idle
  <1>2. ASSUME NEW r \in Renderers, Setup(r) PROVE PortInv'
    BY <1>2 DEF Setup
  <1>3. ASSUME NEW r \in Renderers, SetupFails(r) PROVE PortInv'
    BY <1>3 DEF SetupFails, Idle
  <1>4. ASSUME NEW r \in Renderers, StartRenderer(r) PROVE PortInv'
    BY <1>4 DEF StartRenderer, Post
  <1>5. ASSUME NEW r \in Renderers, Insert(r) PROVE PortInv'
    BY <1>5 DEF Insert, Idle
  <1>6. ASSUME NEW r \in Renderers, RenderBegin(r) PROVE PortInv'
    BY <1>6 DEF RenderBegin, Idle
  <1>7. ASSUME NEW r \in Renderers, Pop(r) PROVE PortInv'
    BY <1>7 DEF Pop
  <1>8. ASSUME NEW r \in Renderers, DoTransition(r) PROVE PortInv'
    BY <1>8 DEF DoTransition
  <1>9. ASSUME NEW r \in Renderers, Draw(r) PROVE PortInv'
    BY <1>9 DEF Draw
  <1>10. ASSUME NEW r \in Renderers, RenderOut(r) PROVE PortInv'
    BY <1>10 DEF RenderOut, Idle
  <1>11. ASSUME NEW r \in Renderers, StopBegin(r) PROVE PortInv'
    BY <1>11 DEF StopBegin, Idle
  <1>12. ASSUME NEW r \in Renderers, RemoveListener(r) PROVE PortInv'
    BY <1>12 DEF RemoveListener
  <1>13. ASSUME NEW r \in Renderers, Release(r) PROVE PortInv'
    BY <1>13 DEF Release
  <1>14. ASSUME NEW r \in Renderers, PostCompleteStop(r) PROVE PortInv'
    BY <1>14 DEF PostCompleteStop, Post
  <1>15. ASSUME NEW r \in Renderers, Erase(r) PROVE PortInv'
    BY <1>15 DEF Erase, Idle
  <1>16. ASSUME NEW m \in Media, MediaAdded(m) PROVE PortInv'
    BY <1>16 DEF MediaAdded, Adding, InLoop
  <1>17. ASSUME NEW m \in Media, FrameOutput(m) PROVE PortInv'
    BY <1>17 DEF FrameOutput
  <1>18. ASSUME NEW m \in Media, Flush(m) PROVE PortInv'
    BY <1>18 DEF Flush, InLoop
  <1>19. ASSUME NEW m \in Media, DecoderStop(m) PROVE PortInv'
    BY <1>19 DEF DecoderStop, InLoop
  <1>20. ASSUME NEW m \in Media, DecoderStopped(m) PROVE PortInv'
    BY <1>20 DEF DecoderStopped, CloseIfStopped
  <1>21. ASSUME NEW r \in Renderers, NEW m \in Media, AddMediaToRenderer(r, m)
        PROVE  PortInv'
    BY <1>21 DEF AddMediaToRenderer, AddInputMedia
  <1>22. ASSUME NEW r \in Renderers, NEW m \in Media, FlushCurrent(r, m) PROVE PortInv'
    BY <1>22 DEF FlushCurrent, InLoop
  <1>23. ASSUME NEW r \in Renderers, NEW m \in Media, OnChannelTeardown(r, m)
        PROVE  PortInv'
    BY <1>23 DEF OnChannelTeardown, InLoop
  <1>24. ASSUME NEW r \in Renderers, RendererStarted(r) PROVE PortInv'
    BY Heads, <1>24, SMTT(60) DEF RendererStarted, Adding, InLoop, Message
  <1>25. ASSUME NEW r \in Renderers, QueueEventCb(r) PROVE PortInv'
    BY <1>25 DEF QueueEventCb, Notify, InLoop
  <1>26. ASSUME NEW r \in Renderers, TimerCb(r) PROVE PortInv'
    BY <1>26 DEF TimerCb, Notify, InLoop
  <1>27. ASSUME NEW r \in Renderers, CompleteStop(r) PROVE PortInv'
    <2>1. state[r] = "STOPPING" /\ Polls /\ ~In("post", r)
      BY <1>27, Heads, SMTT(60) DEF CompleteStop, Message
    <2> QED
      BY <1>27, <2>1 DEF CompleteStop, WithoutMedia
  <1>28. ASSUME NEW r \in Renderers, ElementDelete(r) PROVE PortInv'
    <2>1. state[r] = "STOPPED" /\ Polls
      BY <1>28, Heads DEF ElementDelete, Message
    <2> QED
      BY <1>28, <2>1 DEF ElementDelete, WithoutMedia
  <1>29. ASSUME SetVideoMedia PROVE PortInv'
    BY <1>29 DEF SetVideoMedia, Adding, InLoop
  <1>30. ASSUME FlushQueue PROVE PortInv'
    BY <1>30 DEF FlushQueue, InLoop
  <1>31. ASSUME RemoveInputMedia PROVE PortInv'
    BY <1>31 DEF RemoveInputMedia, WithoutMedia, InLoop
  <1>32. ASSUME LoopEnd PROVE PortInv'
    BY <1>32 DEF LoopEnd, NoLoop, InLoop
  <1>33. ASSUME FindListener PROVE PortInv'
    BY <1>33 DEF FindListener
  <1>34. ASSUME Called PROVE PortInv'
    BY <1>34 DEF Called, NoLoop, InLoop
  <1>35. ASSUME Close PROVE PortInv'
    BY <1>35 DEF Close
  <1>36. ASSUME DemuxerStopped PROVE PortInv'
    BY <1>36 DEF DemuxerStopped, CloseIfStopped
  <1>37. ASSUME UNCHANGED vars PROVE PortInv'
    BY <1>37, SMTT(60) DEF vars
  <1> QED
    BY <1>1, <1>2, <1>3, <1>4, <1>5, <1>6, <1>7, <1>8, <1>9, <1>10, <1>11,
       <1>12, <1>13, <1>14, <1>15, <1>16, <1>17, <1>18, <1>19, <1>20, <1>21,
       <1>22, <1>23, <1>24, <1>25, <1>26, <1>27, <1>28, <1>29, <1>30, <1>31,
       <1>32, <1>33, <1>34, <1>35, <1>36, <1>37
    DEF Next, RenderingStep, InCall, MediaStep, ChannelStep, RendererStep, LoopStep

\* The loop thread finds what it has seen.
LEMMA LoopKept ==
    ASSUME TypeInv, PortInv, LoopInv, ThreadInv, MboxInv, [Next]_vars
    PROVE  LoopInv'
  <1> USE RendererConstantsOK DEF LoopInv, HoldsListener, HoldsSession, HoldsSink,
          TypeInv, RendererTypes, ThreadTypes, Set, In, At, Msg, Polls, Alive,
          InElements, Linked, RtStates, InStart, InFrame, LoopStates, lifeVars,
          bufVars, portVars, mapVars, loopVars, sessionVars
  <1>1. ASSUME NEW r \in Renderers, Create(r) PROVE LoopInv'
    BY <1>1 DEF Create, Idle
  <1>2. ASSUME NEW r \in Renderers, Setup(r) PROVE LoopInv'
    BY <1>2 DEF Setup
  <1>3. ASSUME NEW r \in Renderers, SetupFails(r) PROVE LoopInv'
    BY <1>3 DEF SetupFails, Idle
  <1>4. ASSUME NEW r \in Renderers, StartRenderer(r) PROVE LoopInv'
    BY <1>4 DEF StartRenderer, Post
  <1>5. ASSUME NEW r \in Renderers, Insert(r) PROVE LoopInv'
    BY <1>5 DEF Insert, Idle
  <1>6. ASSUME NEW r \in Renderers, RenderBegin(r) PROVE LoopInv'
    BY <1>6 DEF RenderBegin, Idle
  <1>7. ASSUME NEW r \in Renderers, Pop(r) PROVE LoopInv'
    BY <1>7 DEF Pop
  <1>8. ASSUME NEW r \in Renderers, DoTransition(r) PROVE LoopInv'
    BY <1>8 DEF DoTransition
  <1>9. ASSUME NEW r \in Renderers, Draw(r) PROVE LoopInv'
    BY <1>9 DEF Draw
  <1>10. ASSUME NEW r \in Renderers, RenderOut(r) PROVE LoopInv'
    BY <1>10 DEF RenderOut, Idle
  <1>11. ASSUME NEW r \in Renderers, StopBegin(r) PROVE LoopInv'
    BY <1>11 DEF StopBegin, Idle
  <1>12. ASSUME NEW r \in Renderers, RemoveListener(r) PROVE LoopInv'
    BY <1>12 DEF RemoveListener
  <1>13. ASSUME NEW r \in Renderers, Release(r) PROVE LoopInv'
    BY <1>13 DEF Release
  <1>14. ASSUME NEW r \in Renderers, PostCompleteStop(r) PROVE LoopInv'
    BY <1>14 DEF PostCompleteStop, Post
  <1>15. ASSUME NEW r \in Renderers, Erase(r) PROVE LoopInv'
    BY <1>15 DEF Erase, Idle
  <1>16. ASSUME NEW m \in Media, MediaAdded(m) PROVE LoopInv'
    BY <1>16 DEF MediaAdded, Adding, InLoop
  <1>17. ASSUME NEW m \in Media, FrameOutput(m) PROVE LoopInv'
    BY <1>17 DEF FrameOutput
  <1>18. ASSUME NEW m \in Media, Flush(m) PROVE LoopInv'
    BY <1>18 DEF Flush, InLoop, PortInv
  <1>19. ASSUME NEW m \in Media, DecoderStop(m) PROVE LoopInv'
    BY <1>19 DEF DecoderStop, InLoop, PortInv
  <1>20. ASSUME NEW m \in Media, DecoderStopped(m) PROVE LoopInv'
    BY <1>20 DEF DecoderStopped, CloseIfStopped
  <1>21. ASSUME NEW r \in Renderers, NEW m \in Media, AddMediaToRenderer(r, m)
        PROVE  LoopInv'
    <2>1. CASE m \in mInputPorts[r]
      BY <1>21, <2>1, SMTT(60) DEF AddMediaToRenderer, AddInputMedia, Adding, InLoop
    <2>2. CASE m \notin mInputPorts[r] /\ video[r] = "absent"
      BY <1>21, <2>2, SMTT(60) DEF AddMediaToRenderer, AddInputMedia, Adding, InLoop
    <2>3. CASE m \notin mInputPorts[r] /\ video[r] # "absent"
      BY <1>21, <2>3, SMTT(60) DEF AddMediaToRenderer, AddInputMedia, Adding, InLoop
    <2> QED
      BY <2>1, <2>2, <2>3
  <1>22. ASSUME NEW r \in Renderers, NEW m \in Media, FlushCurrent(r, m) PROVE LoopInv'
    BY <1>22 DEF FlushCurrent, InLoop
  <1>23. ASSUME NEW r \in Renderers, NEW m \in Media, OnChannelTeardown(r, m)
        PROVE  LoopInv'
    BY <1>23 DEF OnChannelTeardown, InLoop
  <1>24. ASSUME NEW r \in Renderers, RendererStarted(r) PROVE LoopInv'
    BY Heads, <1>24, SMTT(60) DEF RendererStarted, Adding, InLoop, Message
  <1>25. ASSUME NEW r \in Renderers, QueueEventCb(r) PROVE LoopInv'
    BY <1>25 DEF QueueEventCb, Notify, InLoop
  <1>26. ASSUME NEW r \in Renderers, TimerCb(r) PROVE LoopInv'
    BY <1>26 DEF TimerCb, Notify, InLoop
  <1>27. ASSUME NEW r \in Renderers, CompleteStop(r) PROVE LoopInv'
    BY Heads, <1>27 DEF CompleteStop, WithoutMedia, CloseIfStopped, Message
  <1>28. ASSUME NEW r \in Renderers, ElementDelete(r) PROVE LoopInv'
    BY Heads, <1>28 DEF ElementDelete, WithoutMedia, Message
  <1>29. ASSUME SetVideoMedia PROVE LoopInv'
    BY <1>29 DEF SetVideoMedia, Adding, InLoop
  <1>30. ASSUME FlushQueue PROVE LoopInv'
    BY <1>30 DEF FlushQueue, InLoop
  <1>31. ASSUME RemoveInputMedia PROVE LoopInv'
    BY <1>31 DEF RemoveInputMedia, WithoutMedia, InLoop
  <1>32. ASSUME LoopEnd PROVE LoopInv'
    BY <1>32 DEF LoopEnd, NoLoop, InLoop
  <1>33. ASSUME FindListener PROVE LoopInv'
    BY <1>33 DEF FindListener
  <1>34. ASSUME Called PROVE LoopInv'
    BY <1>34 DEF Called, NoLoop, InLoop
  <1>35. ASSUME Close PROVE LoopInv'
    BY <1>35 DEF Close
  <1>36. ASSUME DemuxerStopped PROVE LoopInv'
    BY <1>36 DEF DemuxerStopped, CloseIfStopped
  <1>37. ASSUME UNCHANGED vars PROVE LoopInv'
    BY <1>37, SMTT(60) DEF vars
  <1> QED
    BY <1>1, <1>2, <1>3, <1>4, <1>5, <1>6, <1>7, <1>8, <1>9, <1>10, <1>11,
       <1>12, <1>13, <1>14, <1>15, <1>16, <1>17, <1>18, <1>19, <1>20, <1>21,
       <1>22, <1>23, <1>24, <1>25, <1>26, <1>27, <1>28, <1>29, <1>30, <1>31,
       <1>32, <1>33, <1>34, <1>35, <1>36, <1>37
    DEF Next, RenderingStep, InCall, MediaStep, ChannelStep, RendererStep, LoopStep

\* Only the rendering thread starts and stops a renderer.
LEMMA ThreadKept ==
    ASSUME TypeInv, LoopInv, ThreadInv, MboxInv, [Next]_vars
    PROVE  ThreadInv'
  <1> USE RendererConstantsOK DEF ThreadInv, TypeInv, RendererTypes, ThreadTypes, Set,
          In, At, Msg, Polls, Alive, InElements, Linked, RtStates, InStart, InFrame,
          LoopStates, lifeVars, bufVars, portVars, mapVars, loopVars, sessionVars
  <1>1. ASSUME NEW r \in Renderers, Create(r) PROVE ThreadInv'
    BY <1>1 DEF Create, Idle
  <1>2. ASSUME NEW r \in Renderers, Setup(r) PROVE ThreadInv'
    BY <1>2 DEF Setup
  <1>3. ASSUME NEW r \in Renderers, SetupFails(r) PROVE ThreadInv'
    BY <1>3 DEF SetupFails, Idle
  <1>4. ASSUME NEW r \in Renderers, StartRenderer(r) PROVE ThreadInv'
    BY <1>4 DEF StartRenderer, Post
  <1>5. ASSUME NEW r \in Renderers, Insert(r) PROVE ThreadInv'
    BY <1>5 DEF Insert, Idle
  <1>6. ASSUME NEW r \in Renderers, RenderBegin(r) PROVE ThreadInv'
    BY <1>6 DEF RenderBegin, Idle
  <1>7. ASSUME NEW r \in Renderers, Pop(r) PROVE ThreadInv'
    BY <1>7 DEF Pop
  <1>8. ASSUME NEW r \in Renderers, DoTransition(r) PROVE ThreadInv'
    BY <1>8 DEF DoTransition
  <1>9. ASSUME NEW r \in Renderers, Draw(r) PROVE ThreadInv'
    BY <1>9 DEF Draw
  <1>10. ASSUME NEW r \in Renderers, RenderOut(r) PROVE ThreadInv'
    BY <1>10 DEF RenderOut, Idle
  <1>11. ASSUME NEW r \in Renderers, StopBegin(r) PROVE ThreadInv'
    BY <1>11 DEF StopBegin, Idle
  <1>12. ASSUME NEW r \in Renderers, RemoveListener(r) PROVE ThreadInv'
    BY <1>12 DEF RemoveListener
  <1>13. ASSUME NEW r \in Renderers, Release(r) PROVE ThreadInv'
    BY <1>13 DEF Release
  <1>14. ASSUME NEW r \in Renderers, PostCompleteStop(r) PROVE ThreadInv'
    BY <1>14 DEF PostCompleteStop, Post
  <1>15. ASSUME NEW r \in Renderers, Erase(r) PROVE ThreadInv'
    BY <1>15 DEF Erase, Idle
  <1>16. ASSUME NEW m \in Media, MediaAdded(m) PROVE ThreadInv'
    BY <1>16 DEF MediaAdded, Adding, InLoop
  <1>17. ASSUME NEW m \in Media, FrameOutput(m) PROVE ThreadInv'
    BY <1>17 DEF FrameOutput
  <1>18. ASSUME NEW m \in Media, Flush(m) PROVE ThreadInv'
    BY <1>18 DEF Flush, InLoop
  <1>19. ASSUME NEW m \in Media, DecoderStop(m) PROVE ThreadInv'
    BY <1>19 DEF DecoderStop, InLoop
  <1>20. ASSUME NEW m \in Media, DecoderStopped(m) PROVE ThreadInv'
    BY <1>20 DEF DecoderStopped, CloseIfStopped
  <1>21. ASSUME NEW r \in Renderers, NEW m \in Media, AddMediaToRenderer(r, m)
        PROVE  ThreadInv'
    <2>1. CASE m \in mInputPorts[r]
      BY <1>21, <2>1 DEF AddMediaToRenderer, AddInputMedia, Adding, InLoop
    <2>2. CASE m \notin mInputPorts[r] /\ video[r] = "absent"
      BY <1>21, <2>2 DEF AddMediaToRenderer, AddInputMedia, Adding, InLoop
    <2>3. CASE m \notin mInputPorts[r] /\ video[r] # "absent"
      BY <1>21, <2>3 DEF AddMediaToRenderer, AddInputMedia, Adding, InLoop
    <2> QED
      BY <2>1, <2>2, <2>3
  <1>22. ASSUME NEW r \in Renderers, NEW m \in Media, FlushCurrent(r, m)
        PROVE  ThreadInv'
    BY <1>22 DEF FlushCurrent, InLoop
  <1>23. ASSUME NEW r \in Renderers, NEW m \in Media, OnChannelTeardown(r, m)
        PROVE  ThreadInv'
    BY <1>23 DEF OnChannelTeardown, InLoop
  <1>24. ASSUME NEW r \in Renderers, RendererStarted(r) PROVE ThreadInv'
    BY Heads, <1>24 DEF RendererStarted, Adding, InLoop, Message
  <1>25. ASSUME NEW r \in Renderers, QueueEventCb(r) PROVE ThreadInv'
    BY <1>25 DEF QueueEventCb, Notify, InLoop
  <1>26. ASSUME NEW r \in Renderers, TimerCb(r) PROVE ThreadInv'
    BY <1>26 DEF TimerCb, Notify, InLoop
  <1>27. ASSUME NEW r \in Renderers, CompleteStop(r) PROVE ThreadInv'
    <2>1. state[r] = "STOPPING" /\ Polls /\ ~In("post", r)
      BY <1>27, Heads, SMTT(60) DEF CompleteStop, Message
    <2> QED
      BY <1>27, <2>1 DEF CompleteStop, WithoutMedia
  <1>28. ASSUME NEW r \in Renderers, ElementDelete(r) PROVE ThreadInv'
    <2>1. state[r] = "STOPPED" /\ Polls
      BY <1>28, Heads DEF ElementDelete, Message
    <2> QED
      BY <1>28, <2>1 DEF ElementDelete, WithoutMedia
  <1>29. ASSUME SetVideoMedia PROVE ThreadInv'
    BY <1>29 DEF SetVideoMedia, Adding, InLoop
  <1>30. ASSUME FlushQueue PROVE ThreadInv'
    BY <1>30 DEF FlushQueue, InLoop
  <1>31. ASSUME RemoveInputMedia PROVE ThreadInv'
    BY <1>31 DEF RemoveInputMedia, WithoutMedia, InLoop
  <1>32. ASSUME LoopEnd PROVE ThreadInv'
    BY <1>32 DEF LoopEnd, NoLoop, InLoop
  <1>33. ASSUME FindListener PROVE ThreadInv'
    BY <1>33 DEF FindListener
  <1>34. ASSUME Called PROVE ThreadInv'
    BY <1>34 DEF Called, NoLoop, InLoop, LoopInv
  <1>35. ASSUME Close PROVE ThreadInv'
    BY <1>35 DEF Close
  <1>36. ASSUME DemuxerStopped PROVE ThreadInv'
    BY <1>36 DEF DemuxerStopped, CloseIfStopped
  <1>37. ASSUME UNCHANGED vars PROVE ThreadInv'
    BY <1>37 DEF vars
  <1> QED
    BY <1>1, <1>2, <1>3, <1>4, <1>5, <1>6, <1>7, <1>8, <1>9, <1>10, <1>11,
       <1>12, <1>13, <1>14, <1>15, <1>16, <1>17, <1>18, <1>19, <1>20, <1>21,
       <1>22, <1>23, <1>24, <1>25, <1>26, <1>27, <1>28, <1>29, <1>30, <1>31,
       <1>32, <1>33, <1>34, <1>35, <1>36, <1>37
    DEF Next, RenderingStep, InCall, MediaStep, ChannelStep, RendererStep, LoopStep

\* Messages are posted and handled in the order of a renderer's life.
LEMMA MboxKept ==
    ASSUME TypeInv, ThreadInv, MboxInv, [Next]_vars
    PROVE  MboxInv'
  <1> USE RendererConstantsOK DEF MboxInv, TypeInv, RendererTypes, ThreadTypes, Set,
          In, At, lifeVars, bufVars, portVars, mapVars, loopVars, sessionVars
  <1> DEFINE Quiet == UNCHANGED <<state, mMbox>> /\ (rt'.at # "post" \/ UNCHANGED rt)
  <1>0. ASSUME Quiet PROVE MboxInv'
    BY <1>0, Received DEF MsgOK
  <1>1. ASSUME NEW r \in Renderers, Create(r) PROVE MboxInv'
    <2>1. \A e \in Messages : MsgOK(e) => MsgOK(e)'
      BY <1>1 DEF Create, Idle, At, MsgOK, Messages
    <2> QED
      BY <1>1, <2>1, Received DEF Create
  <1>2. ASSUME NEW r \in Renderers, Setup(r) PROVE Quiet
    BY <1>2 DEF Setup
  <1>3. ASSUME NEW r \in Renderers, SetupFails(r) PROVE Quiet
    BY <1>3 DEF SetupFails, Idle
  <1>4. ASSUME NEW r \in Renderers, StartRenderer(r) PROVE MboxInv'
    <2>1. mMbox' = Append(mMbox, Msg("STARTED", r)) /\ Msg("STARTED", r) \in Messages
      BY <1>4 DEF StartRenderer, Post, Messages, Msg
    <2>2. state[r] = "CREATED" /\ state' = [state EXCEPT ![r] = "STARTED"] /\ rt'.at # "post"
      BY <1>4 DEF StartRenderer, ThreadInv, At
    <2>3. \A e \in Messages : MsgOK(e) => MsgOK(e)' /\ e.r # r
      BY <2>2 DEF MsgOK, Messages
    <2>4. MsgOK(Msg("STARTED", r))'
      BY <2>2 DEF MsgOK, Msg
    <2>5. \A e \in Contents(mMbox) : Ordered(e, Msg("STARTED", r))
      BY <2>3, Received DEF Ordered, Msg
    <2>7. mMbox \in Seq(Messages) /\ \A e \in Contents(mMbox) : e \in Messages /\ MsgOK(e)
      BY Received
    <2>6. Contents(mMbox') = Contents(mMbox) \cup {Msg("STARTED", r)} /\ InOrder(mMbox')
      BY <2>1, <2>5, <2>7, Appended
    <2> QED
      BY <2>3, <2>4, <2>6, <2>7
  <1>5. ASSUME NEW r \in Renderers, Insert(r) PROVE Quiet
    BY <1>5 DEF Insert, Idle
  <1>6. ASSUME NEW r \in Renderers, RenderBegin(r) PROVE Quiet
    BY <1>6 DEF RenderBegin, Idle
  <1>7. ASSUME NEW r \in Renderers, Pop(r) PROVE Quiet
    BY <1>7 DEF Pop
  <1>8. ASSUME NEW r \in Renderers, DoTransition(r) PROVE Quiet
    BY <1>8 DEF DoTransition
  <1>9. ASSUME NEW r \in Renderers, Draw(r) PROVE Quiet
    BY <1>9 DEF Draw
  <1>10. ASSUME NEW r \in Renderers, RenderOut(r) PROVE Quiet
    BY <1>10 DEF RenderOut, Idle
  <1>11. ASSUME NEW r \in Renderers, StopBegin(r) PROVE Quiet
    BY <1>11 DEF StopBegin, Idle
  <1>12. ASSUME NEW r \in Renderers, RemoveListener(r) PROVE Quiet
    BY <1>12 DEF RemoveListener
  <1>13. ASSUME NEW r \in Renderers, Release(r) PROVE MboxInv'
    <2>1. \A e \in Messages : MsgOK(e) => MsgOK(e)'
      BY <1>13 DEF ThreadInv, Release, At, MsgOK, Messages
    <2> QED
      BY <1>13, <2>1, Received DEF Release
  <1>14. ASSUME NEW r \in Renderers, PostCompleteStop(r) PROVE MboxInv'
    <2>1. /\ mMbox' = Append(mMbox, Msg("COMPLETE_STOP", r))
          /\ Msg("COMPLETE_STOP", r) \in Messages
      BY <1>14 DEF PostCompleteStop, Post, Messages, Msg
    <2>2. In("post", r) /\ state[r] = "STOPPING" /\ rt'.at # "post" /\ UNCHANGED state
      BY <1>14 DEF PostCompleteStop, ThreadInv, At
    <2>3. \A e \in Messages : MsgOK(e) => MsgOK(e)'
      BY <2>2 DEF MsgOK
    <2>4. MsgOK(Msg("COMPLETE_STOP", r))'
      BY <2>2 DEF MsgOK, Msg
    <2>5. \A e \in Messages : MsgOK(e) => Ordered(e, Msg("COMPLETE_STOP", r))
      BY <2>2 DEF Ordered, Msg, MsgOK, Messages
    <2>7. mMbox \in Seq(Messages) /\ \A e \in Contents(mMbox) : e \in Messages /\ MsgOK(e)
      BY Received
    <2>6. Contents(mMbox') = Contents(mMbox) \cup {Msg("COMPLETE_STOP", r)} /\ InOrder(mMbox')
      BY <2>1, <2>5, <2>7, Appended
    <2> QED
      BY <2>3, <2>4, <2>6, <2>7
  <1>15. ASSUME NEW r \in Renderers, Erase(r) PROVE Quiet
    BY <1>15 DEF Erase, Idle
  <1>16. ASSUME NEW m \in Media, MediaAdded(m) PROVE Quiet
    BY <1>16 DEF MediaAdded, Adding, InLoop
  <1>17. ASSUME NEW m \in Media, FrameOutput(m) PROVE Quiet
    BY <1>17 DEF FrameOutput
  <1>18. ASSUME NEW m \in Media, Flush(m) PROVE Quiet
    BY <1>18 DEF Flush, InLoop
  <1>19. ASSUME NEW m \in Media, DecoderStop(m) PROVE Quiet
    BY <1>19 DEF DecoderStop, InLoop
  <1>20. ASSUME NEW m \in Media, DecoderStopped(m) PROVE Quiet
    BY <1>20 DEF DecoderStopped, CloseIfStopped
  <1>21. ASSUME NEW r \in Renderers, NEW m \in Media, AddMediaToRenderer(r, m)
        PROVE  Quiet
    BY <1>21 DEF AddMediaToRenderer, AddInputMedia
  <1>22. ASSUME NEW r \in Renderers, NEW m \in Media, FlushCurrent(r, m) PROVE Quiet
    BY <1>22 DEF FlushCurrent, InLoop
  <1>23. ASSUME NEW r \in Renderers, NEW m \in Media, OnChannelTeardown(r, m)
        PROVE  Quiet
    BY <1>23 DEF OnChannelTeardown, InLoop
  <1>24. ASSUME NEW r \in Renderers, RendererStarted(r) PROVE MboxInv'
    <2>1. Message("STARTED", r) /\ mMbox' = Tail(mMbox) /\ UNCHANGED <<state, rt>>
      BY <1>24 DEF RendererStarted
    <2>2. \A e \in Messages : MsgOK(e) => MsgOK(e)'
      BY <2>1 DEF MsgOK
    <2> QED
      BY <2>1, <2>2, Heads, Received, SMTT(60)
  <1>25. ASSUME NEW r \in Renderers, QueueEventCb(r) PROVE Quiet
    BY <1>25 DEF QueueEventCb, Notify, InLoop
  <1>26. ASSUME NEW r \in Renderers, TimerCb(r) PROVE Quiet
    BY <1>26 DEF TimerCb, Notify, InLoop
  <1>27. ASSUME NEW r \in Renderers, CompleteStop(r) PROVE MboxInv'
    <2>1. /\ Message("COMPLETE_STOP", r) /\ UNCHANGED rt
          /\ mMbox' = Append(Tail(mMbox), Msg("ELEMENT_DELETE", r))
          /\ state' = [state EXCEPT ![r] = "STOPPED"] /\ Msg("ELEMENT_DELETE", r) \in Messages
      BY <1>27 DEF CompleteStop, Messages, Msg
    <2>2. /\ Tail(mMbox) \in Seq(Messages) /\ InOrder(Tail(mMbox))
          /\ \A e \in Contents(Tail(mMbox)) : e.r # r /\ MsgOK(e) /\ e \in Messages
      BY ONLY <2>1, TypeInv, MboxInv, AfterLast, r \in Renderers
    <2>3. \A e \in Messages : e.r # r /\ MsgOK(e) => MsgOK(e)'
      BY <2>1 DEF MsgOK, Messages
    <2>4. MsgOK(Msg("ELEMENT_DELETE", r))'
      BY <2>1 DEF MsgOK, Msg
    <2>5. \A e \in Contents(Tail(mMbox)) : Ordered(e, Msg("ELEMENT_DELETE", r))
      BY <2>2 DEF Ordered, Msg
    <2>6. /\ Contents(mMbox') = Contents(Tail(mMbox)) \cup {Msg("ELEMENT_DELETE", r)}
          /\ InOrder(mMbox')
      BY <2>1, <2>2, <2>5, Appended
    <2> QED
      BY <2>2, <2>3, <2>4, <2>6
  <1>28. ASSUME NEW r \in Renderers, ElementDelete(r) PROVE MboxInv'
    <2>1. /\ Message("ELEMENT_DELETE", r) /\ UNCHANGED rt /\ mMbox' = Tail(mMbox)
          /\ state' = [state EXCEPT ![r] = "free"]
      BY <1>28 DEF ElementDelete
    <2>2. /\ InOrder(Tail(mMbox))
          /\ \A e \in Contents(Tail(mMbox)) : e.r # r /\ MsgOK(e) /\ e \in Messages
      BY ONLY <2>1, TypeInv, MboxInv, AfterLast, r \in Renderers
    <2>3. \A e \in Messages : e.r # r /\ MsgOK(e) => MsgOK(e)'
      BY <2>1 DEF MsgOK, Messages
    <2> QED
      BY <2>1, <2>2, <2>3
  <1>29. ASSUME SetVideoMedia PROVE Quiet
    BY <1>29 DEF SetVideoMedia, Adding, InLoop
  <1>30. ASSUME FlushQueue PROVE Quiet
    BY <1>30 DEF FlushQueue, InLoop
  <1>31. ASSUME RemoveInputMedia PROVE Quiet
    BY <1>31 DEF RemoveInputMedia, WithoutMedia, InLoop
  <1>32. ASSUME LoopEnd PROVE Quiet
    BY <1>32 DEF LoopEnd, NoLoop, InLoop
  <1>33. ASSUME FindListener PROVE Quiet
    BY <1>33 DEF FindListener
  <1>34. ASSUME Called PROVE Quiet
    BY <1>34 DEF Called, NoLoop, InLoop
  <1>35. ASSUME Close PROVE Quiet
    BY <1>35 DEF Close
  <1>36. ASSUME DemuxerStopped PROVE Quiet
    BY <1>36 DEF DemuxerStopped, CloseIfStopped
  <1>37. ASSUME UNCHANGED vars PROVE Quiet
    BY <1>37, SMTT(60) DEF vars
  <1> QED
    BY <1>0, <1>1, <1>2, <1>3, <1>4, <1>5, <1>6, <1>7, <1>8, <1>9, <1>10, <1>11,
       <1>12, <1>13, <1>14, <1>15, <1>16, <1>17, <1>18, <1>19, <1>20, <1>21,
       <1>22, <1>23, <1>24, <1>25, <1>26, <1>27, <1>28, <1>29, <1>30, <1>31,
       <1>32, <1>33, <1>34, <1>35, <1>36, <1>37
    DEF Next, RenderingStep, InCall, MediaStep, ChannelStep, RendererStep, LoopStep

\* Nothing is taken away from a rendering.
LEMMA DrawKept ==
    ASSUME TypeInv, PortInv, LoopInv, ThreadInv, MboxInv, DrawInv, [Next]_vars
    PROVE  DrawInv'
  <1> USE RendererConstantsOK DEF DrawInv, DrawnIsHeld, HoldsSink, ThreadInv, TypeInv,
          RendererTypes, ThreadTypes, Set, In, At, Msg, Polls, Alive, InElements,
          Linked, RtStates, InStart, InFrame, LoopStates, lifeVars, bufVars, portVars,
          mapVars, loopVars, sessionVars
  <1>1. ASSUME NEW r \in Renderers, Create(r) PROVE DrawInv'
    BY <1>1 DEF Create, Idle
  <1>2. ASSUME NEW r \in Renderers, Setup(r) PROVE DrawInv'
    BY <1>2 DEF Setup
  <1>3. ASSUME NEW r \in Renderers, SetupFails(r) PROVE DrawInv'
    BY <1>3 DEF SetupFails, Idle
  <1>4. ASSUME NEW r \in Renderers, StartRenderer(r) PROVE DrawInv'
    BY <1>4 DEF StartRenderer, Post
  <1>5. ASSUME NEW r \in Renderers, Insert(r) PROVE DrawInv'
    BY <1>5 DEF Insert, Idle
  <1>6. ASSUME NEW r \in Renderers, RenderBegin(r) PROVE DrawInv'
    BY <1>6 DEF RenderBegin, Idle
  <1>7. ASSUME NEW r \in Renderers, Pop(r) PROVE DrawInv'
    BY <1>7 DEF Pop
  <1>8. ASSUME NEW r \in Renderers, DoTransition(r) PROVE DrawInv'
    BY <1>8 DEF DoTransition
  <1>9. ASSUME NEW r \in Renderers, Draw(r) PROVE DrawInv'
    BY <1>9 DEF Draw
  <1>10. ASSUME NEW r \in Renderers, RenderOut(r) PROVE DrawInv'
    BY <1>10 DEF RenderOut, Idle
  <1>11. ASSUME NEW r \in Renderers, StopBegin(r) PROVE DrawInv'
    BY <1>11 DEF StopBegin, Idle
  <1>12. ASSUME NEW r \in Renderers, RemoveListener(r) PROVE DrawInv'
    BY <1>12 DEF RemoveListener
  <1>13. ASSUME NEW r \in Renderers, Release(r) PROVE DrawInv'
    BY <1>13 DEF Release
  <1>14. ASSUME NEW r \in Renderers, PostCompleteStop(r) PROVE DrawInv'
    BY <1>14 DEF PostCompleteStop, Post
  <1>15. ASSUME NEW r \in Renderers, Erase(r) PROVE DrawInv'
    BY <1>15 DEF Erase, Idle
  <1>16. ASSUME NEW m \in Media, MediaAdded(m) PROVE DrawInv'
    BY <1>16 DEF MediaAdded, Adding, InLoop
  <1>17. ASSUME NEW m \in Media, FrameOutput(m) PROVE DrawInv'
    BY <1>17 DEF FrameOutput
  <1>18. ASSUME NEW m \in Media, Flush(m) PROVE DrawInv'
    BY <1>18 DEF Flush, InLoop
  <1>19. ASSUME NEW m \in Media, DecoderStop(m) PROVE DrawInv'
    BY <1>19 DEF DecoderStop, InLoop
  <1>20. ASSUME NEW m \in Media, DecoderStopped(m) PROVE DrawInv'
    BY <1>20 DEF DecoderStopped, CloseIfStopped
  <1>21. ASSUME NEW r \in Renderers, NEW m \in Media, AddMediaToRenderer(r, m)
        PROVE  DrawInv'
    <2>1. UNCHANGED <<video, mCurrentBuffer, rt>> /\ loop.at = "adding"
      BY <1>21 DEF AddMediaToRenderer
    <2>2. CASE m \in mInputPorts[r]
      BY <1>21, <2>1, <2>2 DEF AddMediaToRenderer, AddInputMedia
    <2>3. CASE m \notin mInputPorts[r]
      <3>1. /\ mInputPorts'[r] = mInputPorts[r] \cup {m}
            /\ \A q \in Renderers \ {r} : /\ mInputPorts'[q] = mInputPorts[q]
                                          /\ mLastAddedMedia'[q] = mLastAddedMedia[q]
        BY <1>21, <2>3 DEF AddMediaToRenderer, AddInputMedia
      <3>2. video[r] # "absent" => loop'.at = "setMedia" /\ loop'.r = r
        BY <1>21, <2>3 DEF AddMediaToRenderer, AddInputMedia, InLoop
      <3> QED
        BY <2>1, <3>1, <3>2, SMTT(60)
    <2> QED
      BY <2>2, <2>3
  <1>22. ASSUME NEW r \in Renderers, NEW m \in Media, FlushCurrent(r, m) PROVE DrawInv'
    BY <1>22 DEF FlushCurrent, InLoop
  <1>23. ASSUME NEW r \in Renderers, NEW m \in Media, OnChannelTeardown(r, m)
        PROVE  DrawInv'
    BY <1>23 DEF OnChannelTeardown, InLoop
  <1>24. ASSUME NEW r \in Renderers, RendererStarted(r) PROVE DrawInv'
    BY Heads, <1>24 DEF RendererStarted, Adding, InLoop, Message
  <1>25. ASSUME NEW r \in Renderers, QueueEventCb(r) PROVE DrawInv'
    BY <1>25 DEF QueueEventCb, Notify, InLoop
  <1>26. ASSUME NEW r \in Renderers, TimerCb(r) PROVE DrawInv'
    BY <1>26 DEF TimerCb, Notify, InLoop
  <1>27. ASSUME NEW r \in Renderers, CompleteStop(r) PROVE DrawInv'
    <2>1. state[r] \notin {"STARTED", "free"} /\ Polls
      BY <1>27, Heads DEF CompleteStop, Message
    <2>2. ~mRendering[r] /\ ~(rt.at \in {"draw", "transition"} /\ rt.r = r)
      BY <2>1
    <2>3. video'[r] \notin Media
      BY <1>27, <2>1 DEF CompleteStop, WithoutMedia
    <2> QED
      BY <1>27, <2>1, <2>2, <2>3 DEF CompleteStop, WithoutMedia
  <1>28. ASSUME NEW r \in Renderers, ElementDelete(r) PROVE DrawInv'
    <2>1. state[r] \notin {"STARTED", "free"} /\ Polls
      BY <1>28, Heads DEF ElementDelete, Message
    <2>2. ~mRendering[r] /\ ~(rt.at \in {"draw", "transition"} /\ rt.r = r)
      BY <2>1
    <2>3. video'[r] \notin Media
      BY <1>28, <2>1 DEF ElementDelete, WithoutMedia
    <2> QED
      BY <1>28, <2>1, <2>2, <2>3 DEF ElementDelete, WithoutMedia
  <1>29. ASSUME SetVideoMedia PROVE DrawInv'
    BY <1>29 DEF SetVideoMedia, Adding, InLoop, LoopInv
  <1>30. ASSUME FlushQueue PROVE DrawInv'
    BY <1>30 DEF FlushQueue, InLoop
  <1>31. ASSUME RemoveInputMedia PROVE DrawInv'
    BY <1>31 DEF RemoveInputMedia, WithoutMedia, InLoop
  <1>32. ASSUME LoopEnd PROVE DrawInv'
    BY <1>32 DEF LoopEnd, NoLoop, InLoop
  <1>33. ASSUME FindListener PROVE DrawInv'
    BY <1>33 DEF FindListener
  <1>34. ASSUME Called PROVE DrawInv'
    BY <1>34 DEF Called, NoLoop, InLoop
  <1>35. ASSUME Close PROVE DrawInv'
    BY <1>35 DEF Close
  <1>36. ASSUME DemuxerStopped PROVE DrawInv'
    BY <1>36 DEF DemuxerStopped, CloseIfStopped
  <1>37. ASSUME UNCHANGED vars PROVE DrawInv'
    BY <1>37 DEF vars
  <1> QED
    BY <1>1, <1>2, <1>3, <1>4, <1>5, <1>6, <1>7, <1>8, <1>9, <1>10, <1>11,
       <1>12, <1>13, <1>14, <1>15, <1>16, <1>17, <1>18, <1>19, <1>20, <1>21,
       <1>22, <1>23, <1>24, <1>25, <1>26, <1>27, <1>28, <1>29, <1>30, <1>31,
       <1>32, <1>33, <1>34, <1>35, <1>36, <1>37
    DEF Next, RenderingStep, InCall, MediaStep, ChannelStep, RendererStep, LoopStep

\* Each medium comes to each started renderer.
LEMMA MediaKept ==
    ASSUME TypeInv, LoopInv, ThreadInv, MboxInv, MediaInv, [Next]_vars
    PROVE  MediaInv'
  <1> USE RendererConstantsOK DEF MediaInv, Pending, TypeInv, RendererTypes,
          ThreadTypes, Set, In, At, Msg, Polls, Alive, InElements, Linked, RtStates,
          InStart, InFrame, LoopStates, lifeVars, bufVars, portVars, mapVars,
          loopVars, sessionVars
  <1>1. ASSUME NEW r \in Renderers, Create(r) PROVE MediaInv'
    BY <1>1 DEF Create, Idle
  <1>2. ASSUME NEW r \in Renderers, Setup(r) PROVE MediaInv'
    BY <1>2 DEF Setup
  <1>3. ASSUME NEW r \in Renderers, SetupFails(r) PROVE MediaInv'
    BY <1>3 DEF SetupFails, Idle
  <1>4. ASSUME NEW r \in Renderers, StartRenderer(r) PROVE MediaInv'
    <2>1. /\ UNCHANGED <<media, mInputPorts, loop>> /\ state'[r] = "STARTED"
          /\ \A q \in Renderers \ {r} : state'[q] = state[q]
      BY <1>4 DEF StartRenderer
    <2>2. mMbox' = Append(mMbox, Msg("STARTED", r)) /\ Msg("STARTED", r) \in Messages
      BY <1>4 DEF StartRenderer, Post, Messages
    <2>3. Contents(mMbox') = Contents(mMbox) \cup {Msg("STARTED", r)}
      BY <2>2, Appended
    <2> QED
      BY <2>1, <2>3
  <1>5. ASSUME NEW r \in Renderers, Insert(r) PROVE MediaInv'
    BY <1>5 DEF Insert, Idle
  <1>6. ASSUME NEW r \in Renderers, RenderBegin(r) PROVE MediaInv'
    BY <1>6 DEF RenderBegin, Idle
  <1>7. ASSUME NEW r \in Renderers, Pop(r) PROVE MediaInv'
    BY <1>7 DEF Pop
  <1>8. ASSUME NEW r \in Renderers, DoTransition(r) PROVE MediaInv'
    BY <1>8 DEF DoTransition
  <1>9. ASSUME NEW r \in Renderers, Draw(r) PROVE MediaInv'
    BY <1>9 DEF Draw
  <1>10. ASSUME NEW r \in Renderers, RenderOut(r) PROVE MediaInv'
    BY <1>10 DEF RenderOut, Idle
  <1>11. ASSUME NEW r \in Renderers, StopBegin(r) PROVE MediaInv'
    BY <1>11 DEF StopBegin, Idle
  <1>12. ASSUME NEW r \in Renderers, RemoveListener(r) PROVE MediaInv'
    BY <1>12 DEF RemoveListener
  <1>13. ASSUME NEW r \in Renderers, Release(r) PROVE MediaInv'
    BY <1>13 DEF Release
  <1>14. ASSUME NEW r \in Renderers, PostCompleteStop(r) PROVE MediaInv'
    <2>1. /\ UNCHANGED <<media, mInputPorts, loop>> /\ state'[r] = state[r]
          /\ \A q \in Renderers \ {r} : state'[q] = state[q]
      BY <1>14 DEF PostCompleteStop
    <2>2. mMbox' = Append(mMbox, Msg("COMPLETE_STOP", r)) /\ Msg("COMPLETE_STOP", r) \in Messages
      BY <1>14 DEF PostCompleteStop, Post, Messages
    <2>3. Contents(mMbox') = Contents(mMbox) \cup {Msg("COMPLETE_STOP", r)}
      BY <2>2, Appended
    <2> QED
      BY <2>1, <2>3
  <1>15. ASSUME NEW r \in Renderers, Erase(r) PROVE MediaInv'
    BY <1>15 DEF Erase, Idle
  <1>16. ASSUME NEW m \in Media, MediaAdded(m) PROVE MediaInv'
    BY <1>16 DEF MediaAdded, Adding, InLoop
  <1>17. ASSUME NEW m \in Media, FrameOutput(m) PROVE MediaInv'
    BY <1>17 DEF FrameOutput
  <1>18. ASSUME NEW m \in Media, Flush(m) PROVE MediaInv'
    BY <1>18 DEF Flush, InLoop
  <1>19. ASSUME NEW m \in Media, DecoderStop(m) PROVE MediaInv'
    BY <1>19 DEF DecoderStop, InLoop
  <1>20. ASSUME NEW m \in Media, DecoderStopped(m) PROVE MediaInv'
    BY <1>20 DEF DecoderStopped, CloseIfStopped
  <1>21. ASSUME NEW r \in Renderers, NEW m \in Media, AddMediaToRenderer(r, m)
        PROVE  MediaInv'
    <2>1. /\ loop'.at \in {"adding", "setMedia"} /\ loop'.todo = loop.todo \ {<<r, m>>}
          /\ loop.at = "adding" /\ UNCHANGED <<state, media, mMbox>>
      BY <1>21 DEF AddMediaToRenderer, AddInputMedia, Adding, InLoop
    <2>2. mInputPorts'[r] = mInputPorts[r] \cup {m}
      BY <1>21 DEF AddMediaToRenderer, AddInputMedia
    <2>3. \A q \in Renderers \ {r} : mInputPorts'[q] = mInputPorts[q]
      BY <1>21 DEF AddMediaToRenderer, AddInputMedia
    <2> QED
      BY <2>1, <2>2, <2>3, SMTT(60)
  <1>22. ASSUME NEW r \in Renderers, NEW m \in Media, FlushCurrent(r, m) PROVE MediaInv'
    BY <1>22 DEF FlushCurrent, InLoop
  <1>23. ASSUME NEW r \in Renderers, NEW m \in Media, OnChannelTeardown(r, m)
        PROVE  MediaInv'
    BY <1>23 DEF OnChannelTeardown, InLoop
  <1>24. ASSUME NEW r \in Renderers, RendererStarted(r) PROVE MediaInv'
    <2>1. /\ UNCHANGED <<state, media, mInputPorts>> /\ Polls
          /\ loop'.at = "adding" /\ loop'.todo = {r} \X {m \in Media : Alive(m)}
      BY <1>24 DEF RendererStarted, Adding, InLoop, Message
    <2>2. ASSUME NEW q \in Renderers \ {r}, Pending("STARTED", q)
          PROVE  Pending("STARTED", q)'
      <3>1. /\ Message("STARTED", r) /\ mMbox' = Tail(mMbox)
        BY <1>24 DEF RendererStarted
      <3>2. Contents(mMbox) = {Msg("STARTED", r)} \cup Contents(Tail(mMbox))
        BY <3>1, Heads
      <3>3. Msg("STARTED", q) # Msg("STARTED", r)
        OBVIOUS
      <3> QED
        BY <2>2, <3>1, <3>2, <3>3
    <2> QED
      BY <2>1, <2>2
  <1>25. ASSUME NEW r \in Renderers, QueueEventCb(r) PROVE MediaInv'
    BY <1>25 DEF QueueEventCb, Notify, InLoop
  <1>26. ASSUME NEW r \in Renderers, TimerCb(r) PROVE MediaInv'
    BY <1>26 DEF TimerCb, Notify, InLoop
  <1>27. ASSUME NEW r \in Renderers, CompleteStop(r) PROVE MediaInv'
    <2>1. /\ state'[r] # "STARTED" /\ Polls /\ UNCHANGED <<media, loop>>
          /\ \A q \in Renderers \ {r} :
                state'[q] = state[q] /\ mInputPorts'[q] = mInputPorts[q]
      BY <1>27 DEF CompleteStop, WithoutMedia, Message
    <2>2. ASSUME NEW q \in Renderers, Pending("STARTED", q) PROVE Pending("STARTED", q)'
      <3>1. /\ Tail(mMbox) \in Seq(Messages)
            /\ Contents(mMbox) = {Msg("COMPLETE_STOP", r)} \cup Contents(Tail(mMbox))
        BY <1>27, Heads DEF CompleteStop
      <3>2. Msg("ELEMENT_DELETE", r) \in Messages
        BY DEF Messages
      <3>3. mMbox' = Append(Tail(mMbox), Msg("ELEMENT_DELETE", r))
        BY <1>27 DEF CompleteStop
      <3>4. Contents(mMbox') = Contents(Tail(mMbox)) \cup {Msg("ELEMENT_DELETE", r)}
        BY <3>1, <3>2, <3>3, Appended
      <3> QED
        BY <2>2, <3>1, <3>4
    <2> QED
      BY <2>1, <2>2
  <1>28. ASSUME NEW r \in Renderers, ElementDelete(r) PROVE MediaInv'
    <2>1. /\ state'[r] # "STARTED" /\ Polls /\ UNCHANGED <<media, loop>>
          /\ \A q \in Renderers \ {r} :
                state'[q] = state[q] /\ mInputPorts'[q] = mInputPorts[q]
      BY <1>28 DEF ElementDelete, WithoutMedia, Message
    <2>2. Message("ELEMENT_DELETE", r) /\ mMbox' = Tail(mMbox)
      BY <1>28 DEF ElementDelete
    <2>3. Contents(mMbox) = {Msg("ELEMENT_DELETE", r)} \cup Contents(mMbox')
      BY <2>2, Heads
    <2>4. ASSUME NEW q \in Renderers, Pending("STARTED", q) PROVE Pending("STARTED", q)'
      BY <2>3, <2>4
    <2> QED
      BY <2>1, <2>4
  <1>29. ASSUME SetVideoMedia PROVE MediaInv'
    BY <1>29 DEF SetVideoMedia, Adding, InLoop
  <1>30. ASSUME FlushQueue PROVE MediaInv'
    BY <1>30 DEF FlushQueue, InLoop
  <1>31. ASSUME RemoveInputMedia PROVE MediaInv'
    <2>1. /\ media[loop.m] = "stopping" /\ loop.r \in Renderers /\ loop'.at = "teardown"
          /\ loop.at = "remove"
      BY <1>31 DEF RemoveInputMedia, LoopInv, InLoop
    <2>2. ASSUME NEW q \in Renderers, NEW m \in mInputPorts[q], m # loop.m
          PROVE  m \in mInputPorts'[q]
      BY <1>31, <2>1, <2>2 DEF RemoveInputMedia, WithoutMedia
    <2>3. UNCHANGED <<state, media, mMbox>>
      BY <1>31 DEF RemoveInputMedia
    <2> QED
      BY <2>1, <2>2, <2>3
  <1>32. ASSUME LoopEnd PROVE MediaInv'
    BY <1>32 DEF LoopEnd, NoLoop, InLoop
  <1>33. ASSUME FindListener PROVE MediaInv'
    BY <1>33 DEF FindListener
  <1>34. ASSUME Called PROVE MediaInv'
    BY <1>34 DEF Called, NoLoop, InLoop
  <1>35. ASSUME Close PROVE MediaInv'
    BY <1>35 DEF Close
  <1>36. ASSUME DemuxerStopped PROVE MediaInv'
    BY <1>36 DEF DemuxerStopped, CloseIfStopped
  <1>37. ASSUME UNCHANGED vars PROVE MediaInv'
    BY <1>37, SMTT(60) DEF vars
  <1> QED
    BY <1>1, <1>2, <1>3, <1>4, <1>5, <1>6, <1>7, <1>8, <1>9, <1>10, <1>11,
       <1>12, <1>13, <1>14, <1>15, <1>16, <1>17, <1>18, <1>19, <1>20, <1>21,
       <1>22, <1>23, <1>24, <1>25, <1>26, <1>27, <1>28, <1>29, <1>30, <1>31,
       <1>32, <1>33, <1>34, <1>35, <1>36, <1>37
    DEF Next, RenderingStep, InCall, MediaStep, ChannelStep, RendererStep, LoopStep

\* Listeners come and go with their renderers.
LEMMA OwnerKept ==
    ASSUME Orderly, TypeInv, PortInv, LoopInv, ThreadInv, MboxInv, OwnerInv, [Next]_vars
    PROVE  OwnerInv'
  <1> USE RendererConstantsOK DEF Orderly, OwnerInv, ThreadInv, TypeInv, RendererTypes,
          ThreadTypes, Set, In, At, Msg, Polls, Alive, InElements, Linked, RtStates,
          InStart, InFrame, LoopStates, lifeVars, bufVars, portVars, mapVars,
          loopVars, sessionVars
  <1>1. ASSUME NEW r \in Renderers, Create(r) PROVE OwnerInv'
    <2>1. /\ starts' \in Nat /\ starts' = starts + 1 /\ starts \in Nat
          /\ \A q \in Renderers : owner[q] \in Nat /\ owner[q] <= starts
      BY <1>1 DEF Create
    <2>2. owner' = [owner EXCEPT ![r] = starts'] /\ gone' = gone /\ gone \subseteq 0..starts
      BY <1>1 DEF Create
    <2>3. \A q \in Renderers :
            /\ owner'[q] <= starts'
            /\ listens'[q] => owner'[q] \notin gone' /\ owner'[q] # 0
            /\ \A p \in Renderers \ {q} : owner'[q] # 0 => owner'[q] # owner'[p]
      BY <1>1, <2>1, <2>2, SMTT(60) DEF Create
    <2>4. loop.at \in {"notice", "call"} => loop.r # r
      BY <1>1 DEF Create, LoopInv
    <2>5. mVideoRendererListenersMap[r] = 0
      BY <1>1 DEF Create, Idle
    <2> QED
      BY <1>1, <2>1, <2>2, <2>3, <2>4, <2>5 DEF Create, Idle, PortInv
  <1>2. ASSUME NEW r \in Renderers, Setup(r) PROVE OwnerInv'
    BY <1>2 DEF Setup
  <1>3. ASSUME NEW r \in Renderers, SetupFails(r) PROVE OwnerInv'
    BY <1>3 DEF SetupFails, Idle
  <1>4. ASSUME NEW r \in Renderers, StartRenderer(r) PROVE OwnerInv'
    BY <1>4 DEF StartRenderer, Post
  <1>5. ASSUME NEW r \in Renderers, Insert(r) PROVE OwnerInv'
    BY <1>5 DEF Insert, Idle
  <1>6. ASSUME NEW r \in Renderers, RenderBegin(r) PROVE OwnerInv'
    BY <1>6 DEF RenderBegin, Idle
  <1>7. ASSUME NEW r \in Renderers, Pop(r) PROVE OwnerInv'
    BY <1>7 DEF Pop
  <1>8. ASSUME NEW r \in Renderers, DoTransition(r) PROVE OwnerInv'
    BY <1>8 DEF DoTransition
  <1>9. ASSUME NEW r \in Renderers, Draw(r) PROVE OwnerInv'
    BY <1>9 DEF Draw
  <1>10. ASSUME NEW r \in Renderers, RenderOut(r) PROVE OwnerInv'
    BY <1>10 DEF RenderOut, Idle
  <1>11. ASSUME NEW r \in Renderers, StopBegin(r) PROVE OwnerInv'
    BY <1>11 DEF StopBegin, Idle
  <1>12. ASSUME NEW r \in Renderers, RemoveListener(r) PROVE OwnerInv'
    BY <1>12 DEF RemoveListener
  <1>13. ASSUME NEW r \in Renderers, Release(r) PROVE OwnerInv'
    BY <1>13 DEF Release
  <1>14. ASSUME NEW r \in Renderers, PostCompleteStop(r) PROVE OwnerInv'
    BY <1>14 DEF PostCompleteStop, Post
  <1>15. ASSUME NEW r \in Renderers, Erase(r) PROVE OwnerInv'
    <2>1. /\ gone' = gone \cup {owner[r]} /\ ~listens[r] /\ state[r] # "STARTED"
          /\ UNCHANGED <<owner, starts, listens, state, event, loop>>
          /\ mPendingVideoRendererListener' = mPendingVideoRendererListener
          /\ rt.at = "erase" /\ rt.r = r /\ rt'.at = "app"
      BY <1>15 DEF Erase, Idle
    <2>2. /\ mVideoRendererListenersMap'[r] = 0
          /\ \A q \in Renderers \ {r} :
                mVideoRendererListenersMap'[q] = mVideoRendererListenersMap[q]
      BY <1>15 DEF Erase
    <2>3. \A q \in Renderers : listens[q] => owner[q] \notin gone'
      BY <2>1
    <2>4. gone' \subseteq 0..starts
      <3>1. owner[r] \in 0..starts /\ gone \subseteq 0..starts
        OBVIOUS
      <3> QED
        BY ONLY <2>1, <3>1
    <2> QED
      BY <2>1, <2>2, <2>3, <2>4
  <1>16. ASSUME NEW m \in Media, MediaAdded(m) PROVE OwnerInv'
    BY <1>16 DEF MediaAdded, Adding, InLoop
  <1>17. ASSUME NEW m \in Media, FrameOutput(m) PROVE OwnerInv'
    BY <1>17 DEF FrameOutput
  <1>18. ASSUME NEW m \in Media, Flush(m) PROVE OwnerInv'
    BY <1>18 DEF Flush, InLoop
  <1>19. ASSUME NEW m \in Media, DecoderStop(m) PROVE OwnerInv'
    BY <1>19 DEF DecoderStop, InLoop
  <1>20. ASSUME NEW m \in Media, DecoderStopped(m) PROVE OwnerInv'
    BY <1>20 DEF DecoderStopped, CloseIfStopped
  <1>21. ASSUME NEW r \in Renderers, NEW m \in Media, AddMediaToRenderer(r, m)
        PROVE  OwnerInv'
    <2>1. CASE m \in mInputPorts[r]
      BY <1>21, <2>1, SMTT(60) DEF AddMediaToRenderer, AddInputMedia, Adding, InLoop
    <2>2. CASE m \notin mInputPorts[r] /\ video[r] = "absent"
      BY <1>21, <2>2, SMTT(60) DEF AddMediaToRenderer, AddInputMedia, Adding, InLoop
    <2>3. CASE m \notin mInputPorts[r] /\ video[r] # "absent"
      BY <1>21, <2>3, SMTT(60) DEF AddMediaToRenderer, AddInputMedia, Adding, InLoop
    <2> QED
      BY <2>1, <2>2, <2>3
  <1>22. ASSUME NEW r \in Renderers, NEW m \in Media, FlushCurrent(r, m) PROVE OwnerInv'
    BY <1>22 DEF FlushCurrent, InLoop
  <1>23. ASSUME NEW r \in Renderers, NEW m \in Media, OnChannelTeardown(r, m)
        PROVE  OwnerInv'
    BY <1>23 DEF OnChannelTeardown, InLoop
  <1>24. ASSUME NEW r \in Renderers, RendererStarted(r) PROVE OwnerInv'
    BY <1>24 DEF RendererStarted, Adding, InLoop, Message
  <1>25. ASSUME NEW r \in Renderers, QueueEventCb(r) PROVE OwnerInv'
    BY <1>25 DEF QueueEventCb, Notify, InLoop
  <1>26. ASSUME NEW r \in Renderers, TimerCb(r) PROVE OwnerInv'
    BY <1>26 DEF TimerCb, Notify, InLoop
  <1>27. ASSUME NEW r \in Renderers, CompleteStop(r) PROVE OwnerInv'
    <2>1. state[r] \notin {"STARTED", "free"}
      BY <1>27, Heads DEF CompleteStop, Message
    <2>2. event'[r] = {} /\ \A q \in Renderers \ {r} : event'[q] = event[q]
      BY <1>27 DEF CompleteStop, WithoutMedia
    <2>3. /\ state'[r] # "STARTED" /\ state'[r] # "CREATED"
          /\ \A q \in Renderers \ {r} : state'[q] = state[q]
      BY <1>27 DEF CompleteStop
    <2>4. UNCHANGED <<listens, mapVars, rt, loop>>
      BY <1>27 DEF CompleteStop
    <2> QED
      BY <2>1, <2>2, <2>3, <2>4
  <1>28. ASSUME NEW r \in Renderers, ElementDelete(r) PROVE OwnerInv'
    <2>1. state[r] \notin {"STARTED", "free"}
      BY <1>28, Heads DEF ElementDelete, Message
    <2>2. event'[r] = {} /\ \A q \in Renderers \ {r} : event'[q] = event[q]
      BY <1>28 DEF ElementDelete, WithoutMedia
    <2>3. /\ state'[r] # "STARTED" /\ state'[r] # "CREATED"
          /\ \A q \in Renderers \ {r} : state'[q] = state[q]
      BY <1>28 DEF ElementDelete
    <2>4. UNCHANGED <<listens, mapVars, rt, loop>>
      BY <1>28 DEF ElementDelete
    <2> QED
      BY <2>1, <2>2, <2>3, <2>4
  <1>29. ASSUME SetVideoMedia PROVE OwnerInv'
    BY <1>29 DEF SetVideoMedia, Adding, InLoop
  <1>30. ASSUME FlushQueue PROVE OwnerInv'
    BY <1>30 DEF FlushQueue, InLoop
  <1>31. ASSUME RemoveInputMedia PROVE OwnerInv'
    BY <1>31 DEF RemoveInputMedia, WithoutMedia, InLoop
  <1>32. ASSUME LoopEnd PROVE OwnerInv'
    BY <1>32 DEF LoopEnd, NoLoop, InLoop
  <1>33. ASSUME FindListener PROVE OwnerInv'
    BY <1>33 DEF FindListener, LoopInv
  <1>34. ASSUME Called PROVE OwnerInv'
    BY <1>34 DEF Called, NoLoop, InLoop
  <1>35. ASSUME Close PROVE OwnerInv'
    BY <1>35 DEF Close
  <1>36. ASSUME DemuxerStopped PROVE OwnerInv'
    BY <1>36 DEF DemuxerStopped, CloseIfStopped
  <1>37. ASSUME UNCHANGED vars PROVE OwnerInv'
    BY <1>37 DEF vars
  <1> QED
    BY <1>1, <1>2, <1>3, <1>4, <1>5, <1>6, <1>7, <1>8, <1>9, <1>10, <1>11,
       <1>12, <1>13, <1>14, <1>15, <1>16, <1>17, <1>18, <1>19, <1>20, <1>21,
       <1>22, <1>23, <1>24, <1>25, <1>26, <1>27, <1>28, <1>29, <1>30, <1>31,
       <1>32, <1>33, <1>34, <1>35, <1>36, <1>37
    DEF Next, RenderingStep, InCall, MediaStep, ChannelStep, RendererStep, LoopStep

-----------------------------------------------------------------------------
(* The theorems.                                                           *)

\* Every reachable state satisfies the invariant.
THEOREM RenderInvariance == Spec => []IInv
  <1>1. IInv /\ [Next]_vars => IInv'
    <2> SUFFICES ASSUME IInv, [Next]_vars PROVE IInv'
      OBVIOUS
    <2>1. TypeInv /\ PortInv /\ LoopInv /\ ThreadInv /\ MboxInv /\ DrawInv /\ MediaInv
      BY DEF IInv
    <2>2. TypeInv'
      BY <2>1, TypesKept, ThreadTypesKept DEF TypeInv
    <2>3. PortInv' /\ LoopInv' /\ ThreadInv' /\ MboxInv'
      BY <2>1, PortKept, LoopKept, ThreadKept, MboxKept
    <2>4. DrawInv' /\ MediaInv'
      BY <2>1, DrawKept, MediaKept
    <2> QED
      BY <2>2, <2>3, <2>4 DEF IInv
  <1> QED
    BY InitInv, <1>1, PTL DEF Spec

\* RendererTypeOK: the vectors of ports, media and queues of a renderer agree,
\* and only hold media that exist.
THEOREM RendererTypesCorrect == Spec => []RendererTypeOK
  <1>1. IInv => RendererTypeOK
    BY DEF IInv, TypeInv, RendererTypes, PortInv, RendererTypeOK
  <1> QED
    BY <1>1, RenderInvariance, PTL

\* DrawnIsHeld: a flush, a removal and a stop wait for the end of a rendering.
THEOREM DrawnStaysHeld == Spec => []DrawnIsHeld
  <1>1. IInv => DrawnIsHeld
    BY DEF IInv, DrawInv
  <1> QED
    BY <1>1, RenderInvariance, PTL

\* DrawnMediaAlive: what mGles2Video draws by is not deleted under it.
THEOREM DrawnMediaStayAlive == Spec => []DrawnMediaAlive
  <1>1. ASSUME IInv PROVE DrawnMediaAlive
    <2> SUFFICES ASSUME rt.at = "draw", rt.m \in Media PROVE media[rt.m] # "deleted"
      BY DEF DrawnMediaAlive
    <2>1. rt.r \in Renderers /\ rt.m \in mInputPorts[rt.r]
      BY <1>1 DEF IInv, TypeInv, ThreadTypes, DrawInv
    <2> QED
      BY <1>1, <2>1 DEF IInv, PortInv, Alive
  <1> QED
    BY <1>1, RenderInvariance, PTL

\* NotUsedDeleted: no thread, message, event or timer reaches a deleted renderer.
THEOREM DeletedStaysUnused == Spec => []NotUsedDeleted
  <1>1. ASSUME IInv PROVE NotUsedDeleted
    <2> SUFFICES ASSUME NEW r \in Renderers, state[r] = "free"
                 PROVE  /\ ~(UsesRenderer /\ rt.r = r)
                        /\ \A i \in DOMAIN mMbox : mMbox[i].r # r
                        /\ event[r] = {} /\ ~timer[r]
                        /\ ~(/\ loop.at \in {"setMedia", "flushQueue", "remove", "notice", "call"}
                             /\ loop.r = r)
      BY DEF NotUsedDeleted
    <2>1. ~(UsesRenderer /\ rt.r = r)
      BY <1>1 DEF IInv, ThreadInv, UsesRenderer, InFrame
    <2>2. ASSUME NEW i \in DOMAIN mMbox PROVE mMbox[i].r # r
      <3>1. mMbox[i] \in Contents(mMbox) /\ mMbox[i] \in Messages
        BY <1>1 DEF IInv, TypeInv, ThreadTypes, Contents
      <3> QED
        BY <1>1, <3>1 DEF IInv, MboxInv, MsgOK, Messages
    <2>3. event[r] = {} /\ ~timer[r]
      BY <1>1 DEF IInv, PortInv, ThreadInv
    <2>4. ~(/\ loop.at \in {"setMedia", "flushQueue", "remove", "notice", "call"}
            /\ loop.r = r)
      BY <1>1 DEF IInv, LoopInv, ThreadInv
    <2> QED
      BY <2>1, <2>2, <2>3, <2>4
  <1> QED
    BY <1>1, RenderInvariance, PTL

\* NoMediaMissed: media that come before, while and after a renderer starts are
\* all connected to it.
THEOREM NoMediumIsMissed == Spec => []NoMediaMissed
  <1>1. IInv => NoMediaMissed
    BY DEF IInv, MediaInv, Pending, Contents, NoMediaMissed
  <1> QED
    BY <1>1, RenderInvariance, PTL

\* NoticeToOwner: the back-end calls the listener of the renderer, which has not
\* been stopped.
THEOREM NoticesReachOwner == ASSUME Orderly PROVE Spec => []NoticeToOwner
  <1>1. IInv /\ OwnerInv /\ [Next]_vars => OwnerInv'
    BY Orderly, OwnerKept DEF IInv
  <1>2. IInv /\ OwnerInv => NoticeToOwner
    BY DEF IInv, TypeInv, ThreadTypes, LoopInv, OwnerInv, NoticeToOwner
  <1> QED
    BY InitInv, <1>1, <1>2, RenderInvariance, PTL DEF Spec
=============================================================================
