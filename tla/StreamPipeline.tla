--------------------------- MODULE StreamPipeline ----------------------------
(***************************************************************************)
(* The session of a live stream composed with the RTP stream, the elements *)
(* downstream of the demuxer and the loop that deletes a demuxer that has  *)
(* stopped; what must always be true of it.                                *)
(***************************************************************************)
EXTENDS StreamSession

-----------------------------------------------------------------------------
(* The loops over the channels, by index, up to the count there was when   *)
(* the loop began.                                                         *)

Looping(what) == st.loop.what \in what /\ st.loop.i \in 1..st.loop.n

\* flush(): "failed to get channel" when there are fewer channels now.
FlushChannel ==
    /\ Looping({"flush", "stop"})
    /\ LET y == [st EXCEPT !.loop.i = @ + 1]
       IN  st' = IF st.loop.i \in DOMAIN st.out THEN ChannelFlush(y, st.out[st.loop.i]) ELSE y

\* The end of flush(), and of stop().
FlushEnd ==
    /\ st.loop.what \in {"flush", "stop"} /\ st.loop.i > st.loop.n
    /\ LET y == [st EXCEPT !.loop = NoLoop,
                           !.d.mChannelsReadyForStop = @ \/ st.loop.n = 0]
       IN  st' = IF /\ st.loop.what = "stop"
                    /\ y.d.mChannelsReadyForStop /\ y.d.mNetworkReadyForStop
                 THEN Stopped(y) ELSE y

\* codecInfoChangedCb() tears the channels down from the last to the first.
TeardownChannel ==
    /\ Looping({"teardown"})
    /\ LET y == [st EXCEPT !.loop.i = @ - 1]
       IN  st' = IF st.loop.i \in DOMAIN st.out
                 THEN ChannelTeardown(y, st.out[st.loop.i]) ELSE y

TeardownEnd ==
    /\ st.loop.what = "teardown" /\ st.loop.i = 0
    /\ st' = [st EXCEPT !.loop = NoLoop]

LoopStep == FlushChannel \/ FlushEnd \/ TeardownChannel \/ TeardownEnd

-----------------------------------------------------------------------------
(* The RTP stream: the callbacks of the receiver.                          *)

Receives == Free /\ st.d.mReceiver /\ st.d.mState = "STARTED"

\* codecInfoChangedCb(), as long as there is a decoder for a new media.
CodecInfoChanged(info) ==
    /\ Receives
    /\ DecodeAll => \E c \in Decoders : st.est[c] = "none"
    /\ LET y == [st EXCEPT !.d.mWaitForCodecInfo = FALSE]
           w == [y EXCEPT !.d.mCodecInfo = info]
       IN  st' = IF ~st.d.mCodecInfoChanging /\ st.d.mCodecInfo = info THEN Flush(y, "flush")
                 ELSE IF st.d.mVideoMedia = None
                 THEN SetupInputMedia([w EXCEPT !.d.mCodecInfoChanging = FALSE])
                 ELSE [w EXCEPT !.d.mCodecInfoChanging = TRUE,
                                !.loop = [what |-> "teardown", i |-> Len(st.out), n |-> Len(st.out)]]

\* recvFrameCb(): a frame is ignored, or makes the demuxer flush, or is queued;
\* without a media there is no buffer, which makes it flush as well.
RecvFrame ==
    /\ Receives /\ (st.d.rtsp \/ st.d.mRunning)
    /\ ~st.d.mWaitForCodecInfo /\ ~st.d.mCodecInfoChanging /\ ~st.d.mFlushing
    /\ st' = IF st.d.mIdrFrameSyncPending \/ st.d.mVideoMedia = None THEN Flush(st, "flush")
             ELSE Queue(st, FALSE)

\* processFrame() finds no buffer, since the elements hold them all.
RecvFrameNoBuffer ==
    /\ Receives /\ (st.d.rtsp \/ st.d.mRunning)
    /\ ~st.d.mWaitForCodecInfo /\ ~st.d.mCodecInfoChanging /\ ~st.d.mFlushing
    /\ ~st.d.mIdrFrameSyncPending /\ st.out # <<>>
    /\ \A i \in DOMAIN st.out : ~st.ch[st.out[i]].flushed
    /\ st' = Flush(st, "flush")

\* goodbyeCb(): the sender is reconfigured, or leaves.
Goodbye ==
    /\ Receives
    /\ \E leaves \in BOOLEAN :
         LET y == [st EXCEPT !.d.mWaitForCodecInfo = TRUE]
         IN  st' = IF leaves /\ st.d.rtsp THEN StopLater(y) ELSE y

StreamEvent == (\E info \in Infos : CodecInfoChanged(info)) \/ RecvFrame \/ RecvFrameNoBuffer
               \/ Goodbye

-----------------------------------------------------------------------------
(* Downstream of the demuxer.                                              *)

\* A flush that an element was asked for is done: by vdec, or by the
\* application.  An element that is being torn down, or stopped, goes on.
ElementFlushed(c) ==
    /\ Free /\ st.ch[c].asked
    /\ LET pending == st.ch[c].pending
           y == [st EXCEPT !.ch[c] = [flushed |-> @.flushed \/ pending \/ c \in Decoders,
                                      pending |-> FALSE, asked |-> FALSE, synced |-> FALSE]]
           w == IF pending THEN OnChannelFlushed(y, c) ELSE y
       IN  st' = IF w.est[c] # "STOPPING" THEN w
                 ELSE IF c \in Decoders THEN OnChannelUnlink(w, c)
                 ELSE OnElementStopped([w EXCEPT !.est[c] = "none"])

\* A decoder has stopped once vdec has.
DecoderStopped(c) ==
    /\ Free /\ c \in Decoders /\ st.est[c] = "STOPPING" /\ ~InOut(st, c) /\ ~st.ch[c].asked
    /\ st' = OnElementStopped([st EXCEPT !.est[c] = "none"])

\* inloopElementDelete() of the demuxer: the receiver, the sockets and the RTSP
\* client go with it.
DeleteDemuxer ==
    /\ Free /\ st.s.deleting
    /\ st' = [st EXCEPT !.d = [NewDemuxer EXCEPT !.leaked = st.d.leaked],
                        !.s.mDemuxer = FALSE, !.s.deleting = FALSE, !.s.mDemuxerReady = FALSE,
                        !.r = NewClient]

Downstream == \E c \in Chans : ElementFlushed(c) \/ DecoderStopped(c)

Next == LoopStep \/ AppEvent \/ RtspEvent \/ StreamEvent \/ Downstream \/ DeleteDemuxer

Spec == Init /\ [][Next]_st

\* The loop thread goes on, and serves what is ready again and again: its idle
\* functions, its messages, a connection that is being closed, an answer (each
\* request has a timeout).  The elements end their flushes, vdec stops, and the
\* application stops the sinks whose media is gone.
AppReaction == \E c \in Sinks : ~InOut(st, c) /\ StopVideoSink(c)
Fairness ==
    /\ WF_st(LoopStep)
    /\ SF_st(Disconnected \/ IdleStop \/ IdleRtspDisconnect)
    /\ SF_st(ServerAnswers) /\ SF_st(DeleteDemuxer) /\ SF_st(AppReaction)
    /\ \A c \in Chans : SF_st(ElementFlushed(c) \/ DecoderStopped(c))
FairSpec == Spec /\ Fairness

-----------------------------------------------------------------------------
(* Properties.                                                             *)

\* A demuxer that stops does nothing else until it is deleted: neither an
\* answer nor an announce that comes in between starts it again, which would
\* answer open() a second time and lose the close() that waits.
StopIsFinal == [][st.d.mState = "STOPPING" => st'.d.mState \in {"STOPPING", "STOPPED"}]_st

\* The session is ready to play only when a play request would be sent, to a
\* server whose stream is received.
ReadyToPlayTruth ==
    st.s.mReadyToPlay => /\ st.d.mState = "STARTED" /\ st.d.mReceiver
                         /\ st.d.rtsp => st.d.mRtspState = "SETUP_DONE"

\* Each play(), pause() and seekTo() that returned 0 is answered once, by the
\* response of its own kind, or its request is still pending (pdraw.hpp:521).
EachAnsweredOnce ==
    \A k \in {"play", "seek", "pause"} : st.s.mDemuxer => st.s.owed[k] = Cardinality(Pending(k))

\* A demuxer that is to be deleted has stopped, and its media was removed with
\* its channels (what its destructor warns of, pdraw_demuxer_stream.cpp:204 and
\* 242): no element downstream knows it any more.
DeletedClean ==
    st.s.deleting => st.d.mState = "STOPPED" /\ st.d.mVideoMedia = None /\ st.out = <<>>

\* While frames are waited for, the output media is the one of the parameter
\* sets of the stream.
MediaIsCurrent ==
    st.d.mState = "STARTED" /\ ~st.d.mWaitForCodecInfo /\ ~st.d.mCodecInfoChanging
        => st.d.mVideoMedia = st.d.mCodecInfo

\* No socket, channel of libmux or receiver is replaced while it is in use: the
\* loop would go on calling it back for a demuxer that does not know it.
NothingLeaked == ~st.d.leaked

\* The first frame an element gets, as it is linked and after each flush, is a
\* synchronization frame (pdraw.hpp:860).
SyncFirst == ~st.unsynced

\* A demuxer that stops, by itself or for a close(), stops altogether and is
\* deleted, and the close() completes, whatever the server, the stream and the
\* elements do.
StopCompletes ==
    st.d.mState = "STOPPING" \/ st.s.mState = "CLOSING"
        ~> ~st.s.mDemuxer /\ st.s.mState # "CLOSING"

\* A flush of the stream and a change of its parameter sets end, with the new
\* media, and both at once: frames are dropped as long as one is under way.
FlushEnds ==
    st.d.mFlushing \/ st.d.mCodecInfoChanging
        ~> ~st.d.mFlushing /\ ~st.d.mCodecInfoChanging
-----------------------------------------------------------------------------
(* What makes the safety properties inductive, as predicates of a state z. *)

Waits(z, ops) == \E i \in DOMAIN z.r.reqs : z.r.reqs[i].op \in ops
Kind(s, k) == {i \in DOMAIN s : s[i].op = k}
AtMostOne(z, ops) == \A i, j \in DOMAIN z.r.reqs :
    z.r.reqs[i].op \in ops /\ z.r.reqs[j].op \in ops => i = j

\* A decoder is left for the media of the changed parameter sets.
DecoderLeft(z) ==
    DecodeAll /\ z.d.mCodecInfoChanging => \E c \in Decoders : z.est[c] = "none"

\* The life of a demuxer that was opened, and of its session.
LifeInv(z) ==
    /\ z.s.mState \in {"OPENED", "CLOSING", "CLOSED"}
    /\ z.d.mState \in {"CREATED", "STARTED", "STOPPING", "STOPPED"}
    /\ z.s.mDemuxer <=> z.d.mState # "CREATED"
    /\ z.s.deleting => z.d.mState = "STOPPED"
    /\ z.loop.what = "stop" => z.d.mState \in {"STOPPING", "STOPPED"}

\* How far the RTSP dialogue is: at most one of the requests that set a stream
\* up is under way, none is answered well once the demuxer stops, and there is a
\* connection only as long as one is needed.
TalkInv(z) ==
    /\ z.d.mState = "CREATED" => z.r = NewClient
    /\ z.d.mState = "STOPPED" \/ z.d.mNetworkReadyForStop \/ ~z.d.rtsp =>
           z.r.conn \notin {"up", "connecting"}
    /\ AtMostOne(z, {"options", "describe", "setup"})
    /\ z.d.mContentBase => ~Waits(z, {"options", "describe"})
    /\ z.d.mRtspState = "SETUP_DONE" => ~Waits(z, {"options", "describe", "setup"})
    /\ z.d.mState = "STOPPING" /\ z.r.conn = "up" => ~Waits(z, {"setup"})
    /\ z.r.conn = "connecting" =>
           z.r.reqs = <<>> /\ z.d.mRtspState = "DISCONNECTED" /\ ~z.d.mContentBase
    /\ "idleRtspDisconnect" \in z.r.idles \/ Waits(z, {"teardown"}) => z.d.mState # "STARTED"

DialogueInv(z) == LifeInv(z) /\ TalkInv(z)

\* The session is ready only with the stream set up and received.
ReadyInv(z) ==
    /\ z.s.mReadyToPlay => z.s.mDemuxerReady
    /\ z.s.mDemuxerReady => /\ z.d.mState = "STARTED" /\ z.d.mReceiver
                            /\ z.d.rtsp => z.d.mRtspState = "SETUP_DONE"
    /\ z.d.mState = "STARTED" => z.r.conn # "closing"

\* Sockets are there only with a setup under way or done, a receiver only with
\* a setup that is done.
SocketsInv(z) ==
    /\ ~z.d.leaked
    /\ Waits(z, {"setup"}) => ~z.d.mReceiver
    /\ z.d.mState = "STARTED" /\ z.r.conn \in {"up", "connecting"}
          /\ z.d.mRtspState # "SETUP_DONE"
       => ~z.d.mReceiver /\ (z.d.socks /\ Transport = "net" => Waits(z, {"setup"}))

\* Each request of the application that is under way names the RTSP session it
\* will be answered for, and mSeeking tells a seek from a play.
AsksInv(z) ==
    /\ z.s.mDemuxer => z.d.rtsp
    /\ \A k \in {"play", "seek", "pause"} : z.s.mDemuxer =>
           z.s.owed[k] = Cardinality(Kind(z.r.reqs, k))
    /\ AtMostOne(z, {"play", "seek"})
    /\ z.d.mSeeking <=> Waits(z, {"seek"})
    /\ \A i \in DOMAIN z.r.reqs : z.r.reqs[i].op \in {"play", "seek", "pause"} =>
           /\ z.r.reqs[i].sid = z.d.mRtspSessionId
           /\ \A j \in 1..(i - 1) : z.r.reqs[j].op \notin {"setup", "teardown"}

\* The media has a channel as long as it is there, and a demuxer that stops is
\* ready for it with its channels only when the media is gone.
ChannelsInv(z) ==
    /\ z.d.mVideoMedia = None <=> z.out = <<>>
    /\ z.d.mState = "STOPPED" \/ (z.d.mState = "STOPPING" /\ z.d.mChannelsReadyForStop)
       => z.d.mVideoMedia = None
    /\ z.loop.what = "stop" /\ z.loop.n = 0 => z.d.mVideoMedia = None
    /\ z.loop.what \in {"flush", "teardown"} => z.d.mState = "STARTED"
    /\ z.loop.what = "teardown" /\ z.loop.i > 0 =>
           z.d.mCodecInfoChanging /\ z.loop.i <= Len(z.out)

\* The decoder of the media stays until the parameter sets change.
CodecInfoInv(z) ==
    /\ z.d.mState = "STARTED" /\ ~z.d.mCodecInfoChanging =>
           /\ z.d.mVideoMedia = z.d.mCodecInfo
           /\ z.d.mVideoMedia # None => \E c \in Decoders : InOut(z, c) /\ z.est[c] = "STARTED"

\* An element that takes frames begins with a synchronization frame, unless the
\* demuxer flushes, or is to send one; an element is asked to flush only then.
\* Once the demuxer is deleted nothing is sent any more.
SyncedElem(z, c) ==
    /\ z.est[c] # "none"
    /\ c \in Sinks => z.est[c] = "STARTED"
    /\ c \in Decoders => DecodeAll
    /\ z.est[c] = "STARTED" =>
           /\ \/ z.ch[c].synced \/ z.d.mFlushing \/ z.d.mIdrFrameSyncPending
              \/ z.d.mState = "CREATED"
           /\ z.ch[c].asked => z.ch[c].pending
    /\ z.ch[c].pending =>
           /\ z.ch[c].asked
           /\ (z.d.mFlushing /\ z.d.mIdrFrameSyncPending) \/ z.d.mState = "CREATED"

\* With one element at a time: while a flush asks the elements, it is under way.
SyncInv(z) ==
    /\ ~z.unsynced /\ Len(z.out) <= 1
    /\ z.d.mVideoMedia = None => z.out = <<>> \/ z.d.mState = "CREATED"
    /\ z.loop.what \in {"flush", "stop"} =>
           /\ z.loop.n <= 1
           /\ z.loop.i <= z.loop.n => z.d.mFlushing /\ z.d.mIdrFrameSyncPending
    /\ \A c \in Chans : InOut(z, c) => SyncedElem(z, c)
=============================================================================
