---------------------------- MODULE StreamDemuxer ----------------------------
(***************************************************************************)
(* The demuxer of a live stream (pdraw_demuxer_stream.cpp, its variants    *)
(* pdraw_demuxer_stream_net.cpp and pdraw_demuxer_stream_mux.cpp) and what *)
(* the session does for it: the output media, its channels and their       *)
(* flushes, the RTP receiver, the end of the stream.                       *)
(*                                                                         *)
(* Everything runs on the loop thread, one event at a time.  The state is  *)
(* one record, st; a function of the code is an operator from the record   *)
(* before it to the record after it, so that a synchronous chain of calls  *)
(* is a composition.  Only the two loops over the channels take steps of   *)
(* their own: what they call may change the channels they walk through.    *)
(***************************************************************************)
EXTENDS Integers, Sequences, FiniteSets

CONSTANTS
    Decoders,   \* the decoders there may be at a time
    Sinks,      \* the video sinks the application may start on the stream
    Infos,      \* the parameter sets the stream may have
    Sids,       \* the RTSP session identifiers the server gives
    None,       \* no media, no parameter set, no session identifier
    Transport,  \* "net" (UDP sockets) or "mux" (channels of libmux)
    DecodeAll,  \* the pipeline mode: a decoder for the media, or none
    Allowed,    \* what may happen besides the usual, see Events
    MaxReqs     \* bound: RTSP requests without an answer

\* direct        open() of addresses and ports instead of an RTSP URL
\* close         the server closes the connection
\* reconnect     the RTSP client connects again by itself
\* quiet         disconnecting without a connection is not notified
\* announce      the server announces a description
\* reannounce    ... while the last one is being, or has been, set up
\* sdpInfo       a description holds the parameter sets
\* refuse        the server refuses options, describe or setup
\* late          answers arrive after the disconnection has begun
\* stranger      an answer names another session
\* canceled      the teardown is canceled
\* send          a request cannot be sent
\* receiver      the receiver cannot be created
\* overlap       play and seek requests may overlap
\* unready       the application plays although it is not ready to play
\* lateSink      it starts a sink while the demuxer stops
\* stopAnytime   it stops a sink whose media is there
\* resync        it resynchronizes a sink
Events == {"direct", "close", "reconnect", "quiet", "announce", "reannounce", "sdpInfo",
           "refuse", "late", "stranger", "canceled", "send", "receiver", "overlap",
           "unready", "lateSink", "stopAnytime", "resync"}

Chans == Decoders \cup Sinks        \* a channel is named after its sink element

ASSUME StreamConstantsOK ==
    /\ Decoders \cap Sinks = {}
    /\ None \notin Infos /\ None \notin Sids
    /\ Transport \in {"net", "mux"} /\ DecodeAll \in BOOLEAN
    /\ Allowed \subseteq Events /\ MaxReqs \in Nat

VARIABLE st

ElementStates == {"CREATED", "STARTING", "STARTED", "STOPPING", "STOPPED"}
RtspStates == {"DISCONNECTED", "CONNECTED", "OPTIONS_DONE", "DESCRIBE_DONE", "SETUP_DONE"}
Requests == {"options", "describe", "setup", "play", "seek", "pause", "teardown"}

\* socks: mStreamSock and mControlSock, or the open channels of mMux; leaked:
\* one of them, or the receiver, was overwritten while it was in use.
DemuxerType ==
    [mState : ElementStates, rtsp : BOOLEAN, mRtspState : RtspStates,
     mRtspSessionId : Sids \cup {None}, mContentBase : BOOLEAN, mTearingDown : BOOLEAN,
     mChannelsReadyForStop : BOOLEAN, mNetworkReadyForStop : BOOLEAN,
     socks : BOOLEAN, mReceiver : BOOLEAN, leaked : BOOLEAN,
     mVideoMedia : Infos \cup {None}, mCodecInfo : Infos \cup {None},
     mWaitForCodecInfo : BOOLEAN, mCodecInfoChanging : BOOLEAN, mFlushing : BOOLEAN,
     mIdrFrameSyncPending : BOOLEAN, mRunning : BOOLEAN, mSeeking : BOOLEAN]
\* flushed: mIsFlushed of the element; pending: Channel::mFlushPending; asked:
\* its flush is under way; synced: what it holds begins with a sync frame.
ChanType == [flushed : BOOLEAN, pending : BOOLEAN, asked : BOOLEAN, synced : BOOLEAN]
\* mElement: the demuxer exists; owed: answers the application waits for.
SessionType ==
    [mState : {"CREATED", "OPENING", "OPENED", "CLOSING", "CLOSED"},
     mDemuxer : BOOLEAN, deleting : BOOLEAN, mDemuxerReady : BOOLEAN, mReadyToPlay : BOOLEAN,
     mUrecoverableErrorOccured : BOOLEAN, opened : 0..2, closed : 0..1,
     owed : [{"play", "seek", "pause"} -> Int]]
ClientType ==
    [conn : {"none", "connecting", "up", "closing"},
     reqs : Seq([op : Requests, sid : Sids \cup {None}]),
     idles : SUBSET {"idleStop", "idleRtspDisconnect"}]
\* The loop that runs: flush(), the same called by stop(), or the teardown of
\* the channels by codecInfoChangedCb(); the next index and the count.
LoopType == [what : {"none", "flush", "stop", "teardown"}, i : Nat, n : Nat]

StateType ==
    [d : DemuxerType, s : SessionType, r : ClientType, out : Seq(Chans),
     ch : [Chans -> ChanType], est : [Chans -> {"none", "STARTED", "STOPPING"}],
     loop : LoopType, unsynced : BOOLEAN]
StreamTypeOK == st \in StateType

NewChan == [flushed |-> TRUE, pending |-> FALSE, asked |-> FALSE, synced |-> FALSE]
NoLoop == [what |-> "none", i |-> 1, n |-> 0]
NewDemuxer ==
    [mState |-> "CREATED", rtsp |-> FALSE, mRtspState |-> "DISCONNECTED",
     mRtspSessionId |-> None, mContentBase |-> FALSE, mTearingDown |-> FALSE,
     mChannelsReadyForStop |-> FALSE, mNetworkReadyForStop |-> FALSE,
     socks |-> FALSE, mReceiver |-> FALSE, leaked |-> FALSE,
     mVideoMedia |-> None, mCodecInfo |-> None, mWaitForCodecInfo |-> TRUE,
     mCodecInfoChanging |-> FALSE, mFlushing |-> FALSE, mIdrFrameSyncPending |-> FALSE,
     mRunning |-> FALSE, mSeeking |-> FALSE]
NewSession ==
    [mState |-> "CREATED", mDemuxer |-> FALSE, deleting |-> FALSE,
     mDemuxerReady |-> FALSE, mReadyToPlay |-> FALSE,
     mUrecoverableErrorOccured |-> FALSE, opened |-> 0, closed |-> 0,
     owed |-> [k \in {"play", "seek", "pause"} |-> 0]]
NewClient == [conn |-> "none", reqs |-> <<>>, idles |-> {}]
Fresh ==
    [d |-> NewDemuxer, s |-> NewSession, r |-> NewClient,
     out |-> <<>>, ch |-> [c \in Chans |-> NewChan],
     est |-> [c \in Chans |-> "none"], loop |-> NoLoop, unsynced |-> FALSE]
Init == st = Fresh

InOut(z, c) == \E i \in DOMAIN z.out : z.out[i] = c
Without(s, c) ==
    LET i == CHOOSE i \in DOMAIN s : s[i] = c
    IN  [j \in 1..(Len(s) - 1) |-> IF j < i THEN s[j] ELSE s[j + 1]]

-----------------------------------------------------------------------------
(* The session: its state, and the elements that start and stop.           *)

\* updateReadyToPlay()
UpdateReadyToPlay(z) ==
    [z EXCEPT !.s.mReadyToPlay = z.s.mState = "OPENED" /\ z.s.mDemuxerReady]

\* Session::setState()
SessionState(z, s) ==
    IF z.s.mState = s THEN z ELSE UpdateReadyToPlay([z EXCEPT !.s.mState = s])

OnReadyToPlay(z, ready) == UpdateReadyToPlay([z EXCEPT !.s.mDemuxerReady = ready])

OpenResponse(z) == [z EXCEPT !.s.opened = IF @ < 2 THEN @ + 1 ELSE @]
Closed(z) == [SessionState(z, "CLOSED") EXCEPT !.s.closed = 1]

AllStopped(z) == /\ z.s.mDemuxer => z.d.mState = "STOPPED"
                 /\ \A c \in Chans : z.est[c] = "none"

\* onElementStateChanged(STOPPED) for another element than the demuxer
OnElementStopped(z) ==
    IF AllStopped(z) /\ z.s.mState = "CLOSING" THEN Closed(z) ELSE z

\* ... for the demuxer, which a message asks to delete.
OnDemuxerStopped(z) ==
    LET y == [z EXCEPT !.s.deleting = TRUE] IN
    IF z.s.mState = "CLOSING" THEN OnElementStopped(y)
    ELSE IF z.s.mState = "OPENING" THEN OpenResponse(SessionState(y, "CREATED"))
    ELSE [y EXCEPT !.s.mUrecoverableErrorOccured = TRUE]

\* setState() of the demuxer; nothing happens when the state is the same.
SetState(z, state) ==
    LET y == [z EXCEPT !.d.mState = state] IN
    IF z.d.mState = state THEN z
    ELSE IF state = "STARTED" THEN OpenResponse(SessionState(y, "OPENED"))
    ELSE IF state = "STOPPED" THEN OnDemuxerStopped(y)
    ELSE y

-----------------------------------------------------------------------------
(* The RTP receiver and its sockets.                                       *)

\* stopRtpAvp()
StopRtpAvp(z) == [z EXCEPT !.d.mReceiver = FALSE, !.d.socks = FALSE]

\* startRtpAvp() succeeds (ok: the receiver can be created); libmux refuses to
\* open a channel twice.
RtpAvpStarts(z, ok) == ok /\ (Transport = "mux" => ~z.d.socks)
StartRtpAvp(z, ok) ==
    IF RtpAvpStarts(z, ok)
    THEN [z EXCEPT !.d.socks = TRUE, !.d.leaked = @ \/ z.d.mReceiver, !.d.mReceiver = TRUE]
    ELSE StopRtpAvp(z)

\* prepareSetup(): createSockets() does not look whether there are sockets.
PrepareSetup(z) ==
    IF Transport = "mux" THEN z
    ELSE [z EXCEPT !.d.leaked = @ \/ z.d.socks, !.d.socks = TRUE]

-----------------------------------------------------------------------------
(* The frames: a frame is queued on all channels.                          *)

Accepts(z, c) == InOut(z, c) /\ z.est[c] = "STARTED" /\ ~z.ch[c].pending
Queue(z, sync) ==
    [z EXCEPT
       !.ch = [c \in Chans |->
                 IF Accepts(z, c)
                 THEN [z.ch[c] EXCEPT !.flushed = FALSE, !.synced = @ \/ sync]
                 ELSE z.ch[c]],
       !.unsynced = @ \/ (~sync /\ \E c \in Chans : Accepts(z, c) /\ ~z.ch[c].synced)]

\* idrFrameSync() makes a grey frame to begin with.
CanSync(z) == /\ z.d.mState = "STARTED" /\ z.d.mReceiver
              /\ ~z.d.mCodecInfoChanging /\ ~z.d.mFlushing
IdrFrameSync(z) ==
    IF CanSync(z) THEN [Queue(z, TRUE) EXCEPT !.d.mIdrFrameSyncPending = FALSE] ELSE z

\* onChannelResync()
OnChannelResync(z) == IdrFrameSync([z EXCEPT !.d.mIdrFrameSyncPending = TRUE])

-----------------------------------------------------------------------------
(* The media and its channels.                                             *)

FreeDecoder(z) == CHOOSE c \in Decoders : z.est[c] = "none"

\* Links a new element to the media.
Link(z, c) == [z EXCEPT !.out = Append(@, c), !.ch[c] = NewChan, !.est[c] = "STARTED"]

\* setupInputMedia(); the session adds a decoder on the way.
SetupInputMedia(z) ==
    IF z.d.mState # "STARTED" \/ z.d.mCodecInfo = None \/ z.d.mVideoMedia # None THEN z
    ELSE LET y == [z EXCEPT !.d.mVideoMedia = z.d.mCodecInfo,
                            !.d.mIdrFrameSyncPending = TRUE]
         IN  IdrFrameSync(IF DecodeAll THEN Link(y, FreeDecoder(y)) ELSE y)

\* The flags of a stop are reset when it is complete.
Stopped(z) == [SetState(z, "STOPPED") EXCEPT !.d.mChannelsReadyForStop = FALSE,
                                             !.d.mNetworkReadyForStop = FALSE]

\* Mutant: the changed parameter sets get no media.
CompleteTeardownNoSetup(z) ==
    IF z.d.mVideoMedia # None /\ z.out # <<>> THEN z
    ELSE LET y == [z EXCEPT !.d.mVideoMedia = None, !.d.mCodecInfoChanging = FALSE] IN
         IF z.d.mState # "STOPPING" THEN y
         ELSE IF z.d.mNetworkReadyForStop THEN Stopped(y)
         ELSE [y EXCEPT !.d.mChannelsReadyForStop = TRUE]

\* completeTeardown()
CompleteTeardown(z) ==
    IF z.d.mVideoMedia # None /\ z.out # <<>> THEN z
    ELSE LET y == [z EXCEPT !.d.mVideoMedia = None] IN
         IF z.d.mState = "STOPPING"
         THEN IF z.d.mNetworkReadyForStop THEN Stopped(y)
              ELSE [y EXCEPT !.d.mChannelsReadyForStop = TRUE]
         ELSE IF z.d.mCodecInfoChanging
              THEN SetupInputMedia([y EXCEPT !.d.mCodecInfoChanging = FALSE])
              ELSE y

\* onChannelUnlink()
OnChannelUnlink(z, c) ==
    IF InOut(z, c)
    THEN CompleteTeardown([z EXCEPT !.out = Without(@, c), !.ch[c].pending = FALSE])
    ELSE z

\* onChannelTeardown() of the elements: a decoder is flushed before it gives
\* up its channel, a sink gives it up at once and is flushed then.
ChannelTeardown(z, c) ==
    IF c \in Sinks
    THEN OnChannelUnlink([z EXCEPT !.ch[c].asked = @ \/ ~z.ch[c].flushed], c)
    ELSE IF z.est[c] # "STARTED" THEN z
    ELSE LET y == [z EXCEPT !.est[c] = "STOPPING"] IN
         IF z.ch[c].flushed /\ ~z.ch[c].asked THEN OnChannelUnlink(y, c)
         ELSE [y EXCEPT !.ch[c].asked = TRUE]

\* Mutant: the flush is not over.
OnChannelFlushedKept(z, c) ==
    IF ~InOut(z, c) THEN z
    ELSE LET w == IF z.d.mIdrFrameSyncPending THEN IdrFrameSync(z) ELSE z
         IN  IF w.d.mState = "STOPPING" THEN ChannelTeardown(w, c) ELSE w

\* onChannelFlushed()
OnChannelFlushed(z, c) ==
    IF ~InOut(z, c) THEN z
    ELSE LET y == [z EXCEPT !.d.mFlushing = FALSE]
             w == IF y.d.mIdrFrameSyncPending THEN IdrFrameSync(y) ELSE y
         IN  IF w.d.mState = "STOPPING" THEN ChannelTeardown(w, c) ELSE w

\* Channel::flush(): an element that is flushed answers at once.
ChannelFlush(z, c) ==
    IF z.ch[c].flushed /\ ~z.ch[c].asked
    THEN OnChannelFlushed([z EXCEPT !.ch[c].synced = FALSE], c)
    ELSE [z EXCEPT !.ch[c].pending = TRUE, !.ch[c].asked = TRUE]

\* Mutant: a flush does not ask for a synchronization frame after it.
FlushNoSync(z, what) ==
    [z EXCEPT !.d.mFlushing = TRUE,
              !.loop = [what |-> what, i |-> 1,
                        n |-> IF z.d.mVideoMedia = None THEN 0 ELSE Len(z.out)]]

\* flush(), up to its loop
Flush(z, what) ==
    [z EXCEPT !.d.mFlushing = TRUE, !.d.mIdrFrameSyncPending = TRUE,
              !.loop = [what |-> what, i |-> 1,
                        n |-> IF z.d.mVideoMedia = None THEN 0 ELSE Len(z.out)]]

\* stop(), up to the loop of flush(); sent: the teardown could be sent.
Disconnect(z) == [z EXCEPT !.r.conn = IF @ = "none" /\ "quiet" \in Allowed THEN @ ELSE "closing"]
Send(z, op) == [z EXCEPT !.r.reqs = Append(@, [op |-> op, sid |-> z.d.mRtspSessionId])]
StopNetwork(z, sent) ==
    IF ~z.d.rtsp
    THEN StopRtpAvp([z EXCEPT !.d.mRunning = FALSE, !.d.mNetworkReadyForStop = TRUE])
    ELSE IF z.d.mRtspState # "SETUP_DONE" THEN Disconnect(z)
    ELSE LET y == [z EXCEPT !.d.mTearingDown = TRUE] IN
         IF sent THEN Send(y, "teardown") ELSE Disconnect(y)
Stop(z, sent) ==
    IF z.d.mState \notin {"STARTED", "STARTING"} THEN z
    ELSE LET y == OnReadyToPlay(SetState(z, "STOPPING"), FALSE)
         IN  Flush(StopNetwork([y EXCEPT !.d.mChannelsReadyForStop = FALSE,
                                         !.d.mNetworkReadyForStop = FALSE], sent), "stop")
=============================================================================
