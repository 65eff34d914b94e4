---------------------------- MODULE StreamSession ----------------------------
(***************************************************************************)
(* A session that plays a live stream: the application, the RTSP client    *)
(* and its server, the RTP stream and the elements downstream of the       *)
(* demuxer, each of which may do something whenever the loop thread is     *)
(* free.                                                                   *)
(***************************************************************************)
EXTENDS StreamDemuxer

\* The loop thread is not in a loop over the channels.
Free == st.loop.what = "none"
Sent == IF "send" \in Allowed THEN BOOLEAN ELSE {TRUE}
Creates == IF "receiver" \in Allowed THEN BOOLEAN ELSE {TRUE}

Pending(k) == {i \in DOMAIN st.r.reqs : st.r.reqs[i].op = k}
Room == Len(st.r.reqs) < MaxReqs

-----------------------------------------------------------------------------
(* The application.                                                        *)

Opening == [SessionState(st, "OPENING") EXCEPT !.s.mDemuxer = TRUE]

\* open() of an RTSP URL: the demuxer is started before it is connected.
OpenUrl ==
    /\ Free /\ st.s.mState = "CREATED" /\ st.s.opened = 0
    /\ st' = SetState(SetState([Opening EXCEPT !.d.rtsp = TRUE, !.r.conn = "connecting"],
                               "STARTING"), "STARTED")

\* open() of addresses and ports
OpenDirect ==
    /\ Free /\ st.s.mState = "CREATED" /\ st.s.opened = 0 /\ "direct" \in Allowed
    /\ st' = SetState(OnReadyToPlay(StartRtpAvp(SetState(Opening, "STARTING"), TRUE), TRUE),
                      "STARTED")

\* close(), which the application calls once
Close ==
    /\ Free /\ st.s.mState = "OPENED"
    /\ LET y == SessionState(st, "CLOSING") IN
       IF AllStopped(y) THEN st' = Closed(y)
       ELSE IF st.s.mDemuxer THEN \E sent \in Sent : st' = Stop(y, sent)
       ELSE st' = y

\* play(), pause() and seekTo(); those that fail at once change nothing the
\* application is told of.
MayAsk == /\ Free /\ st.s.mState = "OPENED" /\ st.s.mDemuxer /\ st.d.mState = "STARTED"
          /\ st.s.mReadyToPlay \/ "unready" \in Allowed
          /\ Room
CanSend == st.d.rtsp /\ st.d.mRtspState = "SETUP_DONE"
Ask(z, k, sent) ==
    LET y == [z EXCEPT !.s.owed[k] = IF @ <= MaxReqs THEN @ + 1 ELSE @] IN
    IF ~CanSend THEN y ELSE IF sent THEN Send(y, k) ELSE z
Alone == Pending("play") \cup Pending("seek") = {} \/ "overlap" \in Allowed

Play ==
    /\ MayAsk /\ Alone
    /\ \E sent \in Sent : st' = Ask([st EXCEPT !.d.mRunning = TRUE], "play", sent)

Pause ==
    /\ MayAsk
    /\ \E sent \in Sent : st' = Ask([st EXCEPT !.d.mRunning = FALSE], "pause", sent)

SeekTo ==
    /\ MayAsk /\ Alone /\ CanSend
    /\ st' = [Ask(st, "seek", TRUE) EXCEPT !.d.mSeeking = TRUE]

\* startVideoSink() on the media of the stream, and the resync at its end
StartVideoSink(c) ==
    /\ Free /\ st.s.mState \in {"OPENED", "CLOSING"} /\ st.s.mDemuxer
    /\ st.est[c] = "none" /\ st.d.mVideoMedia # None
    /\ st.d.mState = "STARTED" \/ "lateSink" \in Allowed
    /\ st' = OnChannelResync(Link(st, c))

\* stopVideoSink()
StopVideoSink(c) ==
    /\ Free /\ st.est[c] = "STARTED"
    /\ ~InOut(st, c) \/ "stopAnytime" \in Allowed
    /\ LET y == [st EXCEPT !.est[c] = "STOPPING"]
           w == IF InOut(st, c) THEN ChannelTeardown(y, c) ELSE [y EXCEPT !.ch[c].asked = FALSE]
       IN  st' = IF w.ch[c].asked THEN w ELSE OnElementStopped([w EXCEPT !.est[c] = "none"])

\* resyncVideoSink(): the application is asked to flush the sink, and a grey
\* frame is queued at once.
ResyncVideoSink(c) ==
    /\ Free /\ "resync" \in Allowed /\ st.est[c] = "STARTED" /\ InOut(st, c)
    /\ st' = OnChannelResync([st EXCEPT !.ch[c].asked = @ \/ ~st.ch[c].flushed])

AppEvent == \/ OpenUrl \/ OpenDirect \/ Close \/ Play \/ Pause \/ SeekTo
            \/ \E c \in Sinks : StartVideoSink(c) \/ StopVideoSink(c) \/ ResyncVideoSink(c)

-----------------------------------------------------------------------------
(* The connection to the RTSP server.                                      *)

\* onRtspConnectionState(CONNECTED)
Connected ==
    /\ Free /\ st.r.conn = "connecting" /\ st.r.reqs = <<>>
    /\ \E sent \in Sent :
         LET y == [st EXCEPT !.r.conn = "up", !.d.mRtspState = "CONNECTED"]
         IN  st' = IF sent THEN Send(y, "options") ELSE y

\* Mutant: whether the channels are ready is not looked at.
OnDisconnectedOnly(z) ==
    [z EXCEPT !.d.mRtspState = "DISCONNECTED", !.d.mRunning = FALSE,
              !.d.mNetworkReadyForStop = TRUE]

\* Mutant: the channels are not waited for.
OnDisconnectedEarly(z) ==
    LET y == [z EXCEPT !.d.mRtspState = "DISCONNECTED", !.d.mRunning = FALSE,
                       !.d.mNetworkReadyForStop = TRUE]
    IN  IF y.d.mState = "STOPPING" THEN Stopped(y) ELSE y

\* onRtspConnectionState(DISCONNECTED): nothing is said of being ready.
OnDisconnected(z) ==
    LET y == [z EXCEPT !.d.mRtspState = "DISCONNECTED", !.d.mRunning = FALSE,
                       !.d.mNetworkReadyForStop = TRUE]
    IN  IF y.d.mChannelsReadyForStop THEN Stopped(y) ELSE y

\* The client has disconnected, as it was asked to; it has given up its
\* requests before.
Disconnected ==
    /\ Free /\ st.r.conn = "closing" /\ (st.r.reqs = <<>> \/ "late" \in Allowed)
    /\ st' = OnDisconnected([st EXCEPT !.r.conn = "none"])

\* The server closes the connection, or it is lost.
ConnectionLost ==
    /\ Free /\ st.r.conn = "up" /\ "close" \in Allowed
    /\ st' = OnDisconnected([st EXCEPT !.r.conn = IF "reconnect" \in Allowed THEN "connecting"
                                                  ELSE "none"])

\* idleRtspDisconnect() and idleStop()
IdleRtspDisconnect ==
    /\ Free /\ "idleRtspDisconnect" \in st.r.idles
    /\ st' = Disconnect([st EXCEPT !.r.idles = @ \ {"idleRtspDisconnect"}])

IdleStop ==
    /\ Free /\ "idleStop" \in st.r.idles
    /\ \E sent \in Sent : st' = Stop([st EXCEPT !.r.idles = @ \ {"idleStop"}], sent)

-----------------------------------------------------------------------------
(* What the RTSP server answers and announces.                             *)

StopLater(z) == [z EXCEPT !.r.idles = @ \cup {"idleStop"}]

\* A description: it has no media, or the application selects one that is not
\* there, or its media comes with the parameter sets or without.
Descriptions == {"empty", None} \cup (IF "refuse" \in Allowed THEN {"wrongTrack"} ELSE {})
                                \cup (IF "sdpInfo" \in Allowed THEN Infos ELSE {})

\* Mutants: without a media the application is not told, or the receiver stays.
NoMediaUntold(z) ==
    LET y == SetState(z, "STARTED")
        w == IF z.d.mRtspState = "SETUP_DONE" THEN StopRtpAvp(y) ELSE y
    IN  [w EXCEPT !.d.mRtspState = "OPTIONS_DONE"]
NoMediaReceiving(z) ==
    [OnReadyToPlay(SetState(z, "STARTED"), FALSE) EXCEPT !.d.mRtspState = "OPTIONS_DONE"]

\* onNewSdp()
NoMedia(z) ==
    LET y == OnReadyToPlay(SetState(z, "STARTED"), FALSE)
        w == IF z.d.mRtspState = "SETUP_DONE" THEN StopRtpAvp(y) ELSE y
    IN  [w EXCEPT !.d.mRtspState = "OPTIONS_DONE"]
SetupMedia(z, sdp, sent) ==
    LET y == PrepareSetup([z EXCEPT !.d.mCodecInfo = IF sdp \in Infos THEN sdp ELSE @])
    IN  IF sent THEN Send([y EXCEPT !.d.mRtspState = "DESCRIBE_DONE"], "setup")
        ELSE [OnReadyToPlay(y, FALSE) EXCEPT !.d.mRtspState = "OPTIONS_DONE"]
\* Mutant: a description is set up while the demuxer stops.
OnNewSdpAlways(z, sdp, sent) ==
    LET y == [z EXCEPT !.d.mContentBase = TRUE] IN
    IF sdp = "empty" THEN NoMedia(y)
    ELSE IF sdp = "wrongTrack" THEN StopLater(y)
    ELSE SetupMedia(y, sdp, sent)

OnNewSdp(z, sdp, sent) ==
    LET y == [z EXCEPT !.d.mContentBase = TRUE] IN
    IF z.d.mState = "STOPPING" THEN z
    ELSE IF sdp = "empty" THEN NoMedia(y)
    ELSE IF sdp = "wrongTrack" THEN StopLater(y)
    ELSE SetupMedia(y, sdp, sent)

\* The answer to the oldest request: a server may refuse it or not answer in
\* time; the requests are aborted when there is no connection.
MayRefuse(op) == op \in {"play", "seek", "pause", "teardown"} \/ "refuse" \in Allowed
Answered(op, ok) ==
    /\ Free /\ st.r.reqs # <<>> /\ Head(st.r.reqs).op = op /\ st.s.mDemuxer
    /\ ok => st.r.conn = "up" \/ "late" \in Allowed
    /\ ~ok => st.r.conn # "up" \/ MayRefuse(op)
Rest == [st EXCEPT !.r.reqs = Tail(@)]

\* onRtspOptionsResp(), onRtspDescribeResp() and onRtspSetupResp()
OnRtspOptionsResp ==
    \E ok \in BOOLEAN, sent \in Sent :
      /\ Answered("options", ok)
      /\ LET y == [Rest EXCEPT !.d.mRtspState = "OPTIONS_DONE"]
         IN  st' = IF ~ok THEN StopLater(Rest) ELSE IF sent THEN Send(y, "describe") ELSE y

OnRtspDescribeResp ==
    \E ok \in BOOLEAN, sent \in Sent, sdp \in Descriptions :
      /\ Answered("describe", ok)
      /\ st' = IF ok THEN OnNewSdp(Rest, sdp, sent) ELSE StopLater(Rest)

OnRtspSetupResp ==
    \E ok \in BOOLEAN, sid \in Sids, creates \in Creates :
      /\ Answered("setup", ok)
      /\ LET y == [Rest EXCEPT !.d.mRtspSessionId = sid, !.d.mRtspState = "SETUP_DONE"]
             w == StartRtpAvp(y, creates)
         IN  st' = IF ~ok THEN StopLater(Rest)
                   ELSE IF RtpAvpStarts(y, creates)
                        THEN OnReadyToPlay(SetState(w, "STARTED"), TRUE) ELSE w

\* The session an answer names.
AnswerSids == IF "stranger" \in Allowed THEN Sids ELSE {st.r.reqs[i].sid : i \in DOMAIN st.r.reqs \cap {1}}
Ours(sid) == sid = st.d.mRtspSessionId
Tell(z, k) == [z EXCEPT !.s.owed[k] = IF @ >= -MaxReqs THEN @ - 1 ELSE @]

\* Mutant: an answered seek is not forgotten.
OnRtspPlayRespKept ==
    \E k \in {"play", "seek"}, ok \in BOOLEAN : \E sid \in AnswerSids :
      /\ Answered(k, ok)
      /\ st' = IF ok /\ ~Ours(sid) THEN Rest
               ELSE Tell(Rest, IF st.d.mSeeking THEN "seek" ELSE "play")

\* onRtspPlayResp(): a seek is a play request, too.
OnRtspPlayResp ==
    \E k \in {"play", "seek"}, ok \in BOOLEAN : \E sid \in AnswerSids :
      /\ Answered(k, ok)
      /\ LET y == Tell(Rest, IF st.d.mSeeking THEN "seek" ELSE "play")
         IN  st' = IF ok /\ ~Ours(sid) THEN Rest ELSE [y EXCEPT !.d.mSeeking = FALSE]

\* onRtspPauseResp()
OnRtspPauseResp ==
    \E ok \in BOOLEAN : \E sid \in AnswerSids :
      /\ Answered("pause", ok)
      /\ st' = IF ok /\ ~Ours(sid) THEN Rest ELSE Tell(Rest, "pause")

\* onRtspTeardownResp(): a refused, late or aborted teardown disconnects too, a
\* canceled one does not.
OnRtspTeardownResp ==
    \E ok \in BOOLEAN : \E sid \in AnswerSids :
      /\ Answered("teardown", ok)
      /\ LET y == [Rest EXCEPT !.d.mTearingDown = FALSE]
         IN  \/ /\ st' = IF ~Ours(sid) THEN y
                         ELSE [y EXCEPT !.d.mRtspSessionId = None,
                                        !.d.mRtspState = "OPTIONS_DONE",
                                        !.r.idles = @ \cup {"idleRtspDisconnect"}]
             \/ "canceled" \in Allowed /\ st' = y

ServerAnswers == \/ OnRtspOptionsResp \/ OnRtspDescribeResp \/ OnRtspSetupResp
                 \/ OnRtspPlayResp \/ OnRtspPauseResp \/ OnRtspTeardownResp

\* onRtspAnnounce()
OnRtspAnnounce ==
    /\ Free /\ st.r.conn = "up" /\ st.d.mContentBase /\ "announce" \in Allowed
    /\ \E sdp \in Descriptions, sent \in Sent :
         /\ sdp = "empty" \/ Room
         /\ \/ sdp = "empty" \/ "reannounce" \in Allowed
            \/ st.d.mRtspState = "OPTIONS_DONE" /\ Pending("setup") = {}
         /\ st' = OnNewSdp(st, sdp, sent)

\* onRtspSessionRemoved()
OnRtspSessionRemoved ==
    /\ Free /\ st.r.conn = "up" /\ st.d.mRtspSessionId # None
    /\ st' = StopLater(st)

RtspEvent == \/ Connected \/ Disconnected \/ ConnectionLost \/ IdleRtspDisconnect \/ IdleStop
             \/ ServerAnswers \/ OnRtspAnnounce \/ OnRtspSessionRemoved
=============================================================================
