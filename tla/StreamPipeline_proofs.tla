------------------------ MODULE StreamPipeline_proofs ------------------------
(***************************************************************************)
(* Proofs about StreamPipeline, for any decoders, sinks, parameter sets    *)
(* and RTSP sessions, and any number of requests.                          *)
(*                                                                         *)
(* First what is done downstream of the demuxer, by the loops over the     *)
(* channels, the callbacks of the receiver, the elements and the sinks:    *)
(* each step of it keeps the invariants of the media and its channels, and *)
(* leaves the dialogue with the server alone.  Then the dialogue with the  *)
(* server, and the safety properties of the whole.  What the server and    *)
(* the application must not do is an assumption about Allowed.             *)
(***************************************************************************)
EXTENDS StreamPipeline, TLAPS, FiniteSetTheorems

\* What every operator keeps.
Good(z) == z \in StateType /\ DecoderLeft(z)

\* What the elements downstream of the demuxer, and the demuxer for them, leave
\* alone: the dialogue with the server, and the life of the demuxer, which can
\* only end what its stop has begun.
Down(z, y) ==
    /\ y.r = z.r
    /\ y.d.rtsp = z.d.rtsp /\ y.d.mRtspState = z.d.mRtspState
    /\ y.d.mRtspSessionId = z.d.mRtspSessionId /\ y.d.mContentBase = z.d.mContentBase
    /\ y.d.socks = z.d.socks /\ y.d.mReceiver = z.d.mReceiver /\ y.d.leaked = z.d.leaked
    /\ y.d.mSeeking = z.d.mSeeking
    /\ y.d.mNetworkReadyForStop => z.d.mNetworkReadyForStop
    /\ \/ y.d.mState = z.d.mState
       \/ z.d.mState = "STOPPING" /\ z.d.mNetworkReadyForStop /\ y.d.mState = "STOPPED"
    /\ y.s.mDemuxer = z.s.mDemuxer /\ y.s.mDemuxerReady = z.s.mDemuxerReady
    /\ y.s.owed = z.s.owed
    /\ y.s.mReadyToPlay => z.s.mReadyToPlay
    /\ y.s.mState = z.s.mState \/ (z.s.mState = "CLOSING" /\ y.s.mState = "CLOSED")
    /\ y.s.deleting => z.s.deleting \/ y.d.mState = "STOPPED"
    /\ y.loop.what = "stop" => z.loop.what = "stop"

\* What only the media and its channels are about.
SameMedia(z, y) ==
    /\ y.out = z.out /\ y.est = z.est /\ y.loop = z.loop
    /\ y.d.mState = z.d.mState /\ y.d.mVideoMedia = z.d.mVideoMedia
    /\ y.d.mCodecInfo = z.d.mCodecInfo /\ y.d.mCodecInfoChanging = z.d.mCodecInfoChanging
    /\ y.d.mChannelsReadyForStop = z.d.mChannelsReadyForStop

SessionStates == {"CREATED", "OPENING", "OPENED", "CLOSING", "CLOSED"}

\* What is done downstream can be done after what was done downstream.
LEMMA DownTransitive ==
  ASSUME NEW x, NEW y, NEW z, Down(x, y), Down(y, z)
  PROVE  Down(x, z)
  <1>1. \/ z.d.mState = x.d.mState
        \/ x.d.mState = "STOPPING" /\ x.d.mNetworkReadyForStop /\ z.d.mState = "STOPPED"
    BY Zenon DEF Down
  <1>2. z.s.mState = x.s.mState \/ (x.s.mState = "CLOSING" /\ z.s.mState = "CLOSED")
    BY Zenon DEF Down
  <1>3. z.s.deleting => x.s.deleting \/ z.d.mState = "STOPPED"
    BY Zenon DEF Down
  <1>. QED
    BY <1>1, <1>2, <1>3, ZenonT(60) DEF Down

\* updateReadyToPlay(), which goes by the state of the session.
LEMMA UpdateReadyToPlayOK ==
  ASSUME NEW z \in StateType
  PROVE  LET y == UpdateReadyToPlay(z) IN
         /\ y \in StateType
         /\ y.d = z.d /\ y.r = z.r /\ y.out = z.out /\ y.ch = z.ch /\ y.est = z.est
         /\ y.loop = z.loop /\ y.unsynced = z.unsynced
         /\ y.s = [z.s EXCEPT !.mReadyToPlay = z.s.mState = "OPENED" /\ z.s.mDemuxerReady]
  BY Zenon DEF UpdateReadyToPlay, StateType, SessionType

\* Session::setState()
LEMMA SessionStateOK ==
  ASSUME NEW z \in StateType, NEW s \in SessionStates
  PROVE  LET y == SessionState(z, s) IN
         /\ y \in StateType
         /\ y.d = z.d /\ y.r = z.r /\ y.out = z.out /\ y.ch = z.ch /\ y.est = z.est
         /\ y.loop = z.loop /\ y.unsynced = z.unsynced
         /\ y.s.mState = s
         /\ y.s.mReadyToPlay => (z.s.mState = s /\ z.s.mReadyToPlay)
                                \/ (s = "OPENED" /\ z.s.mDemuxerReady)
         /\ y.s.mDemuxer = z.s.mDemuxer /\ y.s.deleting = z.s.deleting
         /\ y.s.mDemuxerReady = z.s.mDemuxerReady /\ y.s.owed = z.s.owed
         /\ y.s.opened = z.s.opened /\ y.s.closed = z.s.closed
  <1> DEFINE x == [z EXCEPT !.s.mState = s]
  <1>1. /\ x \in StateType
        /\ x.d = z.d /\ x.r = z.r /\ x.out = z.out /\ x.ch = z.ch /\ x.est = z.est
        /\ x.loop = z.loop /\ x.unsynced = z.unsynced
        /\ x.s = [z.s EXCEPT !.mState = s]
    BY Zenon DEF StateType, SessionType, SessionStates
  <1>2. x.s \in SessionType /\ z.s \in SessionType
    BY <1>1, Zenon DEF StateType
  <1>3. CASE z.s.mState = s
    <2>1. SessionState(z, s) = z
      BY <1>3, Zenon DEF SessionState
    <2>. QED
      BY <2>1, <1>3, Zenon
  <1>4. CASE z.s.mState # s
    <2>1. SessionState(z, s) = UpdateReadyToPlay(x)
      BY <1>4, Zenon DEF SessionState
    <2> HIDE DEF x
    <2>2. UpdateReadyToPlay(x).s =
            [x.s EXCEPT !.mReadyToPlay = x.s.mState = "OPENED" /\ x.s.mDemuxerReady]
      BY <1>1, UpdateReadyToPlayOK, Zenon
    <2>3. /\ UpdateReadyToPlay(x) \in StateType
          /\ UpdateReadyToPlay(x).d = z.d /\ UpdateReadyToPlay(x).r = z.r
          /\ UpdateReadyToPlay(x).out = z.out /\ UpdateReadyToPlay(x).ch = z.ch
          /\ UpdateReadyToPlay(x).est = z.est /\ UpdateReadyToPlay(x).loop = z.loop
          /\ UpdateReadyToPlay(x).unsynced = z.unsynced
      BY <1>1, UpdateReadyToPlayOK, Zenon
    <2>4. LET y == UpdateReadyToPlay(x) IN
          /\ y.s.mState = s
          /\ y.s.mReadyToPlay => (s = "OPENED" /\ z.s.mDemuxerReady)
          /\ y.s.mDemuxer = z.s.mDemuxer /\ y.s.deleting = z.s.deleting
          /\ y.s.mDemuxerReady = z.s.mDemuxerReady /\ y.s.owed = z.s.owed
          /\ y.s.opened = z.s.opened /\ y.s.closed = z.s.closed
      BY <1>1, <1>2, <2>2, ZenonT(60) DEF SessionType
    <2>. QED
      BY <2>1, <2>3, <2>4, Zenon
  <1>. QED
    BY <1>3, <1>4

\* An element that stops ends a close() that has waited for it.
LEMMA OnElementStoppedOK ==
  ASSUME NEW z \in StateType
  PROVE  LET y == OnElementStopped(z) IN
         /\ y \in StateType
         /\ y.d = z.d /\ y.r = z.r /\ y.out = z.out /\ y.ch = z.ch /\ y.est = z.est
         /\ y.loop = z.loop /\ y.unsynced = z.unsynced
         /\ y.s.mState = z.s.mState \/ (z.s.mState = "CLOSING" /\ y.s.mState = "CLOSED")
         /\ y.s.mReadyToPlay => z.s.mReadyToPlay
         /\ y.s.mDemuxer = z.s.mDemuxer /\ y.s.deleting = z.s.deleting
         /\ y.s.mDemuxerReady = z.s.mDemuxerReady /\ y.s.owed = z.s.owed
  <1> DEFINE x == SessionState(z, "CLOSED")
  <1>1. /\ x \in StateType
        /\ x.d = z.d /\ x.r = z.r /\ x.out = z.out /\ x.ch = z.ch /\ x.est = z.est
        /\ x.loop = z.loop /\ x.unsynced = z.unsynced
        /\ x.s.mState = "CLOSED"
        /\ x.s.mReadyToPlay => z.s.mReadyToPlay
        /\ x.s.mDemuxer = z.s.mDemuxer /\ x.s.deleting = z.s.deleting
        /\ x.s.mDemuxerReady = z.s.mDemuxerReady /\ x.s.owed = z.s.owed
    BY SessionStateOK, Zenon DEF SessionStates
  <1> HIDE DEF x
  <1>2. LET y == [x EXCEPT !.s.closed = 1] IN
        /\ y \in StateType
        /\ y.d = x.d /\ y.r = x.r /\ y.out = x.out /\ y.ch = x.ch /\ y.est = x.est
        /\ y.loop = x.loop /\ y.unsynced = x.unsynced
        /\ y.s.mState = x.s.mState /\ y.s.mReadyToPlay = x.s.mReadyToPlay
        /\ y.s.mDemuxer = x.s.mDemuxer /\ y.s.deleting = x.s.deleting
        /\ y.s.mDemuxerReady = x.s.mDemuxerReady /\ y.s.owed = x.s.owed
    <2>1. 1 \in 0..1
      OBVIOUS
    <2>. QED
      BY <1>1, <2>1, Zenon DEF StateType, SessionType
  <1>3. CASE z.s.mState = "CLOSING" /\ AllStopped(z)
    <2>1. OnElementStopped(z) = [x EXCEPT !.s.closed = 1]
      BY <1>3, Zenon DEF OnElementStopped, Closed, x
    <2>. QED
      BY <1>1, <1>2, <1>3, <2>1, Zenon
  <1>4. CASE ~(z.s.mState = "CLOSING" /\ AllStopped(z))
    <2>1. OnElementStopped(z) = z
      BY <1>4, Zenon DEF OnElementStopped
    <2>. QED
      BY <2>1, Zenon
  <1>. QED
    BY <1>3, <1>4

\* An element downstream that stops leaves the demuxer and its media alone.
LEMMA OnElementStoppedDown ==
  ASSUME NEW z, Good(z)
  PROVE  /\ Good(OnElementStopped(z))
         /\ Down(z, OnElementStopped(z)) /\ SameMedia(z, OnElementStopped(z))
  <1>1. z \in StateType
    BY Zenon DEF Good
  <1>2. DecoderLeft(OnElementStopped(z))
    <2>1. OnElementStopped(z).d = z.d /\ OnElementStopped(z).est = z.est
      BY <1>1, OnElementStoppedOK, Zenon
    <2>. QED
      BY <2>1, SMT DEF Good, DecoderLeft
  <1>. QED
    BY <1>1, <1>2, OnElementStoppedOK, Zenon DEF Good, Down, SameMedia

\* The demuxer that has stopped is to be deleted.
LEMMA OnDemuxerStoppedOK ==
  ASSUME NEW z \in StateType, z.s.mState # "OPENING"
  PROVE  LET y == OnDemuxerStopped(z) IN
         /\ y \in StateType
         /\ y.d = z.d /\ y.r = z.r /\ y.out = z.out /\ y.ch = z.ch /\ y.est = z.est
         /\ y.loop = z.loop /\ y.unsynced = z.unsynced
         /\ y.s.mState = z.s.mState \/ (z.s.mState = "CLOSING" /\ y.s.mState = "CLOSED")
         /\ y.s.mReadyToPlay => z.s.mReadyToPlay
         /\ y.s.mDemuxer = z.s.mDemuxer /\ y.s.deleting
         /\ y.s.mDemuxerReady = z.s.mDemuxerReady /\ y.s.owed = z.s.owed
  <1> DEFINE x == [z EXCEPT !.s.deleting = TRUE]
  <1>1. /\ x \in StateType
        /\ x.d = z.d /\ x.r = z.r /\ x.out = z.out /\ x.ch = z.ch /\ x.est = z.est
        /\ x.loop = z.loop /\ x.unsynced = z.unsynced
        /\ x.s.mState = z.s.mState /\ x.s.mReadyToPlay = z.s.mReadyToPlay
        /\ x.s.mDemuxer = z.s.mDemuxer /\ x.s.deleting
        /\ x.s.mDemuxerReady = z.s.mDemuxerReady /\ x.s.owed = z.s.owed
    BY Zenon DEF StateType, SessionType
  <1>2. \/ OnDemuxerStopped(z) = OnElementStopped(x)
        \/ OnDemuxerStopped(z) = [x EXCEPT !.s.mUrecoverableErrorOccured = TRUE]
    BY Zenon DEF OnDemuxerStopped
  <1> HIDE DEF x
  <1>3. CASE OnDemuxerStopped(z) = OnElementStopped(x)
    <2>1. LET y == OnElementStopped(x) IN
          /\ y \in StateType
          /\ y.d = x.d /\ y.r = x.r /\ y.out = x.out /\ y.ch = x.ch /\ y.est = x.est
          /\ y.loop = x.loop /\ y.unsynced = x.unsynced
          /\ y.s.mState = x.s.mState \/ (x.s.mState = "CLOSING" /\ y.s.mState = "CLOSED")
          /\ y.s.mReadyToPlay => x.s.mReadyToPlay
          /\ y.s.mDemuxer = x.s.mDemuxer /\ y.s.deleting = x.s.deleting
          /\ y.s.mDemuxerReady = x.s.mDemuxerReady /\ y.s.owed = x.s.owed
      BY <1>1, OnElementStoppedOK, Zenon
    <2>. QED
      BY <1>1, <1>3, <2>1, Zenon
  <1>4. CASE OnDemuxerStopped(z) = [x EXCEPT !.s.mUrecoverableErrorOccured = TRUE]
    <2>1. LET y == [x EXCEPT !.s.mUrecoverableErrorOccured = TRUE] IN
          /\ y \in StateType
          /\ y.d = x.d /\ y.r = x.r /\ y.out = x.out /\ y.ch = x.ch /\ y.est = x.est
          /\ y.loop = x.loop /\ y.unsynced = x.unsynced
          /\ y.s.mState = x.s.mState /\ y.s.mReadyToPlay = x.s.mReadyToPlay
          /\ y.s.mDemuxer = x.s.mDemuxer /\ y.s.deleting = x.s.deleting
          /\ y.s.mDemuxerReady = x.s.mDemuxerReady /\ y.s.owed = x.s.owed
      BY <1>1, Zenon DEF StateType, SessionType
    <2>. QED
      BY <1>1, <1>4, <2>1, Zenon
  <1>. QED
    BY <1>2, <1>3, <1>4, Zenon

\* The flags of a stop.
LEMMA FlagsReset ==
  ASSUME NEW z \in StateType
  PROVE  LET y == [z EXCEPT !.d.mChannelsReadyForStop = FALSE,
                            !.d.mNetworkReadyForStop = FALSE] IN
         /\ y \in StateType
         /\ y.d = [z.d EXCEPT !.mChannelsReadyForStop = FALSE, !.mNetworkReadyForStop = FALSE]
         /\ y.s = z.s /\ y.r = z.r /\ y.out = z.out /\ y.ch = z.ch /\ y.est = z.est
         /\ y.loop = z.loop /\ y.unsynced = z.unsynced
  BY ZenonT(60) DEF StateType, DemuxerType

\* A change of the state of the demuxer, before the session is told.
LEMMA StateSet ==
  ASSUME NEW z \in StateType, NEW state \in ElementStates
  PROVE  LET y == [z EXCEPT !.d.mState = state] IN
         /\ y \in StateType
         /\ y.d = [z.d EXCEPT !.mState = state]
         /\ y.s = z.s /\ y.r = z.r /\ y.out = z.out /\ y.ch = z.ch /\ y.est = z.est
         /\ y.loop = z.loop /\ y.unsynced = z.unsynced
  BY Zenon DEF StateType, DemuxerType

\* The end of a stop.
LEMMA StoppedOK ==
  ASSUME NEW z \in StateType, z.s.mState # "OPENING", z.d.mState # "STOPPED"
  PROVE  LET y == Stopped(z) IN
         /\ y \in StateType
         /\ y.d = [z.d EXCEPT !.mState = "STOPPED", !.mChannelsReadyForStop = FALSE,
                              !.mNetworkReadyForStop = FALSE]
         /\ y.r = z.r /\ y.out = z.out /\ y.ch = z.ch /\ y.est = z.est
         /\ y.loop = z.loop /\ y.unsynced = z.unsynced
         /\ y.s.mState = z.s.mState \/ (z.s.mState = "CLOSING" /\ y.s.mState = "CLOSED")
         /\ y.s.mReadyToPlay => z.s.mReadyToPlay
         /\ y.s.mDemuxer = z.s.mDemuxer /\ y.s.deleting
         /\ y.s.mDemuxerReady = z.s.mDemuxerReady /\ y.s.owed = z.s.owed
  <1> DEFINE x == [z EXCEPT !.d.mState = "STOPPED"]
             w == OnDemuxerStopped(x)
             v == [w EXCEPT !.d.mChannelsReadyForStop = FALSE, !.d.mNetworkReadyForStop = FALSE]
  <1>1. Stopped(z) = v
    BY Zenon DEF Stopped, SetState
  <1>2. /\ x \in StateType
        /\ x.d = [z.d EXCEPT !.mState = "STOPPED"]
        /\ x.s = z.s /\ x.r = z.r /\ x.out = z.out /\ x.ch = z.ch /\ x.est = z.est
        /\ x.loop = z.loop /\ x.unsynced = z.unsynced
    BY StateSet, Zenon DEF ElementStates
  <1>6. x.s.mState # "OPENING"
    BY <1>2, Zenon
  <1> HIDE DEF x
  <1>3. /\ w \in StateType
        /\ w.d = x.d /\ w.r = x.r /\ w.out = x.out /\ w.ch = x.ch /\ w.est = x.est
        /\ w.loop = x.loop /\ w.unsynced = x.unsynced
        /\ w.s.mState = x.s.mState \/ (x.s.mState = "CLOSING" /\ w.s.mState = "CLOSED")
        /\ w.s.mReadyToPlay => x.s.mReadyToPlay
        /\ w.s.mDemuxer = x.s.mDemuxer /\ w.s.deleting
        /\ w.s.mDemuxerReady = x.s.mDemuxerReady /\ w.s.owed = x.s.owed
    BY <1>2, <1>6, OnDemuxerStoppedOK, Zenon
  <1> HIDE DEF w
  <1>4. /\ v \in StateType
        /\ v.d = [w.d EXCEPT !.mChannelsReadyForStop = FALSE, !.mNetworkReadyForStop = FALSE]
        /\ v.s = w.s /\ v.r = w.r /\ v.out = w.out /\ v.ch = w.ch /\ v.est = w.est
        /\ v.loop = w.loop /\ v.unsynced = w.unsynced
    BY <1>3, FlagsReset, Zenon
  <1> HIDE DEF v
  <1>5. v.d = [z.d EXCEPT !.mState = "STOPPED", !.mChannelsReadyForStop = FALSE,
                          !.mNetworkReadyForStop = FALSE]
    BY <1>2, <1>3, <1>4, SMT DEF StateType, DemuxerType
  <1>7. /\ v.r = z.r /\ v.out = z.out /\ v.ch = z.ch /\ v.est = z.est
        /\ v.loop = z.loop /\ v.unsynced = z.unsynced
    BY <1>2, <1>3, <1>4, ZenonT(60)
  <1>8. /\ v.s.mState = z.s.mState \/ (z.s.mState = "CLOSING" /\ v.s.mState = "CLOSED")
        /\ v.s.mReadyToPlay => z.s.mReadyToPlay
        /\ v.s.mDemuxer = z.s.mDemuxer /\ v.s.deleting
        /\ v.s.mDemuxerReady = z.s.mDemuxerReady /\ v.s.owed = z.s.owed
    BY <1>2, <1>3, <1>4, ZenonT(60)
  <1>. QED
    BY <1>1, <1>4, <1>5, <1>7, <1>8, Zenon


-----------------------------------------------------------------------------
(* What is done downstream of the demuxer, operator by operator.           *)

\* A stop whose network is ready ends.
LEMMA StoppedDown ==
  ASSUME NEW z, Good(z), z.s.mState # "OPENING", z.d.mState = "STOPPING",
         z.d.mNetworkReadyForStop
  PROVE  Good(Stopped(z)) /\ Down(z, Stopped(z))
  <1> DEFINE y == Stopped(z)
  <1>1. z \in StateType /\ z.d \in DemuxerType
    BY Zenon DEF Good, StateType
  <1>2. /\ y \in StateType
        /\ y.d = [z.d EXCEPT !.mState = "STOPPED", !.mChannelsReadyForStop = FALSE,
                             !.mNetworkReadyForStop = FALSE]
        /\ y.r = z.r /\ y.est = z.est /\ y.loop = z.loop
        /\ y.s.mState = z.s.mState \/ (z.s.mState = "CLOSING" /\ y.s.mState = "CLOSED")
        /\ y.s.mReadyToPlay => z.s.mReadyToPlay
        /\ y.s.mDemuxer = z.s.mDemuxer /\ y.s.deleting
        /\ y.s.mDemuxerReady = z.s.mDemuxerReady /\ y.s.owed = z.s.owed
    BY <1>1, StoppedOK, Zenon
  <1> HIDE DEF y
  <1>3. /\ y.d.rtsp = z.d.rtsp /\ y.d.mRtspState = z.d.mRtspState
        /\ y.d.mRtspSessionId = z.d.mRtspSessionId /\ y.d.mContentBase = z.d.mContentBase
        /\ y.d.socks = z.d.socks /\ y.d.mReceiver = z.d.mReceiver
        /\ y.d.leaked = z.d.leaked /\ y.d.mSeeking = z.d.mSeeking
        /\ y.d.mState = "STOPPED" /\ y.d.mCodecInfoChanging = z.d.mCodecInfoChanging
        /\ ~y.d.mNetworkReadyForStop
    BY <1>1, <1>2, ZenonT(60) DEF DemuxerType
  <1>4. DecoderLeft(y)
    BY <1>2, <1>3, SMT DEF Good, DecoderLeft
  <1>5. Good(y)
    BY <1>2, <1>4, Zenon DEF Good
  <1>6. Down(z, y)
    BY <1>2, <1>3, Zenon DEF Down
  <1>. QED
    BY <1>5, <1>6 DEF y

\* A flag of the demuxer that nothing here is about.
LEMMA SyncPendingSet ==
  ASSUME NEW z \in StateType, NEW b \in BOOLEAN
  PROVE  LET y == [z EXCEPT !.d.mIdrFrameSyncPending = b] IN
         /\ y \in StateType /\ y.ch = z.ch
         /\ Down(z, y) /\ SameMedia(z, y)
  BY ZenonT(60) DEF StateType, DemuxerType, Down, SameMedia

\* A frame is queued: the channels change, and nothing else.
LEMMA QueueOK ==
  ASSUME NEW z \in StateType, NEW sync \in BOOLEAN
  PROVE  LET y == Queue(z, sync) IN
         y \in StateType /\ Down(z, y) /\ SameMedia(z, y)
  <1> DEFINE ch == [c \in Chans |->
                 IF Accepts(z, c)
                 THEN [z.ch[c] EXCEPT !.flushed = FALSE, !.synced = @ \/ sync]
                 ELSE z.ch[c]]
             un == z.unsynced \/ (~sync /\ \E c \in Chans : Accepts(z, c) /\ ~z.ch[c].synced)
  <1>1. ASSUME NEW q \in ChanType
        PROVE  [q EXCEPT !.flushed = FALSE, !.synced = @ \/ sync] \in ChanType
    BY Zenon DEF ChanType
  <1>2. z.ch \in [Chans -> ChanType]
    BY Zenon DEF StateType
  <1>3. ch \in [Chans -> ChanType]
    BY <1>1, <1>2, Zenon
  <1>4. un \in BOOLEAN
    BY Zenon
  <1>5. Queue(z, sync) = [z EXCEPT !.ch = ch, !.unsynced = un]
    BY Zenon DEF Queue
  <1> HIDE DEF ch, un
  <1>6. [z EXCEPT !.ch = ch, !.unsynced = un] \in StateType
    BY <1>3, <1>4, Zenon DEF StateType
  <1>7. LET y == [z EXCEPT !.ch = ch, !.unsynced = un]
        IN  y.d = z.d /\ y.s = z.s /\ y.r = z.r /\ y.out = z.out /\ y.est = z.est
            /\ y.loop = z.loop
    BY Zenon DEF StateType
  <1>. QED
    BY <1>5, <1>6, <1>7, Zenon DEF Down, SameMedia

\* A decoder is left after what leaves the elements and the parameter sets.
LEMMA SameMediaLeft ==
  ASSUME NEW z, NEW y, DecoderLeft(z), SameMedia(z, y)
  PROVE  DecoderLeft(y)
  BY SMT DEF DecoderLeft, SameMedia

\* SameMedia is transitive.
LEMMA SameMediaTransitive ==
  ASSUME NEW x, NEW y, NEW z, SameMedia(x, y), SameMedia(y, z)
  PROVE  SameMedia(x, z)
  BY Zenon DEF SameMedia

\* Nothing is the same as itself unless it is done.
LEMMA NothingDone ==
  ASSUME NEW z
  PROVE  Down(z, z) /\ SameMedia(z, z)
  BY Zenon DEF Down, SameMedia

\* idrFrameSync() and onChannelResync()
LEMMA IdrFrameSyncOK ==
  ASSUME NEW z, Good(z)
  PROVE  LET y == IdrFrameSync(z) IN Good(y) /\ Down(z, y) /\ SameMedia(z, y)
  <1>1. z \in StateType
    BY Zenon DEF Good
  <1> DEFINE q == Queue(z, TRUE)
             y == [q EXCEPT !.d.mIdrFrameSyncPending = FALSE]
  <1>2. q \in StateType /\ Down(z, q) /\ SameMedia(z, q)
    BY <1>1, QueueOK, Zenon
  <1> HIDE DEF q
  <1>3. y \in StateType /\ Down(q, y) /\ SameMedia(q, y)
    BY <1>2, SyncPendingSet, Zenon
  <1> HIDE DEF y
  <1>4. Down(z, y) /\ SameMedia(z, y)
    BY <1>2, <1>3, DownTransitive, SameMediaTransitive, Zenon
  <1>5. Good(y)
    BY <1>3, <1>4, SameMediaLeft, Zenon DEF Good
  <1>6. IdrFrameSync(z) = z \/ IdrFrameSync(z) = y
    BY Zenon DEF IdrFrameSync, y, q
  <1>. QED
    BY <1>4, <1>5, <1>6, NothingDone, Zenon

LEMMA OnChannelResyncOK ==
  ASSUME NEW z, Good(z)
  PROVE  LET y == OnChannelResync(z) IN Good(y) /\ Down(z, y) /\ SameMedia(z, y)
  <1> DEFINE x == [z EXCEPT !.d.mIdrFrameSyncPending = TRUE]
  <1>1. x \in StateType /\ Down(z, x) /\ SameMedia(z, x)
    BY SyncPendingSet, Zenon DEF Good
  <1>2. OnChannelResync(z) = IdrFrameSync(x)
    BY Zenon DEF OnChannelResync
  <1> HIDE DEF x
  <1>3. Good(x)
    BY <1>1, SameMediaLeft, Zenon DEF Good
  <1>4. LET y == IdrFrameSync(x) IN Good(y) /\ Down(x, y) /\ SameMedia(x, y)
    BY <1>3, IdrFrameSyncOK, Zenon
  <1>. QED
    BY <1>1, <1>2, <1>4, DownTransitive, SameMediaTransitive, Zenon

\* removeOutputChannel() takes one channel away and no other.
LEMMA WithoutOK ==
  ASSUME NEW S, NEW s \in Seq(S), NEW c, \E i \in DOMAIN s : s[i] = c
  PROVE  /\ Without(s, c) \in Seq(S)
         /\ Len(Without(s, c)) = Len(s) - 1
         /\ \A i \in DOMAIN s : s[i] # c =>
               \E j \in DOMAIN Without(s, c) : Without(s, c)[j] = s[i]
  <1> DEFINE i == CHOOSE k \in DOMAIN s : s[k] = c
             t == [j \in 1..(Len(s) - 1) |-> IF j < i THEN s[j] ELSE s[j + 1]]
  <1>1. i \in DOMAIN s /\ s[i] = c
    BY Zenon
  <1> HIDE DEF i
  <1>2. Without(s, c) = t
    BY Zenon DEF Without, i
  <1>3. i \in 1..Len(s) /\ Len(s) \in Nat /\ DOMAIN s = 1..Len(s)
    BY <1>1
  <1>4. t \in Seq(S) /\ Len(t) = Len(s) - 1
    <2>1. \A j \in 1..(Len(s) - 1) : t[j] \in S
      BY <1>3
    <2>2. DOMAIN t = 1..(Len(s) - 1) /\ Len(s) - 1 \in Nat
      BY <1>3
    <2>. QED
      BY <2>1, <2>2, <1>3
  <1>5. ASSUME NEW k \in DOMAIN s, s[k] # c
        PROVE  \E j \in DOMAIN t : t[j] = s[k]
    <2>1. CASE k < i
      <3>1. k \in DOMAIN t /\ t[k] = s[k]
        BY <1>3, <2>1
      <3>. QED
        BY <3>1, Zenon
    <2>2. CASE k > i
      <3>1. (k - 1) \in DOMAIN t /\ t[k - 1] = s[k]
        BY <1>3, <2>2
      <3>. QED
        BY <3>1, Zenon
    <2>. QED
      BY <1>1, <1>3, <1>5, <2>1, <2>2
  <1> HIDE DEF t
  <1>. QED
    BY <1>2, <1>4, <1>5, Zenon

\* A new element is linked to the media.
LEMMA LinkOK ==
  ASSUME NEW z \in StateType, NEW c \in Chans
  PROVE  LET y == Link(z, c) IN
         /\ y \in StateType /\ Down(z, y)
         /\ y.out = Append(z.out, c) /\ y.est = [z.est EXCEPT ![c] = "STARTED"]
         /\ y.d = z.d /\ y.loop = z.loop
  <1>1. /\ z.out \in Seq(Chans) /\ z.ch \in [Chans -> ChanType]
        /\ z.est \in [Chans -> {"none", "STARTED", "STOPPING"}]
    BY Zenon DEF StateType
  <1> DEFINE o == Append(z.out, c)
             h == [z.ch EXCEPT ![c] = NewChan]
             e == [z.est EXCEPT ![c] = "STARTED"]
  <1>2. o \in Seq(Chans)
    BY <1>1
  <1>3. h \in [Chans -> ChanType] /\ e \in [Chans -> {"none", "STARTED", "STOPPING"}]
    BY <1>1, Zenon DEF NewChan, ChanType
  <1>4. Link(z, c) = [z EXCEPT !.out = o, !.ch = h, !.est = e]
    BY Zenon DEF Link
  <1> HIDE DEF o, h, e
  <1>5. [z EXCEPT !.out = o, !.ch = h, !.est = e] \in StateType
    BY <1>2, <1>3, Zenon DEF StateType
  <1>6. LET y == [z EXCEPT !.out = o, !.ch = h, !.est = e] IN
        /\ y.d = z.d /\ y.s = z.s /\ y.r = z.r /\ y.out = o /\ y.est = e /\ y.loop = z.loop
    BY Zenon DEF StateType
  <1>. QED
    BY <1>4, <1>5, <1>6, Zenon DEF Down, o, e

\* The media, and the parameter sets it is made for.
LEMMA MediaSet ==
  ASSUME NEW z \in StateType
  PROVE  LET y == [z EXCEPT !.d.mVideoMedia = z.d.mCodecInfo,
                            !.d.mIdrFrameSyncPending = TRUE] IN
         /\ y \in StateType /\ Down(z, y)
         /\ y.loop = z.loop /\ y.d.mState = z.d.mState
         /\ y.d.mVideoMedia = z.d.mCodecInfo /\ y.d.mCodecInfo = z.d.mCodecInfo
         /\ y.d.mCodecInfoChanging = z.d.mCodecInfoChanging
         /\ y.d.mChannelsReadyForStop = z.d.mChannelsReadyForStop
         /\ y.out = z.out /\ y.est = z.est
  <1> DEFINE y == [z EXCEPT !.d.mVideoMedia = z.d.mCodecInfo,
                        !.d.mIdrFrameSyncPending = TRUE]
  <1>1. y \in StateType
    BY Zenon DEF StateType, DemuxerType
  <1>2. Down(z, y)
    BY Zenon DEF StateType, DemuxerType, Down
  <1>3. /\ y.loop = z.loop /\ y.d.mState = z.d.mState
        /\ y.d.mVideoMedia = z.d.mCodecInfo /\ y.d.mCodecInfo = z.d.mCodecInfo
        /\ y.d.mCodecInfoChanging = z.d.mCodecInfoChanging
        /\ y.d.mChannelsReadyForStop = z.d.mChannelsReadyForStop
        /\ y.out = z.out /\ y.est = z.est
    BY Zenon DEF StateType, DemuxerType
  <1>. QED
    BY <1>1, <1>2, <1>3

\* The media of the parameter sets is made, for a decoder that is left.
LEMMA SetupInputMediaOK ==
  ASSUME NEW z, Good(z), ~z.d.mCodecInfoChanging,
         DecodeAll => \E c \in Decoders : z.est[c] = "none"
  PROVE  LET y == SetupInputMedia(z) IN
         /\ Good(y) /\ Down(z, y)
         /\ \/ /\ SameMedia(z, y)
               /\ z.d.mState # "STARTED" \/ z.d.mCodecInfo = None \/ z.d.mVideoMedia # None
            \/ /\ z.d.mState = "STARTED" /\ z.d.mCodecInfo # None /\ z.d.mVideoMedia = None
               /\ y.loop = z.loop /\ y.d.mState = z.d.mState
               /\ y.d.mVideoMedia = z.d.mCodecInfo /\ y.d.mCodecInfo = z.d.mCodecInfo
               /\ y.d.mCodecInfoChanging = z.d.mCodecInfoChanging
               /\ y.d.mChannelsReadyForStop = z.d.mChannelsReadyForStop
               /\ DecodeAll => \E c \in Decoders : /\ y.out = Append(z.out, c)
                                                   /\ y.est = [z.est EXCEPT ![c] = "STARTED"]
  <1>1. z \in StateType
    BY Zenon DEF Good
  <1>2. CASE z.d.mState # "STARTED" \/ z.d.mCodecInfo = None \/ z.d.mVideoMedia # None
    <2>1. SetupInputMedia(z) = z
      BY <1>2, Zenon DEF SetupInputMedia
    <2>. QED
      BY <1>2, <2>1, NothingDone, Zenon
  <1>3. CASE z.d.mState = "STARTED" /\ z.d.mCodecInfo # None /\ z.d.mVideoMedia = None
    <2> DEFINE y == [z EXCEPT !.d.mVideoMedia = z.d.mCodecInfo,
                              !.d.mIdrFrameSyncPending = TRUE]
               w == IF DecodeAll THEN Link(y, FreeDecoder(y)) ELSE y
    <2>1. SetupInputMedia(z) = IdrFrameSync(w)
      BY <1>3, Zenon DEF SetupInputMedia
    <2>2. /\ y \in StateType /\ Down(z, y)
          /\ y.loop = z.loop /\ y.d.mState = z.d.mState
          /\ y.d.mVideoMedia = z.d.mCodecInfo /\ y.d.mCodecInfo = z.d.mCodecInfo
          /\ y.d.mCodecInfoChanging = z.d.mCodecInfoChanging
          /\ y.d.mChannelsReadyForStop = z.d.mChannelsReadyForStop
          /\ y.out = z.out /\ y.est = z.est
      BY <1>1, MediaSet, Zenon
    <2> HIDE DEF y
    <2>3. DecodeAll => FreeDecoder(y) \in Decoders
      BY <2>2, Zenon DEF FreeDecoder
    <2>4. /\ w \in StateType /\ Down(y, w) /\ w.d = y.d /\ w.loop = y.loop
          /\ DecodeAll => /\ w.out = Append(y.out, FreeDecoder(y))
                          /\ w.est = [y.est EXCEPT ![FreeDecoder(y)] = "STARTED"]
      <3>1. CASE DecodeAll
        <4>1. FreeDecoder(y) \in Chans
          BY <3>1, <2>3, Zenon DEF Chans
        <4>. QED
          BY <2>2, <3>1, <4>1, LinkOK, Zenon
      <3>2. CASE ~DecodeAll
        <4>1. w = y
          BY <3>2, Zenon
        <4>. QED
          BY <2>2, <3>2, <4>1, NothingDone, Zenon
      <3>. QED
        BY <3>1, <3>2
    <2> HIDE DEF w
    <2>5. Good(w)
      BY <2>2, <2>4, Zenon DEF Good, DecoderLeft
    <2> DEFINE v == IdrFrameSync(w)
    <2>6. Good(v) /\ Down(w, v) /\ SameMedia(w, v)
      BY <2>5, IdrFrameSyncOK, Zenon
    <2> HIDE DEF v
    <2>7. Down(z, v)
      BY <2>2, <2>4, <2>6, DownTransitive, Zenon
    <2>8. /\ v.loop = z.loop /\ v.d.mState = z.d.mState
          /\ v.d.mVideoMedia = z.d.mCodecInfo /\ v.d.mCodecInfo = z.d.mCodecInfo
          /\ v.d.mCodecInfoChanging = z.d.mCodecInfoChanging
          /\ v.d.mChannelsReadyForStop = z.d.mChannelsReadyForStop
      BY <2>2, <2>4, <2>6, ZenonT(60) DEF SameMedia
    <2>9. DecodeAll => /\ v.out = Append(z.out, FreeDecoder(y))
                       /\ v.est = [z.est EXCEPT ![FreeDecoder(y)] = "STARTED"]
      BY <2>2, <2>4, <2>6, Zenon DEF SameMedia
    <2>. QED
      BY <1>3, <2>1, <2>3, <2>6, <2>7, <2>8, <2>9, Zenon DEF v
  <1>. QED
    BY <1>2, <1>3

-----------------------------------------------------------------------------
(* The media and its channels, as long as there is a decoder for the media. *)

Half(z) == z.d.mVideoMedia = None => z.out = <<>>
Linked(z) == z.d.mVideoMedia = None <=> z.out = <<>>
MediaGone(z) ==
    z.d.mState = "STOPPED" \/ (z.d.mState = "STOPPING" /\ z.d.mChannelsReadyForStop)
    => z.d.mVideoMedia = None
Decoded(z) == \E c \in Decoders : InOut(z, c) /\ z.est[c] = "STARTED"
Current(z) ==
    z.d.mState = "STARTED" /\ ~z.d.mCodecInfoChanging =>
        z.d.mVideoMedia = z.d.mCodecInfo /\ (z.d.mVideoMedia # None => Decoded(z))

\* What no operator on the channels breaks.
MediaKept(z, y) ==
    /\ y.loop = z.loop /\ y.d.mCodecInfo = z.d.mCodecInfo
    /\ z.d.mState # "STARTED" /\ z.d.mVideoMedia = None => y.d.mVideoMedia = None
    /\ DecodeAll /\ Linked(z) => Linked(y)
    /\ DecodeAll /\ Linked(z) /\ MediaGone(z) => MediaGone(y)
    /\ DecodeAll /\ Linked(z) /\ Current(z) => Current(y)

\* MediaKept is transitive for states that follow each other downstream, and
\* covers what leaves the media alone.
LEMMA MediaKeptTransitive ==
  ASSUME NEW x, NEW y, NEW z, MediaKept(x, y), MediaKept(y, z), Down(x, y)
  PROVE  MediaKept(x, z)
  <1>1. x.d.mState # "STARTED" => y.d.mState # "STARTED"
    BY Zenon DEF Down
  <1>. QED
    BY <1>1, Zenon DEF MediaKept

LEMMA SameMediaKept ==
  ASSUME NEW z, NEW y, SameMedia(z, y)
  PROVE  MediaKept(z, y)
  <1>1. Linked(z) => Linked(y)
    BY Zenon DEF Linked, SameMedia
  <1>2. MediaGone(z) => MediaGone(y)
    BY Zenon DEF MediaGone, SameMedia
  <1>3. Decoded(z) => Decoded(y)
    BY Zenon DEF Decoded, InOut, SameMedia
  <1>4. Current(z) => Current(y)
    BY <1>3, Zenon DEF Current, SameMedia
  <1>. QED
    BY <1>1, <1>2, <1>4, Zenon DEF MediaKept, SameMedia

\* The media is gone.
LEMMA MediaUnset ==
  ASSUME NEW z \in StateType
  PROVE  LET y == [z EXCEPT !.d.mVideoMedia = None] IN
         /\ y \in StateType /\ Down(z, y)
         /\ y.loop = z.loop /\ y.out = z.out /\ y.est = z.est /\ y.s = z.s
         /\ y.d.mVideoMedia = None /\ y.d.mCodecInfo = z.d.mCodecInfo
         /\ y.d.mState = z.d.mState
         /\ y.d.mNetworkReadyForStop = z.d.mNetworkReadyForStop
         /\ y.d.mCodecInfoChanging = z.d.mCodecInfoChanging
         /\ y.d.mChannelsReadyForStop = z.d.mChannelsReadyForStop
  <1> DEFINE y == [z EXCEPT !.d.mVideoMedia = None]
  <1>1. y \in StateType
    BY Zenon DEF StateType, DemuxerType
  <1>2. Down(z, y)
    BY Zenon DEF StateType, DemuxerType, Down
  <1>3. /\ y.loop = z.loop /\ y.out = z.out /\ y.est = z.est /\ y.s = z.s
        /\ y.d.mVideoMedia = None /\ y.d.mCodecInfo = z.d.mCodecInfo
        /\ y.d.mState = z.d.mState
        /\ y.d.mNetworkReadyForStop = z.d.mNetworkReadyForStop
        /\ y.d.mCodecInfoChanging = z.d.mCodecInfoChanging
        /\ y.d.mChannelsReadyForStop = z.d.mChannelsReadyForStop
    BY Zenon DEF StateType, DemuxerType
  <1>. QED
    BY <1>1, <1>2, <1>3

\* The channels are ready for the stop.
LEMMA ChannelsReady ==
  ASSUME NEW z \in StateType
  PROVE  LET y == [z EXCEPT !.d.mChannelsReadyForStop = TRUE] IN
         /\ y \in StateType /\ Down(z, y)
         /\ y.loop = z.loop /\ y.out = z.out /\ y.est = z.est
         /\ y.d.mVideoMedia = z.d.mVideoMedia /\ y.d.mCodecInfo = z.d.mCodecInfo
         /\ y.d.mState = z.d.mState /\ y.d.mCodecInfoChanging = z.d.mCodecInfoChanging
  <1> DEFINE y == [z EXCEPT !.d.mChannelsReadyForStop = TRUE]
  <1>1. y \in StateType
    BY Zenon DEF StateType, DemuxerType
  <1>2. Down(z, y)
    BY Zenon DEF StateType, DemuxerType, Down
  <1>3. /\ y.loop = z.loop /\ y.out = z.out /\ y.est = z.est
        /\ y.d.mVideoMedia = z.d.mVideoMedia /\ y.d.mCodecInfo = z.d.mCodecInfo
        /\ y.d.mState = z.d.mState /\ y.d.mCodecInfoChanging = z.d.mCodecInfoChanging
    BY Zenon DEF StateType, DemuxerType
  <1>. QED
    BY <1>1, <1>2, <1>3

\* The parameter sets have changed.
LEMMA ChangingReset ==
  ASSUME NEW z \in StateType
  PROVE  LET y == [z EXCEPT !.d.mCodecInfoChanging = FALSE] IN
         /\ y \in StateType /\ Down(z, y)
         /\ y.loop = z.loop /\ y.out = z.out /\ y.est = z.est
         /\ y.d.mVideoMedia = z.d.mVideoMedia /\ y.d.mCodecInfo = z.d.mCodecInfo
         /\ y.d.mState = z.d.mState /\ ~y.d.mCodecInfoChanging
         /\ y.d.mChannelsReadyForStop = z.d.mChannelsReadyForStop
  <1> DEFINE y == [z EXCEPT !.d.mCodecInfoChanging = FALSE]
  <1>1. y \in StateType
    BY Zenon DEF StateType, DemuxerType
  <1>2. Down(z, y)
    BY Zenon DEF StateType, DemuxerType, Down
  <1>3. /\ y.loop = z.loop /\ y.out = z.out /\ y.est = z.est
        /\ y.d.mVideoMedia = z.d.mVideoMedia /\ y.d.mCodecInfo = z.d.mCodecInfo
        /\ y.d.mState = z.d.mState /\ ~y.d.mCodecInfoChanging
        /\ y.d.mChannelsReadyForStop = z.d.mChannelsReadyForStop
    BY Zenon DEF StateType, DemuxerType
  <1>. QED
    BY <1>1, <1>2, <1>3

\* completeTeardown(): the media goes with its last channel, which ends what was
\* waiting for it, and a new one is made for changed parameter sets.
LEMMA CompleteTeardownOK ==
  ASSUME NEW z, Good(z), z.s.mState # "OPENING"
  PROVE  LET y == CompleteTeardown(z) IN
         /\ Good(y) /\ Down(z, y)
         /\ y.loop = z.loop /\ y.d.mCodecInfo = z.d.mCodecInfo
         /\ z.d.mState # "STARTED" /\ z.d.mVideoMedia = None => y.d.mVideoMedia = None
         /\ DecodeAll /\ Half(z) => Linked(y)
         /\ DecodeAll /\ Half(z) /\ MediaGone(z) => MediaGone(y)
         /\ DecodeAll /\ Half(z) /\ Current(z) => Current(y)
         /\ Half(z) /\ z.out # <<>> => y = z
  <1>1. z \in StateType
    BY Zenon DEF Good
  <1>2. CASE z.d.mVideoMedia # None /\ z.out # <<>>
    <2>1. CompleteTeardown(z) = z
      BY <1>2, Zenon DEF CompleteTeardown
    <2>. QED
      BY <1>2, <2>1, NothingDone, Zenon DEF Linked
  <1>3. CASE ~(z.d.mVideoMedia # None /\ z.out # <<>>)
    <2>1. Half(z) => z.out = <<>>
      BY <1>3, Zenon DEF Half
    <2> DEFINE y == [z EXCEPT !.d.mVideoMedia = None]
    <2>2. /\ y \in StateType /\ Down(z, y)
          /\ y.loop = z.loop /\ y.out = z.out /\ y.est = z.est /\ y.s = z.s
          /\ y.d.mVideoMedia = None /\ y.d.mCodecInfo = z.d.mCodecInfo
          /\ y.d.mState = z.d.mState
          /\ y.d.mNetworkReadyForStop = z.d.mNetworkReadyForStop
          /\ y.d.mCodecInfoChanging = z.d.mCodecInfoChanging
          /\ y.d.mChannelsReadyForStop = z.d.mChannelsReadyForStop
      BY <1>1, MediaUnset, Zenon
    <2> DEFINE w == [y EXCEPT !.d.mChannelsReadyForStop = TRUE]
               v == [y EXCEPT !.d.mCodecInfoChanging = FALSE]
               r == CompleteTeardown(z)
    <2>3. CompleteTeardown(z) =
             IF z.d.mState = "STOPPING"
             THEN IF z.d.mNetworkReadyForStop THEN Stopped(y) ELSE w
             ELSE IF z.d.mCodecInfoChanging THEN SetupInputMedia(v) ELSE y
      BY <1>3, Zenon DEF CompleteTeardown
    <2> HIDE DEF y
    <2>4. Good(y)
      BY <2>2, Zenon DEF Good, DecoderLeft
    <2>5. CASE z.d.mState = "STOPPING" /\ z.d.mNetworkReadyForStop
      <3>1. r = Stopped(y)
        BY <2>3, <2>5, Zenon
      <3>2. y.s.mState # "OPENING" /\ y.d.mState = "STOPPING" /\ y.d.mNetworkReadyForStop
        BY <2>2, <2>5, Zenon
      <3> HIDE DEF r
      <3>3. Good(r) /\ Down(y, r)
        BY <2>4, <3>1, <3>2, StoppedDown, Zenon
      <3>4. /\ r.d = [y.d EXCEPT !.mState = "STOPPED", !.mChannelsReadyForStop = FALSE,
                                 !.mNetworkReadyForStop = FALSE]
            /\ r.out = y.out /\ r.loop = y.loop
        BY <2>2, <3>1, <3>2, StoppedOK, Zenon
      <3>5. /\ r.d.mVideoMedia = y.d.mVideoMedia /\ r.d.mCodecInfo = y.d.mCodecInfo
            /\ r.d.mState = "STOPPED"
        BY <2>2, <3>4, Zenon DEF StateType, DemuxerType
      <3>6. (Half(z) => Linked(r)) /\ MediaGone(r) /\ Current(r)
        BY <2>1, <2>2, <3>4, <3>5, Zenon DEF Linked, MediaGone, Current
      <3>7. Down(z, r)
        BY <2>2, <3>3, DownTransitive, Zenon
      <3>. QED
        BY <2>1, <2>2, <3>3, <3>4, <3>5, <3>6, <3>7, Zenon DEF r
    <2>6. CASE z.d.mState = "STOPPING" /\ ~z.d.mNetworkReadyForStop
      <3>1. r = w
        BY <2>3, <2>6, Zenon
      <3>2. /\ w \in StateType /\ Down(y, w)
            /\ w.loop = y.loop /\ w.out = y.out /\ w.est = y.est
            /\ w.d.mVideoMedia = y.d.mVideoMedia /\ w.d.mCodecInfo = y.d.mCodecInfo
            /\ w.d.mState = y.d.mState /\ w.d.mCodecInfoChanging = y.d.mCodecInfoChanging
        BY <2>2, ChannelsReady, Zenon
      <3> HIDE DEF w, r
      <3>3. Good(w)
        BY <2>4, <3>2, Zenon DEF Good, DecoderLeft
      <3>4. (Half(z) => Linked(w)) /\ MediaGone(w) /\ Current(w)
        BY <2>1, <2>2, <2>6, <3>2, Zenon DEF Linked, MediaGone, Current
      <3>5. Down(z, w)
        BY <2>2, <3>2, DownTransitive, Zenon
      <3>. QED
        BY <2>1, <2>2, <3>1, <3>2, <3>3, <3>4, <3>5, Zenon DEF r
    <2>7. CASE z.d.mState # "STOPPING" /\ z.d.mCodecInfoChanging
      <3>1. r = SetupInputMedia(v)
        BY <2>3, <2>7, Zenon
      <3>2. /\ v \in StateType /\ Down(y, v)
            /\ v.loop = y.loop /\ v.out = y.out /\ v.est = y.est
            /\ v.d.mVideoMedia = y.d.mVideoMedia /\ v.d.mCodecInfo = y.d.mCodecInfo
            /\ v.d.mState = y.d.mState /\ ~v.d.mCodecInfoChanging
            /\ v.d.mChannelsReadyForStop = y.d.mChannelsReadyForStop
        BY <2>2, ChangingReset, Zenon
      <3> HIDE DEF v, r
      <3>3. DecodeAll => \E c \in Decoders : v.est[c] = "none"
        BY <2>2, <2>7, <3>2, Zenon DEF Good, DecoderLeft
      <3>4. Good(v)
        BY <3>2, Zenon DEF Good, DecoderLeft
      <3>5. /\ Good(r) /\ Down(v, r)
            /\ \/ /\ SameMedia(v, r)
                  /\ v.d.mState # "STARTED" \/ v.d.mCodecInfo = None \/ v.d.mVideoMedia # None
               \/ /\ v.d.mState = "STARTED" /\ v.d.mCodecInfo # None /\ v.d.mVideoMedia = None
                  /\ r.loop = v.loop /\ r.d.mState = v.d.mState
                  /\ r.d.mVideoMedia = v.d.mCodecInfo /\ r.d.mCodecInfo = v.d.mCodecInfo
                  /\ r.d.mCodecInfoChanging = v.d.mCodecInfoChanging
                  /\ r.d.mChannelsReadyForStop = v.d.mChannelsReadyForStop
                  /\ DecodeAll => \E c \in Decoders :
                                     /\ r.out = Append(v.out, c)
                                     /\ r.est = [v.est EXCEPT ![c] = "STARTED"]
        BY <3>1, <3>2, <3>3, <3>4, SetupInputMediaOK, Zenon
      <3>6. Down(z, r)
        BY <2>2, <3>2, <3>5, DownTransitive, Zenon
      <3>7. CASE SameMedia(v, r) /\ (v.d.mState # "STARTED" \/ v.d.mCodecInfo = None
                                     \/ v.d.mVideoMedia # None)
        <4>1. /\ r.loop = z.loop /\ r.d.mCodecInfo = z.d.mCodecInfo
              /\ r.d.mVideoMedia = None /\ r.out = z.out
              /\ r.d.mState = z.d.mState /\ r.d.mState # "STOPPING"
              /\ r.d.mState # "STARTED" \/ r.d.mCodecInfo = None
          BY <2>2, <2>7, <3>2, <3>7, ZenonT(60) DEF SameMedia
        <4>2. (Half(z) => Linked(r)) /\ MediaGone(r) /\ Current(r)
          BY <2>1, <4>1, Zenon DEF Linked, MediaGone, Current
        <4>. QED
          BY <2>1, <3>5, <3>6, <4>1, <4>2, Zenon DEF r
      <3>8. CASE ~(SameMedia(v, r) /\ (v.d.mState # "STARTED" \/ v.d.mCodecInfo = None
                                       \/ v.d.mVideoMedia # None))
        <4>1. /\ r.loop = z.loop /\ r.d.mCodecInfo = z.d.mCodecInfo
              /\ z.d.mState = "STARTED" /\ r.d.mState = "STARTED"
              /\ r.d.mVideoMedia = z.d.mCodecInfo /\ z.d.mCodecInfo # None
          BY <2>2, <3>2, <3>5, <3>8, Zenon
        <4>2. DecodeAll => \E c \in Decoders : /\ r.out = Append(z.out, c)
                                               /\ r.est = [z.est EXCEPT ![c] = "STARTED"]
          <5>1. v.out = z.out /\ v.est = z.est
            BY <2>2, <3>2, Zenon
          <5>2. DecodeAll => \E c \in Decoders : /\ r.out = Append(v.out, c)
                                                 /\ r.est = [v.est EXCEPT ![c] = "STARTED"]
            BY <3>5, <3>8, Zenon
          <5>. QED
            BY <5>1, <5>2, SMT
        <4>3. DecodeAll /\ Half(z) => r.out # <<>> /\ Decoded(r)
          <5> SUFFICES ASSUME DecodeAll, Half(z) PROVE r.out # <<>> /\ Decoded(r)
            OBVIOUS
          <5>1. PICK c \in Decoders : /\ r.out = Append(z.out, c)
                                      /\ r.est = [z.est EXCEPT ![c] = "STARTED"]
            BY <4>2, Zenon
          <5>2. r.out # <<>> /\ 1 \in DOMAIN r.out /\ r.out[1] = c
            BY <2>1, <5>1, SMT
          <5>3. c \in DOMAIN z.est
            BY <1>1, Zenon DEF StateType, Chans
          <5>4. r.est[c] = "STARTED"
            BY <5>1, <5>3, Zenon
          <5>. QED
            BY <5>2, <5>4, Zenon DEF Decoded, InOut
        <4>4. DecodeAll /\ Half(z) => Linked(r) /\ MediaGone(r) /\ Current(r)
          BY <4>1, <4>3, Zenon DEF Linked, MediaGone, Current
        <4>. QED
          BY <2>1, <3>5, <3>6, <4>1, <4>4, Zenon DEF r
      <3>. QED
        BY <3>7, <3>8
    <2>8. CASE z.d.mState # "STOPPING" /\ ~z.d.mCodecInfoChanging
      <3>1. r = y
        BY <2>3, <2>8, Zenon
      <3>2. (Half(z) => Linked(y)) /\ MediaGone(y)
        BY <2>1, <2>2, <2>8, Zenon DEF Linked, MediaGone
      <3>3. Half(z) => \A c : ~InOut(z, c)
        BY <2>1, SMT DEF InOut
      <3>4. Half(z) /\ Current(z) => Current(y)
        BY <2>2, <3>3, Zenon DEF Current, Decoded
      <3> HIDE DEF r
      <3>. QED
        BY <2>1, <2>2, <2>4, <3>1, <3>2, <3>4, Zenon DEF r
    <2>. QED
      BY <2>5, <2>6, <2>7, <2>8
  <1>. QED
    BY <1>2, <1>3

\* A channel that is taken away may be one that the media can do without.
Spares(z, c) ==
    z.d.mState = "STARTED" /\ ~z.d.mCodecInfoChanging =>
        c \notin Decoders \/ z.est[c] # "STARTED"

\* One channel is taken away, and the parameter sets go on changing unless it
\* was the last.
OneLess(z, y) ==
    \/ y.d.mCodecInfoChanging = z.d.mCodecInfoChanging /\ Len(y.out) >= Len(z.out) - 1
    \/ Len(z.out) <= 1

\* What lemmas below say of an operator on channel c.
OnChannel(z, y, c) ==
    /\ Good(y) /\ Down(z, y)
    /\ Spares(z, c) => MediaKept(z, y)
    /\ DecodeAll /\ Linked(z) => OneLess(z, y)

\* A channel is removed.
LEMMA ChannelRemoved ==
  ASSUME NEW z \in StateType, NEW c \in Chans, InOut(z, c)
  PROVE  LET y == [z EXCEPT !.out = Without(z.out, c), !.ch[c].pending = FALSE] IN
         /\ y \in StateType /\ Down(z, y)
         /\ y.d = z.d /\ y.s = z.s /\ y.est = z.est /\ y.loop = z.loop
         /\ y.out = Without(z.out, c)
  <1>1. Without(z.out, c) \in Seq(Chans)
    <2>1. z.out \in Seq(Chans)
      BY Zenon DEF StateType
    <2>. QED
      BY <2>1, WithoutOK, Zenon DEF InOut
  <1> DEFINE o == Without(z.out, c)
             h == [z.ch EXCEPT ![c].pending = FALSE]
             y == [z EXCEPT !.out = o, !.ch[c].pending = FALSE]
  <1>2. h \in [Chans -> ChanType]
    <2>1. z.ch \in [Chans -> ChanType]
      BY Zenon DEF StateType
    <2>2. [z.ch[c] EXCEPT !.pending = FALSE] \in ChanType
      BY <2>1, Zenon DEF ChanType
    <2>3. h = [z.ch EXCEPT ![c] = [z.ch[c] EXCEPT !.pending = FALSE]]
      BY Zenon
    <2>. QED
      BY <2>1, <2>2, <2>3, Zenon
  <1>3. y = [z EXCEPT !.out = o, !.ch = h]
    BY Zenon
  <1> HIDE DEF o, h, y
  <1>4. [z EXCEPT !.out = o, !.ch = h] \in StateType
    BY <1>1, <1>2, Zenon DEF StateType, o
  <1>5. LET w == [z EXCEPT !.out = o, !.ch = h] IN
        /\ w.d = z.d /\ w.s = z.s /\ w.r = z.r /\ w.est = z.est /\ w.loop = z.loop
        /\ w.out = o
    BY Zenon DEF StateType
  <1>6. /\ y.d = z.d /\ y.s = z.s /\ y.r = z.r /\ y.est = z.est /\ y.loop = z.loop
        /\ y.out = o
    BY <1>3, <1>5, Zenon
  <1>7. Down(z, y)
    BY <1>6, Zenon DEF Down
  <1>. QED
    BY <1>3, <1>4, <1>6, <1>7, Zenon DEF o, y

\* onChannelUnlink()
LEMMA OnChannelUnlinkOK ==
  ASSUME NEW z, Good(z), z.s.mState # "OPENING", NEW c \in Chans
  PROVE  OnChannel(z, OnChannelUnlink(z, c), c)
  <1>1. z \in StateType /\ z.out \in Seq(Chans)
    BY Zenon DEF Good, StateType
  <1>2. CASE ~InOut(z, c)
    <2>1. OnChannelUnlink(z, c) = z
      BY <1>2, Zenon DEF OnChannelUnlink
    <2>2. Down(z, z) /\ MediaKept(z, z)
      BY NothingDone, SameMediaKept, Zenon
    <2>3. OneLess(z, z)
      BY <1>1, SMT DEF OneLess
    <2>. QED
      BY <2>1, <2>2, <2>3, Zenon DEF OnChannel
  <1>3. CASE InOut(z, c)
    <2> DEFINE x == [z EXCEPT !.out = Without(z.out, c), !.ch[c].pending = FALSE]
               y == CompleteTeardown(x)
    <2>1. OnChannelUnlink(z, c) = y
      BY <1>3, Zenon DEF OnChannelUnlink
    <2>2. /\ x \in StateType /\ Down(z, x)
          /\ x.d = z.d /\ x.s = z.s /\ x.est = z.est /\ x.loop = z.loop
          /\ x.out = Without(z.out, c)
      BY <1>1, <1>3, ChannelRemoved, Zenon
    <2> HIDE DEF x
    <2>3. /\ z.out # <<>>
          /\ Len(x.out) = Len(z.out) - 1
          /\ \A i \in DOMAIN z.out : z.out[i] # c => \E j \in DOMAIN x.out : x.out[j] = z.out[i]
      <3>1. \E i \in DOMAIN z.out : z.out[i] = c
        BY <1>3, Zenon DEF InOut
      <3>2. z.out # <<>>
        BY <3>1, SMT
      <3>3. /\ Len(Without(z.out, c)) = Len(z.out) - 1
            /\ \A i \in DOMAIN z.out : z.out[i] # c =>
                  \E j \in DOMAIN Without(z.out, c) : Without(z.out, c)[j] = z.out[i]
        <4> DEFINE s == z.out
        <4>1. s \in Seq(Chans) /\ \E i \in DOMAIN s : s[i] = c
          BY <1>1, <3>1, Zenon
        <4> HIDE DEF s
        <4>2. /\ Len(Without(s, c)) = Len(s) - 1
              /\ \A i \in DOMAIN s : s[i] # c =>
                    \E j \in DOMAIN Without(s, c) : Without(s, c)[j] = s[i]
          BY <4>1, WithoutOK, SMT
        <4>. QED
          BY <4>2, Zenon DEF s
      <3>. QED
        BY <2>2, <3>2, <3>3, Zenon
    <2>4. Good(x)
      BY <2>2, Zenon DEF Good, DecoderLeft
    <2>5. x.s.mState # "OPENING"
      BY <2>2, Zenon
    <2>6. Linked(z) => Half(x) /\ z.d.mVideoMedia # None
      BY <2>2, <2>3, Zenon DEF Linked, Half
    <2>7. /\ Good(y) /\ Down(x, y)
          /\ y.loop = x.loop /\ y.d.mCodecInfo = x.d.mCodecInfo
          /\ x.d.mState # "STARTED" /\ x.d.mVideoMedia = None => y.d.mVideoMedia = None
          /\ DecodeAll /\ Half(x) => Linked(y)
          /\ DecodeAll /\ Half(x) /\ MediaGone(x) => MediaGone(y)
          /\ DecodeAll /\ Half(x) /\ Current(x) => Current(y)
          /\ Half(x) /\ x.out # <<>> => y = x
      BY <2>4, <2>5, CompleteTeardownOK, Zenon
    <2> HIDE DEF y
    <2>8. Down(z, y)
      BY <2>2, <2>7, DownTransitive, Zenon
    <2>9. MediaGone(z) => MediaGone(x)
      BY <2>2, Zenon DEF MediaGone
    <2>10. Spares(z, c) /\ Linked(z) /\ Current(z) => Current(x)
      <3> SUFFICES ASSUME Spares(z, c), Linked(z), Current(z),
                          z.d.mState = "STARTED", ~z.d.mCodecInfoChanging
                   PROVE  z.d.mVideoMedia = z.d.mCodecInfo /\ Decoded(x)
        BY <2>2, Zenon DEF Current
      <3>1. z.d.mVideoMedia = z.d.mCodecInfo /\ Decoded(z)
        BY <2>6, Zenon DEF Current
      <3>2. PICK q \in Decoders : InOut(z, q) /\ z.est[q] = "STARTED"
        BY <3>1, Zenon DEF Decoded
      <3>3. q # c
        BY <3>2, Zenon DEF Spares
      <3>4. InOut(x, q)
        BY <2>3, <3>2, <3>3, Zenon DEF InOut
      <3>. QED
        BY <2>2, <3>1, <3>2, <3>4, Zenon DEF Decoded
    <2>11. Spares(z, c) => MediaKept(z, y)
      BY <2>2, <2>6, <2>7, <2>9, <2>10, Zenon DEF MediaKept
    <2>12. Linked(z) => OneLess(z, y)
      <3>1. CASE x.out = <<>>
        <4>1. Len(z.out) = 1
          BY <1>1, <2>3, <3>1, SMT
        <4>. QED
          BY <4>1, SMT DEF OneLess
      <3>2. CASE x.out # <<>>
        <4> SUFFICES ASSUME Linked(z) PROVE OneLess(z, y)
          OBVIOUS
        <4>1. y = x
          BY <2>6, <2>7, <3>2, Zenon
        <4>2. /\ y.d.mCodecInfoChanging = z.d.mCodecInfoChanging
              /\ Len(y.out) = Len(z.out) - 1
          BY <2>2, <2>3, <4>1, Zenon
        <4>. QED
          BY <1>1, <4>2, SMT DEF OneLess
      <3>. QED
        BY <3>1, <3>2
    <2>. QED
      BY <2>1, <2>7, <2>8, <2>11, <2>12, Zenon DEF OnChannel
  <1>. QED
    BY <1>2, <1>3

\* An element changes: what it holds, or whether it is started.
Elem(z, y, c) ==
    /\ y \in StateType
    /\ y.d = z.d /\ y.s = z.s /\ y.r = z.r /\ y.out = z.out /\ y.loop = z.loop
    /\ \A q \in Chans : q # c => y.est[q] = z.est[q]
    /\ \/ y.est[c] = z.est[c]
       \/ y.est[c] # "STARTED" /\ (c \in Decoders => z.est[c] # "none")

\* What an element may do by itself.
LEMMA ElemOK ==
  ASSUME NEW z, NEW y, NEW c \in Chans, Good(z), Elem(z, y, c)
  PROVE  /\ Good(y) /\ Down(z, y)
         /\ Spares(z, c) => MediaKept(z, y) /\ Spares(y, c)
         /\ Linked(z) => Linked(y)
         /\ y.d.mCodecInfoChanging = z.d.mCodecInfoChanging /\ Len(y.out) = Len(z.out)
         /\ y.s.mState = z.s.mState
  <1>1. /\ y \in StateType
        /\ y.d = z.d /\ y.s = z.s /\ y.r = z.r /\ y.out = z.out /\ y.loop = z.loop
        /\ \A q \in Chans : q # c => y.est[q] = z.est[q]
        /\ \/ y.est[c] = z.est[c]
           \/ y.est[c] # "STARTED" /\ (c \in Decoders => z.est[c] # "none")
    BY Zenon DEF Elem
  <1>2. DecoderLeft(y)
    <2>1. CASE DecodeAll /\ z.d.mCodecInfoChanging
      <3>1. PICK q \in Decoders : z.est[q] = "none"
        BY <2>1, Zenon DEF Good, DecoderLeft
      <3>2. q \in Chans
        BY Zenon DEF Chans
      <3>3. y.est[q] = "none"
        BY <1>1, <3>1, <3>2, Zenon
      <3>. QED
        BY <3>3, Zenon DEF DecoderLeft
    <2>2. CASE ~(DecodeAll /\ z.d.mCodecInfoChanging)
      BY <1>1, <2>2, Zenon DEF DecoderLeft
    <2>. QED
      BY <2>1, <2>2
  <1>3. Good(y) /\ Down(z, y)
    BY <1>1, <1>2, Zenon DEF Good, Down
  <1>4. Spares(z, c) => Spares(y, c)
    BY <1>1, Zenon DEF Spares
  <1>5. Spares(z, c) /\ Current(z) => Current(y)
    <2> SUFFICES ASSUME Spares(z, c), Current(z), z.d.mState = "STARTED",
                        ~z.d.mCodecInfoChanging, z.d.mVideoMedia # None
                 PROVE  Decoded(y)
      BY <1>1, Zenon DEF Current
    <2>1. PICK q \in Decoders : InOut(z, q) /\ z.est[q] = "STARTED"
      BY Zenon DEF Current, Decoded
    <2>2. q # c /\ q \in Chans
      BY <2>1, Zenon DEF Spares, Chans
    <2>3. InOut(y, q) /\ y.est[q] = "STARTED"
      BY <1>1, <2>1, <2>2, Zenon DEF InOut
    <2>. QED
      BY <2>3, Zenon DEF Decoded
  <1>6. (Linked(z) => Linked(y)) /\ (MediaGone(z) => MediaGone(y))
    BY <1>1, Zenon DEF Linked, MediaGone
  <1>7. Spares(z, c) => MediaKept(z, y)
    BY <1>1, <1>5, <1>6, Zenon DEF MediaKept
  <1>. QED
    BY <1>1, <1>3, <1>4, <1>6, <1>7, Zenon

\* ... before the demuxer takes its channel away.
LEMMA ElemThenChannel ==
  ASSUME NEW z, NEW y, NEW w, NEW c \in Chans, Good(z), Elem(z, y, c), OnChannel(y, w, c)
  PROVE  OnChannel(z, w, c)
  <1>1. /\ Good(y) /\ Down(z, y)
        /\ Spares(z, c) => MediaKept(z, y) /\ Spares(y, c)
        /\ Linked(z) => Linked(y)
        /\ y.d.mCodecInfoChanging = z.d.mCodecInfoChanging /\ Len(y.out) = Len(z.out)
    BY ElemOK, Zenon
  <1>2. /\ Good(w) /\ Down(y, w)
        /\ Spares(y, c) => MediaKept(y, w)
        /\ DecodeAll /\ Linked(y) => OneLess(y, w)
    BY Zenon DEF OnChannel
  <1>3. Down(z, w)
    BY <1>1, <1>2, DownTransitive, Zenon
  <1>4. Spares(z, c) => MediaKept(z, w)
    BY <1>1, <1>2, MediaKeptTransitive, Zenon
  <1>5. DecodeAll /\ Linked(z) => OneLess(z, w)
    BY <1>1, <1>2, Zenon DEF OneLess
  <1>. QED
    BY <1>2, <1>3, <1>4, <1>5, Zenon DEF OnChannel

\* ... and no channel is taken away.
LEMMA ElemOnly ==
  ASSUME NEW z, NEW y, NEW c \in Chans, Good(z), Elem(z, y, c)
  PROVE  OnChannel(z, y, c)
  <1>1. /\ Good(y) /\ Down(z, y)
        /\ Spares(z, c) => MediaKept(z, y)
        /\ y.d.mCodecInfoChanging = z.d.mCodecInfoChanging /\ Len(y.out) = Len(z.out)
    BY ElemOK, Zenon
  <1>2. y.out = z.out /\ z.out \in Seq(Chans)
    BY Zenon DEF Elem, Good, StateType
  <1>3. OneLess(z, y)
    BY <1>1, <1>2, SMT DEF OneLess
  <1>. QED
    BY <1>1, <1>3, Zenon DEF OnChannel

\* What an element holds, and whether it is started.
LEMMA ChSet ==
  ASSUME NEW z \in StateType, NEW c \in Chans, NEW q \in ChanType
  PROVE  Elem(z, [z EXCEPT !.ch[c] = q], c)
  <1> DEFINE h == [z.ch EXCEPT ![c] = q]
             y == [z EXCEPT !.ch = h]
  <1>1. h \in [Chans -> ChanType]
    BY Zenon DEF StateType
  <1>2. [z EXCEPT !.ch[c] = q] = y
    BY Zenon
  <1> HIDE DEF h
  <1>3. y \in StateType
    BY <1>1, Zenon DEF StateType
  <1>4. /\ y.d = z.d /\ y.s = z.s /\ y.r = z.r /\ y.out = z.out /\ y.loop = z.loop
        /\ y.est = z.est
    BY Zenon DEF StateType
  <1>. QED
    BY <1>2, <1>3, <1>4, Zenon DEF Elem

LEMMA EstSet ==
  ASSUME NEW z \in StateType, NEW c \in Chans, NEW e \in {"none", "STOPPING"},
         c \in Decoders => z.est[c] # "none"
  PROVE  LET y == [z EXCEPT !.est[c] = e]
         IN  Elem(z, y, c) /\ y.est[c] = e /\ y.ch = z.ch
  <1> DEFINE h == [z.est EXCEPT ![c] = e]
             y == [z EXCEPT !.est = h]
  <1>1. h \in [Chans -> {"none", "STARTED", "STOPPING"}]
    BY Zenon DEF StateType
  <1>2. [z EXCEPT !.est[c] = e] = y
    BY Zenon
  <1>5. h[c] = e /\ \A q \in Chans : q # c => h[q] = z.est[q]
    BY Zenon DEF StateType
  <1> HIDE DEF h
  <1>3. y \in StateType
    BY <1>1, Zenon DEF StateType
  <1>4. /\ y.d = z.d /\ y.s = z.s /\ y.r = z.r /\ y.out = z.out /\ y.loop = z.loop
        /\ y.est = h /\ y.ch = z.ch
    BY Zenon DEF StateType
  <1>. QED
    BY <1>2, <1>3, <1>4, <1>5, ZenonT(60) DEF Elem

\* The other forms of a change of what an element holds.
LEMMA AskedSet ==
  ASSUME NEW z \in StateType, NEW c \in Chans, NEW b \in BOOLEAN
  PROVE  Elem(z, [z EXCEPT !.ch[c].asked = b], c)
  <1> DEFINE q == [z.ch[c] EXCEPT !.asked = b]
  <1>1. z.ch[c] \in ChanType
    BY Zenon DEF StateType
  <1>2. q \in ChanType
    BY <1>1, Zenon DEF ChanType
  <1>3. [z EXCEPT !.ch[c].asked = b] = [z EXCEPT !.ch[c] = q]
    BY Zenon
  <1> HIDE DEF q
  <1>. QED
    BY <1>2, <1>3, ChSet, Zenon

LEMMA SyncedReset ==
  ASSUME NEW z \in StateType, NEW c \in Chans
  PROVE  Elem(z, [z EXCEPT !.ch[c].synced = FALSE], c)
  <1> DEFINE q == [z.ch[c] EXCEPT !.synced = FALSE]
  <1>1. z.ch[c] \in ChanType
    BY Zenon DEF StateType
  <1>2. q \in ChanType
    BY <1>1, Zenon DEF ChanType
  <1>3. [z EXCEPT !.ch[c].synced = FALSE] = [z EXCEPT !.ch[c] = q]
    BY Zenon
  <1> HIDE DEF q
  <1>. QED
    BY <1>2, <1>3, ChSet, Zenon

LEMMA FlushAsked ==
  ASSUME NEW z \in StateType, NEW c \in Chans
  PROVE  Elem(z, [z EXCEPT !.ch[c].pending = TRUE, !.ch[c].asked = TRUE], c)
  <1> DEFINE q == [z.ch[c] EXCEPT !.pending = TRUE, !.asked = TRUE]
  <1>1. z.ch[c] \in ChanType /\ z.ch \in [Chans -> ChanType]
    BY Zenon DEF StateType
  <1>2. q \in ChanType
    BY <1>1, Zenon DEF ChanType
  <1>3. [z EXCEPT !.ch[c].pending = TRUE, !.ch[c].asked = TRUE] = [z EXCEPT !.ch[c] = q]
    BY Zenon
  <1> HIDE DEF q
  <1>. QED
    BY <1>2, <1>3, ChSet, Zenon

\* onChannelTeardown() of an element
LEMMA ChannelTeardownOK ==
  ASSUME NEW z, Good(z), z.s.mState # "OPENING", NEW c \in Chans
  PROVE  OnChannel(z, ChannelTeardown(z, c), c)
  <1>1. z \in StateType /\ z.out \in Seq(Chans)
    BY Zenon DEF Good, StateType
  <1>2. CASE c \in Sinks
    <2> DEFINE b == z.ch[c].asked \/ ~z.ch[c].flushed
               x == [z EXCEPT !.ch[c].asked = b]
    <2>1. Elem(z, x, c)
      BY <1>1, AskedSet, Zenon
    <2>2. ChannelTeardown(z, c) = OnChannelUnlink(x, c)
      BY <1>2, Zenon DEF ChannelTeardown
    <2> HIDE DEF x
    <2>3. Good(x) /\ x.s.mState # "OPENING"
      BY <2>1, ElemOK, Zenon
    <2>. QED
      BY <2>1, <2>2, <2>3, OnChannelUnlinkOK, ElemThenChannel, Zenon
  <1>3. CASE c \notin Sinks /\ z.est[c] # "STARTED"
    <2>1. ChannelTeardown(z, c) = z
      BY <1>3, Zenon DEF ChannelTeardown
    <2>2. Elem(z, z, c)
      BY <1>1, Zenon DEF Elem
    <2>. QED
      BY <2>1, <2>2, ElemOnly, Zenon
  <1>4. CASE c \notin Sinks /\ z.est[c] = "STARTED"
    <2> DEFINE y == [z EXCEPT !.est[c] = "STOPPING"]
               w == [y EXCEPT !.ch[c].asked = TRUE]
    <2>1. Elem(z, y, c)
      BY <1>1, <1>4, EstSet, Zenon
    <2>2. \/ ChannelTeardown(z, c) = OnChannelUnlink(y, c)
          \/ ChannelTeardown(z, c) = w
      BY <1>4, Zenon DEF ChannelTeardown
    <2> HIDE DEF y
    <2>3. Good(y) /\ y.s.mState # "OPENING"
      BY <2>1, ElemOK, Zenon
    <2>4. OnChannel(y, OnChannelUnlink(y, c), c)
      BY <2>3, OnChannelUnlinkOK, Zenon
    <2>5. Elem(y, w, c)
      BY <2>3, AskedSet, Zenon DEF Good
    <2> HIDE DEF w
    <2>6. OnChannel(y, w, c)
      BY <2>3, <2>5, ElemOnly, Zenon
    <2>. QED
      BY <2>1, <2>2, <2>4, <2>6, ElemThenChannel, Zenon
  <1>. QED
    BY <1>2, <1>3, <1>4

\* The end of a flush.
LEMMA FlushingReset ==
  ASSUME NEW z \in StateType
  PROVE  LET y == [z EXCEPT !.d.mFlushing = FALSE] IN
         y \in StateType /\ Down(z, y) /\ SameMedia(z, y) /\ y.s = z.s
  <1> DEFINE y == [z EXCEPT !.d.mFlushing = FALSE]
  <1>1. y \in StateType
    BY Zenon DEF StateType, DemuxerType
  <1>2. Down(z, y)
    BY Zenon DEF StateType, DemuxerType, Down
  <1>3. SameMedia(z, y) /\ y.s = z.s
    BY Zenon DEF StateType, DemuxerType, SameMedia
  <1>. QED
    BY <1>1, <1>2, <1>3

\* onChannelFlushed()
LEMMA OnChannelFlushedOK ==
  ASSUME NEW z, Good(z), z.s.mState \notin {"OPENING"}, NEW c \in Chans
  PROVE  LET y == OnChannelFlushed(z, c)
         IN  Good(y) /\ Down(z, y) /\ MediaKept(z, y)
  <1>1. z \in StateType
    BY Zenon DEF Good
  <1>2. CASE ~InOut(z, c)
    <2>1. OnChannelFlushed(z, c) = z
      BY <1>2, Zenon DEF OnChannelFlushed
    <2>. QED
      BY <2>1, NothingDone, SameMediaKept, Zenon
  <1>3. CASE InOut(z, c)
    <2> DEFINE y == [z EXCEPT !.d.mFlushing = FALSE]
               w == IF y.d.mIdrFrameSyncPending THEN IdrFrameSync(y) ELSE y
               v == ChannelTeardown(w, c)
    <2>1. OnChannelFlushed(z, c) = IF w.d.mState = "STOPPING" THEN v ELSE w
      BY <1>3, Zenon DEF OnChannelFlushed
    <2>2. y \in StateType /\ Down(z, y) /\ SameMedia(z, y)
      BY <1>1, FlushingReset, Zenon
    <2> HIDE DEF y
    <2>3. Good(y)
      BY <2>2, SameMediaLeft, Zenon DEF Good
    <2>4. Good(w) /\ Down(y, w) /\ SameMedia(y, w)
      BY <2>3, IdrFrameSyncOK, NothingDone, Zenon
    <2> HIDE DEF w
    <2>5. Down(z, w) /\ MediaKept(z, w)
      BY <2>2, <2>4, DownTransitive, SameMediaTransitive, SameMediaKept, Zenon
    <2>6. CASE w.d.mState # "STOPPING"
      BY <2>1, <2>4, <2>5, <2>6, Zenon
    <2>7. CASE w.d.mState = "STOPPING"
      <3>1. w.s.mState # "OPENING"
        BY <2>5, Zenon DEF Down
      <3>2. OnChannel(w, v, c)
        BY <2>4, <3>1, ChannelTeardownOK, Zenon
      <3>3. Spares(w, c)
        BY <2>7, Zenon DEF Spares
      <3> HIDE DEF v
      <3>4. Good(v) /\ Down(w, v) /\ MediaKept(w, v)
        BY <3>2, <3>3, Zenon DEF OnChannel
      <3>5. Down(z, v) /\ MediaKept(z, v)
        BY <2>5, <3>4, DownTransitive, MediaKeptTransitive, Zenon
      <3>. QED
        BY <2>1, <2>7, <3>4, <3>5, Zenon
    <2>. QED
      BY <2>6, <2>7
  <1>. QED
    BY <1>2, <1>3

\* Channel::flush(): the element itself stays started.
LEMMA ChannelFlushOK ==
  ASSUME NEW z, Good(z), z.s.mState # "OPENING", NEW c \in Chans
  PROVE  LET y == ChannelFlush(z, c)
         IN  Good(y) /\ Down(z, y) /\ MediaKept(z, y)
  <1>1. z \in StateType
    BY Zenon DEF Good
  <1> DEFINE x == [z EXCEPT !.ch[c].synced = FALSE]
             y == OnChannelFlushed(x, c)
             w == [z EXCEPT !.ch[c].pending = TRUE, !.ch[c].asked = TRUE]
  <1>2. ChannelFlush(z, c) = y \/ ChannelFlush(z, c) = w
    BY Zenon DEF ChannelFlush
  <1>3. Elem(z, x, c) /\ x.est = z.est
    <2>1. x.est = z.est
      BY <1>1, Zenon DEF StateType
    <2>. QED
      BY <1>1, <2>1, SyncedReset, Zenon
  <1>4. Elem(z, w, c) /\ w.est = z.est
    <2>1. w.est = z.est
      BY <1>1, Zenon DEF StateType
    <2>. QED
      BY <1>1, <2>1, FlushAsked, Zenon
  <1> HIDE DEF x, w
  <1>5. ASSUME NEW v, Elem(z, v, c), v.est = z.est
        PROVE  Good(v) /\ Down(z, v) /\ SameMedia(z, v) /\ v.s = z.s
    <2>1. Good(v) /\ Down(z, v)
      BY <1>5, ElemOK, Zenon
    <2>2. SameMedia(z, v) /\ v.s = z.s
      BY <1>5, Zenon DEF SameMedia, Elem
    <2>. QED
      BY <2>1, <2>2
  <1>6. Good(x) /\ Down(z, x) /\ SameMedia(z, x) /\ x.s.mState # "OPENING"
    BY <1>3, <1>5, Zenon
  <1>7. Good(y) /\ Down(x, y) /\ MediaKept(x, y)
    BY <1>6, OnChannelFlushedOK, Zenon
  <1> HIDE DEF y
  <1>8. Down(z, y) /\ MediaKept(z, y)
    BY <1>6, <1>7, DownTransitive, SameMediaKept, MediaKeptTransitive, Zenon
  <1>9. Good(w) /\ Down(z, w) /\ MediaKept(z, w)
    BY <1>4, <1>5, SameMediaKept, Zenon
  <1>. QED
    BY <1>2, <1>7, <1>8, <1>9, Zenon

-----------------------------------------------------------------------------
(* The loops over the channels, the stream, the elements and the sinks: none *)
(* of them has a part in the dialogue with the server.                       *)

\* What the channels and the media need of a step.
Media(z, y) ==
    DecodeAll /\ ChannelsInv(z) =>
        ChannelsInv(y) /\ (CodecInfoInv(z) => CodecInfoInv(y))

\* Everything a step downstream of the dialogue does.
DownStep(z, y) == Good(y) /\ Down(z, y) /\ Media(z, y)

LEMMA DownStepTransitive ==
  ASSUME NEW x, NEW y, NEW z, DownStep(x, y), DownStep(y, z)
  PROVE  DownStep(x, z)
  <1>1. Down(x, z)
    BY DownTransitive, Zenon DEF DownStep
  <1>. QED
    BY <1>1, Zenon DEF DownStep, Media

\* The invariants in the terms of the lemmas above.
LEMMA InTheirTerms ==
  ASSUME NEW z
  PROVE  /\ ChannelsInv(z) => Linked(z) /\ MediaGone(z)
         /\ CodecInfoInv(z) <=> Current(z)
  <1>1. ChannelsInv(z) => Linked(z) /\ MediaGone(z)
    BY Zenon DEF ChannelsInv, Linked, MediaGone
  <1>2. CodecInfoInv(z) <=> Current(z)
    BY Zenon DEF CodecInfoInv, Current, Decoded
  <1>. QED
    BY <1>1, <1>2

\* An operator on the channels that leaves the loop alone.
LEMMA MediaKeptOK ==
  ASSUME NEW z, NEW y, Good(y), Down(z, y), MediaKept(z, y),
         z.loop.what # "teardown", z.loop.what = "stop" => z.d.mState # "STARTED"
  PROVE  DownStep(z, y)
  <1> SUFFICES ASSUME DecodeAll, ChannelsInv(z)
               PROVE  ChannelsInv(y) /\ (CodecInfoInv(z) => CodecInfoInv(y))
    BY Zenon DEF DownStep, Media
  <1>1. Linked(z) /\ MediaGone(z)
    BY InTheirTerms, Zenon
  <1>2. /\ y.loop = z.loop
        /\ z.d.mState # "STARTED" /\ z.d.mVideoMedia = None => y.d.mVideoMedia = None
        /\ Linked(y) /\ MediaGone(y)
        /\ Current(z) => Current(y)
    BY <1>1, Zenon DEF MediaKept
  <1>3. z.d.mState = "STARTED" => y.d.mState = "STARTED"
    BY Zenon DEF Down
  <1>4. y.loop.what = "stop" /\ y.loop.n = 0 => y.d.mVideoMedia = None
    BY <1>2, Zenon DEF ChannelsInv
  <1>5. y.loop.what # "teardown"
    BY <1>2, Zenon
  <1>6. y.loop.what \in {"flush", "teardown"} => y.d.mState = "STARTED"
    BY <1>2, <1>3, Zenon DEF ChannelsInv
  <1>7. ChannelsInv(y)
    BY <1>2, <1>4, <1>5, <1>6, Zenon DEF ChannelsInv, Linked, MediaGone
  <1>. QED
    BY <1>2, <1>7, InTheirTerms, Zenon

\* The loop goes on, or ends.
LEMMA LoopSet ==
  ASSUME NEW z \in StateType, NEW l \in LoopType
  PROVE  LET y == [z EXCEPT !.loop = l] IN
         /\ y \in StateType /\ y.loop = l
         /\ y.d = z.d /\ y.s = z.s /\ y.r = z.r /\ y.out = z.out /\ y.est = z.est
  BY Zenon DEF StateType

LEMMA LoopNext ==
  ASSUME NEW z \in StateType, NEW i \in Nat
  PROVE  LET y == [z EXCEPT !.loop.i = i] IN
         /\ y \in StateType
         /\ y.loop = [what |-> z.loop.what, i |-> i, n |-> z.loop.n]
         /\ y.d = z.d /\ y.s = z.s /\ y.r = z.r /\ y.out = z.out /\ y.est = z.est
  <1> DEFINE l == [z.loop EXCEPT !.i = i]
             m == [what |-> z.loop.what, i |-> i, n |-> z.loop.n]
  <1>1. z.loop \in LoopType
    BY Zenon DEF StateType
  <1>2. l \in LoopType /\ l = m
    BY <1>1, SMT DEF LoopType
  <1>3. [z EXCEPT !.loop.i = i] = [z EXCEPT !.loop = l]
    BY Zenon
  <1> HIDE DEF l, m
  <1>4. LET y == [z EXCEPT !.loop = l] IN
         /\ y \in StateType /\ y.loop = l
         /\ y.d = z.d /\ y.s = z.s /\ y.r = z.r /\ y.out = z.out /\ y.est = z.est
    BY <1>2, LoopSet, Zenon
  <1>. QED
    BY <1>2, <1>3, <1>4, Zenon DEF m

\* Only the loop has changed.
LEMMA OnlyLoop ==
  ASSUME NEW z, Good(z), NEW y \in StateType,
         y.d = z.d, y.s = z.s, y.r = z.r, y.out = z.out, y.est = z.est,
         y.loop.what = "stop" => z.loop.what = "stop"
  PROVE  /\ Good(y) /\ Down(z, y)
         /\ Linked(z) => Linked(y)
         /\ MediaGone(z) => MediaGone(y)
         /\ CodecInfoInv(z) => CodecInfoInv(y)
  <1>1. Good(y)
    BY Zenon DEF Good, DecoderLeft
  <1>2. Down(z, y)
    BY Zenon DEF Down
  <1>3. (Linked(z) => Linked(y)) /\ (MediaGone(z) => MediaGone(y))
    BY Zenon DEF Linked, MediaGone
  <1>4. CodecInfoInv(z) => CodecInfoInv(y)
    BY Zenon DEF CodecInfoInv, InOut
  <1>. QED
    BY <1>1, <1>2, <1>3, <1>4

\* A step of the loop of flush().
LEMMA FlushChannelOK ==
  ASSUME Good(st), st.s.mState # "OPENING", FlushChannel,
         st.loop.what = "stop" => st.d.mState # "STARTED"
  PROVE  DownStep(st, st')
  <1> DEFINE y == [st EXCEPT !.loop.i = @ + 1]
             c == st.out[st.loop.i]
  <1>1. /\ st \in StateType /\ st.out \in Seq(Chans)
        /\ st.loop \in LoopType
    BY Zenon DEF Good, StateType
  <1>2. st.loop.i + 1 \in Nat
    BY <1>1, SMT DEF LoopType
  <1>3. /\ y \in StateType
        /\ y.loop = [what |-> st.loop.what, i |-> st.loop.i + 1, n |-> st.loop.n]
        /\ y.d = st.d /\ y.s = st.s /\ y.r = st.r /\ y.out = st.out /\ y.est = st.est
    BY <1>1, <1>2, LoopNext, Zenon
  <1>4. /\ st.loop.what \in {"flush", "stop"}
        /\ st' = IF st.loop.i \in DOMAIN st.out THEN ChannelFlush(y, c) ELSE y
    BY Zenon DEF FlushChannel, Looping
  <1> HIDE DEF y
  <1>5. y.loop.what = st.loop.what /\ y.loop.n = st.loop.n
    BY <1>3, SMT
  <1>6. DownStep(st, y)
    <2>1. /\ Good(y) /\ Down(st, y)
          /\ Linked(st) => Linked(y)
          /\ MediaGone(st) => MediaGone(y)
          /\ CodecInfoInv(st) => CodecInfoInv(y)
      BY <1>3, <1>5, OnlyLoop, Zenon
    <2>2. ChannelsInv(st) => ChannelsInv(y)
      BY <1>3, <1>4, <1>5, Zenon DEF ChannelsInv
    <2>. QED
      BY <2>1, <2>2, Zenon DEF DownStep, Media
  <1>7. CASE st.loop.i \in DOMAIN st.out
    <2>1. c \in Chans
      BY <1>1, <1>7, SMT
    <2> HIDE DEF c
    <2>2. Good(y) /\ y.s.mState # "OPENING"
      BY <1>3, <1>6, Zenon DEF DownStep
    <2>3. /\ Good(ChannelFlush(y, c)) /\ Down(y, ChannelFlush(y, c))
          /\ MediaKept(y, ChannelFlush(y, c))
      BY <2>1, <2>2, ChannelFlushOK, Zenon
    <2>4. /\ y.loop.what # "teardown"
          /\ y.loop.what = "stop" => y.d.mState # "STARTED"
      BY <1>3, <1>4, <1>5, Zenon
    <2>5. DownStep(y, ChannelFlush(y, c))
      BY <2>3, <2>4, MediaKeptOK, Zenon
    <2>. QED
      BY <1>4, <1>6, <1>7, <2>5, DownStepTransitive, Zenon
  <1>8. CASE st.loop.i \notin DOMAIN st.out
    BY <1>4, <1>6, <1>8, Zenon
  <1>. QED
    BY <1>7, <1>8

\* The end of a stop, or nothing but its flags when it has ended before.
LEMMA StoppedTwice ==
  ASSUME NEW z, Good(z), z.s.mState # "OPENING", z.d.mState \in {"STOPPING", "STOPPED"},
         z.d.mNetworkReadyForStop
  PROVE  LET y == Stopped(z) IN
         /\ Good(y) /\ Down(z, y)
         /\ y.loop = z.loop /\ y.out = z.out /\ y.est = z.est
         /\ y.d.mState = "STOPPED" /\ y.d.mVideoMedia = z.d.mVideoMedia
         /\ y.d.mCodecInfo = z.d.mCodecInfo
  <1> DEFINE y == Stopped(z)
  <1>1. z \in StateType /\ z.d \in DemuxerType
    BY Zenon DEF Good, StateType
  <1>2. CASE z.d.mState = "STOPPING"
    <2>1. Good(y) /\ Down(z, y)
      BY <1>2, StoppedDown, Zenon
    <2>2. /\ y.d = [z.d EXCEPT !.mState = "STOPPED", !.mChannelsReadyForStop = FALSE,
                               !.mNetworkReadyForStop = FALSE]
          /\ y.loop = z.loop /\ y.out = z.out /\ y.est = z.est
      BY <1>1, <1>2, StoppedOK, Zenon
    <2> HIDE DEF y
    <2>3. /\ y.d.mState = "STOPPED" /\ y.d.mVideoMedia = z.d.mVideoMedia
          /\ y.d.mCodecInfo = z.d.mCodecInfo
      BY <1>1, <2>2, Zenon DEF DemuxerType
    <2>. QED
      BY <2>1, <2>2, <2>3, Zenon DEF y
  <1>3. CASE z.d.mState = "STOPPED"
    <2> DEFINE w == [z EXCEPT !.d.mChannelsReadyForStop = FALSE,
                              !.d.mNetworkReadyForStop = FALSE]
    <2>1. y = w
      BY <1>3, Zenon DEF Stopped, SetState
    <2>2. /\ w \in StateType
          /\ w.d = [z.d EXCEPT !.mChannelsReadyForStop = FALSE, !.mNetworkReadyForStop = FALSE]
          /\ w.s = z.s /\ w.r = z.r /\ w.out = z.out /\ w.est = z.est /\ w.loop = z.loop
      BY <1>1, FlagsReset, Zenon
    <2> HIDE DEF w, y
    <2>3. /\ w.d.rtsp = z.d.rtsp /\ w.d.mRtspState = z.d.mRtspState
          /\ w.d.mRtspSessionId = z.d.mRtspSessionId /\ w.d.mContentBase = z.d.mContentBase
          /\ w.d.socks = z.d.socks /\ w.d.mReceiver = z.d.mReceiver
          /\ w.d.leaked = z.d.leaked /\ w.d.mSeeking = z.d.mSeeking
          /\ w.d.mState = z.d.mState /\ w.d.mCodecInfoChanging = z.d.mCodecInfoChanging
          /\ w.d.mVideoMedia = z.d.mVideoMedia /\ w.d.mCodecInfo = z.d.mCodecInfo
      BY <1>1, <2>2, ZenonT(60) DEF DemuxerType
    <2>4. Down(z, w)
      BY <2>2, <2>3, Zenon DEF Down
    <2>5. Good(w)
      BY <2>2, <2>3, Zenon DEF Good, DecoderLeft
    <2>. QED
      BY <1>3, <2>1, <2>2, <2>3, <2>4, <2>5, Zenon DEF y
  <1>. QED
    BY <1>2, <1>3

\* The end of the loop of a flush.
LEMMA LoopEnd ==
  ASSUME NEW z \in StateType, NEW b \in BOOLEAN
  PROVE  LET y == [z EXCEPT !.loop = NoLoop, !.d.mChannelsReadyForStop = b] IN
         /\ y \in StateType /\ y.loop = NoLoop /\ y.d.mChannelsReadyForStop = b
         /\ Down(z, y)
         /\ y.out = z.out /\ y.est = z.est /\ y.s = z.s
         /\ y.d.mVideoMedia = z.d.mVideoMedia /\ y.d.mCodecInfo = z.d.mCodecInfo
         /\ y.d.mState = z.d.mState /\ y.d.mCodecInfoChanging = z.d.mCodecInfoChanging
  <1> DEFINE w == [z EXCEPT !.d.mChannelsReadyForStop = b]
             y == [w EXCEPT !.loop = NoLoop]
             v == [z EXCEPT !.loop = NoLoop, !.d.mChannelsReadyForStop = b]
  <1>1. w \in StateType
    BY Zenon DEF StateType, DemuxerType
  <1>2. /\ w.d.rtsp = z.d.rtsp /\ w.d.mRtspState = z.d.mRtspState
        /\ w.d.mRtspSessionId = z.d.mRtspSessionId /\ w.d.mContentBase = z.d.mContentBase
        /\ w.d.socks = z.d.socks /\ w.d.mReceiver = z.d.mReceiver
        /\ w.d.leaked = z.d.leaked /\ w.d.mSeeking = z.d.mSeeking
        /\ w.d.mNetworkReadyForStop = z.d.mNetworkReadyForStop
        /\ w.d.mState = z.d.mState /\ w.d.mCodecInfoChanging = z.d.mCodecInfoChanging
        /\ w.d.mVideoMedia = z.d.mVideoMedia /\ w.d.mCodecInfo = z.d.mCodecInfo
        /\ w.d.mChannelsReadyForStop = b
    BY Zenon DEF StateType, DemuxerType
  <1>3. w.s = z.s /\ w.r = z.r /\ w.out = z.out /\ w.est = z.est /\ w.loop = z.loop
    BY Zenon DEF StateType
  <1>4. v = y
    BY Zenon DEF StateType
  <1> HIDE DEF w, v
  <1>5. NoLoop \in LoopType /\ NoLoop.what = "none"
    BY SMT DEF NoLoop, LoopType
  <1>6. /\ y \in StateType /\ y.loop = NoLoop
        /\ y.d = w.d /\ y.s = w.s /\ y.r = w.r /\ y.out = w.out /\ y.est = w.est
    BY <1>1, <1>5, LoopSet, Zenon
  <1> HIDE DEF y
  <1>7. Down(z, y)
    BY <1>2, <1>3, <1>5, <1>6, Zenon DEF Down
  <1>. QED
    BY <1>2, <1>3, <1>4, <1>6, <1>7, Zenon DEF v

\* The end of flush(), and of stop()
LEMMA FlushEndOK ==
  ASSUME Good(st), st.s.mState # "OPENING", FlushEnd,
         st.loop.what = "stop" => st.d.mState \in {"STOPPING", "STOPPED"}
  PROVE  DownStep(st, st')
  <1> DEFINE b == st.d.mChannelsReadyForStop \/ st.loop.n = 0
             y == [st EXCEPT !.loop = NoLoop, !.d.mChannelsReadyForStop = b]
             v == Stopped(y)
  <1>1. st \in StateType
    BY Zenon DEF Good
  <1>2. /\ st.loop.what \in {"flush", "stop"}
        /\ \/ st' = v /\ st.loop.what = "stop"
              /\ y.d.mChannelsReadyForStop /\ y.d.mNetworkReadyForStop
           \/ st' = y
    BY Zenon DEF FlushEnd
  <1>3. /\ y \in StateType /\ y.loop = NoLoop /\ y.d.mChannelsReadyForStop = b
        /\ Down(st, y)
        /\ y.out = st.out /\ y.est = st.est /\ y.s = st.s
        /\ y.d.mVideoMedia = st.d.mVideoMedia /\ y.d.mCodecInfo = st.d.mCodecInfo
        /\ y.d.mState = st.d.mState /\ y.d.mCodecInfoChanging = st.d.mCodecInfoChanging
    <2>1. b \in BOOLEAN
      BY Zenon
    <2> HIDE DEF b
    <2>. QED
      BY <1>1, <2>1, LoopEnd, Zenon
  <1> HIDE DEF y, v
  <1>4. y.loop.what = "none"
    BY <1>3, SMT DEF NoLoop
  <1>5. DownStep(st, y)
    <2>1. Good(y)
      BY <1>3, Zenon DEF Good, DecoderLeft
    <2>2. CodecInfoInv(st) => CodecInfoInv(y)
      BY <1>3, Zenon DEF CodecInfoInv, InOut
    <2>3. ASSUME ChannelsInv(st)
          PROVE  ChannelsInv(y)
      <3>1. CASE b <=> st.d.mChannelsReadyForStop
        BY <1>3, <1>4, <2>3, <3>1, Zenon DEF ChannelsInv
      <3>2. CASE st.loop.n = 0 /\ st.loop.what = "stop"
        BY <1>3, <1>4, <2>3, <3>2, Zenon DEF ChannelsInv
      <3>3. CASE st.loop.n = 0 /\ st.loop.what = "flush"
        <4>1. st.d.mState = "STARTED"
          BY <2>3, <3>3, Zenon DEF ChannelsInv
        <4>. QED
          BY <1>3, <1>4, <2>3, <4>1, Zenon DEF ChannelsInv
      <3>. QED
        BY <1>2, <3>1, <3>2, <3>3, Zenon
    <2>. QED
      BY <1>3, <2>1, <2>2, <2>3, Zenon DEF DownStep, Media
  <1>6. CASE st' = y
    BY <1>5, <1>6, Zenon
  <1>7. CASE st' = v /\ st.loop.what = "stop"
             /\ y.d.mChannelsReadyForStop /\ y.d.mNetworkReadyForStop
    <2>1. y.d.mState \in {"STOPPING", "STOPPED"} /\ y.s.mState # "OPENING"
      BY <1>3, <1>7, Zenon
    <2>2. /\ Good(v) /\ Down(y, v)
          /\ v.loop = y.loop /\ v.out = y.out /\ v.est = y.est
          /\ v.d.mState = "STOPPED" /\ v.d.mVideoMedia = y.d.mVideoMedia
          /\ v.d.mCodecInfo = y.d.mCodecInfo
      BY <1>5, <1>7, <2>1, StoppedTwice, Zenon DEF DownStep, v
    <2>3. ChannelsInv(y) => ChannelsInv(v)
      BY <1>4, <1>7, <2>1, <2>2, Zenon DEF ChannelsInv
    <2>4. CodecInfoInv(v)
      BY <2>2, Zenon DEF CodecInfoInv
    <2>5. DownStep(y, v)
      BY <2>2, <2>3, <2>4, Zenon DEF DownStep, Media
    <2>. QED
      BY <1>5, <1>7, <2>5, DownStepTransitive, Zenon
  <1>. QED
    BY <1>2, <1>6, <1>7

\* A step of the loop of codecInfoChangedCb(): the channels are torn down from
\* the last to the first, each of which is still there when its turn comes.
LEMMA TeardownChannelOK ==
  ASSUME Good(st), st.s.mState # "OPENING", TeardownChannel
  PROVE  DownStep(st, st')
  <1> DEFINE y == [st EXCEPT !.loop.i = @ - 1]
             c == st.out[st.loop.i]
             v == ChannelTeardown(y, c)
  <1>1. /\ st \in StateType /\ st.out \in Seq(Chans)
        /\ st.loop \in LoopType
    BY Zenon DEF Good, StateType
  <1>2. /\ st.loop.what = "teardown" /\ st.loop.i \in 1..st.loop.n
        /\ st' = IF st.loop.i \in DOMAIN st.out THEN v ELSE y
    BY Zenon DEF TeardownChannel, Looping
  <1>3. st.loop.i - 1 \in Nat
    BY <1>1, <1>2, SMT DEF LoopType
  <1>4. /\ y \in StateType
        /\ y.loop = [what |-> st.loop.what, i |-> st.loop.i - 1, n |-> st.loop.n]
        /\ y.d = st.d /\ y.s = st.s /\ y.r = st.r /\ y.out = st.out /\ y.est = st.est
    BY <1>1, <1>3, LoopNext, Zenon
  <1> HIDE DEF y
  <1>5. y.loop.what = "teardown" /\ y.loop.i = st.loop.i - 1
    BY <1>2, <1>4, SMT
  <1>6. DownStep(st, y)
    <2>1. /\ Good(y) /\ Down(st, y)
          /\ Linked(st) => Linked(y)
          /\ MediaGone(st) => MediaGone(y)
          /\ CodecInfoInv(st) => CodecInfoInv(y)
      BY <1>2, <1>4, <1>5, OnlyLoop, Zenon
    <2>2. ChannelsInv(st) /\ y.loop.i > 0 =>
             y.d.mCodecInfoChanging /\ y.loop.i <= Len(y.out)
      BY <1>1, <1>2, <1>4, <1>5, SMT DEF ChannelsInv, LoopType
    <2>3. ChannelsInv(st) => ChannelsInv(y)
      BY <1>2, <1>4, <1>5, <2>2, Zenon DEF ChannelsInv
    <2>. QED
      BY <2>1, <2>3, Zenon DEF DownStep, Media
  <1>7. CASE st.loop.i \in DOMAIN st.out
    <2>1. c \in Chans
      BY <1>1, <1>7, SMT
    <2> HIDE DEF c
    <2>2. Good(y) /\ y.s.mState # "OPENING"
      BY <1>4, <1>6, Zenon DEF DownStep
    <2>3. OnChannel(y, v, c)
      BY <2>1, <2>2, ChannelTeardownOK, Zenon
    <2> HIDE DEF v
    <2>4. /\ Good(v) /\ Down(y, v)
          /\ Spares(y, c) => MediaKept(y, v)
          /\ DecodeAll /\ Linked(y) => OneLess(y, v)
      BY <2>3, Zenon DEF OnChannel
    <2>5. ASSUME DecodeAll, ChannelsInv(st)
          PROVE  ChannelsInv(v) /\ (CodecInfoInv(y) => CodecInfoInv(v))
      <3>1. st.d.mCodecInfoChanging /\ st.loop.i <= Len(st.out) /\ st.d.mState = "STARTED"
        BY <1>1, <1>2, <2>5, SMT DEF ChannelsInv, LoopType
      <3>2. Spares(y, c)
        BY <1>4, <3>1, Zenon DEF Spares
      <3>3. ChannelsInv(y)
        BY <1>6, <2>5, Zenon DEF DownStep, Media
      <3>4. /\ v.loop = y.loop
            /\ Linked(v) /\ MediaGone(v) /\ (Current(y) => Current(v))
        BY <2>4, <2>5, <3>2, <3>3, InTheirTerms, Zenon DEF MediaKept
      <3>5. OneLess(y, v)
        BY <2>4, <2>5, <3>3, InTheirTerms, Zenon
      <3>6. Len(v.out) \in Nat /\ Len(y.out) \in Nat
        <4>1. v.out \in Seq(Chans) /\ y.out \in Seq(Chans)
          BY <2>2, <2>4, Zenon DEF Good, StateType
        <4>. QED
          BY <4>1
      <3>7. v.d.mState = "STARTED"
        BY <1>4, <2>4, <3>1, Zenon DEF Down
      <3>8. v.loop.what = "teardown" /\ v.loop.i = st.loop.i - 1
        BY <1>5, <3>4, Zenon
      <3>9. v.loop.i > 0 => v.d.mCodecInfoChanging /\ v.loop.i <= Len(v.out)
        <4>1. CASE v.d.mCodecInfoChanging = y.d.mCodecInfoChanging
                   /\ Len(v.out) >= Len(y.out) - 1
          <5>1. v.d.mCodecInfoChanging
            BY <1>4, <3>1, <4>1, Zenon
          <5>2. v.loop.i <= Len(v.out)
            BY <1>1, <1>4, <3>1, <3>6, <3>8, <4>1, SMT DEF LoopType
          <5>. QED
            BY <5>1, <5>2
        <4>2. CASE Len(y.out) <= 1
          <5>1. ~(v.loop.i > 0)
            BY <1>1, <1>4, <3>1, <3>6, <3>8, <4>2, SMT DEF LoopType
          <5>. QED
            BY <5>1
        <4>. QED
          BY <3>5, <4>1, <4>2, Zenon DEF OneLess
      <3>10. ChannelsInv(v)
        BY <3>4, <3>7, <3>8, <3>9, Zenon DEF ChannelsInv, Linked, MediaGone
      <3>. QED
        BY <3>4, <3>10, InTheirTerms, Zenon
    <2>6. Down(st, v)
      BY <1>6, <2>4, DownTransitive, Zenon DEF DownStep
    <2>7. DownStep(st, v)
      BY <1>6, <2>4, <2>5, <2>6, Zenon DEF DownStep, Media
    <2>. QED
      BY <1>2, <1>7, <2>7, Zenon
  <1>8. CASE st.loop.i \notin DOMAIN st.out
    BY <1>2, <1>6, <1>8, Zenon
  <1>. QED
    BY <1>7, <1>8

LEMMA TeardownEndOK ==
  ASSUME Good(st), TeardownEnd
  PROVE  DownStep(st, st')
  <1>1. st \in StateType /\ st' = [st EXCEPT !.loop = NoLoop]
    BY Zenon DEF Good, TeardownEnd
  <1>2. NoLoop \in LoopType /\ NoLoop.what = "none"
    BY SMT DEF NoLoop, LoopType
  <1>3. /\ st' \in StateType /\ st'.loop = NoLoop
        /\ st'.d = st.d /\ st'.s = st.s /\ st'.r = st.r /\ st'.out = st.out
        /\ st'.est = st.est
    BY <1>1, <1>2, LoopSet, Zenon
  <1>4. /\ Good(st') /\ Down(st, st')
        /\ CodecInfoInv(st) => CodecInfoInv(st')
    BY <1>2, <1>3, OnlyLoop, Zenon
  <1>5. ChannelsInv(st) => ChannelsInv(st')
    BY <1>2, <1>3, Zenon DEF ChannelsInv
  <1>. QED
    BY <1>4, <1>5, Zenon DEF DownStep, Media

\* Every step of a loop over the channels.
LEMMA LoopStepOK ==
  ASSUME Good(st), st.s.mState # "OPENING", LoopStep,
         st.loop.what = "stop" => st.d.mState \in {"STOPPING", "STOPPED"}
  PROVE  DownStep(st, st')
  <1>1. st.loop.what = "stop" => st.d.mState # "STARTED"
    BY Zenon
  <1>. QED
    BY <1>1, FlushChannelOK, FlushEndOK, TeardownChannelOK, TeardownEndOK, Zenon DEF LoopStep

-----------------------------------------------------------------------------
\* What can be done whenever the loop thread is free, and keeps the media.
LEMMA FreeStep ==
  ASSUME NEW z, NEW y, z.loop.what = "none", Good(y), Down(z, y), MediaKept(z, y)
  PROVE  DownStep(z, y) /\ y.loop.what = "none"
  <1>1. z.loop.what # "teardown" /\ z.loop.what # "stop" /\ y.loop.what = "none"
    BY Zenon DEF MediaKept
  <1>. QED
    BY <1>1, MediaKeptOK, Zenon

\* An element that stops, or holds something else, when the media can spare it.
LEMMA FreeElem ==
  ASSUME NEW z, NEW y, NEW c \in Chans, z.loop.what = "none", Good(z), Elem(z, y, c),
         Spares(z, c)
  PROVE  DownStep(z, y) /\ y.loop.what = "none" /\ Spares(y, c) /\ y.s.mState = z.s.mState
  BY ElemOK, FreeStep, Zenon

\* ... and the close() that waits for it goes on.
LEMMA FreeStopped ==
  ASSUME NEW z, NEW c \in Chans, z.loop.what = "none", Good(z), Spares(z, c),
         c \in Decoders => z.est[c] # "none"
  PROVE  LET y == OnElementStopped([z EXCEPT !.est[c] = "none"])
         IN  DownStep(z, y) /\ y.loop.what = "none"
  <1> DEFINE x == [z EXCEPT !.est[c] = "none"]
             y == OnElementStopped(x)
  <1>1. z \in StateType
    BY Zenon DEF Good
  <1>2. Elem(z, x, c)
    BY <1>1, EstSet, Zenon
  <1> HIDE DEF x
  <1>3. DownStep(z, x) /\ x.loop.what = "none"
    BY <1>2, FreeElem, Zenon
  <1>4. Good(y) /\ Down(x, y) /\ SameMedia(x, y)
    BY <1>3, OnElementStoppedDown, Zenon DEF DownStep
  <1> HIDE DEF y
  <1>5. DownStep(x, y) /\ y.loop.what = "none"
    BY <1>3, <1>4, SameMediaKept, FreeStep, Zenon
  <1>. QED
    BY <1>3, <1>5, DownStepTransitive, Zenon DEF x, y

\* startVideoSink()
LEMMA StartVideoSinkOK ==
  ASSUME Good(st), NEW c \in Sinks, StartVideoSink(c)
  PROVE  DownStep(st, st')
  <1> DEFINE y == Link(st, c)
             v == OnChannelResync(y)
  <1>1. /\ st \in StateType /\ st.loop.what = "none" /\ st.d.mVideoMedia # None
        /\ st' = v /\ st.out \in Seq(Chans)
    BY Zenon DEF Good, StateType, StartVideoSink, Free
  <1>2. c \in Chans /\ c \notin Decoders
    BY StreamConstantsOK, Zenon DEF Chans
  <1>3. /\ y \in StateType /\ Down(st, y)
        /\ y.out = Append(st.out, c) /\ y.est = [st.est EXCEPT ![c] = "STARTED"]
        /\ y.d = st.d /\ y.loop = st.loop
    BY <1>1, <1>2, LinkOK, Zenon
  <1> HIDE DEF y
  <1>4. \A q \in Decoders : q \in DOMAIN st.est /\ y.est[q] = st.est[q]
    BY <1>1, <1>2, <1>3, Zenon DEF StateType, Chans
  <1>5. Good(y)
    BY <1>3, <1>4, Zenon DEF Good, DecoderLeft
  <1>6. /\ y.out # <<>>
        /\ \A i \in DOMAIN st.out : i \in DOMAIN y.out /\ y.out[i] = st.out[i]
    BY <1>1, <1>3, SMT
  <1>7. ChannelsInv(st) => ChannelsInv(y)
    BY <1>1, <1>3, <1>6, Zenon DEF ChannelsInv
  <1>8. \A q \in Decoders : InOut(st, q) => InOut(y, q)
    BY <1>6, Zenon DEF InOut
  <1>9. CodecInfoInv(st) => CodecInfoInv(y)
    BY <1>3, <1>4, <1>8, Zenon DEF CodecInfoInv
  <1>10. DownStep(st, y)
    BY <1>3, <1>5, <1>7, <1>9, Zenon DEF DownStep, Media
  <1>11. Good(v) /\ Down(y, v) /\ SameMedia(y, v)
    BY <1>5, OnChannelResyncOK, Zenon
  <1> HIDE DEF v
  <1>12. DownStep(y, v)
    BY <1>1, <1>3, <1>11, SameMediaKept, FreeStep, Zenon
  <1>. QED
    BY <1>1, <1>10, <1>12, DownStepTransitive, Zenon

\* stopVideoSink()
LEMMA StopVideoSinkOK ==
  ASSUME Good(st), st.s.mState # "OPENING", NEW c \in Sinks, StopVideoSink(c)
  PROVE  DownStep(st, st')
  <1> DEFINE y == [st EXCEPT !.est[c] = "STOPPING"]
             w1 == ChannelTeardown(y, c)
             w2 == [y EXCEPT !.ch[c].asked = FALSE]
             w == IF InOut(st, c) THEN w1 ELSE w2
             v == OnElementStopped([w EXCEPT !.est[c] = "none"])
  <1>1. /\ st \in StateType /\ st.loop.what = "none" /\ st.est[c] = "STARTED"
        /\ st' = IF w.ch[c].asked THEN w ELSE v
    BY Zenon DEF Good, StopVideoSink, Free
  <1>2. c \in Chans /\ c \notin Decoders
    BY StreamConstantsOK, Zenon DEF Chans
  <1>3. \A x : Spares(x, c)
    BY <1>2, Zenon DEF Spares
  <1>4. Elem(st, y, c)
    BY <1>1, <1>2, EstSet, Zenon
  <1> HIDE DEF y
  <1>5. DownStep(st, y) /\ y.loop.what = "none" /\ y.s.mState # "OPENING" /\ Good(y)
    BY <1>1, <1>2, <1>3, <1>4, FreeElem, Zenon DEF DownStep
  <1>6. OnChannel(y, w1, c)
    BY <1>2, <1>5, ChannelTeardownOK, Zenon
  <1>7. Elem(y, w2, c)
    BY <1>2, <1>5, AskedSet, Zenon DEF Good
  <1> HIDE DEF w1, w2
  <1>8. DownStep(y, w1) /\ w1.loop.what = "none"
    BY <1>3, <1>5, <1>6, FreeStep, Zenon DEF OnChannel
  <1>9. DownStep(y, w2) /\ w2.loop.what = "none"
    BY <1>2, <1>3, <1>5, <1>7, FreeElem, Zenon
  <1>10. DownStep(y, w) /\ w.loop.what = "none" /\ Good(w)
    BY <1>8, <1>9, Zenon DEF DownStep
  <1> HIDE DEF w
  <1>11. DownStep(w, v)
    BY <1>2, <1>3, <1>10, FreeStopped, Zenon
  <1> HIDE DEF v
  <1>. QED
    BY <1>1, <1>5, <1>10, <1>11, DownStepTransitive, Zenon

\* resyncVideoSink()
LEMMA ResyncVideoSinkOK ==
  ASSUME Good(st), NEW c \in Sinks, ResyncVideoSink(c)
  PROVE  DownStep(st, st')
  <1> DEFINE b == st.ch[c].asked \/ ~st.ch[c].flushed
             y == [st EXCEPT !.ch[c].asked = b]
             v == OnChannelResync(y)
  <1>1. st \in StateType /\ st.loop.what = "none" /\ st' = v
    BY Zenon DEF Good, ResyncVideoSink, Free
  <1>2. c \in Chans /\ c \notin Decoders /\ b \in BOOLEAN
    BY StreamConstantsOK, Zenon DEF Chans
  <1> HIDE DEF b
  <1>3. Elem(st, y, c) /\ Spares(st, c)
    BY <1>1, <1>2, AskedSet, Zenon DEF Spares
  <1> HIDE DEF y
  <1>4. DownStep(st, y) /\ y.loop.what = "none" /\ Good(y)
    BY <1>1, <1>2, <1>3, FreeElem, Zenon DEF DownStep
  <1>5. Good(v) /\ Down(y, v) /\ SameMedia(y, v)
    BY <1>4, OnChannelResyncOK, Zenon
  <1> HIDE DEF v
  <1>6. DownStep(y, v)
    BY <1>4, <1>5, SameMediaKept, FreeStep, Zenon
  <1>. QED
    BY <1>1, <1>4, <1>6, DownStepTransitive, Zenon

\* An element has done a flush.
LEMMA ElementFlushedOK ==
  ASSUME Good(st), st.s.mState # "OPENING", NEW c \in Chans, ElementFlushed(c)
  PROVE  DownStep(st, st')
  <1> DEFINE pending == st.ch[c].pending
             q == [flushed |-> st.ch[c].flushed \/ pending \/ c \in Decoders,
                   pending |-> FALSE, asked |-> FALSE, synced |-> FALSE]
             y == [st EXCEPT !.ch[c] = q]
             w1 == OnChannelFlushed(y, c)
             w == IF pending THEN w1 ELSE y
             v1 == OnChannelUnlink(w, c)
             v2 == OnElementStopped([w EXCEPT !.est[c] = "none"])
  <1>1. st \in StateType /\ st.loop.what = "none"
    BY Zenon DEF Good, ElementFlushed, Free
  <1>2. st' = IF w.est[c] # "STOPPING" THEN w ELSE IF c \in Decoders THEN v1 ELSE v2
    BY Zenon DEF ElementFlushed
  <1>3. Elem(st, y, c) /\ y.est = st.est
    <2>1. q \in ChanType
      BY Zenon DEF ChanType
    <2> HIDE DEF q
    <2>2. y.est = st.est
      BY <1>1, Zenon DEF StateType
    <2>. QED
      BY <1>1, <2>1, <2>2, ChSet, Zenon
  <1> HIDE DEF y
  <1>4. Good(y) /\ Down(st, y) /\ SameMedia(st, y) /\ y.s.mState # "OPENING"
        /\ y.loop.what = "none"
    <2>1. SameMedia(st, y) /\ y.loop = st.loop
      BY <1>3, Zenon DEF SameMedia, Elem
    <2>. QED
      BY <1>1, <1>3, <2>1, ElemOK, Zenon
  <1>5. DownStep(st, y)
    BY <1>1, <1>4, SameMediaKept, FreeStep, Zenon
  <1>6. Good(w1) /\ Down(y, w1) /\ MediaKept(y, w1)
    BY <1>4, OnChannelFlushedOK, Zenon
  <1> HIDE DEF w1
  <1>7. DownStep(st, w) /\ w.loop.what = "none" /\ Good(w) /\ w.s.mState # "OPENING"
    <2>1. DownStep(y, w1) /\ w1.loop.what = "none" /\ Good(w1) /\ w1.s.mState # "OPENING"
      BY <1>4, <1>6, FreeStep, Zenon DEF Down
    <2>. QED
      BY <1>4, <1>5, <2>1, DownStepTransitive, Zenon
  <1> HIDE DEF w
  <1>8. CASE w.est[c] # "STOPPING"
    BY <1>2, <1>7, <1>8, Zenon
  <1>9. CASE w.est[c] = "STOPPING"
    <2>1. Spares(w, c)
      BY <1>9, Zenon DEF Spares
    <2>2. OnChannel(w, v1, c)
      BY <1>7, OnChannelUnlinkOK, Zenon
    <2>3. DownStep(w, v2)
      BY <1>7, <1>9, <2>1, FreeStopped, Zenon
    <2> HIDE DEF v1, v2
    <2>4. DownStep(w, v1)
      BY <1>7, <2>1, <2>2, FreeStep, Zenon DEF OnChannel
    <2>. QED
      BY <1>2, <1>7, <1>9, <2>3, <2>4, DownStepTransitive, Zenon
  <1>. QED
    BY <1>8, <1>9

\* A decoder has stopped.
LEMMA DecoderStoppedOK ==
  ASSUME Good(st), NEW c \in Chans, DecoderStopped(c)
  PROVE  DownStep(st, st')
  <1>1. /\ st.loop.what = "none" /\ st.est[c] = "STOPPING"
        /\ st' = OnElementStopped([st EXCEPT !.est[c] = "none"])
    BY Zenon DEF DecoderStopped, Free
  <1>2. Spares(st, c)
    BY <1>1, Zenon DEF Spares
  <1>. QED
    BY <1>1, <1>2, FreeStopped, Zenon

-----------------------------------------------------------------------------
(* The callbacks of the RTP receiver.                                      *)

\* flush(), up to its loop
LEMMA FlushSet ==
  ASSUME NEW z \in StateType, NEW what \in {"flush", "stop"}
  PROVE  LET y == Flush(z, what) IN
         /\ y \in StateType
         /\ y.d = [z.d EXCEPT !.mFlushing = TRUE, !.mIdrFrameSyncPending = TRUE]
         /\ y.s = z.s /\ y.r = z.r /\ y.out = z.out /\ y.ch = z.ch /\ y.est = z.est
         /\ y.loop.what = what
         /\ y.loop.n = IF z.d.mVideoMedia = None THEN 0 ELSE Len(z.out)
  <1> DEFINE l == [what |-> what, i |-> 1,
                   n |-> IF z.d.mVideoMedia = None THEN 0 ELSE Len(z.out)]
             d == [z.d EXCEPT !.mFlushing = TRUE, !.mIdrFrameSyncPending = TRUE]
             y == [z EXCEPT !.d = d, !.loop = l]
  <1>1. l \in LoopType
    <2>1. z.out \in Seq(Chans)
      BY Zenon DEF StateType
    <2>2. (IF z.d.mVideoMedia = None THEN 0 ELSE Len(z.out)) \in Nat /\ 1 \in Nat
      BY <2>1, SMT
    <2>. QED
      BY <2>2, SMT DEF LoopType
  <1>2. d \in DemuxerType
    BY Zenon DEF StateType, DemuxerType
  <1>3. Flush(z, what) = y
    BY Zenon DEF Flush
  <1>4. l.what = what /\ l.n = IF z.d.mVideoMedia = None THEN 0 ELSE Len(z.out)
    BY SMT
  <1> HIDE DEF l, d
  <1>5. y \in StateType
    BY <1>1, <1>2, Zenon DEF StateType
  <1>6. /\ y.d = d /\ y.loop = l
        /\ y.s = z.s /\ y.r = z.r /\ y.out = z.out /\ y.ch = z.ch /\ y.est = z.est
    BY Zenon DEF StateType
  <1>. QED
    BY <1>3, <1>4, <1>5, <1>6, Zenon DEF d

\* ... which begins when the loop thread is free.
LEMMA FlushBegins ==
  ASSUME NEW z, Good(z), z.loop.what = "none", z.d.mState = "STARTED"
  PROVE  DownStep(z, Flush(z, "flush"))
  <1> DEFINE y == Flush(z, "flush")
  <1>1. z \in StateType /\ z.d \in DemuxerType
    BY Zenon DEF Good, StateType
  <1>2. /\ y \in StateType
        /\ y.d = [z.d EXCEPT !.mFlushing = TRUE, !.mIdrFrameSyncPending = TRUE]
        /\ y.s = z.s /\ y.r = z.r /\ y.out = z.out /\ y.est = z.est
        /\ y.loop.what = "flush"
    BY <1>1, FlushSet, Zenon
  <1> HIDE DEF y
  <1>3. /\ y.d.rtsp = z.d.rtsp /\ y.d.mRtspState = z.d.mRtspState
        /\ y.d.mRtspSessionId = z.d.mRtspSessionId /\ y.d.mContentBase = z.d.mContentBase
        /\ y.d.socks = z.d.socks /\ y.d.mReceiver = z.d.mReceiver
        /\ y.d.leaked = z.d.leaked /\ y.d.mSeeking = z.d.mSeeking
        /\ y.d.mNetworkReadyForStop = z.d.mNetworkReadyForStop
        /\ y.d.mChannelsReadyForStop = z.d.mChannelsReadyForStop
        /\ y.d.mState = z.d.mState /\ y.d.mCodecInfoChanging = z.d.mCodecInfoChanging
        /\ y.d.mVideoMedia = z.d.mVideoMedia /\ y.d.mCodecInfo = z.d.mCodecInfo
    BY <1>1, <1>2, Zenon DEF DemuxerType
  <1>4. Down(z, y)
    BY <1>2, <1>3, Zenon DEF Down
  <1>5. Good(y)
    BY <1>2, <1>3, ZenonT(60) DEF Good, DecoderLeft
  <1>6. ChannelsInv(z) => ChannelsInv(y)
    BY <1>2, <1>3, Zenon DEF ChannelsInv
  <1>7. \A c : InOut(z, c) => InOut(y, c)
    BY <1>2, Zenon DEF InOut
  <1>8. CodecInfoInv(z) => CodecInfoInv(y)
    BY <1>2, <1>3, <1>7, ZenonT(60) DEF CodecInfoInv
  <1>. QED
    BY <1>4, <1>5, <1>6, <1>8, Zenon DEF DownStep, Media, y

\* The parameter sets are known.
LEMMA WaitReset ==
  ASSUME NEW z \in StateType, NEW b \in BOOLEAN
  PROVE  LET y == [z EXCEPT !.d.mWaitForCodecInfo = b] IN
         /\ y \in StateType /\ Down(z, y) /\ SameMedia(z, y)
         /\ y.s = z.s /\ y.d.mWaitForCodecInfo = b
  <1> DEFINE y == [z EXCEPT !.d.mWaitForCodecInfo = b]
  <1>1. y \in StateType
    BY Zenon DEF StateType, DemuxerType
  <1>2. Down(z, y)
    BY Zenon DEF StateType, DemuxerType, Down
  <1>3. SameMedia(z, y) /\ y.s = z.s /\ y.d.mWaitForCodecInfo = b
    BY Zenon DEF StateType, DemuxerType, SameMedia
  <1>. QED
    BY <1>1, <1>2, <1>3

\* New parameter sets, and whether the media must change for them.
LEMMA CodecInfoSet ==
  ASSUME NEW z \in StateType, NEW info \in Infos, NEW b \in BOOLEAN
  PROVE  LET y == [[z EXCEPT !.d.mCodecInfo = info] EXCEPT !.d.mCodecInfoChanging = b] IN
         /\ y \in StateType /\ Down(z, y)
         /\ y.out = z.out /\ y.est = z.est /\ y.loop = z.loop /\ y.s = z.s
         /\ y.d.mState = z.d.mState /\ y.d.mVideoMedia = z.d.mVideoMedia
         /\ y.d.mCodecInfo = info /\ y.d.mCodecInfoChanging = b
         /\ y.d.mChannelsReadyForStop = z.d.mChannelsReadyForStop
  <1> DEFINE w == [z EXCEPT !.d.mCodecInfo = info]
             y == [w EXCEPT !.d.mCodecInfoChanging = b]
  <1>1. w \in StateType
    BY Zenon DEF StateType, DemuxerType
  <1>2. Down(z, w)
    BY Zenon DEF StateType, DemuxerType, Down
  <1>3. /\ w.out = z.out /\ w.est = z.est /\ w.loop = z.loop /\ w.s = z.s
        /\ w.d.mState = z.d.mState /\ w.d.mVideoMedia = z.d.mVideoMedia
        /\ w.d.mCodecInfo = info
        /\ w.d.mChannelsReadyForStop = z.d.mChannelsReadyForStop
    BY Zenon DEF StateType, DemuxerType
  <1> HIDE DEF w
  <1>4. y \in StateType
    BY <1>1, ZenonT(60) DEF StateType, DemuxerType
  <1>5. Down(w, y)
    BY <1>1, Zenon DEF StateType, DemuxerType, Down
  <1>6. /\ y.out = w.out /\ y.est = w.est /\ y.loop = w.loop /\ y.s = w.s
        /\ y.d.mState = w.d.mState /\ y.d.mVideoMedia = w.d.mVideoMedia
        /\ y.d.mCodecInfo = w.d.mCodecInfo /\ y.d.mCodecInfoChanging = b
        /\ y.d.mChannelsReadyForStop = w.d.mChannelsReadyForStop
    BY <1>1, Zenon DEF StateType, DemuxerType
  <1> HIDE DEF y
  <1>7. Down(z, y)
    BY <1>2, <1>5, DownTransitive, Zenon
  <1>. QED
    BY <1>3, <1>4, <1>6, <1>7, Zenon DEF w, y

\* codecInfoChangedCb()
LEMMA CodecInfoChangedOK ==
  ASSUME Good(st), NEW info \in Infos, CodecInfoChanged(info)
  PROVE  DownStep(st, st')
  <1> DEFINE y == [st EXCEPT !.d.mWaitForCodecInfo = FALSE]
             w == [y EXCEPT !.d.mCodecInfo = info]
             v == [w EXCEPT !.d.mCodecInfoChanging = FALSE]
             r == SetupInputMedia(v)
             x == [w EXCEPT !.d.mCodecInfoChanging = TRUE]
             l == [what |-> "teardown", i |-> Len(st.out), n |-> Len(st.out)]
             t == [x EXCEPT !.loop = l]
             t0 == [w EXCEPT !.d.mCodecInfoChanging = TRUE,
                             !.loop = [what |-> "teardown", i |-> Len(st.out),
                                       n |-> Len(st.out)]]
  <1>1. /\ st \in StateType /\ st.out \in Seq(Chans) /\ st.loop.what = "none"
        /\ st.d.mState = "STARTED"
        /\ DecodeAll => \E c \in Decoders : st.est[c] = "none"
    BY Zenon DEF Good, StateType, CodecInfoChanged, Receives, Free
  <1>2. st' = IF ~st.d.mCodecInfoChanging /\ st.d.mCodecInfo = info THEN Flush(y, "flush")
              ELSE IF st.d.mVideoMedia = None THEN r ELSE t0
    BY Zenon DEF CodecInfoChanged
  <1>3. t0 = t
    BY Zenon
  <1> HIDE DEF t0
  <1>4. y \in StateType /\ Down(st, y) /\ SameMedia(st, y)
    BY <1>1, WaitReset, Zenon
  <1> HIDE DEF y
  <1>5. Good(y) /\ y.loop.what = "none" /\ y.d.mState = "STARTED"
    BY <1>1, <1>4, SameMediaLeft, Zenon DEF Good, SameMedia
  <1>6. DownStep(st, y)
    BY <1>1, <1>4, <1>5, SameMediaKept, FreeStep, Zenon
  <1>7. CASE st' = Flush(y, "flush")
    <2>1. DownStep(y, Flush(y, "flush"))
      BY <1>5, FlushBegins, Zenon
    <2>. QED
      BY <1>6, <1>7, <2>1, DownStepTransitive, Zenon
  <1>8. CASE st' = r /\ st.d.mVideoMedia = None
    <2>1. /\ v \in StateType /\ Down(y, v)
          /\ v.out = y.out /\ v.est = y.est /\ v.loop = y.loop /\ v.s = y.s
          /\ v.d.mState = y.d.mState /\ v.d.mVideoMedia = y.d.mVideoMedia
          /\ v.d.mCodecInfo = info /\ v.d.mCodecInfoChanging = FALSE
          /\ v.d.mChannelsReadyForStop = y.d.mChannelsReadyForStop
      <3>1. y \in StateType /\ FALSE \in BOOLEAN
        BY <1>4, Zenon
      <3>. QED
        BY <3>1, CodecInfoSet, ZenonT(60)
    <2> HIDE DEF v, w
    <2>2. Good(v)
      BY <2>1, Zenon DEF Good, DecoderLeft
    <2>3. /\ v.d.mState = "STARTED" /\ v.d.mVideoMedia = None /\ v.d.mCodecInfo # None
          /\ v.loop.what = "none" /\ v.out = st.out
          /\ DecodeAll => \E c \in Decoders : v.est[c] = "none"
      BY <1>1, <1>4, <1>8, <2>1, StreamConstantsOK, Zenon DEF SameMedia
    <2>4. /\ Good(r) /\ Down(v, r)
          /\ r.loop = v.loop /\ r.d.mState = v.d.mState
          /\ r.d.mVideoMedia = info /\ r.d.mCodecInfo = info
          /\ DecodeAll => \E c \in Decoders : /\ r.out = Append(v.out, c)
                                              /\ r.est = [v.est EXCEPT ![c] = "STARTED"]
      BY <2>1, <2>2, <2>3, SetupInputMediaOK, Zenon
    <2> HIDE DEF r
    <2>5. Down(st, r)
      BY <1>4, <2>1, <2>4, DownTransitive, Zenon
    <2>6. ASSUME DecodeAll
          PROVE  ChannelsInv(r) /\ CodecInfoInv(r)
      <3>1. PICK c \in Decoders : /\ r.out = Append(v.out, c)
                                  /\ r.est = [v.est EXCEPT ![c] = "STARTED"]
        BY <2>4, <2>6, Zenon
      <3>2. v.out \in Seq(Chans) /\ c \in DOMAIN v.est
        BY <2>1, Zenon DEF StateType, Chans
      <3>3. r.out # <<>> /\ Len(r.out) \in DOMAIN r.out /\ r.out[Len(r.out)] = c
        BY <3>1, <3>2, SMT
      <3>4. InOut(r, c) /\ r.est[c] = "STARTED"
        BY <3>1, <3>2, <3>3, Zenon DEF InOut
      <3>5. r.d.mVideoMedia # None /\ r.d.mState = "STARTED" /\ r.loop.what = "none"
        BY <2>1, <2>3, <2>4, ZenonT(60)
      <3>. QED
        BY <2>4, <3>3, <3>4, <3>5, Zenon DEF ChannelsInv, CodecInfoInv
    <2>. QED
      BY <1>8, <2>4, <2>5, <2>6, Zenon DEF DownStep, Media
  <1>9. CASE st' = t
    <2>1. /\ x \in StateType /\ Down(y, x)
          /\ x.out = y.out /\ x.est = y.est /\ x.loop = y.loop /\ x.s = y.s
          /\ x.d.mState = y.d.mState /\ x.d.mVideoMedia = y.d.mVideoMedia
          /\ x.d.mCodecInfo = info /\ x.d.mCodecInfoChanging = TRUE
          /\ x.d.mChannelsReadyForStop = y.d.mChannelsReadyForStop
      <3>1. y \in StateType /\ TRUE \in BOOLEAN
        BY <1>4, Zenon
      <3>. QED
        BY <3>1, CodecInfoSet, ZenonT(60)
    <2> HIDE DEF x, w
    <2>2. Good(x) /\ x.d.mState = "STARTED" /\ x.out = st.out
      BY <1>1, <1>4, <2>1, Zenon DEF Good, DecoderLeft, SameMedia
    <2>3. l \in LoopType /\ l.what = "teardown" /\ l.i = Len(st.out)
          /\ Len(st.out) \in Nat
      BY <1>1, SMT DEF LoopType
    <2> HIDE DEF l
    <2>4. /\ t \in StateType /\ t.loop = l
          /\ t.d = x.d /\ t.s = x.s /\ t.r = x.r /\ t.out = x.out /\ t.est = x.est
      BY <2>1, <2>3, LoopSet, Zenon
    <2> HIDE DEF t
    <2>5. t.loop.what = "teardown" /\ t.loop.i = Len(t.out)
      BY <2>2, <2>3, <2>4, Zenon
    <2>6. Good(t) /\ Down(x, t)
      BY <2>2, <2>4, <2>5, OnlyLoop, Zenon
    <2>7. Down(st, t)
      BY <1>4, <2>1, <2>6, DownTransitive, Zenon
    <2>8. ASSUME ChannelsInv(st)
          PROVE  ChannelsInv(t)
      <3>1. t.loop.i <= Len(t.out)
        BY <2>2, <2>3, <2>4, <2>5, SMT
      <3>2. t.d.mVideoMedia = st.d.mVideoMedia /\ t.out = st.out
            /\ t.d.mState = "STARTED" /\ t.d.mCodecInfoChanging
        BY <1>4, <2>1, <2>2, <2>4, Zenon DEF SameMedia
      <3>. QED
        BY <2>5, <2>8, <3>1, <3>2, Zenon DEF ChannelsInv
    <2>9. CodecInfoInv(t)
      BY <2>1, <2>4, Zenon DEF CodecInfoInv
    <2>. QED
      BY <1>9, <2>6, <2>7, <2>8, <2>9, Zenon DEF DownStep, Media
  <1>. QED
    BY <1>2, <1>3, <1>7, <1>8, <1>9, Zenon

\* recvFrameCb()
LEMMA RecvFrameOK ==
  ASSUME Good(st), RecvFrame \/ RecvFrameNoBuffer
  PROVE  DownStep(st, st')
  <1>1. /\ st \in StateType /\ st.loop.what = "none" /\ st.d.mState = "STARTED"
        /\ st' = Flush(st, "flush") \/ st' = Queue(st, FALSE)
    BY Zenon DEF Good, RecvFrame, RecvFrameNoBuffer, Receives, Free
  <1>2. CASE st' = Flush(st, "flush")
    BY <1>1, <1>2, FlushBegins, Zenon
  <1>3. CASE st' = Queue(st, FALSE)
    <2>1. st' \in StateType /\ Down(st, st') /\ SameMedia(st, st')
      BY <1>1, <1>3, QueueOK, Zenon
    <2>2. Good(st')
      BY <2>1, SameMediaLeft, Zenon DEF Good
    <2>. QED
      BY <1>1, <2>1, <2>2, SameMediaKept, FreeStep, Zenon
  <1>. QED
    BY <1>1, <1>2, <1>3, Zenon

-----------------------------------------------------------------------------
(* The requests that have no answer yet.                                   *)

ReqType == [op : Requests, sid : Sids \cup {None}]
Asks == {"play", "seek", "pause"}

\* A request is sent.
LEMMA RequestSent ==
  ASSUME NEW z, NEW y, NEW q \in ReqType, NEW ops,
         z.r.reqs \in Seq(ReqType), y.r.reqs = Append(z.r.reqs, q)
  PROVE  /\ Waits(y, ops) <=> Waits(z, ops) \/ q.op \in ops
         /\ AtMostOne(z, ops) /\ (q.op \in ops => ~Waits(z, ops)) => AtMostOne(y, ops)
  <1> DEFINE s == z.r.reqs
             t == y.r.reqs
  <1>1. /\ \A i \in DOMAIN s : i \in DOMAIN t /\ t[i] = s[i]
        /\ \A i \in DOMAIN t : i \in DOMAIN s \/ i = Len(s) + 1
        /\ Len(s) + 1 \in DOMAIN t /\ t[Len(s) + 1] = q
    BY SMT
  <1> HIDE DEF s, t
  <1>2. Waits(z, ops) <=> \E i \in DOMAIN s : s[i].op \in ops
    BY Zenon DEF Waits, s
  <1>3. Waits(y, ops) <=> \E i \in DOMAIN t : t[i].op \in ops
    BY Zenon DEF Waits, t
  <1>4. Waits(y, ops) <=> Waits(z, ops) \/ q.op \in ops
    BY <1>1, <1>2, <1>3, SMT
  <1>5. ASSUME AtMostOne(z, ops), q.op \in ops => ~Waits(z, ops),
               NEW i \in DOMAIN t, NEW j \in DOMAIN t, t[i].op \in ops, t[j].op \in ops
        PROVE  i = j
    <2>1. \A k, l \in DOMAIN s : s[k].op \in ops /\ s[l].op \in ops => k = l
      BY <1>5, Zenon DEF AtMostOne, s
    <2>. QED
      BY <1>1, <1>2, <1>5, <2>1, SMT
  <1>. QED
    BY <1>4, <1>5, Zenon DEF AtMostOne, t

\* A sequence without its head.
LEMMA TailOneBack ==
  ASSUME NEW S, NEW s \in Seq(S), s # <<>>
  PROVE  /\ \A i \in DOMAIN Tail(s) :
                i + 1 \in DOMAIN s /\ Tail(s)[i] = s[i + 1] /\ i \in Nat /\ i > 0
         /\ \A i \in DOMAIN s :
                i = 1 \/ (i - 1 \in DOMAIN Tail(s) /\ Tail(s)[i - 1] = s[i] /\ i \in Nat)
         /\ 1 \in DOMAIN s /\ Head(s) = s[1]
  <1>1. Len(s) \in Nat /\ Len(s) > 0 /\ DOMAIN s = 1..Len(s) /\ Head(s) = s[1]
    BY SMT
  <1>2. Tail(s) \in Seq(S) /\ Len(Tail(s)) = Len(s) - 1
    BY SMT
  <1>3. DOMAIN Tail(s) = 1..(Len(s) - 1)
    BY <1>2, SMT
  <1>4. \A i \in 1..(Len(s) - 1) : Tail(s)[i] = s[i + 1]
    BY <1>1, SMT
  <1> DEFINE t == Tail(s)
             n == Len(s)
  <1>5. t = Tail(s) /\ n = Len(s)
    OBVIOUS
  <1> HIDE DEF t, n
  <1>6. \A i \in DOMAIN t : i + 1 \in DOMAIN s /\ t[i] = s[i + 1] /\ i \in Nat /\ i > 0
    BY <1>1, <1>3, <1>4, <1>5, SMT
  <1>7. \A i \in DOMAIN s : i = 1 \/ (i - 1 \in DOMAIN t /\ t[i - 1] = s[i] /\ i \in Nat)
    BY <1>1, <1>3, <1>4, <1>5, SMT
  <1>8. 1 \in DOMAIN s
    BY <1>1, SMT
  <1>. QED
    BY <1>1, <1>5, <1>6, <1>7, <1>8, Zenon

\* The oldest request is answered.
LEMMA RequestAnswered ==
  ASSUME NEW z, NEW y, NEW ops,
         z.r.reqs \in Seq(ReqType), z.r.reqs # <<>>, y.r.reqs = Tail(z.r.reqs)
  PROVE  /\ Waits(z, ops) <=> Waits(y, ops) \/ Head(z.r.reqs).op \in ops
         /\ AtMostOne(z, ops) => AtMostOne(y, ops)
         /\ AtMostOne(z, ops) /\ Head(z.r.reqs).op \in ops => ~Waits(y, ops)
  <1> DEFINE s == z.r.reqs
             t == y.r.reqs
  <1>0. s \in Seq(ReqType) /\ s # <<>> /\ t = Tail(s)
    OBVIOUS
  <1> HIDE DEF s, t
  <1>1. /\ \A i \in DOMAIN t : i + 1 \in DOMAIN s /\ t[i] = s[i + 1] /\ i \in Nat /\ i > 0
        /\ \A i \in DOMAIN s : i = 1 \/ (i - 1 \in DOMAIN t /\ t[i - 1] = s[i] /\ i \in Nat)
        /\ 1 \in DOMAIN s /\ Head(s) = s[1]
    BY <1>0, TailOneBack
  <1>2. Waits(z, ops) <=> \E i \in DOMAIN s : s[i].op \in ops
    BY Zenon DEF Waits, s
  <1>3. Waits(y, ops) <=> \E i \in DOMAIN t : t[i].op \in ops
    BY Zenon DEF Waits, t
  <1>4. Waits(z, ops) <=> Waits(y, ops) \/ Head(s).op \in ops
    BY <1>1, <1>2, <1>3, SMT
  <1>5. ASSUME AtMostOne(z, ops)
        PROVE  \A k, l \in DOMAIN s : s[k].op \in ops /\ s[l].op \in ops => k = l
    BY <1>5, Zenon DEF AtMostOne, s
  <1>6. ASSUME AtMostOne(z, ops), NEW i \in DOMAIN t, NEW j \in DOMAIN t,
               t[i].op \in ops, t[j].op \in ops
        PROVE  i = j
    BY <1>1, <1>5, <1>6, SMT
  <1>7. ASSUME AtMostOne(z, ops), Head(s).op \in ops
        PROVE  ~Waits(y, ops)
    BY <1>1, <1>3, <1>5, <1>7, SMT
  <1>. QED
    BY <1>4, <1>6, <1>7, Zenon DEF AtMostOne, s, t

\* The requests of a kind, counted.
LEMMA CountFinite ==
  ASSUME NEW s \in Seq(ReqType), NEW k
  PROVE  IsFiniteSet(Kind(s, k)) /\ Cardinality(Kind(s, k)) \in 0..Len(s)
  <1>1. Len(s) \in Nat /\ Kind(s, k) \subseteq 1..Len(s)
    BY SMT DEF Kind
  <1>2. IsFiniteSet(1..Len(s)) /\ Cardinality(1..Len(s)) = Len(s)
    <2>1. 1 \in Int /\ Len(s) \in Int
      BY <1>1, SMT
    <2>2. /\ IsFiniteSet(1..Len(s))
          /\ Cardinality(1..Len(s)) = IF 1 > Len(s) THEN 0 ELSE Len(s) - 1 + 1
      BY <2>1, FS_Interval, Zenon
    <2>. QED
      BY <1>1, <2>2, SMT
  <1>3. /\ IsFiniteSet(Kind(s, k)) /\ Cardinality(Kind(s, k)) <= Cardinality(1..Len(s))
    BY <1>1, <1>2, FS_Subset, Zenon
  <1>4. Cardinality(Kind(s, k)) \in Nat
    BY <1>3, FS_CardinalityType, Zenon
  <1>. QED
    BY <1>1, <1>2, <1>3, <1>4, SMT

LEMMA CountSent ==
  ASSUME NEW s \in Seq(ReqType), NEW q \in ReqType, NEW k
  PROVE  Cardinality(Kind(Append(s, q), k)) =
            IF q.op = k THEN Cardinality(Kind(s, k)) + 1 ELSE Cardinality(Kind(s, k))
  <1> DEFINE i == Len(s) + 1
  <1>1. IsFiniteSet(Kind(s, k)) /\ Cardinality(Kind(s, k)) \in Nat
    BY CountFinite, SMT
  <1>2. CASE q.op = k
    <2>1. Kind(Append(s, q), k) = Kind(s, k) \cup {i} /\ i \notin Kind(s, k)
      BY <1>2, SMT DEF Kind
    <2>2. Cardinality(Kind(s, k) \cup {i}) = Cardinality(Kind(s, k)) + 1
      BY <1>1, <2>1, FS_AddElement, Zenon
    <2>. QED
      BY <1>2, <2>1, <2>2, Zenon
  <1>3. CASE q.op # k
    <2>1. Kind(Append(s, q), k) = Kind(s, k)
      BY <1>3, SMT DEF Kind
    <2>. QED
      BY <1>3, <2>1, Zenon
  <1>. QED
    BY <1>2, <1>3

LEMMA CountAnswered ==
  ASSUME NEW s \in Seq(ReqType), s # <<>>, NEW k
  PROVE  Cardinality(Kind(Tail(s), k)) =
            IF Head(s).op = k THEN Cardinality(Kind(s, k)) - 1 ELSE Cardinality(Kind(s, k))
  <1> DEFINE t == Tail(s)
             S == Kind(t, k)
             T == {i \in Kind(s, k) : i # 1}
             f == [i \in S |-> i + 1]
  <1>1. /\ t \in Seq(ReqType)
        /\ \A i \in DOMAIN t : i + 1 \in DOMAIN s /\ t[i] = s[i + 1] /\ i \in Nat /\ i > 0
        /\ \A i \in DOMAIN s : i = 1 \/ (i - 1 \in DOMAIN t /\ t[i - 1] = s[i] /\ i \in Nat)
        /\ 1 \in DOMAIN s /\ Head(s) = s[1]
    BY SMT
  <1> HIDE DEF t
  <1>2. \A i \in S : f[i] \in T /\ f[i] = i + 1 /\ i \in Nat
    BY <1>1, SMT DEF Kind
  <1>3. \A j \in T : j - 1 \in S /\ f[j - 1] = j
    BY <1>1, SMTT(60) DEF Kind
  <1>4. f \in Bijection(S, T)
    <2>1. f \in [S -> T]
      BY <1>2, Zenon
    <2>2. \A a, b \in S : f[a] = f[b] => a = b
      BY <1>2, SMT
    <2>3. \A j \in T : \E i \in S : f[i] = j
      BY <1>3, Zenon
    <2>. QED
      BY <2>1, <2>2, <2>3, Zenon DEF Bijection, Injection, Surjection, IsInjective
  <1>5. IsFiniteSet(S) /\ Cardinality(S) \in Nat
    BY <1>1, CountFinite, SMT
  <1>6. Cardinality(T) = Cardinality(S) /\ IsFiniteSet(T)
    BY <1>4, <1>5, FS_Bijection, Zenon DEF ExistsBijection
  <1>7. CASE Head(s).op = k
    <2>1. Kind(s, k) = T \cup {1} /\ 1 \notin T
      BY <1>1, <1>7, SMT DEF Kind
    <2>2. Cardinality(T \cup {1}) = Cardinality(T) + 1
      BY <1>6, <2>1, FS_AddElement, Zenon
    <2>3. Cardinality(Kind(s, k)) = Cardinality(S) + 1
      BY <1>6, <2>1, <2>2, Zenon
    <2> HIDE DEF S, T
    <2>4. Cardinality(S) = Cardinality(Kind(s, k)) - 1
      BY <1>5, <2>3, SMT
    <2>. QED
      BY <1>7, <2>4, Zenon DEF t, S
  <1>8. CASE Head(s).op # k
    <2>1. Kind(s, k) = T
      BY <1>1, <1>8, SMT DEF Kind
    <2>. QED
      BY <1>6, <1>8, <2>1, Zenon DEF t
  <1>. QED
    BY <1>7, <1>8

-----------------------------------------------------------------------------
(* The dialogue with the server, operator by operator.                     *)

\* What has no part in the dialogue.
SameElems(z, y) == y.out = z.out /\ y.est = z.est /\ y.ch = z.ch /\ y.loop = z.loop

LEMMA DemuxerSet ==
  ASSUME NEW z \in StateType, NEW d \in DemuxerType
  PROVE  LET y == [z EXCEPT !.d = d] IN
         y \in StateType /\ y.d = d /\ y.s = z.s /\ y.r = z.r /\ SameElems(z, y)
  BY Zenon DEF StateType, SameElems

LEMMA SessionSet ==
  ASSUME NEW z \in StateType, NEW s \in SessionType
  PROVE  LET y == [z EXCEPT !.s = s] IN
         y \in StateType /\ y.d = z.d /\ y.s = s /\ y.r = z.r /\ SameElems(z, y)
  BY Zenon DEF StateType, SameElems

LEMMA ClientSet ==
  ASSUME NEW z \in StateType, NEW r \in ClientType
  PROVE  LET y == [z EXCEPT !.r = r] IN
         y \in StateType /\ y.d = z.d /\ y.s = z.s /\ y.r = r /\ SameElems(z, y)
  BY Zenon DEF StateType, SameElems

LEMMA SameElemsTransitive ==
  ASSUME NEW x, NEW y, NEW z, SameElems(x, y), SameElems(y, z)
  PROVE  SameElems(x, z)
  BY Zenon DEF SameElems

\* The requests are a sequence of ReqType.
LEMMA ReqsType ==
  ASSUME NEW z \in StateType
  PROVE  /\ z.d \in DemuxerType /\ z.s \in SessionType /\ z.r \in ClientType
         /\ z.r.reqs \in Seq(ReqType) /\ z.d.mRtspSessionId \in Sids \cup {None}
         /\ z.r.conn \in {"none", "connecting", "up", "closing"}
         /\ z.r.idles \in SUBSET {"idleStop", "idleRtspDisconnect"}
  <1>1. z.d \in DemuxerType /\ z.s \in SessionType /\ z.r \in ClientType
    BY Zenon DEF StateType
  <1>. QED
    BY <1>1, Zenon DEF DemuxerType, ClientType, ReqType

\* What the RTSP client has and is asked to do.
LEMMA ReqsSet ==
  ASSUME NEW z \in StateType, NEW s \in Seq(ReqType)
  PROVE  LET y == [z EXCEPT !.r.reqs = s] IN
         /\ y \in StateType /\ y.d = z.d /\ y.s = z.s /\ SameElems(z, y)
         /\ y.r.conn = z.r.conn /\ y.r.reqs = s /\ y.r.idles = z.r.idles
  <1> DEFINE r == [z.r EXCEPT !.reqs = s]
  <1>1. z.r \in ClientType
    BY ReqsType, Zenon
  <1>2. r \in ClientType /\ r.conn = z.r.conn /\ r.reqs = s /\ r.idles = z.r.idles
    BY <1>1, Zenon DEF ClientType, ReqType
  <1>3. [z EXCEPT !.r.reqs = s] = [z EXCEPT !.r = r]
    BY Zenon
  <1> HIDE DEF r
  <1>. QED
    BY <1>2, <1>3, ClientSet, ZenonT(60)

LEMMA ConnSet ==
  ASSUME NEW z \in StateType, NEW c \in {"none", "connecting", "up", "closing"}
  PROVE  LET y == [z EXCEPT !.r.conn = c] IN
         /\ y \in StateType /\ y.d = z.d /\ y.s = z.s /\ SameElems(z, y)
         /\ y.r.conn = c /\ y.r.reqs = z.r.reqs /\ y.r.idles = z.r.idles
  <1> DEFINE r == [z.r EXCEPT !.conn = c]
  <1>1. z.r \in ClientType
    BY ReqsType, Zenon
  <1>2. r \in ClientType /\ r.conn = c /\ r.reqs = z.r.reqs /\ r.idles = z.r.idles
    BY <1>1, Zenon DEF ClientType
  <1>3. [z EXCEPT !.r.conn = c] = [z EXCEPT !.r = r]
    BY Zenon
  <1> HIDE DEF r
  <1>. QED
    BY <1>2, <1>3, ClientSet, ZenonT(60)

LEMMA IdlesSet ==
  ASSUME NEW z \in StateType, NEW i \in SUBSET {"idleStop", "idleRtspDisconnect"}
  PROVE  LET y == [z EXCEPT !.r.idles = i] IN
         /\ y \in StateType /\ y.d = z.d /\ y.s = z.s /\ SameElems(z, y)
         /\ y.r.conn = z.r.conn /\ y.r.reqs = z.r.reqs /\ y.r.idles = i
  <1> DEFINE r == [z.r EXCEPT !.idles = i]
  <1>1. z.r \in ClientType
    BY ReqsType, Zenon
  <1>2. r \in ClientType /\ r.conn = z.r.conn /\ r.reqs = z.r.reqs /\ r.idles = i
    BY <1>1, Zenon DEF ClientType
  <1>3. [z EXCEPT !.r.idles = i] = [z EXCEPT !.r = r]
    BY Zenon
  <1> HIDE DEF r
  <1>. QED
    BY <1>2, <1>3, ClientSet, ZenonT(60)

\* A request is sent, the client is told to disconnect, the demuxer is to stop.
LEMMA SendOK ==
  ASSUME NEW z \in StateType, NEW op \in Requests
  PROVE  LET y == Send(z, op)
             q == [op |-> op, sid |-> z.d.mRtspSessionId] IN
         /\ y \in StateType /\ y.d = z.d /\ y.s = z.s /\ SameElems(z, y)
         /\ y.r.conn = z.r.conn /\ y.r.reqs = Append(z.r.reqs, q) /\ y.r.idles = z.r.idles
         /\ q \in ReqType /\ q.op = op /\ q.sid = z.d.mRtspSessionId
  <1> DEFINE q == [op |-> op, sid |-> z.d.mRtspSessionId]
             s == Append(z.r.reqs, q)
  <1>1. z.r.reqs \in Seq(ReqType) /\ z.d.mRtspSessionId \in Sids \cup {None}
    BY ReqsType, Zenon
  <1>2. q \in ReqType /\ q.op = op /\ q.sid = z.d.mRtspSessionId
    BY <1>1, SMT DEF ReqType
  <1>3. Send(z, op) = [z EXCEPT !.r.reqs = s]
    BY Zenon DEF Send
  <1> HIDE DEF q
  <1>4. s \in Seq(ReqType)
    BY <1>1, <1>2
  <1> HIDE DEF s
  <1>5. LET y == [z EXCEPT !.r.reqs = s] IN
         /\ y \in StateType /\ y.d = z.d /\ y.s = z.s /\ SameElems(z, y)
         /\ y.r.conn = z.r.conn /\ y.r.reqs = s /\ y.r.idles = z.r.idles
    BY <1>4, ReqsSet, Zenon
  <1>. QED
    BY <1>2, <1>3, <1>5, Zenon DEF q, s

LEMMA DisconnectOK ==
  ASSUME NEW z \in StateType
  PROVE  LET y == Disconnect(z) IN
         /\ y \in StateType /\ y.d = z.d /\ y.s = z.s /\ SameElems(z, y)
         /\ y.r.reqs = z.r.reqs /\ y.r.idles = z.r.idles
         /\ y.r.conn \in {"none", "closing"} /\ (y.r.conn = "none" => z.r.conn = "none")
  <1> DEFINE c == IF z.r.conn = "none" /\ "quiet" \in Allowed THEN z.r.conn ELSE "closing"
  <1>1. Disconnect(z) = [z EXCEPT !.r.conn = c]
    BY Zenon DEF Disconnect
  <1>2. /\ c \in {"none", "connecting", "up", "closing"}
        /\ c \in {"none", "closing"} /\ (c = "none" => z.r.conn = "none")
    BY Zenon
  <1> HIDE DEF c
  <1>3. LET y == [z EXCEPT !.r.conn = c] IN
         /\ y \in StateType /\ y.d = z.d /\ y.s = z.s /\ SameElems(z, y)
         /\ y.r.conn = c /\ y.r.reqs = z.r.reqs /\ y.r.idles = z.r.idles
    BY <1>2, ConnSet, Zenon
  <1>. QED
    BY <1>1, <1>2, <1>3, Zenon

LEMMA StopLaterOK ==
  ASSUME NEW z \in StateType
  PROVE  LET y == StopLater(z) IN
         /\ y \in StateType /\ y.d = z.d /\ y.s = z.s /\ SameElems(z, y)
         /\ y.r.conn = z.r.conn /\ y.r.reqs = z.r.reqs
         /\ y.r.idles = z.r.idles \cup {"idleStop"}
  <1> DEFINE i == z.r.idles \cup {"idleStop"}
  <1>1. StopLater(z) = [z EXCEPT !.r.idles = i]
    BY Zenon DEF StopLater
  <1>2. i \in SUBSET {"idleStop", "idleRtspDisconnect"}
    BY ReqsType, Zenon
  <1> HIDE DEF i
  <1>3. LET y == [z EXCEPT !.r.idles = i] IN
         /\ y \in StateType /\ y.d = z.d /\ y.s = z.s /\ SameElems(z, y)
         /\ y.r.conn = z.r.conn /\ y.r.reqs = z.r.reqs /\ y.r.idles = i
    BY <1>2, IdlesSet, Zenon
  <1>. QED
    BY <1>1, <1>3, Zenon DEF i

\* The session is told whether the demuxer is ready.
LEMMA OnReadyToPlayOK ==
  ASSUME NEW z \in StateType, NEW b \in BOOLEAN
  PROVE  LET y == OnReadyToPlay(z, b) IN
         /\ y \in StateType /\ y.d = z.d /\ y.r = z.r /\ SameElems(z, y)
         /\ y.s.mDemuxerReady = b /\ (y.s.mReadyToPlay => b)
         /\ y.s.mState = z.s.mState /\ y.s.mDemuxer = z.s.mDemuxer
         /\ y.s.deleting = z.s.deleting /\ y.s.owed = z.s.owed
  <1> DEFINE s == [z.s EXCEPT !.mDemuxerReady = b]
             x == [z EXCEPT !.s = s]
             y == UpdateReadyToPlay(x)
  <1>1. z.s \in SessionType
    BY ReqsType, Zenon
  <1>2. /\ s \in SessionType /\ s.mDemuxerReady = b
        /\ s.mState = z.s.mState /\ s.mDemuxer = z.s.mDemuxer
        /\ s.deleting = z.s.deleting /\ s.owed = z.s.owed
    BY <1>1, Zenon DEF SessionType
  <1>3. OnReadyToPlay(z, b) = y
    BY Zenon DEF OnReadyToPlay
  <1> HIDE DEF s
  <1>4. x \in StateType /\ x.d = z.d /\ x.s = s /\ x.r = z.r /\ SameElems(z, x)
    BY <1>2, SessionSet, Zenon
  <1> HIDE DEF x
  <1>5. /\ y \in StateType
        /\ y.d = x.d /\ y.r = x.r /\ y.out = x.out /\ y.ch = x.ch /\ y.est = x.est
        /\ y.loop = x.loop
        /\ y.s = [x.s EXCEPT !.mReadyToPlay = x.s.mState = "OPENED" /\ x.s.mDemuxerReady]
    BY <1>4, UpdateReadyToPlayOK, Zenon
  <1> HIDE DEF y
  <1>6. /\ y.s.mDemuxerReady = s.mDemuxerReady /\ (y.s.mReadyToPlay => s.mDemuxerReady)
        /\ y.s.mState = s.mState /\ y.s.mDemuxer = s.mDemuxer
        /\ y.s.deleting = s.deleting /\ y.s.owed = s.owed
    BY <1>2, <1>4, <1>5, Zenon DEF SessionType
  <1>7. SameElems(z, y)
    BY <1>4, <1>5, Zenon DEF SameElems
  <1>. QED
    BY <1>2, <1>3, <1>4, <1>5, <1>6, <1>7, Zenon

\* What belongs to the media of the demuxer.
SameInfo(d, e) ==
    /\ e.mVideoMedia = d.mVideoMedia /\ e.mCodecInfo = d.mCodecInfo
    /\ e.mCodecInfoChanging = d.mCodecInfoChanging
    /\ e.mChannelsReadyForStop = d.mChannelsReadyForStop

\* The receiver and its sockets.
LEMMA StopRtpAvpOK ==
  ASSUME NEW z \in StateType
  PROVE  LET y == StopRtpAvp(z) IN
         /\ y \in StateType /\ y.s = z.s /\ y.r = z.r /\ SameElems(z, y)
         /\ y.d = [z.d EXCEPT !.mReceiver = FALSE, !.socks = FALSE]
  <1> DEFINE d == [z.d EXCEPT !.mReceiver = FALSE, !.socks = FALSE]
  <1>1. z.d \in DemuxerType
    BY ReqsType, Zenon
  <1>2. d \in DemuxerType
    BY <1>1, Zenon DEF DemuxerType
  <1>3. StopRtpAvp(z) = [z EXCEPT !.d = d]
    BY Zenon DEF StopRtpAvp
  <1> HIDE DEF d
  <1>4. LET y == [z EXCEPT !.d = d] IN
         y \in StateType /\ y.d = d /\ y.s = z.s /\ y.r = z.r /\ SameElems(z, y)
    BY <1>2, DemuxerSet, Zenon
  <1>. QED
    BY <1>3, <1>4, Zenon DEF d

LEMMA StartRtpAvpOK ==
  ASSUME NEW z \in StateType, NEW ok \in BOOLEAN
  PROVE  LET y == StartRtpAvp(z, ok) IN
         /\ y \in StateType /\ y.s = z.s /\ y.r = z.r /\ SameElems(z, y)
         /\ IF RtpAvpStarts(z, ok)
            THEN y.d = [z.d EXCEPT !.socks = TRUE, !.leaked = z.d.leaked \/ z.d.mReceiver,
                                   !.mReceiver = TRUE]
            ELSE y.d = [z.d EXCEPT !.mReceiver = FALSE, !.socks = FALSE]
  <1> DEFINE b == z.d.leaked \/ z.d.mReceiver
             d == [z.d EXCEPT !.socks = TRUE, !.leaked = b, !.mReceiver = TRUE]
  <1>1. z.d \in DemuxerType /\ b \in BOOLEAN
    BY ReqsType, Zenon
  <1>2. d \in DemuxerType
    <2> HIDE DEF b
    <2>. QED
      BY <1>1, Zenon DEF DemuxerType
  <1>3. RtpAvpStarts(z, ok) => StartRtpAvp(z, ok) = [z EXCEPT !.d = d]
    BY Zenon DEF StartRtpAvp
  <1>4. ~RtpAvpStarts(z, ok) => StartRtpAvp(z, ok) = StopRtpAvp(z)
    BY Zenon DEF StartRtpAvp
  <1> HIDE DEF d
  <1>5. LET y == [z EXCEPT !.d = d] IN
         y \in StateType /\ y.d = d /\ y.s = z.s /\ y.r = z.r /\ SameElems(z, y)
    BY <1>2, DemuxerSet, Zenon
  <1>6. CASE RtpAvpStarts(z, ok)
    BY <1>3, <1>5, <1>6, Zenon DEF d
  <1>7. CASE ~RtpAvpStarts(z, ok)
    BY <1>4, <1>7, StopRtpAvpOK, Zenon
  <1>. QED
    BY <1>6, <1>7

LEMMA PrepareSetupOK ==
  ASSUME NEW z \in StateType
  PROVE  LET y == PrepareSetup(z) IN
         /\ y \in StateType /\ y.s = z.s /\ y.r = z.r /\ SameElems(z, y)
         /\ IF Transport = "mux" THEN y.d = z.d
            ELSE y.d = [z.d EXCEPT !.leaked = z.d.leaked \/ z.d.socks, !.socks = TRUE]
  <1> DEFINE b == z.d.leaked \/ z.d.socks
             d == [z.d EXCEPT !.leaked = b, !.socks = TRUE]
  <1>1. z.d \in DemuxerType /\ b \in BOOLEAN
    BY ReqsType, Zenon
  <1>2. d \in DemuxerType
    <2> HIDE DEF b
    <2>. QED
      BY <1>1, Zenon DEF DemuxerType
  <1>3. Transport # "mux" => PrepareSetup(z) = [z EXCEPT !.d = d]
    BY Zenon DEF PrepareSetup
  <1>4. Transport = "mux" => PrepareSetup(z) = z
    BY Zenon DEF PrepareSetup
  <1> HIDE DEF d
  <1>5. LET y == [z EXCEPT !.d = d] IN
         y \in StateType /\ y.d = d /\ y.s = z.s /\ y.r = z.r /\ SameElems(z, y)
    BY <1>2, DemuxerSet, Zenon
  <1>6. CASE Transport = "mux"
    BY <1>4, <1>6, Zenon DEF SameElems
  <1>7. CASE Transport # "mux"
    BY <1>3, <1>5, <1>7, Zenon DEF d
  <1>. QED
    BY <1>6, <1>7

-----------------------------------------------------------------------------
(* What is assumed of the server and of the application.                   *)

\* No answer arrives once the disconnection has begun, no description while
\* one is set up, and the client does not connect again by itself.
Orderly == Allowed \cap {"late", "reannounce", "reconnect"} = {}
\* The connection is closed by the demuxer only.
StaysConnected == "close" \notin Allowed
\* The server refuses no step of the setup, and every request can be sent.
SetupWorks == Allowed \cap {"refuse", "send"} = {}
\* A stream of a URL is played and sought one request at a time, when it is
\* ready, and an answer names the session of its request.
OneAtATime == Allowed \cap {"direct", "close", "unready", "overlap", "stranger"} = {}
\* The parameter sets come with the stream, and a decoder is made for them.
InBand == "sdpInfo" \notin Allowed

\* What a step does for every invariant.
Final(z, y) == z.d.mState = "STOPPING" => y.d.mState \in {"STOPPING", "STOPPED"}
Keeps(z, y) ==
    /\ Good(y) /\ DialogueInv(y) /\ Final(z, y)
    /\ StaysConnected /\ ReadyInv(z) => ReadyInv(y)
    /\ SetupWorks /\ SocketsInv(z) => SocketsInv(y)
    /\ OneAtATime /\ ReadyInv(z) /\ AsksInv(z) => AsksInv(y)
    /\ DecodeAll /\ StaysConnected /\ ReadyInv(z) /\ ChannelsInv(z) =>
           ChannelsInv(y) /\ (InBand /\ CodecInfoInv(z) => CodecInfoInv(y))

\* What goes on downstream of the dialogue keeps them all.
LEMMA DownKeeps ==
  ASSUME NEW z, NEW y, DialogueInv(z), DownStep(z, y)
  PROVE  Keeps(z, y)
  <1>1. Good(y) /\ Down(z, y) /\ Media(z, y)
    BY Zenon DEF DownStep
  <1>2. /\ y.r = z.r
        /\ y.d.rtsp = z.d.rtsp /\ y.d.mRtspState = z.d.mRtspState
        /\ y.d.mRtspSessionId = z.d.mRtspSessionId /\ y.d.mContentBase = z.d.mContentBase
        /\ y.d.socks = z.d.socks /\ y.d.mReceiver = z.d.mReceiver /\ y.d.leaked = z.d.leaked
        /\ y.d.mSeeking = z.d.mSeeking
        /\ y.d.mNetworkReadyForStop => z.d.mNetworkReadyForStop
        /\ \/ y.d.mState = z.d.mState
           \/ z.d.mState = "STOPPING" /\ z.d.mNetworkReadyForStop /\ y.d.mState = "STOPPED"
        /\ y.s.mDemuxer = z.s.mDemuxer /\ y.s.mDemuxerReady = z.s.mDemuxerReady
        /\ y.s.owed = z.s.owed
        /\ y.s.mReadyToPlay => z.s.mReadyToPlay
        /\ y.s.mState = z.s.mState \/ (z.s.mState = "CLOSING" /\ y.s.mState = "CLOSED")
        /\ y.s.deleting => z.s.deleting \/ y.d.mState = "STOPPED"
        /\ y.loop.what = "stop" => z.loop.what = "stop"
    BY <1>1, Zenon DEF Down
  <1>3. \A ops : (Waits(y, ops) <=> Waits(z, ops)) /\ (AtMostOne(y, ops) <=> AtMostOne(z, ops))
    BY <1>2, Zenon DEF Waits, AtMostOne
  <1>4. LifeInv(y)
    BY <1>2, Zenon DEF DialogueInv, LifeInv
  <1>9. TalkInv(y)
    <2>1. TalkInv(z)
      BY Zenon DEF DialogueInv
    <2>2. /\ y.d.mState = "CREATED" => y.r = NewClient
          /\ y.d.mState = "STOPPED" \/ y.d.mNetworkReadyForStop \/ ~y.d.rtsp =>
                 y.r.conn \notin {"up", "connecting"}
          /\ AtMostOne(y, {"options", "describe", "setup"})
          /\ y.d.mContentBase => ~Waits(y, {"options", "describe"})
          /\ y.d.mRtspState = "SETUP_DONE" => ~Waits(y, {"options", "describe", "setup"})
          /\ y.d.mState = "STOPPING" /\ y.r.conn = "up" => ~Waits(y, {"setup"})
      BY <1>2, <1>3, <2>1, Zenon DEF TalkInv
    <2>3. /\ y.r.conn = "connecting" =>
                 y.r.reqs = <<>> /\ y.d.mRtspState = "DISCONNECTED" /\ ~y.d.mContentBase
          /\ "idleRtspDisconnect" \in y.r.idles \/ Waits(y, {"teardown"}) =>
                 y.d.mState # "STARTED"
      BY <1>2, <1>3, <2>1, Zenon DEF TalkInv
    <2>. QED
      BY <2>2, <2>3, Zenon DEF TalkInv
  <1>5. Final(z, y)
    BY <1>2, Zenon DEF Final
  <1>6. ReadyInv(z) => ReadyInv(y)
    BY <1>2, Zenon DEF ReadyInv
  <1>7. SocketsInv(z) => SocketsInv(y)
    BY <1>2, <1>3, Zenon DEF SocketsInv
  <1>8. ASSUME AsksInv(z)
        PROVE  AsksInv(y)
    <2>1. y.s.mDemuxer => y.d.rtsp
      BY <1>2, <1>8, Zenon DEF AsksInv
    <2>2. \A k \in {"play", "seek", "pause"} : y.s.mDemuxer =>
             y.s.owed[k] = Cardinality(Kind(y.r.reqs, k))
      BY <1>2, <1>8, ZenonT(60) DEF AsksInv
    <2>3. AtMostOne(y, {"play", "seek"}) /\ (y.d.mSeeking <=> Waits(y, {"seek"}))
      BY <1>2, <1>3, <1>8, Zenon DEF AsksInv
    <2>4. \A i \in DOMAIN y.r.reqs : y.r.reqs[i].op \in {"play", "seek", "pause"} =>
             /\ y.r.reqs[i].sid = y.d.mRtspSessionId
             /\ \A j \in 1..(i - 1) : y.r.reqs[j].op \notin {"setup", "teardown"}
      BY <1>2, <1>8, SMT DEF AsksInv
    <2>. QED
      BY <2>1, <2>2, <2>3, <2>4, Zenon DEF AsksInv
  <1>. QED
    BY <1>1, <1>4, <1>5, <1>6, <1>7, <1>8, <1>9, Zenon DEF Keeps, Media, DialogueInv

\* A step of the dialogue leaves the elements and the media alone, the parameter
\* sets as long as they come with the stream.
SameButInfo(z, y) ==
    /\ y.out = z.out /\ y.est = z.est /\ y.loop = z.loop
    /\ y.d.mState = z.d.mState /\ y.d.mVideoMedia = z.d.mVideoMedia
    /\ InBand => y.d.mCodecInfo = z.d.mCodecInfo
    /\ y.d.mCodecInfoChanging = z.d.mCodecInfoChanging
    /\ y.d.mChannelsReadyForStop = z.d.mChannelsReadyForStop
SameLife(z, y) == /\ y.s.mState \in {z.s.mState, "CLOSING", "CLOSED"}
                  /\ y.s.mDemuxer = z.s.mDemuxer /\ y.s.deleting = z.s.deleting

LEMMA TalkKeeps ==
  ASSUME NEW z, NEW y, Good(z), DialogueInv(z),
         y \in StateType, SameButInfo(z, y), SameLife(z, y), TalkInv(y),
         StaysConnected /\ ReadyInv(z) => ReadyInv(y),
         SetupWorks /\ SocketsInv(z) => SocketsInv(y),
         OneAtATime /\ ReadyInv(z) /\ AsksInv(z) => AsksInv(y)
  PROVE  Keeps(z, y)
  <1>1. Good(y)
    BY Zenon DEF Good, DecoderLeft, SameButInfo
  <1>2. LifeInv(y)
    BY Zenon DEF DialogueInv, LifeInv, SameButInfo, SameLife
  <1>3. Final(z, y)
    BY Zenon DEF Final, SameButInfo
  <1>4. ChannelsInv(z) => ChannelsInv(y)
    BY Zenon DEF ChannelsInv, SameButInfo
  <1>5. \A c : InOut(z, c) => InOut(y, c)
    BY Zenon DEF InOut, SameButInfo
  <1>6. InBand /\ CodecInfoInv(z) => CodecInfoInv(y)
    BY <1>5, Zenon DEF CodecInfoInv, SameButInfo
  <1>. QED
    BY <1>1, <1>2, <1>3, <1>4, <1>6, Zenon DEF Keeps, DialogueInv

\* What the dialogue itself goes by.
SameTalk(d, e) ==
    /\ e.rtsp = d.rtsp /\ e.mRtspState = d.mRtspState /\ e.mContentBase = d.mContentBase
    /\ e.mRtspSessionId = d.mRtspSessionId /\ e.socks = d.socks
    /\ e.mReceiver = d.mReceiver /\ e.leaked = d.leaked
    /\ e.mNetworkReadyForStop = d.mNetworkReadyForStop

\* An answer the application waits for is owed to it.
OneMore(n) == IF n <= MaxReqs THEN n + 1 ELSE n
SameButOwed(z, y) ==
    /\ SameLife(z, y)
    /\ y.s.mDemuxerReady = z.s.mDemuxerReady /\ y.s.mReadyToPlay = z.s.mReadyToPlay

LEMMA OwedSet ==
  ASSUME NEW z \in StateType, NEW k \in Asks, NEW n \in Int
  PROVE  LET y == [z EXCEPT !.s.owed[k] = n] IN
         /\ y \in StateType /\ y.d = z.d /\ y.r = z.r /\ SameElems(z, y)
         /\ SameButOwed(z, y)
         /\ y.s.owed[k] = n /\ \A j \in Asks : j # k => y.s.owed[j] = z.s.owed[j]
  <1> DEFINE o == [z.s.owed EXCEPT ![k] = n]
             s == [z.s EXCEPT !.owed = o]
  <1>1. z.s \in SessionType /\ z.s.owed \in [Asks -> Int]
    BY ReqsType, Zenon DEF SessionType, Asks
  <1>2. o \in [Asks -> Int] /\ o[k] = n /\ \A j \in Asks : j # k => o[j] = z.s.owed[j]
    BY <1>1, Zenon
  <1> HIDE DEF o
  <1>3. /\ s \in SessionType /\ s.owed = o
        /\ s.mState = z.s.mState /\ s.mDemuxer = z.s.mDemuxer /\ s.deleting = z.s.deleting
        /\ s.mDemuxerReady = z.s.mDemuxerReady /\ s.mReadyToPlay = z.s.mReadyToPlay
    BY <1>1, <1>2, Zenon DEF SessionType, Asks
  <1>4. [z EXCEPT !.s.owed[k] = n] = [z EXCEPT !.s = s]
    BY Zenon DEF o
  <1> HIDE DEF s
  <1>5. LET y == [z EXCEPT !.s = s] IN
         y \in StateType /\ y.d = z.d /\ y.s = s /\ y.r = z.r /\ SameElems(z, y)
    BY <1>3, SessionSet, Zenon
  <1> DEFINE y == [z EXCEPT !.s = s]
  <1> HIDE DEF y
  <1>6. y \in StateType /\ y.d = z.d /\ y.s = s /\ y.r = z.r /\ SameElems(z, y)
    BY <1>5, Zenon DEF y
  <1>7. SameButOwed(z, y)
    BY <1>3, <1>6, Zenon DEF SameButOwed, SameLife
  <1>8. y.s.owed[k] = n /\ \A j \in Asks : j # k => y.s.owed[j] = z.s.owed[j]
    BY <1>2, <1>3, <1>6, Zenon
  <1>. QED
    BY <1>4, <1>6, <1>7, <1>8, Zenon DEF y

\* play(), pause() and seekTo(), with the three ways they end.
LEMMA AskOK ==
  ASSUME NEW z \in StateType, NEW k \in Asks, NEW sent \in BOOLEAN
  PROVE  LET y == Ask(z, k, sent)
             q == [op |-> k, sid |-> z.d.mRtspSessionId] IN
         /\ y \in StateType /\ y.d = z.d /\ SameElems(z, y) /\ SameButOwed(z, y)
         /\ y.r.conn = z.r.conn /\ y.r.idles = z.r.idles
         /\ q \in ReqType /\ q.op = k /\ q.sid = z.d.mRtspSessionId
         /\ \/ CanSend /\ ~sent /\ y.r.reqs = z.r.reqs /\ y.s.owed = z.s.owed
            \/ /\ IF CanSend THEN y.r.reqs = Append(z.r.reqs, q) ELSE y.r.reqs = z.r.reqs
               /\ y.s.owed[k] = OneMore(z.s.owed[k])
               /\ \A j \in Asks : j # k => y.s.owed[j] = z.s.owed[j]
  <1> DEFINE n == OneMore(z.s.owed[k])
             x == [z EXCEPT !.s.owed[k] = n]
             q == [op |-> k, sid |-> z.d.mRtspSessionId]
             w == Send(x, k)
  <1>1. n \in Int
    <2>1. z.s.owed[k] \in Int /\ MaxReqs \in Int
      BY ReqsType, StreamConstantsOK, SMT DEF SessionType, Asks
    <2>. QED
      BY <2>1, SMT DEF OneMore
  <1>2. Ask(z, k, sent) = IF ~CanSend THEN x ELSE IF sent THEN w ELSE z
    BY Zenon DEF Ask, OneMore
  <1> HIDE DEF n
  <1>3. /\ x \in StateType /\ x.d = z.d /\ x.r = z.r /\ SameElems(z, x)
        /\ SameButOwed(z, x)
        /\ x.s.owed[k] = n /\ \A j \in Asks : j # k => x.s.owed[j] = z.s.owed[j]
    BY <1>1, OwedSet, ZenonT(60)
  <1> HIDE DEF x
  <1>4. k \in Requests
    BY Zenon DEF Asks, Requests
  <1>5. LET p == [op |-> k, sid |-> x.d.mRtspSessionId] IN
        /\ w \in StateType /\ w.d = x.d /\ w.s = x.s /\ SameElems(x, w)
        /\ w.r.conn = x.r.conn /\ w.r.reqs = Append(x.r.reqs, p) /\ w.r.idles = x.r.idles
        /\ p \in ReqType /\ p.op = k /\ p.sid = x.d.mRtspSessionId
    BY <1>3, <1>4, SendOK, Zenon
  <1> HIDE DEF w
  <1>6. /\ w \in StateType /\ w.d = z.d /\ w.s = x.s /\ SameElems(z, w)
        /\ w.r.conn = z.r.conn /\ w.r.reqs = Append(z.r.reqs, q) /\ w.r.idles = z.r.idles
        /\ q \in ReqType /\ q.op = k /\ q.sid = z.d.mRtspSessionId
    BY <1>3, <1>5, SameElemsTransitive, Zenon
  <1>7. SameButOwed(z, w)
    BY <1>3, <1>6, Zenon DEF SameButOwed, SameLife
  <1> HIDE DEF q
  <1>8. CASE ~CanSend
    BY <1>2, <1>3, <1>6, <1>8, Zenon DEF n, q
  <1>9. CASE CanSend /\ sent
    BY <1>2, <1>3, <1>6, <1>7, <1>9, Zenon DEF n, q
  <1>10. CASE CanSend /\ ~sent
    BY <1>2, <1>6, <1>10, Zenon DEF q, SameElems, SameButOwed, SameLife
  <1>. QED
    BY <1>8, <1>9, <1>10, Zenon

\* A request of the application keeps everything.
LEMMA AskKeeps ==
  ASSUME Good(st), DialogueInv(st), MayAsk, NEW k \in Asks, NEW y \in StateType,
         SameTalk(st.d, y.d), y.d.mSeeking <=> st.d.mSeeking \/ k = "seek",
         SameButInfo(st, y), SameButOwed(st, y),
         y.r.conn = st.r.conn, y.r.idles = st.r.idles,
         k \in {"play", "seek"} => Alone,
         NEW q \in ReqType, q.op = k, q.sid = st.d.mRtspSessionId,
         \/ CanSend /\ k # "seek" /\ y.r.reqs = st.r.reqs /\ y.s.owed = st.s.owed
         \/ /\ IF CanSend THEN y.r.reqs = Append(st.r.reqs, q) ELSE y.r.reqs = st.r.reqs
            /\ y.s.owed[k] = OneMore(st.s.owed[k])
            /\ \A j \in Asks : j # k => y.s.owed[j] = st.s.owed[j]
  PROVE  Keeps(st, y)
  <1>1. st \in StateType /\ st.r.reqs \in Seq(ReqType) /\ y.r.reqs \in Seq(ReqType)
    BY ReqsType, Zenon DEF Good
  <1>2. /\ st.s.mDemuxer /\ st.d.mState = "STARTED"
        /\ st.s.mReadyToPlay \/ "unready" \in Allowed
        /\ Room
    BY Zenon DEF MayAsk
  <1>3. CanSend => st.d.rtsp /\ st.d.mRtspState = "SETUP_DONE"
    BY Zenon DEF CanSend
  <1>4. LifeInv(st) /\ TalkInv(st)
    BY Zenon DEF DialogueInv
  <1>5. y.r.reqs = st.r.reqs \/ (CanSend /\ y.r.reqs = Append(st.r.reqs, q))
    BY Zenon
  <1>6. /\ ~Waits(y, {"teardown"}) /\ ~Waits(st, {"teardown"})
        /\ Waits(y, {"setup"}) <=> Waits(st, {"setup"})
        /\ Waits(y, {"options", "describe"}) <=> Waits(st, {"options", "describe"})
        /\ Waits(y, {"options", "describe", "setup"}) <=>
              Waits(st, {"options", "describe", "setup"})
        /\ AtMostOne(y, {"options", "describe", "setup"})
    <2>1. ~Waits(st, {"teardown"}) /\ AtMostOne(st, {"options", "describe", "setup"})
      BY <1>2, <1>4, Zenon DEF TalkInv
    <2>2. CASE y.r.reqs = st.r.reqs
      BY <2>1, <2>2, Zenon DEF Waits, AtMostOne
    <2>3. CASE y.r.reqs = Append(st.r.reqs, q)
      <3>1. q.op \notin {"options", "describe", "setup", "teardown"}
        BY Zenon DEF Asks
      <3>2. ASSUME NEW ops
            PROVE  /\ Waits(y, ops) <=> Waits(st, ops) \/ q.op \in ops
                   /\ AtMostOne(st, ops) /\ (q.op \in ops => ~Waits(st, ops)) =>
                         AtMostOne(y, ops)
        BY <1>1, <2>3, RequestSent, Zenon
      <3>. QED
        BY <2>1, <3>1, <3>2, Zenon
    <2>. QED
      BY <1>5, <2>2, <2>3, Zenon
  <1>7. y.d.mState = "STARTED" /\ y.d.mRtspState = st.d.mRtspState
        /\ y.d.rtsp = st.d.rtsp /\ y.d.mContentBase = st.d.mContentBase
        /\ y.d.mNetworkReadyForStop = st.d.mNetworkReadyForStop
    BY <1>2, Zenon DEF SameTalk, SameButInfo
  <1>8. y.r.conn = "connecting" =>
           y.r.reqs = <<>> /\ y.d.mRtspState = "DISCONNECTED" /\ ~y.d.mContentBase
    BY <1>3, <1>4, <1>5, <1>7, Zenon DEF TalkInv
  <1>9. TalkInv(y)
    <2>1. /\ y.d.mNetworkReadyForStop \/ ~y.d.rtsp => y.r.conn \notin {"up", "connecting"}
          /\ "idleRtspDisconnect" \notin y.r.idles
      BY <1>2, <1>4, <1>7, Zenon DEF TalkInv
    <2>2. /\ y.d.mContentBase => ~Waits(y, {"options", "describe"})
          /\ y.d.mRtspState = "SETUP_DONE" => ~Waits(y, {"options", "describe", "setup"})
      BY <1>4, <1>6, <1>7, Zenon DEF TalkInv
    <2>. QED
      BY <1>6, <1>7, <1>8, <2>1, <2>2, Zenon DEF TalkInv
  <1>10. ReadyInv(st) => ReadyInv(y)
    BY <1>2, Zenon DEF ReadyInv, SameTalk, SameButInfo, SameButOwed
  <1>11. SocketsInv(st) => SocketsInv(y)
    BY <1>2, <1>6, Zenon DEF SocketsInv, SameTalk, SameButInfo
  <1>12. ASSUME OneAtATime, ReadyInv(st), AsksInv(st)
         PROVE  AsksInv(y)
    <2>1. CanSend
      <3>1. st.s.mReadyToPlay /\ st.d.rtsp
        BY <1>2, <1>12, Zenon DEF OneAtATime, AsksInv
      <3>2. st.d.mRtspState = "SETUP_DONE"
        BY <1>12, <3>1, Zenon DEF ReadyInv
      <3>. QED
        BY <3>1, <3>2, Zenon DEF CanSend
    <2>2. y.s.mDemuxer => y.d.rtsp
      BY <1>3, <1>7, <2>1, Zenon
    <2>3. y.d.mRtspSessionId = st.d.mRtspSessionId
      BY Zenon DEF SameTalk
    <2>4. CASE k # "seek" /\ y.r.reqs = st.r.reqs /\ y.s.owed = st.s.owed
      <3>1. y.d.mSeeking <=> Waits(y, {"seek"})
        BY <1>12, <2>4, Zenon DEF AsksInv, Waits
      <3>2. AtMostOne(y, {"play", "seek"})
        BY <1>12, <2>4, Zenon DEF AsksInv, AtMostOne
      <3>3. \A j \in Asks : y.s.mDemuxer => y.s.owed[j] = Cardinality(Kind(y.r.reqs, j))
        BY <1>2, <1>12, <2>4, ZenonT(60) DEF AsksInv, Asks
      <3>4. \A i \in DOMAIN y.r.reqs : y.r.reqs[i].op \in {"play", "seek", "pause"} =>
               /\ y.r.reqs[i].sid = y.d.mRtspSessionId
               /\ \A j \in 1..(i - 1) : y.r.reqs[j].op \notin {"setup", "teardown"}
        BY <1>12, <2>3, <2>4, SMT DEF AsksInv
      <3>. QED
        BY <2>2, <3>1, <3>2, <3>3, <3>4, Zenon DEF AsksInv, Asks
    <2>5. CASE /\ y.r.reqs = Append(st.r.reqs, q)
               /\ y.s.owed[k] = OneMore(st.s.owed[k])
               /\ \A j \in Asks : j # k => y.s.owed[j] = st.s.owed[j]
      <3>1. k \in {"play", "seek"} => ~Waits(st, {"play", "seek"})
        <4>1. Alone => ~Waits(st, {"play", "seek"})
          BY <1>12, SMT DEF Alone, Pending, Waits, OneAtATime
        <4>. QED
          BY <4>1, Zenon
      <3>2. AtMostOne(y, {"play", "seek"})
        <4>1. AtMostOne(st, {"play", "seek"})
          BY <1>12, Zenon DEF AsksInv
        <4>. QED
          BY <1>1, <2>5, <3>1, <4>1, RequestSent, Zenon
      <3>3. y.d.mSeeking <=> Waits(y, {"seek"})
        <4>1. st.d.mSeeking <=> Waits(st, {"seek"})
          BY <1>12, Zenon DEF AsksInv
        <4>2. Waits(y, {"seek"}) <=> Waits(st, {"seek"}) \/ q.op \in {"seek"}
          BY <1>1, <2>5, RequestSent, Zenon
        <4>. QED
          BY <4>1, <4>2, Zenon
      <3>4. ASSUME NEW j \in Asks
            PROVE  y.s.owed[j] = Cardinality(Kind(y.r.reqs, j))
        <4>1. st.s.owed[j] = Cardinality(Kind(st.r.reqs, j))
          BY <1>2, <1>12, Zenon DEF AsksInv, Asks
        <4>2. Cardinality(Kind(y.r.reqs, j)) =
                 IF q.op = j THEN Cardinality(Kind(st.r.reqs, j)) + 1
                 ELSE Cardinality(Kind(st.r.reqs, j))
          <5>1. Cardinality(Kind(Append(st.r.reqs, q), j)) =
                   IF q.op = j THEN Cardinality(Kind(st.r.reqs, j)) + 1
                   ELSE Cardinality(Kind(st.r.reqs, j))
            <6> DEFINE s == st.r.reqs
            <6>1. s \in Seq(ReqType)
              BY <1>1
            <6> HIDE DEF s
            <6>2. Cardinality(Kind(Append(s, q), j)) =
                     IF q.op = j THEN Cardinality(Kind(s, j)) + 1 ELSE Cardinality(Kind(s, j))
              BY <6>1, CountSent, ZenonT(60)
            <6>. QED
              BY <6>2, Zenon DEF s
          <5>. QED
            BY <2>5, <5>1, Zenon
        <4>3. CASE j # k
          BY <2>5, <4>1, <4>2, <4>3, Zenon
        <4>4. CASE j = k
          <5>1. Cardinality(Kind(st.r.reqs, j)) \in 0..Len(st.r.reqs)
            BY <1>1, CountFinite, Zenon
          <5>2. Len(st.r.reqs) < MaxReqs /\ MaxReqs \in Nat /\ Len(st.r.reqs) \in Nat
            BY <1>1, <1>2, StreamConstantsOK, SMT DEF Room
          <5>3. y.s.owed[j] = OneMore(Cardinality(Kind(st.r.reqs, j)))
            BY <2>5, <4>1, <4>4, Zenon
          <5>4. OneMore(Cardinality(Kind(st.r.reqs, j))) = Cardinality(Kind(st.r.reqs, j)) + 1
            BY <5>1, <5>2, SMT DEF OneMore
          <5>. QED
            BY <4>2, <4>4, <5>3, <5>4, Zenon
        <4>. QED
          BY <4>3, <4>4
      <3>5. ASSUME NEW i \in DOMAIN y.r.reqs, y.r.reqs[i].op \in {"play", "seek", "pause"}
            PROVE  /\ y.r.reqs[i].sid = y.d.mRtspSessionId
                   /\ \A j \in 1..(i - 1) : y.r.reqs[j].op \notin {"setup", "teardown"}
        <4>1. \A j \in DOMAIN st.r.reqs : st.r.reqs[j].op \notin {"setup", "teardown"}
          <5>1. ~Waits(st, {"options", "describe", "setup"})
            BY <1>3, <1>4, <2>1, Zenon DEF TalkInv
          <5>. QED
            BY <1>6, <5>1, Zenon DEF Waits
        <4>2. \A j \in DOMAIN st.r.reqs : st.r.reqs[j].op \in {"play", "seek", "pause"} =>
                 st.r.reqs[j].sid = st.d.mRtspSessionId
          BY <1>12, Zenon DEF AsksInv
        <4>3. /\ \A j \in DOMAIN y.r.reqs : j \in Nat /\ (j \in DOMAIN st.r.reqs \/ y.r.reqs[j] = q)
              /\ \A j \in DOMAIN st.r.reqs : y.r.reqs[j] = st.r.reqs[j]
              /\ \A j \in 1..(i - 1) : j \in DOMAIN st.r.reqs
          BY <1>1, <2>5, SMT
        <4>4. y.r.reqs[i].sid = y.d.mRtspSessionId
          BY <2>3, <3>5, <4>2, <4>3, ZenonT(60)
        <4>5. \A j \in 1..(i - 1) : y.r.reqs[j].op \notin {"setup", "teardown"}
          BY <4>1, <4>3, Zenon
        <4>. QED
          BY <4>4, <4>5
      <3>. QED
        BY <2>2, <3>2, <3>3, <3>4, <3>5, Zenon DEF AsksInv, Asks
    <2>. QED
      BY <2>1, <2>4, <2>5, Zenon
  <1>. QED
    BY <1>9, <1>10, <1>11, <1>12, TalkKeeps, Zenon DEF SameButOwed

\* play() and pause() set whether the stream runs.
LEMMA RunningSet ==
  ASSUME NEW z \in StateType, NEW b \in BOOLEAN
  PROVE  LET y == [z EXCEPT !.d.mRunning = b] IN
         /\ y \in StateType /\ y.s = z.s /\ y.r = z.r /\ SameElems(z, y)
         /\ SameTalk(z.d, y.d) /\ SameInfo(z.d, y.d)
         /\ y.d.mState = z.d.mState /\ y.d.mSeeking = z.d.mSeeking
  <1> DEFINE d == [z.d EXCEPT !.mRunning = b]
  <1>1. z.d \in DemuxerType
    BY ReqsType, Zenon
  <1>2. d \in DemuxerType /\ d.mState = z.d.mState /\ d.mSeeking = z.d.mSeeking
    BY <1>1, ZenonT(60) DEF DemuxerType
  <1>3. SameTalk(z.d, d) /\ SameInfo(z.d, d)
    BY <1>1, Zenon DEF DemuxerType, SameTalk, SameInfo
  <1>4. [z EXCEPT !.d.mRunning = b] = [z EXCEPT !.d = d]
    BY Zenon
  <1> HIDE DEF d
  <1>5. LET y == [z EXCEPT !.d = d] IN
         y \in StateType /\ y.d = d /\ y.s = z.s /\ y.r = z.r /\ SameElems(z, y)
    BY <1>2, DemuxerSet, Zenon
  <1>. QED
    BY <1>2, <1>3, <1>4, <1>5, Zenon

LEMMA SeekingSet ==
  ASSUME NEW z \in StateType, NEW b \in BOOLEAN
  PROVE  LET y == [z EXCEPT !.d.mSeeking = b] IN
         /\ y \in StateType /\ y.s = z.s /\ y.r = z.r /\ SameElems(z, y)
         /\ SameTalk(z.d, y.d) /\ SameInfo(z.d, y.d)
         /\ y.d.mState = z.d.mState /\ y.d.mSeeking = b
  <1> DEFINE d == [z.d EXCEPT !.mSeeking = b]
  <1>1. z.d \in DemuxerType
    BY ReqsType, Zenon
  <1>2. d \in DemuxerType /\ d.mState = z.d.mState /\ d.mSeeking = b
    BY <1>1, ZenonT(60) DEF DemuxerType
  <1>3. SameTalk(z.d, d) /\ SameInfo(z.d, d)
    BY <1>1, Zenon DEF DemuxerType, SameTalk, SameInfo
  <1>4. [z EXCEPT !.d.mSeeking = b] = [z EXCEPT !.d = d]
    BY Zenon
  <1> HIDE DEF d
  <1>5. LET y == [z EXCEPT !.d = d] IN
         y \in StateType /\ y.d = d /\ y.s = z.s /\ y.r = z.r /\ SameElems(z, y)
    BY <1>2, DemuxerSet, Zenon
  <1>. QED
    BY <1>2, <1>3, <1>4, <1>5, Zenon

LEMMA PlayPauseKeep ==
  ASSUME Good(st), DialogueInv(st), MayAsk, NEW k \in {"play", "pause"}, NEW b \in BOOLEAN,
         NEW sent \in BOOLEAN, k = "play" => Alone
  PROVE  Keeps(st, Ask([st EXCEPT !.d.mRunning = b], k, sent))
  <1> DEFINE x == [st EXCEPT !.d.mRunning = b]
             y == Ask(x, k, sent)
             q == [op |-> k, sid |-> x.d.mRtspSessionId]
  <1>1. st \in StateType /\ k \in Asks /\ k # "seek"
    BY Zenon DEF Good, Asks
  <1>2. /\ x \in StateType /\ x.s = st.s /\ x.r = st.r /\ SameElems(st, x)
        /\ SameTalk(st.d, x.d) /\ SameInfo(st.d, x.d)
        /\ x.d.mState = st.d.mState /\ x.d.mSeeking = st.d.mSeeking
    BY <1>1, RunningSet, Zenon
  <1> HIDE DEF x
  <1>3. /\ y \in StateType /\ y.d = x.d /\ SameElems(x, y) /\ SameButOwed(x, y)
        /\ y.r.conn = x.r.conn /\ y.r.idles = x.r.idles
        /\ q \in ReqType /\ q.op = k /\ q.sid = x.d.mRtspSessionId
        /\ \/ CanSend /\ ~sent /\ y.r.reqs = x.r.reqs /\ y.s.owed = x.s.owed
           \/ /\ IF CanSend THEN y.r.reqs = Append(x.r.reqs, q) ELSE y.r.reqs = x.r.reqs
              /\ y.s.owed[k] = OneMore(x.s.owed[k])
              /\ \A j \in Asks : j # k => y.s.owed[j] = x.s.owed[j]
    BY <1>1, <1>2, AskOK, ZenonT(60)
  <1> HIDE DEF y, q
  <1>4. SameTalk(st.d, y.d) /\ (y.d.mSeeking <=> st.d.mSeeking \/ k = "seek")
    BY <1>1, <1>2, <1>3, Zenon
  <1>5. SameButInfo(st, y)
    BY <1>2, <1>3, Zenon DEF SameButInfo, SameElems, SameInfo
  <1>6. SameButOwed(st, y) /\ y.r.conn = st.r.conn /\ y.r.idles = st.r.idles
    BY <1>2, <1>3, Zenon DEF SameButOwed, SameLife
  <1>7. q.sid = st.d.mRtspSessionId
    BY <1>2, <1>3, Zenon DEF SameTalk
  <1>8. \/ CanSend /\ k # "seek" /\ y.r.reqs = st.r.reqs /\ y.s.owed = st.s.owed
        \/ /\ IF CanSend THEN y.r.reqs = Append(st.r.reqs, q) ELSE y.r.reqs = st.r.reqs
           /\ y.s.owed[k] = OneMore(st.s.owed[k])
           /\ \A j \in Asks : j # k => y.s.owed[j] = st.s.owed[j]
    BY <1>1, <1>2, <1>3, Zenon
  <1>9. Keeps(st, y)
    BY <1>1, <1>3, <1>4, <1>5, <1>6, <1>7, <1>8, AskKeeps, Zenon
  <1>. QED
    BY <1>9, Zenon DEF x, y

LEMMA SeekKeeps ==
  ASSUME Good(st), DialogueInv(st), SeekTo
  PROVE  Keeps(st, st')
  <1> DEFINE x == Ask(st, "seek", TRUE)
             y == [x EXCEPT !.d.mSeeking = TRUE]
             q == [op |-> "seek", sid |-> st.d.mRtspSessionId]
  <1>1. st \in StateType /\ "seek" \in Asks
    BY Zenon DEF Good, Asks
  <1>2. MayAsk /\ Alone /\ CanSend /\ st' = y
    BY Zenon DEF SeekTo
  <1>3. /\ x \in StateType /\ x.d = st.d /\ SameElems(st, x) /\ SameButOwed(st, x)
        /\ x.r.conn = st.r.conn /\ x.r.idles = st.r.idles
        /\ q \in ReqType /\ q.op = "seek" /\ q.sid = st.d.mRtspSessionId
        /\ IF CanSend THEN x.r.reqs = Append(st.r.reqs, q) ELSE x.r.reqs = st.r.reqs
        /\ x.s.owed["seek"] = OneMore(st.s.owed["seek"])
        /\ \A j \in Asks : j # "seek" => x.s.owed[j] = st.s.owed[j]
    BY <1>1, AskOK, ZenonT(60)
  <1> HIDE DEF x, q
  <1>4. /\ y \in StateType /\ y.s = x.s /\ y.r = x.r /\ SameElems(x, y)
        /\ SameTalk(x.d, y.d) /\ SameInfo(x.d, y.d)
        /\ y.d.mState = x.d.mState /\ y.d.mSeeking = TRUE
    BY <1>3, SeekingSet, Zenon
  <1> HIDE DEF y
  <1>5. SameTalk(st.d, y.d) /\ y.d.mSeeking
    BY <1>3, <1>4, Zenon
  <1>6. SameButInfo(st, y)
    BY <1>3, <1>4, Zenon DEF SameButInfo, SameElems, SameInfo
  <1>7. SameButOwed(st, y) /\ y.r.conn = st.r.conn /\ y.r.idles = st.r.idles
    BY <1>3, <1>4, Zenon DEF SameButOwed, SameLife
  <1>8. /\ IF CanSend THEN y.r.reqs = Append(st.r.reqs, q) ELSE y.r.reqs = st.r.reqs
        /\ y.s.owed["seek"] = OneMore(st.s.owed["seek"])
        /\ \A j \in Asks : j # "seek" => y.s.owed[j] = st.s.owed[j]
    BY <1>3, <1>4, Zenon
  <1>9. Keeps(st, y)
    BY <1>1, <1>2, <1>3, <1>4, <1>5, <1>6, <1>7, <1>8, AskKeeps, Zenon
  <1>. QED
    BY <1>2, <1>9, Zenon

LEMMA AsksKeep ==
  ASSUME Good(st), DialogueInv(st), Play \/ Pause \/ SeekTo
  PROVE  Keeps(st, st')
  <1>1. Sent \subseteq BOOLEAN
    BY Zenon DEF Sent
  <1>2. CASE Play
    BY <1>1, <1>2, PlayPauseKeep, Zenon DEF Play
  <1>3. CASE Pause
    BY <1>1, <1>3, PlayPauseKeep, Zenon DEF Pause
  <1>. QED
    BY <1>2, <1>3, SeekKeeps, Zenon

-----------------------------------------------------------------------------
(* The requests of the application, while others are sent and answered.    *)

LEMMA AsksSame ==
  ASSUME NEW z, NEW y, AsksInv(z), y.r.reqs = z.r.reqs,
         y.s.mDemuxer = z.s.mDemuxer, y.s.owed = z.s.owed, y.d.rtsp = z.d.rtsp,
         y.d.mSeeking = z.d.mSeeking, y.d.mRtspSessionId = z.d.mRtspSessionId
  PROVE  AsksInv(y)
  <1>1. /\ y.s.mDemuxer => y.d.rtsp
        /\ \A k \in {"play", "seek", "pause"} : y.s.mDemuxer =>
              y.s.owed[k] = Cardinality(Kind(y.r.reqs, k))
    BY Zenon DEF AsksInv
  <1>2. AtMostOne(y, {"play", "seek"}) /\ (y.d.mSeeking <=> Waits(y, {"seek"}))
    BY Zenon DEF AsksInv, AtMostOne, Waits
  <1>3. \A i \in DOMAIN y.r.reqs : y.r.reqs[i].op \in {"play", "seek", "pause"} =>
           /\ y.r.reqs[i].sid = y.d.mRtspSessionId
           /\ \A j \in 1..(i - 1) : y.r.reqs[j].op \notin {"setup", "teardown"}
    BY SMT DEF AsksInv
  <1>. QED
    BY <1>1, <1>2, <1>3, Zenon DEF AsksInv

LEMMA AsksSent ==
  ASSUME NEW z, NEW y, AsksInv(z), z.r.reqs \in Seq(ReqType),
         NEW q \in ReqType, q.op \notin Asks, y.r.reqs = Append(z.r.reqs, q),
         y.s.mDemuxer = z.s.mDemuxer, y.s.owed = z.s.owed, y.d.rtsp = z.d.rtsp,
         y.d.mSeeking = z.d.mSeeking, y.d.mRtspSessionId = z.d.mRtspSessionId
  PROVE  AsksInv(y)
  <1> DEFINE s == z.r.reqs
  <1>1. s \in Seq(ReqType)
    OBVIOUS
  <1>2. y.r.reqs = Append(s, q)
    OBVIOUS
  <1>3. ASSUME NEW ops
        PROVE  /\ Waits(y, ops) <=> Waits(z, ops) \/ q.op \in ops
               /\ AtMostOne(z, ops) /\ (q.op \in ops => ~Waits(z, ops)) => AtMostOne(y, ops)
    BY RequestSent, Zenon
  <1>4. \A k \in Asks : q.op # k
    BY Zenon
  <1>5. /\ y.s.mDemuxer => y.d.rtsp
        /\ AtMostOne(z, {"play", "seek"}) /\ (y.d.mSeeking <=> Waits(z, {"seek"}))
    BY Zenon DEF AsksInv
  <1>6. AtMostOne(y, {"play", "seek"}) /\ (y.d.mSeeking <=> Waits(y, {"seek"}))
    BY <1>3, <1>4, <1>5, Zenon DEF Asks
  <1>7. \A k \in Asks : z.s.mDemuxer => y.s.owed[k] = Cardinality(Kind(s, k))
    BY Zenon DEF AsksInv, Asks
  <1>8. \A i \in DOMAIN s : s[i].op \in Asks =>
           /\ s[i].sid = z.d.mRtspSessionId
           /\ \A j \in 1..(i - 1) : s[j].op \notin {"setup", "teardown"}
    BY SMT DEF AsksInv, Asks
  <1> HIDE DEF s
  <1>9. ASSUME NEW k \in Asks
        PROVE  y.s.mDemuxer => y.s.owed[k] = Cardinality(Kind(y.r.reqs, k))
    <2>1. Cardinality(Kind(Append(s, q), k)) = Cardinality(Kind(s, k))
      BY <1>1, <1>4, CountSent, Zenon
    <2>. QED
      BY <1>2, <1>7, <2>1, Zenon
  <1>10. ASSUME NEW i \in DOMAIN y.r.reqs, y.r.reqs[i].op \in Asks
         PROVE  /\ y.r.reqs[i].sid = y.d.mRtspSessionId
                /\ \A j \in 1..(i - 1) : y.r.reqs[j].op \notin {"setup", "teardown"}
    <2>1. /\ i \in DOMAIN s \/ y.r.reqs[i] = q
          /\ \A j \in DOMAIN s : y.r.reqs[j] = s[j]
          /\ i \in DOMAIN s => 1..(i - 1) \subseteq DOMAIN s
      BY <1>1, <1>2, SMT
    <2>2. i \in DOMAIN s
      BY <1>10, <2>1, Zenon
    <2>. QED
      BY <1>8, <1>10, <2>1, <2>2, Zenon
  <1>. QED
    BY <1>5, <1>6, <1>9, <1>10, Zenon DEF AsksInv, Asks

\* What is left of the requests, and where it was.
LEMMA TailShifts ==
  ASSUME NEW s \in Seq(ReqType), s # <<>>
  PROVE  \A i \in DOMAIN Tail(s) :
           /\ i + 1 \in DOMAIN s /\ Tail(s)[i] = s[i + 1]
           /\ \A j \in 1..(i - 1) : j + 1 \in 1..((i + 1) - 1) /\ Tail(s)[j] = s[j + 1]
           /\ 1 \in 1..((i + 1) - 1) /\ s[1] = Head(s)
  <1> DEFINE t == Tail(s)
  <1>1. /\ \A j \in DOMAIN t : j + 1 \in DOMAIN s /\ t[j] = s[j + 1] /\ j \in Nat /\ j > 0
        /\ DOMAIN t = 1..Len(t) /\ Len(t) \in Nat /\ s[1] = Head(s)
    BY SMT
  <1> HIDE DEF t
  <1>2. ASSUME NEW i \in DOMAIN t
        PROVE  /\ i + 1 \in DOMAIN s /\ t[i] = s[i + 1]
               /\ \A j \in 1..(i - 1) : j + 1 \in 1..((i + 1) - 1) /\ t[j] = s[j + 1]
               /\ 1 \in 1..((i + 1) - 1) /\ s[1] = Head(s)
    <2>1. i \in Nat /\ i > 0 /\ \A j \in 1..(i - 1) : j \in DOMAIN t
      BY <1>1, SMT
    <2>2. \A j \in 1..(i - 1) : j + 1 \in 1..((i + 1) - 1)
      BY <2>1, SMT
    <2>3. 1 \in 1..((i + 1) - 1)
      BY <2>1, SMT
    <2>4. \A j \in 1..(i - 1) : t[j] = s[j + 1]
      BY <1>1, <2>1, Zenon
    <2>. QED
      BY <1>1, <2>2, <2>3, <2>4, Zenon
  <1>. QED
    BY <1>2, Zenon DEF t

\* A setup or a teardown that is answered changes the session: no request of
\* the application has been sent after it.
LEMMA AsksAnswered ==
  ASSUME NEW z, NEW y, AsksInv(z), z.r.reqs \in Seq(ReqType), z.r.reqs # <<>>,
         Head(z.r.reqs).op \notin Asks, y.r.reqs = Tail(z.r.reqs),
         y.s.mDemuxer = z.s.mDemuxer, y.s.owed = z.s.owed, y.d.rtsp = z.d.rtsp,
         y.d.mSeeking = z.d.mSeeking,
         \/ y.d.mRtspSessionId = z.d.mRtspSessionId
         \/ Head(z.r.reqs).op \in {"setup", "teardown"}
  PROVE  AsksInv(y)
  <1> DEFINE s == z.r.reqs
  <1>1. s \in Seq(ReqType) /\ s # <<>> /\ Head(s).op \notin Asks
    OBVIOUS
  <1>2. y.r.reqs = Tail(s)
    OBVIOUS
  <1>3. ASSUME NEW ops
        PROVE  /\ Waits(z, ops) <=> Waits(y, ops) \/ Head(s).op \in ops
               /\ AtMostOne(z, ops) => AtMostOne(y, ops)
    BY RequestAnswered, Zenon
  <1>4. \A k \in Asks : Head(s).op # k
    BY Zenon
  <1>5. /\ y.s.mDemuxer => y.d.rtsp
        /\ AtMostOne(z, {"play", "seek"}) /\ (y.d.mSeeking <=> Waits(z, {"seek"}))
    BY Zenon DEF AsksInv
  <1>6. AtMostOne(y, {"play", "seek"}) /\ (y.d.mSeeking <=> Waits(y, {"seek"}))
    BY <1>3, <1>4, <1>5, Zenon DEF Asks
  <1>7. \A k \in Asks : z.s.mDemuxer => y.s.owed[k] = Cardinality(Kind(s, k))
    BY Zenon DEF AsksInv, Asks
  <1>8. \A i \in DOMAIN s : s[i].op \in Asks =>
           /\ s[i].sid = z.d.mRtspSessionId
           /\ \A j \in 1..(i - 1) : s[j].op \notin {"setup", "teardown"}
    BY SMT DEF AsksInv, Asks
  <1>9. \/ y.d.mRtspSessionId = z.d.mRtspSessionId
        \/ Head(s).op \in {"setup", "teardown"}
    OBVIOUS
  <1> HIDE DEF s
  <1>10. ASSUME NEW k \in Asks
         PROVE  y.s.mDemuxer => y.s.owed[k] = Cardinality(Kind(y.r.reqs, k))
    <2>1. Cardinality(Kind(Tail(s), k)) = Cardinality(Kind(s, k))
      BY <1>1, <1>4, CountAnswered, Zenon
    <2>. QED
      BY <1>2, <1>7, <2>1, Zenon
  <1>11. ASSUME NEW i \in DOMAIN y.r.reqs, y.r.reqs[i].op \in Asks
         PROVE  /\ y.r.reqs[i].sid = y.d.mRtspSessionId
                /\ \A j \in 1..(i - 1) : y.r.reqs[j].op \notin {"setup", "teardown"}
    <2>1. /\ i + 1 \in DOMAIN s /\ y.r.reqs[i] = s[i + 1]
          /\ \A j \in 1..(i - 1) : j + 1 \in 1..((i + 1) - 1) /\ y.r.reqs[j] = s[j + 1]
          /\ 1 \in 1..((i + 1) - 1) /\ s[1] = Head(s)
      <3> DEFINE t == Tail(s)
      <3>1. y.r.reqs = t /\ i \in DOMAIN t
        BY <1>2
      <3>2. /\ i + 1 \in DOMAIN s /\ t[i] = s[i + 1]
            /\ \A j \in 1..(i - 1) : j + 1 \in 1..((i + 1) - 1) /\ t[j] = s[j + 1]
            /\ 1 \in 1..((i + 1) - 1) /\ s[1] = Head(s)
        BY <1>1, <3>1, TailShifts, Zenon
      <3> HIDE DEF t
      <3>. QED
        BY <3>1, <3>2, Zenon
    <2>2. /\ s[i + 1].sid = z.d.mRtspSessionId
          /\ \A j \in 1..((i + 1) - 1) : s[j].op \notin {"setup", "teardown"}
      BY <1>8, <1>11, <2>1, Zenon
    <2>3. y.d.mRtspSessionId = z.d.mRtspSessionId
      BY <1>9, <2>1, <2>2, Zenon
    <2>. QED
      BY <2>1, <2>2, <2>3, Zenon
  <1>. QED
    BY <1>5, <1>6, <1>10, <1>11, Zenon DEF AsksInv, Asks

-----------------------------------------------------------------------------
(* The stop of the demuxer.                                                *)

\* Steps one after the other that leave the state of the demuxer in between.
LEMMA KeepsTransitive ==
  ASSUME NEW x, NEW y, NEW z, Keeps(x, y), Keeps(y, z), y.d.mState = x.d.mState
  PROVE  Keeps(x, z)
  <1>1. OneAtATime => StaysConnected
    BY Zenon DEF OneAtATime, StaysConnected
  <1>2. Final(x, z)
    BY Zenon DEF Keeps, Final
  <1>. QED
    BY <1>1, <1>2, Zenon DEF Keeps

\* The network: nothing to wait for, or a teardown, or a disconnection.
TeardownOf(z) == [op |-> "teardown", sid |-> z.d.mRtspSessionId]
NetworkStops(z, y) ==
    \/ y.r = z.r /\ ~z.d.rtsp
    \/ /\ y.r.conn = z.r.conn /\ y.r.reqs = Append(z.r.reqs, TeardownOf(z))
       /\ z.d.mRtspState = "SETUP_DONE"
    \/ /\ y.r.reqs = z.r.reqs
       /\ y.r.conn \in {"none", "closing"} /\ (y.r.conn = "none" => z.r.conn = "none")

LEMMA TeardownOfOK ==
  ASSUME NEW z \in StateType
  PROVE  TeardownOf(z) \in ReqType /\ TeardownOf(z).op = "teardown"
  <1>1. z.d.mRtspSessionId \in Sids \cup {None}
    BY ReqsType, Zenon
  <1>. QED
    BY <1>1, SMT DEF ReqType, Requests, TeardownOf

LEMMA StopNetworkOK ==
  ASSUME NEW z \in StateType, NEW sent \in BOOLEAN
  PROVE  LET y == StopNetwork(z, sent) IN
         /\ y \in StateType /\ y.s = z.s /\ SameElems(z, y) /\ SameInfo(z.d, y.d)
         /\ y.d.mState = z.d.mState /\ y.d.mSeeking = z.d.mSeeking
         /\ y.d.rtsp = z.d.rtsp /\ y.d.mRtspState = z.d.mRtspState
         /\ y.d.mContentBase = z.d.mContentBase /\ y.d.mRtspSessionId = z.d.mRtspSessionId
         /\ y.d.leaked = z.d.leaked /\ (y.d.mReceiver => z.d.mReceiver)
         /\ y.d.mNetworkReadyForStop => z.d.mNetworkReadyForStop \/ ~z.d.rtsp
         /\ y.r.idles = z.r.idles
         /\ NetworkStops(z, y)
  <1> DEFINE y == StopNetwork(z, sent)
             d == [z.d EXCEPT !.mRunning = FALSE, !.mNetworkReadyForStop = TRUE]
             x == [z EXCEPT !.d = d]
             e == [z.d EXCEPT !.mTearingDown = TRUE]
             w == [z EXCEPT !.d = e]
  <1>1. z.d \in DemuxerType
    BY ReqsType, Zenon
  <1>3. CASE ~z.d.rtsp
    <2>1. y = StopRtpAvp(x)
      BY <1>3, Zenon DEF StopNetwork
    <2>2. /\ d \in DemuxerType /\ SameInfo(z.d, d)
          /\ d.mState = z.d.mState /\ d.mSeeking = z.d.mSeeking
          /\ d.rtsp = z.d.rtsp /\ d.mRtspState = z.d.mRtspState
          /\ d.mContentBase = z.d.mContentBase /\ d.mRtspSessionId = z.d.mRtspSessionId
          /\ d.leaked = z.d.leaked /\ d.mReceiver = z.d.mReceiver
      BY <1>1, ZenonT(60) DEF DemuxerType, SameInfo
    <2> HIDE DEF d, y
    <2>3. x \in StateType /\ x.d = d /\ x.s = z.s /\ x.r = z.r /\ SameElems(z, x)
      BY <2>2, DemuxerSet, Zenon
    <2> HIDE DEF x
    <2>4. /\ y \in StateType /\ y.s = x.s /\ y.r = x.r /\ SameElems(x, y)
          /\ y.d = [x.d EXCEPT !.mReceiver = FALSE, !.socks = FALSE]
      BY <2>1, <2>3, StopRtpAvpOK, Zenon
    <2>5. /\ SameInfo(d, y.d)
          /\ y.d.mState = d.mState /\ y.d.mSeeking = d.mSeeking
          /\ y.d.rtsp = d.rtsp /\ y.d.mRtspState = d.mRtspState
          /\ y.d.mContentBase = d.mContentBase /\ y.d.mRtspSessionId = d.mRtspSessionId
          /\ y.d.leaked = d.leaked /\ ~y.d.mReceiver
      BY <2>2, <2>3, <2>4, ZenonT(60) DEF DemuxerType, SameInfo
    <2>6. SameElems(z, y) /\ SameInfo(z.d, y.d)
      BY <2>2, <2>3, <2>4, <2>5, SameElemsTransitive, Zenon DEF SameInfo
    <2>7. y.r = z.r /\ NetworkStops(z, y)
      BY <1>3, <2>3, <2>4, Zenon DEF NetworkStops
    <2>. QED
      BY <1>3, <2>2, <2>3, <2>4, <2>5, <2>6, <2>7, Zenon DEF y
  <1>4. CASE z.d.rtsp /\ z.d.mRtspState # "SETUP_DONE"
    <2>1. y = Disconnect(z)
      BY <1>4, Zenon DEF StopNetwork
    <2> HIDE DEF y
    <2>2. /\ y \in StateType /\ y.d = z.d /\ y.s = z.s /\ SameElems(z, y)
          /\ y.r.reqs = z.r.reqs /\ y.r.idles = z.r.idles
          /\ y.r.conn \in {"none", "closing"} /\ (y.r.conn = "none" => z.r.conn = "none")
      BY <2>1, DisconnectOK, Zenon
    <2>3. NetworkStops(z, y) /\ SameInfo(z.d, y.d)
      BY <2>2, Zenon DEF NetworkStops, SameInfo
    <2>. QED
      BY <1>4, <2>2, <2>3, Zenon DEF y
  <1>5. CASE z.d.rtsp /\ z.d.mRtspState = "SETUP_DONE"
    <2>1. w = [z EXCEPT !.d.mTearingDown = TRUE]
      BY Zenon
    <2>2. y = IF sent THEN Send(w, "teardown") ELSE Disconnect(w)
      BY <1>5, <2>1, Zenon DEF StopNetwork
    <2>3. /\ e \in DemuxerType /\ SameInfo(z.d, e)
          /\ e.mState = z.d.mState /\ e.mSeeking = z.d.mSeeking
          /\ e.rtsp = z.d.rtsp /\ e.mRtspState = z.d.mRtspState
          /\ e.mContentBase = z.d.mContentBase /\ e.mRtspSessionId = z.d.mRtspSessionId
          /\ e.leaked = z.d.leaked /\ e.mReceiver = z.d.mReceiver
          /\ e.mNetworkReadyForStop = z.d.mNetworkReadyForStop
      BY <1>1, Zenon DEF DemuxerType, SameInfo
    <2> HIDE DEF e, y
    <2>4. w \in StateType /\ w.d = e /\ w.s = z.s /\ w.r = z.r /\ SameElems(z, w)
      BY <2>3, DemuxerSet, Zenon
    <2> HIDE DEF w
    <2>5. CASE sent
      <3>1. "teardown" \in Requests
        BY Zenon DEF Requests
      <3>2. LET p == [op |-> "teardown", sid |-> w.d.mRtspSessionId] IN
            /\ y \in StateType /\ y.d = w.d /\ y.s = w.s /\ SameElems(w, y)
            /\ y.r.conn = w.r.conn /\ y.r.reqs = Append(w.r.reqs, p) /\ y.r.idles = w.r.idles
        BY <2>2, <2>4, <2>5, <3>1, SendOK, Zenon
      <3>3. SameElems(z, y)
        BY <2>4, <3>2, SameElemsTransitive, Zenon
      <3>4. /\ y.r.conn = z.r.conn /\ y.r.reqs = Append(z.r.reqs, TeardownOf(z))
            /\ y.r.idles = z.r.idles
        BY <2>3, <2>4, <3>2, Zenon DEF TeardownOf
      <3>5. NetworkStops(z, y)
        BY <1>5, <3>4, Zenon DEF NetworkStops
      <3>. QED
        BY <1>5, <2>3, <2>4, <3>2, <3>3, <3>4, <3>5, Zenon DEF y
    <2>6. CASE ~sent
      <3>1. /\ y \in StateType /\ y.d = w.d /\ y.s = w.s /\ SameElems(w, y)
            /\ y.r.reqs = w.r.reqs /\ y.r.idles = w.r.idles
            /\ y.r.conn \in {"none", "closing"} /\ (y.r.conn = "none" => w.r.conn = "none")
        BY <2>2, <2>4, <2>6, DisconnectOK, Zenon
      <3>2. SameElems(z, y)
        BY <2>4, <3>1, SameElemsTransitive, Zenon
      <3>3. NetworkStops(z, y)
        BY <2>4, <3>1, Zenon DEF NetworkStops
      <3>. QED
        BY <1>5, <2>3, <2>4, <3>1, <3>2, <3>3, ZenonT(60) DEF y
    <2>. QED
      BY <2>5, <2>6
  <1>. QED
    BY <1>3, <1>4, <1>5, Zenon

\* stop(), of a demuxer that is started.
LEMMA StopOK ==
  ASSUME NEW z \in StateType, z.d.mState = "STARTED", NEW sent \in BOOLEAN
  PROVE  LET y == Stop(z, sent) IN
         /\ y \in StateType /\ y.out = z.out /\ y.est = z.est
         /\ y.loop.what = "stop"
         /\ y.loop.n = IF z.d.mVideoMedia = None THEN 0 ELSE Len(z.out)
         /\ SameLife(z, y) /\ ~y.s.mReadyToPlay /\ ~y.s.mDemuxerReady /\ y.s.owed = z.s.owed
         /\ y.d.mState = "STOPPING" /\ ~y.d.mChannelsReadyForStop
         /\ y.d.mVideoMedia = z.d.mVideoMedia
         /\ y.d.mCodecInfoChanging = z.d.mCodecInfoChanging
         /\ y.d.mSeeking = z.d.mSeeking
         /\ y.d.rtsp = z.d.rtsp /\ y.d.mRtspState = z.d.mRtspState
         /\ y.d.mContentBase = z.d.mContentBase /\ y.d.mRtspSessionId = z.d.mRtspSessionId
         /\ y.d.leaked = z.d.leaked /\ (y.d.mReceiver => z.d.mReceiver)
         /\ y.d.mNetworkReadyForStop => ~z.d.rtsp
         /\ y.r.idles = z.r.idles
         /\ NetworkStops(z, y)
  <1> DEFINE a == [z EXCEPT !.d.mState = "STOPPING"]
             b == OnReadyToPlay(a, FALSE)
             c == [b EXCEPT !.d.mChannelsReadyForStop = FALSE, !.d.mNetworkReadyForStop = FALSE]
             e == StopNetwork(c, sent)
             y == Flush(e, "stop")
  <1>1. Stop(z, sent) = y
    <2>1. SetState(z, "STOPPING") = a
      BY Zenon DEF SetState
    <2>. QED
      BY <2>1, Zenon DEF Stop
  <1>2. z.d \in DemuxerType /\ FALSE \in BOOLEAN /\ "STOPPING" \in ElementStates
    BY ReqsType, Zenon DEF ElementStates
  <1>3. /\ a \in StateType
        /\ a.d = [z.d EXCEPT !.mState = "STOPPING"]
        /\ a.s = z.s /\ a.r = z.r /\ a.out = z.out /\ a.ch = z.ch /\ a.est = z.est
        /\ a.loop = z.loop
    BY <1>2, StateSet, Zenon
  <1> HIDE DEF a
  <1>4. /\ b \in StateType /\ b.d = a.d /\ b.r = a.r /\ SameElems(a, b)
        /\ b.s.mDemuxerReady = FALSE /\ (b.s.mReadyToPlay => FALSE)
        /\ b.s.mState = a.s.mState /\ b.s.mDemuxer = a.s.mDemuxer
        /\ b.s.deleting = a.s.deleting /\ b.s.owed = a.s.owed
    BY <1>2, <1>3, OnReadyToPlayOK, Zenon
  <1> HIDE DEF b
  <1>5. /\ c \in StateType
        /\ c.d = [b.d EXCEPT !.mChannelsReadyForStop = FALSE, !.mNetworkReadyForStop = FALSE]
        /\ c.s = b.s /\ c.r = b.r /\ c.out = b.out /\ c.est = b.est
    BY <1>4, FlagsReset, Zenon
  <1> HIDE DEF c
  <1>6. /\ c.d.mState = "STOPPING" /\ ~c.d.mChannelsReadyForStop /\ ~c.d.mNetworkReadyForStop
        /\ c.d.mVideoMedia = z.d.mVideoMedia /\ c.d.mCodecInfoChanging = z.d.mCodecInfoChanging
        /\ c.d.mSeeking = z.d.mSeeking /\ c.d.rtsp = z.d.rtsp
        /\ c.d.mRtspState = z.d.mRtspState /\ c.d.mContentBase = z.d.mContentBase
        /\ c.d.mRtspSessionId = z.d.mRtspSessionId
        /\ c.d.leaked = z.d.leaked /\ c.d.mReceiver = z.d.mReceiver
    <2>1. b.d = [z.d EXCEPT !.mState = "STOPPING"]
      BY <1>3, <1>4, Zenon
    <2>2. b.d \in DemuxerType /\ b.d.mState = "STOPPING"
          /\ b.d.mVideoMedia = z.d.mVideoMedia /\ b.d.mCodecInfoChanging = z.d.mCodecInfoChanging
          /\ b.d.mSeeking = z.d.mSeeking /\ b.d.rtsp = z.d.rtsp
          /\ b.d.mRtspState = z.d.mRtspState /\ b.d.mContentBase = z.d.mContentBase
          /\ b.d.mRtspSessionId = z.d.mRtspSessionId
          /\ b.d.leaked = z.d.leaked /\ b.d.mReceiver = z.d.mReceiver
      BY <1>2, <2>1, ZenonT(60) DEF DemuxerType
    <2>. QED
      BY <1>5, <2>2, ZenonT(60) DEF DemuxerType
  <1>7. /\ e \in StateType /\ e.s = c.s /\ SameElems(c, e) /\ SameInfo(c.d, e.d)
        /\ e.d.mState = c.d.mState /\ e.d.mSeeking = c.d.mSeeking
        /\ e.d.rtsp = c.d.rtsp /\ e.d.mRtspState = c.d.mRtspState
        /\ e.d.mContentBase = c.d.mContentBase /\ e.d.mRtspSessionId = c.d.mRtspSessionId
        /\ e.d.leaked = c.d.leaked /\ (e.d.mReceiver => c.d.mReceiver)
        /\ e.d.mNetworkReadyForStop => c.d.mNetworkReadyForStop \/ ~c.d.rtsp
        /\ e.r.idles = c.r.idles
        /\ NetworkStops(c, e)
    BY <1>5, StopNetworkOK, Zenon
  <1> HIDE DEF e
  <1>8. c.out = z.out /\ c.est = z.est /\ c.r = z.r
    BY <1>3, <1>4, <1>5, Zenon DEF SameElems
  <1>15. SameLife(z, c) /\ ~c.s.mReadyToPlay /\ ~c.s.mDemuxerReady /\ c.s.owed = z.s.owed
    BY <1>3, <1>4, <1>5, Zenon DEF SameLife
  <1>16. NetworkStops(z, e) /\ e.r.idles = z.r.idles
    <2>1. NetworkStops(c, e) /\ e.r.idles = c.r.idles
      BY <1>7, Zenon
    <2>2. TeardownOf(c) = TeardownOf(z) /\ c.d.rtsp = z.d.rtsp /\ c.d.mRtspState = z.d.mRtspState
      BY <1>6, Zenon DEF TeardownOf
    <2>. QED
      BY <1>8, <2>1, <2>2, Zenon DEF NetworkStops
  <1>9. /\ y \in StateType
        /\ y.d = [e.d EXCEPT !.mFlushing = TRUE, !.mIdrFrameSyncPending = TRUE]
        /\ y.s = e.s /\ y.r = e.r /\ y.out = e.out /\ y.est = e.est
        /\ y.loop.what = "stop"
        /\ y.loop.n = IF e.d.mVideoMedia = None THEN 0 ELSE Len(e.out)
    <2>1. "stop" \in {"flush", "stop"}
      OBVIOUS
    <2>. QED
      BY <1>7, <2>1, FlushSet, Zenon
  <1> HIDE DEF y
  <1>10. /\ y.d.mState = e.d.mState /\ y.d.mChannelsReadyForStop = e.d.mChannelsReadyForStop
         /\ y.d.mVideoMedia = e.d.mVideoMedia /\ y.d.mCodecInfoChanging = e.d.mCodecInfoChanging
         /\ y.d.mSeeking = e.d.mSeeking /\ y.d.rtsp = e.d.rtsp
         /\ y.d.mRtspState = e.d.mRtspState /\ y.d.mContentBase = e.d.mContentBase
         /\ y.d.mRtspSessionId = e.d.mRtspSessionId
         /\ y.d.leaked = e.d.leaked /\ y.d.mReceiver = e.d.mReceiver
         /\ y.d.mNetworkReadyForStop = e.d.mNetworkReadyForStop
    <2>1. e.d \in DemuxerType
      BY <1>7, ReqsType, Zenon
    <2>. QED
      BY <1>9, <2>1, Zenon DEF DemuxerType
  <1>11. /\ e.d.mChannelsReadyForStop = c.d.mChannelsReadyForStop
         /\ e.d.mVideoMedia = c.d.mVideoMedia /\ e.d.mCodecInfoChanging = c.d.mCodecInfoChanging
    BY <1>7, Zenon DEF SameInfo
  <1>12. y.out = z.out /\ y.est = z.est /\ e.out = z.out
    BY <1>7, <1>8, <1>9, Zenon DEF SameElems
  <1>13. SameLife(z, y) /\ ~y.s.mReadyToPlay /\ ~y.s.mDemuxerReady /\ y.s.owed = z.s.owed
    <2>1. y.s = c.s
      BY <1>7, <1>9, Zenon
    <2>. QED
      BY <1>15, <2>1, Zenon DEF SameLife
  <1>14. /\ y.d.mState = "STOPPING" /\ ~y.d.mChannelsReadyForStop
         /\ y.d.mVideoMedia = z.d.mVideoMedia
         /\ y.d.mCodecInfoChanging = z.d.mCodecInfoChanging
         /\ y.d.mSeeking = z.d.mSeeking
         /\ y.d.rtsp = z.d.rtsp /\ y.d.mRtspState = z.d.mRtspState
         /\ y.d.mContentBase = z.d.mContentBase /\ y.d.mRtspSessionId = z.d.mRtspSessionId
         /\ y.d.leaked = z.d.leaked /\ (y.d.mReceiver => z.d.mReceiver)
         /\ y.d.mNetworkReadyForStop => ~z.d.rtsp
    BY <1>6, <1>7, <1>10, <1>11, ZenonT(60)
  <1>18. NetworkStops(z, y) /\ y.r.idles = z.r.idles
    BY <1>9, <1>16, Zenon DEF NetworkStops
  <1>17. y.loop.n = IF z.d.mVideoMedia = None THEN 0 ELSE Len(z.out)
    BY <1>9, <1>10, <1>12, <1>14, ZenonT(60)
  <1>. QED
    BY <1>1, <1>9, <1>12, <1>13, <1>14, <1>17, <1>18, Zenon

LEMMA StopKeeps ==
  ASSUME NEW z, Good(z), DialogueInv(z), z.d.mState = "STARTED", NEW sent \in BOOLEAN
  PROVE  Keeps(z, Stop(z, sent))
  <1> DEFINE y == Stop(z, sent)
             q == TeardownOf(z)
  <1>1. z \in StateType /\ z.r.reqs \in Seq(ReqType) /\ z.out \in Seq(Chans)
    BY ReqsType, Zenon DEF Good, StateType
  <1>2. /\ y \in StateType /\ y.out = z.out /\ y.est = z.est
        /\ y.loop.what = "stop"
        /\ y.loop.n = IF z.d.mVideoMedia = None THEN 0 ELSE Len(z.out)
        /\ SameLife(z, y) /\ ~y.s.mReadyToPlay /\ ~y.s.mDemuxerReady /\ y.s.owed = z.s.owed
        /\ y.d.mState = "STOPPING" /\ ~y.d.mChannelsReadyForStop
        /\ y.d.mVideoMedia = z.d.mVideoMedia
        /\ y.d.mCodecInfoChanging = z.d.mCodecInfoChanging
        /\ y.d.mSeeking = z.d.mSeeking
        /\ y.d.rtsp = z.d.rtsp /\ y.d.mRtspState = z.d.mRtspState
        /\ y.d.mContentBase = z.d.mContentBase /\ y.d.mRtspSessionId = z.d.mRtspSessionId
        /\ y.d.leaked = z.d.leaked /\ (y.d.mReceiver => z.d.mReceiver)
        /\ y.d.mNetworkReadyForStop => ~z.d.rtsp
        /\ y.r.idles = z.r.idles
        /\ NetworkStops(z, y)
    BY <1>1, StopOK, Zenon
  <1> HIDE DEF y
  <1>14. /\ q \in ReqType /\ q.op = "teardown"
         /\ \/ y.r = z.r /\ ~z.d.rtsp
            \/ /\ y.r.conn = z.r.conn /\ y.r.reqs = Append(z.r.reqs, q)
               /\ z.d.mRtspState = "SETUP_DONE"
            \/ /\ y.r.reqs = z.r.reqs
               /\ y.r.conn \in {"none", "closing"} /\ (y.r.conn = "none" => z.r.conn = "none")
    BY <1>1, <1>2, TeardownOfOK, Zenon DEF NetworkStops
  <1> HIDE DEF q
  <1>3. LifeInv(z) /\ TalkInv(z)
    BY Zenon DEF DialogueInv
  <1>4. /\ Waits(y, {"setup"}) <=> Waits(z, {"setup"})
        /\ Waits(y, {"options", "describe"}) <=> Waits(z, {"options", "describe"})
        /\ Waits(y, {"options", "describe", "setup"}) <=>
              Waits(z, {"options", "describe", "setup"})
        /\ AtMostOne(y, {"options", "describe", "setup"})
    <2>1. AtMostOne(z, {"options", "describe", "setup"})
      BY <1>3, Zenon DEF TalkInv
    <2>2. CASE y.r.reqs = z.r.reqs
      BY <2>1, <2>2, Zenon DEF Waits, AtMostOne
    <2>3. CASE y.r.reqs = Append(z.r.reqs, q)
      <3>1. q.op \notin {"options", "describe", "setup"}
        BY <1>14, Zenon
      <3>2. ASSUME NEW ops
            PROVE  /\ Waits(y, ops) <=> Waits(z, ops) \/ q.op \in ops
                   /\ AtMostOne(z, ops) /\ (q.op \in ops => ~Waits(z, ops)) =>
                         AtMostOne(y, ops)
        BY <1>1, <1>14, <2>3, RequestSent, Zenon
      <3>. QED
        BY <2>1, <3>1, <3>2, Zenon
    <2>. QED
      BY <1>14, <2>2, <2>3, Zenon
  <1>5. y.r.conn \in {"up", "connecting"} =>
           z.d.rtsp /\ y.r.conn = z.r.conn /\ z.d.mRtspState = "SETUP_DONE"
    BY <1>2, <1>3, <1>14, Zenon DEF TalkInv
  <1>6. LifeInv(y)
    BY <1>2, <1>3, Zenon DEF LifeInv, SameLife
  <1>7. TalkInv(y)
    <2>1. /\ y.d.mState = "STOPPED" \/ y.d.mNetworkReadyForStop \/ ~y.d.rtsp =>
                y.r.conn \notin {"up", "connecting"}
          /\ y.d.mContentBase => ~Waits(y, {"options", "describe"})
          /\ y.d.mRtspState = "SETUP_DONE" => ~Waits(y, {"options", "describe", "setup"})
      BY <1>2, <1>3, <1>4, <1>5, Zenon DEF TalkInv
    <2>2. y.r.conn = "up" => ~Waits(y, {"setup"})
      <3>1. Waits(z, {"setup"}) => Waits(z, {"options", "describe", "setup"})
        BY Zenon DEF Waits
      <3>. QED
        BY <1>3, <1>4, <1>5, <3>1, Zenon DEF TalkInv
    <2>3. y.r.conn # "connecting"
      BY <1>3, <1>5, Zenon DEF TalkInv
    <2>. QED
      BY <1>2, <1>4, <2>1, <2>2, <2>3, Zenon DEF TalkInv
  <1>8. Good(y)
    BY <1>2, Zenon DEF Good, DecoderLeft
  <1>9. ReadyInv(y) /\ Final(z, y)
    BY <1>2, Zenon DEF ReadyInv, Final
  <1>10. SocketsInv(z) => SocketsInv(y)
    BY <1>2, <1>4, Zenon DEF SocketsInv
  <1>11. AsksInv(z) => AsksInv(y)
    <2>1. y.s.mDemuxer = z.s.mDemuxer /\ q.op \notin Asks
      BY <1>2, <1>14, Zenon DEF SameLife, Asks
    <2>2. CASE y.r.reqs = z.r.reqs
      BY <1>2, <2>1, <2>2, AsksSame, Zenon
    <2>3. CASE y.r.reqs = Append(z.r.reqs, q)
      BY <1>1, <1>2, <1>14, <2>1, <2>3, AsksSent, Zenon
    <2>. QED
      BY <1>14, <2>2, <2>3, Zenon
  <1>12. ChannelsInv(z) => ChannelsInv(y)
    <2>1. Len(z.out) = 0 => z.out = <<>>
      BY <1>1, SMT
    <2>. QED
      BY <1>2, <2>1, Zenon DEF ChannelsInv
  <1>13. CodecInfoInv(y)
    BY <1>2, Zenon DEF CodecInfoInv
  <1>. QED
    BY <1>6, <1>7, <1>8, <1>9, <1>10, <1>11, <1>12, <1>13, Zenon DEF Keeps, DialogueInv, y

-----------------------------------------------------------------------------
(* The session is closed, idle functions are asked for and called.         *)

LEMMA SameButSession ==
  ASSUME NEW z, NEW y, Good(z), DialogueInv(z), y \in StateType,
         y.d = z.d, y.r = z.r, SameElems(z, y), SameLife(z, y),
         y.s.mDemuxerReady = z.s.mDemuxerReady, y.s.owed = z.s.owed,
         y.s.mReadyToPlay => z.s.mReadyToPlay
  PROVE  Keeps(z, y)
  <1>1. SameButInfo(z, y)
    BY Zenon DEF SameButInfo, SameElems
  <1>2. \A ops : (Waits(y, ops) <=> Waits(z, ops)) /\ (AtMostOne(y, ops) <=> AtMostOne(z, ops))
    BY Zenon DEF Waits, AtMostOne
  <1>3. TalkInv(y)
    BY <1>2, Zenon DEF DialogueInv, TalkInv
  <1>4. (ReadyInv(z) => ReadyInv(y)) /\ (SocketsInv(z) => SocketsInv(y))
    BY <1>2, Zenon DEF ReadyInv, SocketsInv
  <1>5. AsksInv(z) => AsksInv(y)
    BY AsksSame, Zenon DEF SameLife
  <1>. QED
    BY <1>1, <1>3, <1>4, <1>5, TalkKeeps, Zenon

LEMMA SameButIdles ==
  ASSUME NEW z, NEW y, Good(z), DialogueInv(z), y \in StateType,
         y.d = z.d, y.s = z.s, SameElems(z, y), y.r.conn = z.r.conn, y.r.reqs = z.r.reqs,
         z.d.mState # "CREATED", "idleRtspDisconnect" \in y.r.idles => z.d.mState # "STARTED"
  PROVE  Keeps(z, y)
  <1>1. SameButInfo(z, y) /\ SameLife(z, y)
    BY Zenon DEF SameButInfo, SameElems, SameLife
  <1>2. \A ops : (Waits(y, ops) <=> Waits(z, ops)) /\ (AtMostOne(y, ops) <=> AtMostOne(z, ops))
    BY Zenon DEF Waits, AtMostOne
  <1>3. TalkInv(y)
    BY <1>2, Zenon DEF DialogueInv, TalkInv
  <1>4. (ReadyInv(z) => ReadyInv(y)) /\ (SocketsInv(z) => SocketsInv(y))
    BY <1>2, Zenon DEF ReadyInv, SocketsInv
  <1>5. AsksInv(z) => AsksInv(y)
    BY AsksSame, Zenon
  <1>. QED
    BY <1>1, <1>3, <1>4, <1>5, TalkKeeps, Zenon

LEMMA DisconnectKeeps ==
  ASSUME NEW z, Good(z), DialogueInv(z), z.d.mState \notin {"CREATED", "STARTED"}
  PROVE  Keeps(z, Disconnect(z))
  <1> DEFINE y == Disconnect(z)
  <1>1. /\ y \in StateType /\ y.d = z.d /\ y.s = z.s /\ SameElems(z, y)
        /\ y.r.reqs = z.r.reqs /\ y.r.idles = z.r.idles
        /\ y.r.conn \in {"none", "closing"} /\ (y.r.conn = "none" => z.r.conn = "none")
    BY DisconnectOK, Zenon DEF Good
  <1> HIDE DEF y
  <1>2. SameButInfo(z, y) /\ SameLife(z, y)
    BY <1>1, Zenon DEF SameButInfo, SameElems, SameLife
  <1>3. \A ops : (Waits(y, ops) <=> Waits(z, ops)) /\ (AtMostOne(y, ops) <=> AtMostOne(z, ops))
    BY <1>1, Zenon DEF Waits, AtMostOne
  <1>4. TalkInv(y)
    BY <1>1, <1>3, Zenon DEF DialogueInv, TalkInv
  <1>5. (ReadyInv(z) => ReadyInv(y)) /\ (SocketsInv(z) => SocketsInv(y))
    BY <1>1, <1>3, Zenon DEF ReadyInv, SocketsInv
  <1>6. AsksInv(z) => AsksInv(y)
    BY <1>1, AsksSame, Zenon
  <1>7. Keeps(z, y)
    BY <1>1, <1>2, <1>4, <1>5, <1>6, TalkKeeps, Zenon
  <1>. QED
    BY <1>7, Zenon DEF y

LEMMA StopLaterKeeps ==
  ASSUME NEW z, Good(z), DialogueInv(z), z.d.mState # "CREATED"
  PROVE  Keeps(z, StopLater(z))
  <1> DEFINE y == StopLater(z)
  <1>1. /\ y \in StateType /\ y.d = z.d /\ y.s = z.s /\ SameElems(z, y)
        /\ y.r.conn = z.r.conn /\ y.r.reqs = z.r.reqs
        /\ y.r.idles = z.r.idles \cup {"idleStop"}
    BY StopLaterOK, Zenon DEF Good
  <1> HIDE DEF y
  <1>2. "idleRtspDisconnect" \in y.r.idles => z.d.mState # "STARTED"
    BY <1>1, Zenon DEF DialogueInv, TalkInv
  <1>3. Keeps(z, y)
    BY <1>1, <1>2, SameButIdles, Zenon
  <1>. QED
    BY <1>3, Zenon DEF y

\* A demuxer that has a connection, requests or idle functions was opened.
LEMMA Opened ==
  ASSUME NEW z, DialogueInv(z),
         z.r.conn # "none" \/ z.r.reqs # <<>> \/ z.r.idles # {} \/ z.s.mDemuxer
  PROVE  z.d.mState # "CREATED"
  <1>1. NewClient.conn = "none" /\ NewClient.reqs = <<>> /\ NewClient.idles = {}
    BY SMT DEF NewClient
  <1>. QED
    BY <1>1, Zenon DEF DialogueInv, TalkInv, LifeInv

LEMMA IdlesKeep ==
  ASSUME Good(st), DialogueInv(st), IdleStop \/ IdleRtspDisconnect \/ OnRtspSessionRemoved
  PROVE  Keeps(st, st')
  <1>1. st \in StateType /\ st.r.idles \in SUBSET {"idleStop", "idleRtspDisconnect"}
    BY ReqsType, Zenon DEF Good
  <1>2. ASSUME NEW i
        PROVE  LET x == [st EXCEPT !.r.idles = @ \ {i}] IN
               /\ i \in st.r.idles => Keeps(st, x)
               /\ x.d = st.d
    <2> DEFINE I == st.r.idles \ {i}
               x == [st EXCEPT !.r.idles = I]
    <2>1. I \in SUBSET {"idleStop", "idleRtspDisconnect"}
      BY <1>1, Zenon
    <2>2. I \subseteq st.r.idles
      BY Zenon
    <2> HIDE DEF I
    <2>3. /\ x \in StateType /\ x.d = st.d /\ x.s = st.s /\ SameElems(st, x)
          /\ x.r.conn = st.r.conn /\ x.r.reqs = st.r.reqs /\ x.r.idles = I
      BY <1>1, <2>1, IdlesSet, Zenon
    <2>4. x = [st EXCEPT !.r.idles = @ \ {i}]
      BY Zenon DEF I
    <2> HIDE DEF x
    <2>5. ASSUME i \in st.r.idles
          PROVE  Keeps(st, x)
      <3>1. st.d.mState # "CREATED"
        BY <2>5, Opened, Zenon
      <3>2. "idleRtspDisconnect" \in x.r.idles => st.d.mState # "STARTED"
        BY <2>2, <2>3, Zenon DEF DialogueInv, TalkInv
      <3>. QED
        BY <2>3, <3>1, <3>2, SameButIdles, Zenon
    <2>. QED
      BY <2>3, <2>4, <2>5, Zenon
  <1>3. CASE IdleStop
    <2> DEFINE x == [st EXCEPT !.r.idles = @ \ {"idleStop"}]
    <2>1. "idleStop" \in st.r.idles
      BY <1>3, Zenon DEF IdleStop
    <2>2. PICK sent \in BOOLEAN : st' = Stop(x, sent)
      BY <1>3, Zenon DEF IdleStop, Sent
    <2>3. Keeps(st, x) /\ x.d = st.d
      BY <1>2, <2>1, Zenon
    <2> HIDE DEF x
    <2>4. Good(x) /\ DialogueInv(x)
      BY <2>3, Zenon DEF Keeps
    <2>5. CASE x.d.mState = "STARTED"
      <3>1. Keeps(x, Stop(x, sent))
        BY <2>4, <2>5, StopKeeps, Zenon
      <3>. QED
        BY <2>2, <2>3, <3>1, KeepsTransitive, Zenon
    <2>6. CASE x.d.mState # "STARTED"
      <3>1. x.d.mState # "STARTING"
        BY <2>4, Zenon DEF DialogueInv, LifeInv
      <3>2. Stop(x, sent) = x
        BY <2>6, <3>1, Zenon DEF Stop
      <3>. QED
        BY <2>2, <2>3, <3>2, Zenon
    <2>. QED
      BY <2>5, <2>6
  <1>4. CASE IdleRtspDisconnect
    <2> DEFINE x == [st EXCEPT !.r.idles = @ \ {"idleRtspDisconnect"}]
    <2>1. "idleRtspDisconnect" \in st.r.idles /\ st' = Disconnect(x)
      BY <1>4, Zenon DEF IdleRtspDisconnect
    <2>2. Keeps(st, x) /\ x.d = st.d
      BY <1>2, <2>1, Zenon
    <2> HIDE DEF x
    <2>3. Good(x) /\ DialogueInv(x)
      BY <2>2, Zenon DEF Keeps
    <2>4. st.d.mState \notin {"CREATED", "STARTED"}
      BY <2>1, Opened, Zenon DEF DialogueInv, TalkInv
    <2>5. Keeps(x, Disconnect(x))
      BY <2>2, <2>3, <2>4, DisconnectKeeps, Zenon
    <2>. QED
      BY <2>1, <2>2, <2>5, KeepsTransitive, Zenon
  <1>5. CASE OnRtspSessionRemoved
    <2>1. st.r.conn = "up" /\ st' = StopLater(st)
      BY <1>5, Zenon DEF OnRtspSessionRemoved
    <2>2. st.d.mState # "CREATED"
      BY <2>1, Opened, Zenon
    <2>. QED
      BY <2>1, <2>2, StopLaterKeeps, Zenon
  <1>. QED
    BY <1>3, <1>4, <1>5

LEMMA GoodbyeKeeps ==
  ASSUME Good(st), DialogueInv(st), Goodbye
  PROVE  Keeps(st, st')
  <1> DEFINE x == [st EXCEPT !.d.mWaitForCodecInfo = TRUE]
  <1>1. /\ Free /\ st.d.mState = "STARTED"
        /\ st' = x \/ st' = StopLater(x)
    BY Zenon DEF Goodbye, Receives
  <1>2. x \in StateType /\ Down(st, x) /\ SameMedia(st, x)
    <2>1. TRUE \in BOOLEAN /\ st \in StateType
      BY Zenon DEF Good
    <2>. QED
      BY <2>1, WaitReset, Zenon
  <1> HIDE DEF x
  <1>3. Good(x)
    BY <1>2, Zenon DEF Good, DecoderLeft, SameMedia
  <1>4. DownStep(st, x)
    BY <1>1, <1>2, <1>3, SameMediaKept, MediaKeptOK, Zenon DEF Free
  <1>5. Keeps(st, x)
    BY <1>4, DownKeeps, Zenon
  <1>6. x.d.mState = st.d.mState
    BY <1>2, Zenon DEF SameMedia
  <1>7. Keeps(x, StopLater(x))
    BY <1>1, <1>5, <1>6, StopLaterKeeps, Zenon DEF Keeps
  <1>. QED
    BY <1>1, <1>5, <1>6, <1>7, KeepsTransitive, Zenon

LEMMA CloseKeeps ==
  ASSUME Good(st), DialogueInv(st), Close
  PROVE  Keeps(st, st')
  <1> DEFINE y == SessionState(st, "CLOSING")
             w == SessionState(y, "CLOSED")
             v == [w EXCEPT !.s.closed = 1]
  <1>1. st.s.mState = "OPENED"
    BY Zenon DEF Close
  <1>2. \/ st' = v
        \/ st.s.mDemuxer /\ \E sent \in BOOLEAN : st' = Stop(y, sent)
        \/ st' = y
    BY Zenon DEF Close, Closed, Sent
  <1>3. /\ y \in StateType /\ y.d = st.d /\ y.r = st.r /\ SameElems(st, y) /\ SameLife(st, y)
        /\ y.s.mDemuxerReady = st.s.mDemuxerReady /\ y.s.owed = st.s.owed
        /\ y.s.mReadyToPlay => st.s.mReadyToPlay
    <2>1. st \in StateType /\ "CLOSING" \in SessionStates
      BY Zenon DEF Good, SessionStates
    <2>2. /\ y \in StateType
          /\ y.d = st.d /\ y.r = st.r /\ y.out = st.out /\ y.ch = st.ch /\ y.est = st.est
          /\ y.loop = st.loop
          /\ y.s.mState = "CLOSING"
          /\ y.s.mReadyToPlay => st.s.mReadyToPlay
          /\ y.s.mDemuxer = st.s.mDemuxer /\ y.s.deleting = st.s.deleting
          /\ y.s.mDemuxerReady = st.s.mDemuxerReady /\ y.s.owed = st.s.owed
      BY <2>1, SessionStateOK, ZenonT(60)
    <2> HIDE DEF y
    <2>. QED
      BY <2>2, Zenon DEF SameElems, SameLife
  <1>4. Keeps(st, y)
    BY <1>3, SameButSession, Zenon
  <1> HIDE DEF y
  <1>5. CASE st' = v
    <2>1. "CLOSED" \in SessionStates /\ 1 \in 0..1
      BY SMT DEF SessionStates
    <2>2. /\ w \in StateType
          /\ w.d = y.d /\ w.r = y.r /\ w.out = y.out /\ w.ch = y.ch /\ w.est = y.est
          /\ w.loop = y.loop
          /\ w.s.mState = "CLOSED"
          /\ w.s.mReadyToPlay => y.s.mReadyToPlay
          /\ w.s.mDemuxer = y.s.mDemuxer /\ w.s.deleting = y.s.deleting
          /\ w.s.mDemuxerReady = y.s.mDemuxerReady /\ w.s.owed = y.s.owed
      BY <1>3, <2>1, SessionStateOK, ZenonT(60)
    <2> HIDE DEF w
    <2>3. /\ v \in StateType
          /\ v.d = w.d /\ v.r = w.r /\ v.out = w.out /\ v.ch = w.ch /\ v.est = w.est
          /\ v.loop = w.loop
          /\ v.s.mState = w.s.mState /\ v.s.mReadyToPlay = w.s.mReadyToPlay
          /\ v.s.mDemuxer = w.s.mDemuxer /\ v.s.deleting = w.s.deleting
          /\ v.s.mDemuxerReady = w.s.mDemuxerReady /\ v.s.owed = w.s.owed
      BY <2>1, <2>2, Zenon DEF StateType, SessionType
    <2> HIDE DEF v
    <2>4. SameElems(y, v) /\ SameLife(y, v)
      BY <2>2, <2>3, Zenon DEF SameElems, SameLife
    <2>5. Keeps(y, v)
      BY <1>4, <2>2, <2>3, <2>4, SameButSession, Zenon DEF Keeps
    <2>. QED
      BY <1>3, <1>4, <1>5, <2>5, KeepsTransitive, Zenon
  <1>6. ASSUME NEW sent \in BOOLEAN, st' = Stop(y, sent)
        PROVE  Keeps(st, st')
    <2>1. Good(y) /\ DialogueInv(y)
      BY <1>4, Zenon DEF Keeps
    <2>2. CASE y.d.mState = "STARTED"
      <3>1. Keeps(y, Stop(y, sent))
        BY <2>1, <2>2, StopKeeps, Zenon
      <3>. QED
        BY <1>3, <1>4, <1>6, <3>1, KeepsTransitive, Zenon
    <2>3. CASE y.d.mState # "STARTED"
      <3>1. y.d.mState # "STARTING"
        BY <2>1, Zenon DEF DialogueInv, LifeInv
      <3>2. Stop(y, sent) = y
        BY <2>3, <3>1, Zenon DEF Stop
      <3>. QED
        BY <1>4, <1>6, <3>2, Zenon
    <2>. QED
      BY <2>2, <2>3
  <1>. QED
    BY <1>2, <1>4, <1>5, <1>6, Zenon

-----------------------------------------------------------------------------
(* The connection comes and goes.                                          *)

\* The end of a stop, whatever the state of the demuxer is.
LEMMA StoppedAny ==
  ASSUME NEW z \in StateType, z.s.mState # "OPENING"
  PROVE  LET y == Stopped(z) IN
         /\ y \in StateType
         /\ y.d.mState = "STOPPED" /\ y.d.mSeeking = z.d.mSeeking
         /\ y.d.rtsp = z.d.rtsp /\ y.d.mRtspState = z.d.mRtspState
         /\ y.d.mContentBase = z.d.mContentBase /\ y.d.mRtspSessionId = z.d.mRtspSessionId
         /\ y.d.leaked = z.d.leaked /\ y.d.mReceiver = z.d.mReceiver
         /\ y.d.mVideoMedia = z.d.mVideoMedia
         /\ y.d.mCodecInfoChanging = z.d.mCodecInfoChanging
         /\ y.r = z.r /\ y.out = z.out /\ y.est = z.est /\ y.loop = z.loop
         /\ y.s.mState = z.s.mState \/ (z.s.mState = "CLOSING" /\ y.s.mState = "CLOSED")
         /\ y.s.mReadyToPlay => z.s.mReadyToPlay
         /\ y.s.mDemuxer = z.s.mDemuxer
         /\ y.s.mDemuxerReady = z.s.mDemuxerReady /\ y.s.owed = z.s.owed
  <1> DEFINE y == Stopped(z)
             w == [z EXCEPT !.d.mChannelsReadyForStop = FALSE,
                            !.d.mNetworkReadyForStop = FALSE]
  <1>1. z.d \in DemuxerType
    BY ReqsType, Zenon
  <1>2. /\ y \in StateType
        /\ \/ y.d = [z.d EXCEPT !.mState = "STOPPED", !.mChannelsReadyForStop = FALSE,
                                !.mNetworkReadyForStop = FALSE]
           \/ /\ z.d.mState = "STOPPED"
              /\ y.d = [z.d EXCEPT !.mChannelsReadyForStop = FALSE,
                                   !.mNetworkReadyForStop = FALSE]
        /\ y.r = z.r /\ y.out = z.out /\ y.est = z.est /\ y.loop = z.loop
        /\ y.s.mState = z.s.mState \/ (z.s.mState = "CLOSING" /\ y.s.mState = "CLOSED")
        /\ y.s.mReadyToPlay => z.s.mReadyToPlay
        /\ y.s.mDemuxer = z.s.mDemuxer
        /\ y.s.mDemuxerReady = z.s.mDemuxerReady /\ y.s.owed = z.s.owed
    <2>1. CASE z.d.mState # "STOPPED"
      BY <2>1, StoppedOK, Zenon
    <2>2. CASE z.d.mState = "STOPPED"
      <3>1. y = w
        BY <2>2, Zenon DEF Stopped, SetState
      <3>2. /\ w \in StateType
            /\ w.d = [z.d EXCEPT !.mChannelsReadyForStop = FALSE, !.mNetworkReadyForStop = FALSE]
            /\ w.s = z.s /\ w.r = z.r /\ w.out = z.out /\ w.est = z.est /\ w.loop = z.loop
        BY FlagsReset, Zenon
      <3> HIDE DEF y, w
      <3>. QED
        BY <2>2, <3>1, <3>2, Zenon
    <2>. QED
      BY <2>1, <2>2
  <1> HIDE DEF y
  <1>3. /\ y.d.mState = "STOPPED" /\ y.d.mSeeking = z.d.mSeeking
        /\ y.d.rtsp = z.d.rtsp /\ y.d.mRtspState = z.d.mRtspState
        /\ y.d.mContentBase = z.d.mContentBase /\ y.d.mRtspSessionId = z.d.mRtspSessionId
        /\ y.d.leaked = z.d.leaked /\ y.d.mReceiver = z.d.mReceiver
        /\ y.d.mVideoMedia = z.d.mVideoMedia
        /\ y.d.mCodecInfoChanging = z.d.mCodecInfoChanging
    BY <1>1, <1>2, ZenonT(60) DEF DemuxerType
  <1>. QED
    BY <1>2, <1>3, Zenon DEF y

LEMMA DisconnectedSet ==
  ASSUME NEW z \in StateType
  PROVE  LET y == [z EXCEPT !.d.mRtspState = "DISCONNECTED", !.d.mRunning = FALSE,
                            !.d.mNetworkReadyForStop = TRUE]
             d == [z.d EXCEPT !.mRtspState = "DISCONNECTED", !.mRunning = FALSE,
                              !.mNetworkReadyForStop = TRUE] IN
         y \in StateType /\ y.d = d /\ y.s = z.s /\ y.r = z.r /\ SameElems(z, y)
  BY ZenonT(60) DEF StateType, DemuxerType, RtspStates, SameElems

LEMMA ConnectedSet ==
  ASSUME NEW z \in StateType
  PROVE  LET y == [z EXCEPT !.r.conn = "up", !.d.mRtspState = "CONNECTED"]
             d == [z.d EXCEPT !.mRtspState = "CONNECTED"] IN
         /\ y \in StateType /\ y.d = d /\ y.s = z.s /\ SameElems(z, y)
         /\ y.r.conn = "up" /\ y.r.reqs = z.r.reqs /\ y.r.idles = z.r.idles
  BY ZenonT(60) DEF StateType, DemuxerType, ClientType, RtspStates, SameElems

\* onRtspConnectionState(DISCONNECTED), of a connection that is gone
LEMMA OnDisconnectedKeeps ==
  ASSUME Good(st), DialogueInv(st), Free, st.r.conn \in {"up", "closing"},
         StaysConnected => st.r.conn = "closing"
  PROVE  Keeps(st, OnDisconnected([st EXCEPT !.r.conn = "none"]))
  <1> DEFINE x == [st EXCEPT !.r.conn = "none"]
             d == [x.d EXCEPT !.mRtspState = "DISCONNECTED", !.mRunning = FALSE,
                              !.mNetworkReadyForStop = TRUE]
             y == [x EXCEPT !.d.mRtspState = "DISCONNECTED", !.d.mRunning = FALSE,
                            !.d.mNetworkReadyForStop = TRUE]
             w == Stopped(y)
  <1>1. st \in StateType /\ "none" \in {"none", "connecting", "up", "closing"}
    BY Zenon DEF Good
  <1>2. /\ x \in StateType /\ x.d = st.d /\ x.s = st.s /\ SameElems(st, x)
        /\ x.r.conn = "none" /\ x.r.reqs = st.r.reqs /\ x.r.idles = st.r.idles
    BY <1>1, ConnSet, Zenon
  <1> HIDE DEF x
  <1>3. OnDisconnected(x) = IF y.d.mChannelsReadyForStop THEN w ELSE y
    BY Zenon DEF OnDisconnected
  <1>4. x.d \in DemuxerType
    BY <1>2, ReqsType, Zenon
  <1>5. /\ d \in DemuxerType
        /\ d.mState = x.d.mState /\ d.mSeeking = x.d.mSeeking
        /\ d.rtsp = x.d.rtsp /\ d.mRtspState = "DISCONNECTED"
        /\ d.mContentBase = x.d.mContentBase /\ d.mRtspSessionId = x.d.mRtspSessionId
        /\ d.leaked = x.d.leaked /\ d.mReceiver = x.d.mReceiver
        /\ SameInfo(x.d, d)
    BY <1>4, ZenonT(60) DEF DemuxerType, RtspStates, SameInfo
  <1>6. y \in StateType /\ y.d = d /\ y.s = x.s /\ y.r = x.r /\ SameElems(x, y)
    BY <1>2, DisconnectedSet, Zenon
  <1> HIDE DEF d, y
  <1>7. LifeInv(st) /\ TalkInv(st) /\ st.d.mState # "CREATED"
    BY Opened, Zenon DEF DialogueInv
  <1>8. StaysConnected /\ ReadyInv(st) => st.d.mState # "STARTED" /\ ~st.s.mDemuxerReady
    BY Zenon DEF ReadyInv
  <1>9. CASE ~y.d.mChannelsReadyForStop
    <2>1. SameButInfo(st, y) /\ SameLife(st, y)
      BY <1>2, <1>5, <1>6, Zenon DEF SameButInfo, SameLife, SameElems, SameInfo
    <2>2. \A ops : (Waits(y, ops) <=> Waits(st, ops)) /\ (AtMostOne(y, ops) <=> AtMostOne(st, ops))
      BY <1>2, <1>6, Zenon DEF Waits, AtMostOne
    <2>3. TalkInv(y)
      BY <1>2, <1>5, <1>6, <1>7, <2>2, Zenon DEF TalkInv
    <2>4. StaysConnected /\ ReadyInv(st) => ReadyInv(y)
      BY <1>2, <1>5, <1>6, <1>8, Zenon DEF ReadyInv
    <2>5. SocketsInv(st) => SocketsInv(y)
      BY <1>2, <1>5, <1>6, <2>2, Zenon DEF SocketsInv
    <2>6. AsksInv(st) => AsksInv(y)
      BY <1>2, <1>5, <1>6, AsksSame, ZenonT(60)
    <2>7. Keeps(st, y)
      BY <1>6, <2>1, <2>3, <2>4, <2>5, <2>6, TalkKeeps, Zenon
    <2>. QED
      BY <1>3, <1>9, <2>7, Zenon DEF x
  <1>10. CASE y.d.mChannelsReadyForStop
    <2>1. y.s.mState # "OPENING" /\ y.s = st.s /\ y.r = x.r
      BY <1>2, <1>6, <1>7, Zenon DEF LifeInv
    <2>2. /\ w \in StateType
          /\ w.d.mState = "STOPPED" /\ w.d.mSeeking = y.d.mSeeking
          /\ w.d.rtsp = y.d.rtsp /\ w.d.mRtspState = y.d.mRtspState
          /\ w.d.mContentBase = y.d.mContentBase /\ w.d.mRtspSessionId = y.d.mRtspSessionId
          /\ w.d.leaked = y.d.leaked /\ w.d.mReceiver = y.d.mReceiver
          /\ w.d.mVideoMedia = y.d.mVideoMedia
          /\ w.d.mCodecInfoChanging = y.d.mCodecInfoChanging
          /\ w.r = y.r /\ w.out = y.out /\ w.est = y.est /\ w.loop = y.loop
          /\ w.s.mState = y.s.mState \/ (y.s.mState = "CLOSING" /\ w.s.mState = "CLOSED")
          /\ w.s.mReadyToPlay => y.s.mReadyToPlay
          /\ w.s.mDemuxer = y.s.mDemuxer
          /\ w.s.mDemuxerReady = y.s.mDemuxerReady /\ w.s.owed = y.s.owed
      BY <1>6, <2>1, StoppedAny, Zenon
    <2> HIDE DEF w
    <2>3. /\ w.d.mSeeking = st.d.mSeeking /\ w.d.rtsp = st.d.rtsp
          /\ w.d.mRtspState = "DISCONNECTED"
          /\ w.d.mContentBase = st.d.mContentBase /\ w.d.mRtspSessionId = st.d.mRtspSessionId
          /\ w.d.leaked = st.d.leaked /\ w.d.mReceiver = st.d.mReceiver
      BY <1>2, <1>5, <1>6, <2>2, ZenonT(60)
    <2>4. /\ w.d.mVideoMedia = st.d.mVideoMedia
          /\ w.d.mCodecInfoChanging = st.d.mCodecInfoChanging
          /\ st.d.mChannelsReadyForStop
      BY <1>2, <1>5, <1>6, <1>10, <2>2, ZenonT(60) DEF SameInfo
    <2>5. w.out = st.out /\ w.est = st.est /\ w.loop = st.loop /\ st.loop.what = "none"
      BY <1>2, <1>6, <2>2, Zenon DEF SameElems, Free
    <2>6. w.r.conn = "none" /\ w.r.reqs = st.r.reqs /\ w.r.idles = st.r.idles
      BY <1>2, <2>1, <2>2, ZenonT(60)
    <2>7. \A ops : (Waits(w, ops) <=> Waits(st, ops)) /\ (AtMostOne(w, ops) <=> AtMostOne(st, ops))
      BY <2>6, Zenon DEF Waits, AtMostOne
    <2>8. Good(w) /\ Final(st, w)
      BY <2>2, <2>4, <2>5, ZenonT(60) DEF Good, DecoderLeft, Final
    <2>9. LifeInv(w)
      BY <1>7, <2>1, <2>2, <2>5, Zenon DEF LifeInv
    <2>10. TalkInv(w)
      BY <1>7, <2>2, <2>3, <2>6, <2>7, Zenon DEF TalkInv
    <2>11. StaysConnected /\ ReadyInv(st) => ReadyInv(w)
      BY <1>8, <2>1, <2>2, Zenon DEF ReadyInv
    <2>12. SocketsInv(st) => SocketsInv(w)
      BY <2>3, <2>6, <2>7, Zenon DEF SocketsInv
    <2>13. AsksInv(st) => AsksInv(w)
      BY <2>1, <2>2, <2>3, <2>6, AsksSame, ZenonT(60)
    <2>14. StaysConnected /\ ReadyInv(st) /\ ChannelsInv(st) => ChannelsInv(w)
      <3>1. SUFFICES ASSUME StaysConnected, ReadyInv(st), ChannelsInv(st)
                     PROVE  ChannelsInv(w)
        OBVIOUS
      <3>2. st.d.mState \in {"STOPPING", "STOPPED"}
        BY <1>7, <1>8, <3>1, Zenon DEF LifeInv
      <3>3. st.d.mVideoMedia = None
        BY <2>4, <3>1, <3>2, Zenon DEF ChannelsInv
      <3>. QED
        BY <2>4, <2>5, <3>1, <3>3, Zenon DEF ChannelsInv
    <2>15. CodecInfoInv(w)
      BY <2>2, Zenon DEF CodecInfoInv
    <2>16. Keeps(st, w)
      BY <2>8, <2>9, <2>10, <2>11, <2>12, <2>13, <2>14, <2>15, Zenon DEF Keeps, DialogueInv
    <2>. QED
      BY <1>3, <1>10, <2>16, Zenon DEF x, w
  <1>. QED
    BY <1>9, <1>10

LEMMA ConnectedKeeps ==
  ASSUME Good(st), DialogueInv(st), Connected
  PROVE  Keeps(st, st')
  <1> DEFINE d == [st.d EXCEPT !.mRtspState = "CONNECTED"]
             y == [st EXCEPT !.r.conn = "up", !.d.mRtspState = "CONNECTED"]
             q == [op |-> "options", sid |-> y.d.mRtspSessionId]
             w == Send(y, "options")
  <1>1. /\ st \in StateType /\ "options" \in Requests /\ st.r.reqs \in Seq(ReqType)
        /\ st.d \in DemuxerType
    BY ReqsType, Zenon DEF Good, Requests
  <1>2. st.r.conn = "connecting" /\ st.r.reqs = <<>> /\ (st' = w \/ st' = y)
    BY Zenon DEF Connected
  <1>5. /\ d.mState = st.d.mState /\ d.mSeeking = st.d.mSeeking
        /\ d.rtsp = st.d.rtsp /\ d.mRtspState = "CONNECTED"
        /\ d.mContentBase = st.d.mContentBase /\ d.mRtspSessionId = st.d.mRtspSessionId
        /\ d.leaked = st.d.leaked /\ d.mReceiver = st.d.mReceiver /\ d.socks = st.d.socks
        /\ d.mNetworkReadyForStop = st.d.mNetworkReadyForStop
        /\ SameInfo(st.d, d)
    BY <1>1, Zenon DEF DemuxerType, SameInfo
  <1>6. /\ y \in StateType /\ y.d = d /\ y.s = st.s /\ SameElems(st, y)
        /\ y.r.conn = "up" /\ y.r.reqs = st.r.reqs /\ y.r.idles = st.r.idles
    BY <1>1, ConnectedSet, Zenon
  <1> HIDE DEF d, y
  <1>7. /\ w \in StateType /\ w.d = y.d /\ w.s = y.s /\ SameElems(y, w)
        /\ w.r.conn = y.r.conn /\ w.r.reqs = Append(y.r.reqs, q) /\ w.r.idles = y.r.idles
        /\ q \in ReqType /\ q.op = "options" /\ q.sid = y.d.mRtspSessionId
    BY <1>1, <1>6, SendOK, Zenon
  <1> HIDE DEF w, q
  <1>8. LifeInv(st) /\ TalkInv(st) /\ st.d.mState # "CREATED"
    BY <1>2, Opened, Zenon DEF DialogueInv
  <1>9. /\ st.d.rtsp /\ ~st.d.mNetworkReadyForStop /\ st.d.mState # "STOPPED"
        /\ st.d.mRtspState = "DISCONNECTED" /\ ~st.d.mContentBase
    BY <1>2, <1>8, Zenon DEF TalkInv
  <1>10. \A ops : ~Waits(st, ops) /\ AtMostOne(st, ops)
    BY <1>2, SMT DEF Waits, AtMostOne
  <1>11. SameElems(st, y) /\ SameElems(st, w)
    BY <1>6, <1>7, SameElemsTransitive, Zenon
  <1>12. /\ y.d.mState = st.d.mState /\ y.d.mSeeking = st.d.mSeeking
         /\ y.d.rtsp /\ y.d.mRtspState = "CONNECTED" /\ y.d.rtsp = st.d.rtsp
         /\ ~y.d.mContentBase /\ y.d.mRtspSessionId = st.d.mRtspSessionId
         /\ y.d.leaked = st.d.leaked /\ y.d.mReceiver = st.d.mReceiver
         /\ y.d.socks = st.d.socks
         /\ ~y.d.mNetworkReadyForStop /\ SameInfo(st.d, y.d)
    BY <1>5, <1>6, <1>9, Zenon
  <1>13. y.s = st.s /\ y.r.conn = "up" /\ y.r.reqs = st.r.reqs /\ y.r.idles = st.r.idles
    BY <1>6, Zenon
  <1>14. ASSUME NEW v \in StateType, v.d = y.d, v.s = y.s, v.r.conn = "up",
                v.r.idles = st.r.idles, SameElems(st, v),
                v.r.reqs = st.r.reqs \/ v.r.reqs = Append(st.r.reqs, q)
         PROVE  Keeps(st, v)
    <2>1. SameButInfo(st, v) /\ SameLife(st, v)
      BY <1>12, <1>13, <1>14, Zenon DEF SameButInfo, SameLife, SameElems, SameInfo
    <2>2. /\ ~Waits(v, {"setup"}) /\ ~Waits(v, {"teardown"})
          /\ AtMostOne(v, {"options", "describe", "setup"})
      <3>1. CASE v.r.reqs = st.r.reqs
        BY <1>10, <3>1, Zenon DEF Waits, AtMostOne
      <3>2. CASE v.r.reqs = Append(st.r.reqs, q)
        <4>1. ASSUME NEW ops
              PROVE  /\ Waits(v, ops) <=> Waits(st, ops) \/ q.op \in ops
                     /\ AtMostOne(st, ops) /\ (q.op \in ops => ~Waits(st, ops)) =>
                           AtMostOne(v, ops)
          BY <1>1, <1>7, <3>2, RequestSent, Zenon
        <4>2. q.op \notin {"setup"} /\ q.op \notin {"teardown"}
          BY <1>7, Zenon
        <4>. QED
          BY <1>10, <4>1, <4>2, Zenon
      <3>. QED
        BY <1>14, <3>1, <3>2
    <2>3. TalkInv(v)
      BY <1>8, <1>9, <1>12, <1>14, <2>2, Zenon DEF TalkInv
    <2>4. ReadyInv(st) => ReadyInv(v)
      BY <1>9, <1>12, <1>13, <1>14, Zenon DEF ReadyInv
    <2>5. SocketsInv(st) => SocketsInv(v)
      BY <1>2, <1>9, <1>10, <1>12, <1>14, <2>2, Zenon DEF SocketsInv
    <2>6. AsksInv(st) => AsksInv(v)
      <3>1. CASE v.r.reqs = st.r.reqs
        BY <1>12, <1>13, <1>14, <3>1, AsksSame, Zenon
      <3>2. CASE v.r.reqs = Append(st.r.reqs, q)
        <4>1. q.op \notin Asks
          BY <1>7, Zenon DEF Asks
        <4>. QED
          BY <1>1, <1>7, <1>12, <1>13, <1>14, <3>2, <4>1, AsksSent, ZenonT(60)
      <3>. QED
        BY <1>14, <3>1, <3>2
    <2>. QED
      BY <2>1, <2>3, <2>4, <2>5, <2>6, TalkKeeps, Zenon
  <1>15. Keeps(st, y)
    BY <1>6, <1>11, <1>13, <1>14, Zenon
  <1>16. Keeps(st, w)
    BY <1>7, <1>11, <1>13, <1>14, Zenon
  <1>. QED
    BY <1>2, <1>15, <1>16, Zenon

LEMMA ConnectionKeeps ==
  ASSUME Orderly, Good(st), DialogueInv(st), Connected \/ Disconnected \/ ConnectionLost
  PROVE  Keeps(st, st')
  <1>1. CASE Disconnected
    <2>1. Free /\ st.r.conn = "closing" /\ st' = OnDisconnected([st EXCEPT !.r.conn = "none"])
      BY <1>1, Zenon DEF Disconnected
    <2>. QED
      BY <2>1, OnDisconnectedKeeps, Zenon
  <1>2. CASE ConnectionLost
    <2>1. /\ Free /\ st.r.conn = "up" /\ ~StaysConnected
          /\ st' = OnDisconnected([st EXCEPT !.r.conn = "none"])
      BY <1>2, Zenon DEF ConnectionLost, StaysConnected, Orderly
    <2>. QED
      BY <2>1, OnDisconnectedKeeps, Zenon
  <1>. QED
    BY <1>1, <1>2, ConnectedKeeps, Zenon

-----------------------------------------------------------------------------
(* An answer takes the oldest request.                                     *)

LEMMA AnsweredKeeps ==
  ASSUME Good(st), DialogueInv(st), st.r.reqs # <<>>, NEW y \in StateType,
         SameTalk(st.d, y.d), SameButInfo(st, y), SameButOwed(st, y),
         y.r.conn = st.r.conn, y.r.idles = st.r.idles, y.r.reqs = Tail(st.r.reqs),
         SetupWorks /\ Head(st.r.reqs).op = "setup" => st.r.conn # "up",
         OneAtATime /\ ReadyInv(st) /\ AsksInv(st) => AsksInv(y)
  PROVE  Keeps(st, y)
  <1>1. st \in StateType /\ st.r.reqs \in Seq(ReqType)
    BY ReqsType, Zenon DEF Good
  <1>2. /\ \A ops : Waits(y, ops) => Waits(st, ops)
        /\ Waits(st, {"setup"}) => Waits(y, {"setup"}) \/ Head(st.r.reqs).op = "setup"
        /\ AtMostOne(st, {"options", "describe", "setup"}) =>
              AtMostOne(y, {"options", "describe", "setup"})
    <2>1. ASSUME NEW ops
          PROVE  /\ Waits(st, ops) <=> Waits(y, ops) \/ Head(st.r.reqs).op \in ops
                 /\ AtMostOne(st, ops) => AtMostOne(y, ops)
      BY <1>1, RequestAnswered, Zenon
    <2>. QED
      BY <2>1, Zenon
  <1>3. LifeInv(st) /\ TalkInv(st) /\ st.d.mState # "CREATED" /\ st.r.conn # "connecting"
    BY Opened, Zenon DEF DialogueInv, TalkInv
  <1>4. y.d.mState = st.d.mState /\ SameLife(st, y)
    BY Zenon DEF SameButInfo, SameButOwed
  <1>5. TalkInv(y)
    BY <1>2, <1>3, <1>4, Zenon DEF TalkInv, SameTalk
  <1>6. ReadyInv(st) => ReadyInv(y)
    BY <1>4, Zenon DEF ReadyInv, SameTalk, SameButOwed
  <1>7. SetupWorks /\ SocketsInv(st) => SocketsInv(y)
    BY <1>2, <1>3, <1>4, Zenon DEF SocketsInv, SameTalk
  <1>. QED
    BY <1>4, <1>5, <1>6, <1>7, TalkKeeps, Zenon

LEMMA RestOK ==
  ASSUME Good(st), st.r.reqs # <<>>
  PROVE  /\ Rest \in StateType /\ Rest.d = st.d /\ Rest.s = st.s /\ SameElems(st, Rest)
         /\ Rest.r.conn = st.r.conn /\ Rest.r.idles = st.r.idles
         /\ Rest.r.reqs = Tail(st.r.reqs) /\ Rest.r.reqs \in Seq(ReqType)
  <1> DEFINE s == st.r.reqs
             t == Tail(s)
  <1>1. st \in StateType /\ s \in Seq(ReqType)
    BY ReqsType, Zenon DEF Good
  <1>2. s # <<>>
    OBVIOUS
  <1>3. Rest = [st EXCEPT !.r.reqs = t]
    BY Zenon DEF Rest
  <1> HIDE DEF s
  <1>4. t \in Seq(ReqType)
    BY <1>1, <1>2, SMT
  <1> HIDE DEF t
  <1>5. LET y == [st EXCEPT !.r.reqs = t] IN
         /\ y \in StateType /\ y.d = st.d /\ y.s = st.s /\ SameElems(st, y)
         /\ y.r.conn = st.r.conn /\ y.r.reqs = t /\ y.r.idles = st.r.idles
    BY <1>1, <1>4, ReqsSet, Zenon
  <1>. QED
    BY <1>3, <1>4, <1>5, Zenon DEF s, t

\* ... of the setup or the teardown
LEMMA RestKeeps ==
  ASSUME Good(st), DialogueInv(st), st.r.reqs # <<>>, Head(st.r.reqs).op \notin Asks,
         SetupWorks /\ Head(st.r.reqs).op = "setup" => st.r.conn # "up"
  PROVE  Keeps(st, Rest)
  <1>1. /\ Rest \in StateType /\ Rest.d = st.d /\ Rest.s = st.s /\ SameElems(st, Rest)
        /\ Rest.r.conn = st.r.conn /\ Rest.r.idles = st.r.idles
        /\ Rest.r.reqs = Tail(st.r.reqs) /\ st.r.reqs \in Seq(ReqType)
    BY RestOK, ReqsType, Zenon DEF Good
  <1>2. SameTalk(st.d, Rest.d) /\ SameButInfo(st, Rest) /\ SameButOwed(st, Rest)
    BY <1>1, Zenon DEF SameTalk, SameButInfo, SameButOwed, SameLife, SameElems
  <1>3. AsksInv(st) => AsksInv(Rest)
    BY <1>1, AsksAnswered, Zenon
  <1>. QED
    BY <1>1, <1>2, <1>3, AnsweredKeeps, Zenon

\* Once one of the requests that set a stream up is answered, none is under way.
Steps == {"options", "describe", "setup"}
LEMMA NoneLeft ==
  ASSUME Good(st), DialogueInv(st), st.r.reqs # <<>>, Head(st.r.reqs).op \in Steps
  PROVE  /\ \A ops \in SUBSET Steps : ~Waits(Rest, ops)
         /\ Waits(st, Steps) /\ Waits(st, {Head(st.r.reqs).op})
         /\ st.d.mRtspState # "SETUP_DONE"
         /\ Head(st.r.reqs).op # "setup" => ~st.d.mContentBase
         /\ \A ops : Waits(Rest, ops) => Waits(st, ops)
  <1>1. Rest.r.reqs = Tail(st.r.reqs) /\ st.r.reqs \in Seq(ReqType)
    BY RestOK, ReqsType, Zenon DEF Good
  <1>2. ASSUME NEW ops
        PROVE  /\ Waits(st, ops) <=> Waits(Rest, ops) \/ Head(st.r.reqs).op \in ops
               /\ AtMostOne(st, ops) /\ Head(st.r.reqs).op \in ops => ~Waits(Rest, ops)
    BY <1>1, RequestAnswered, Zenon
  <1>3. AtMostOne(st, Steps)
    BY Zenon DEF DialogueInv, TalkInv, Steps
  <1>4. ~Waits(Rest, Steps)
    BY <1>2, <1>3, Zenon
  <1>5. \A ops \in SUBSET Steps : ~Waits(Rest, ops)
    BY <1>4, Zenon DEF Waits
  <1>6. Waits(st, Steps) /\ Waits(st, {Head(st.r.reqs).op})
    BY <1>2, Zenon
  <1>7. st.d.mRtspState # "SETUP_DONE"
    BY <1>6, Zenon DEF DialogueInv, TalkInv, Steps
  <1>8. Head(st.r.reqs).op # "setup" => Waits(st, {"options", "describe"})
    BY <1>2, Zenon DEF Steps
  <1>9. Head(st.r.reqs).op # "setup" => ~st.d.mContentBase
    BY <1>8, Zenon DEF DialogueInv, TalkInv
  <1>. QED
    BY <1>2, <1>5, <1>6, <1>7, <1>9, Zenon

\* What an answer that is well means when nothing arrives late.
LEMMA AnsweredOK ==
  ASSUME Good(st), DialogueInv(st), NEW op, NEW ok \in BOOLEAN, Answered(op, ok)
  PROVE  /\ Free /\ st.r.reqs # <<>> /\ Head(st.r.reqs).op = op /\ st.s.mDemuxer
         /\ st.d.mState # "CREATED" /\ st.r.conn # "connecting"
         /\ Orderly /\ ok =>
                 /\ st.r.conn = "up" /\ st.d.rtsp /\ ~st.d.mNetworkReadyForStop
                 /\ st.d.mState # "STOPPED"
         /\ SetupWorks /\ op = "setup" /\ ~ok => st.r.conn # "up"
  <1>1. Free /\ st.r.reqs # <<>> /\ Head(st.r.reqs).op = op /\ st.s.mDemuxer
    BY Zenon DEF Answered
  <1>2. st.d.mState # "CREATED" /\ st.r.conn # "connecting"
    BY <1>1, Opened, Zenon DEF DialogueInv, TalkInv
  <1>3. Orderly /\ ok => st.r.conn = "up"
    BY Zenon DEF Answered, Orderly
  <1>4. st.r.conn = "up" =>
           st.d.rtsp /\ ~st.d.mNetworkReadyForStop /\ st.d.mState # "STOPPED"
    BY Zenon DEF DialogueInv, TalkInv
  <1>5. SetupWorks /\ op = "setup" /\ ~ok => st.r.conn # "up"
    BY Zenon DEF Answered, MayRefuse, SetupWorks
  <1>. QED
    BY <1>1, <1>2, <1>3, <1>4, <1>5, Zenon

\* A step of the dialogue that is refused, or not answered.
LEMMA RefusedKeeps ==
  ASSUME Good(st), DialogueInv(st), NEW op \in Steps, Answered(op, FALSE)
  PROVE  Keeps(st, StopLater(Rest))
  <1>1. /\ st.r.reqs # <<>> /\ Head(st.r.reqs).op = op /\ st.d.mState # "CREATED"
        /\ SetupWorks /\ op = "setup" => st.r.conn # "up"
    BY AnsweredOK, Zenon
  <1>2. op \notin Asks
    BY Zenon DEF Steps, Asks
  <1>3. Keeps(st, Rest)
    BY <1>1, <1>2, RestKeeps, Zenon
  <1>4. Rest.d = st.d
    BY <1>1, RestOK, Zenon
  <1>5. Keeps(Rest, StopLater(Rest))
    BY <1>1, <1>3, <1>4, StopLaterKeeps, Zenon DEF Keeps
  <1>. QED
    BY <1>3, <1>4, <1>5, KeepsTransitive, Zenon

LEMMA RtspStateSet ==
  ASSUME NEW z \in StateType, NEW s \in RtspStates
  PROVE  LET y == [z EXCEPT !.d.mRtspState = s] IN
         /\ y \in StateType /\ y.s = z.s /\ y.r = z.r /\ SameElems(z, y)
         /\ y.d = [z.d EXCEPT !.mRtspState = s]
         /\ y.d.mState = z.d.mState /\ y.d.mSeeking = z.d.mSeeking
         /\ y.d.rtsp = z.d.rtsp /\ y.d.mRtspState = s
         /\ y.d.mContentBase = z.d.mContentBase /\ y.d.mRtspSessionId = z.d.mRtspSessionId
         /\ y.d.leaked = z.d.leaked /\ y.d.mReceiver = z.d.mReceiver /\ y.d.socks = z.d.socks
         /\ y.d.mNetworkReadyForStop = z.d.mNetworkReadyForStop
         /\ SameInfo(z.d, y.d)
  <1> DEFINE d == [z.d EXCEPT !.mRtspState = s]
             y == [z EXCEPT !.d.mRtspState = s]
  <1>1. z.d \in DemuxerType
    BY ReqsType, Zenon
  <1>2. d \in DemuxerType
    BY <1>1, Zenon DEF DemuxerType
  <1>3. /\ d.mState = z.d.mState /\ d.mSeeking = z.d.mSeeking
        /\ d.rtsp = z.d.rtsp /\ d.mRtspState = s
        /\ d.mContentBase = z.d.mContentBase /\ d.mRtspSessionId = z.d.mRtspSessionId
        /\ d.leaked = z.d.leaked /\ d.mReceiver = z.d.mReceiver /\ d.socks = z.d.socks
        /\ d.mNetworkReadyForStop = z.d.mNetworkReadyForStop
        /\ SameInfo(z.d, d)
    BY <1>1, Zenon DEF DemuxerType, SameInfo
  <1>4. y = [z EXCEPT !.d = d]
    BY Zenon
  <1> HIDE DEF d
  <1>5. LET w == [z EXCEPT !.d = d] IN
         w \in StateType /\ w.d = d /\ w.s = z.s /\ w.r = z.r /\ SameElems(z, w)
    BY <1>2, DemuxerSet, Zenon
  <1> HIDE DEF y
  <1>6. y \in StateType /\ y.d = d /\ y.s = z.s /\ y.r = z.r /\ SameElems(z, y)
    BY <1>4, <1>5, Zenon
  <1>. QED
    BY <1>3, <1>6, Zenon DEF y, d

\* onRtspOptionsResp()
LEMMA OptionsKeep ==
  ASSUME Orderly, Good(st), DialogueInv(st), OnRtspOptionsResp
  PROVE  Keeps(st, st')
  <1> DEFINE y == [Rest EXCEPT !.d.mRtspState = "OPTIONS_DONE"]
             q == [op |-> "describe", sid |-> y.d.mRtspSessionId]
             w == Send(y, "describe")
  <1>1. PICK ok \in BOOLEAN, sent \in Sent :
           /\ Answered("options", ok)
           /\ st' = IF ~ok THEN StopLater(Rest) ELSE IF sent THEN w ELSE y
    BY Zenon DEF OnRtspOptionsResp
  <1>2. CASE ~ok
    BY <1>1, <1>2, RefusedKeeps, Zenon DEF Steps
  <1>3. CASE ok
    <2>1. /\ st.r.reqs # <<>> /\ Head(st.r.reqs).op = "options"
          /\ st.r.conn = "up" /\ st.d.rtsp /\ ~st.d.mNetworkReadyForStop
          /\ st.d.mState \notin {"CREATED", "STOPPED"}
      BY <1>1, <1>3, AnsweredOK, Zenon
    <2>2. /\ Rest \in StateType /\ Rest.d = st.d /\ Rest.s = st.s /\ SameElems(st, Rest)
          /\ Rest.r.conn = st.r.conn /\ Rest.r.idles = st.r.idles
          /\ Rest.r.reqs = Tail(st.r.reqs) /\ Rest.r.reqs \in Seq(ReqType)
      BY <2>1, RestOK, Zenon
    <2>3. Keeps(st, Rest)
      BY <2>1, RestKeeps, Zenon DEF Asks
    <2>4. /\ ~Waits(Rest, {"options", "describe", "setup"}) /\ ~Waits(Rest, {"setup"})
          /\ ~st.d.mContentBase /\ st.d.mRtspState # "SETUP_DONE"
      BY <2>1, NoneLeft, Zenon DEF Steps
    <2>5. /\ y \in StateType /\ y.s = Rest.s /\ y.r = Rest.r /\ SameElems(Rest, y)
          /\ y.d.mState = Rest.d.mState /\ y.d.mSeeking = Rest.d.mSeeking
          /\ y.d.rtsp = Rest.d.rtsp /\ y.d.mRtspState = "OPTIONS_DONE"
          /\ y.d.mContentBase = Rest.d.mContentBase
          /\ y.d.mRtspSessionId = Rest.d.mRtspSessionId
          /\ y.d.leaked = Rest.d.leaked /\ y.d.mReceiver = Rest.d.mReceiver
          /\ y.d.socks = Rest.d.socks
          /\ y.d.mNetworkReadyForStop = Rest.d.mNetworkReadyForStop
          /\ SameInfo(Rest.d, y.d)
      <3>1. "OPTIONS_DONE" \in RtspStates
        BY Zenon DEF RtspStates
      <3>. QED
        BY <2>2, <3>1, RtspStateSet, ZenonT(60)
    <2> HIDE DEF y
    <2>6. /\ w \in StateType /\ w.d = y.d /\ w.s = y.s /\ SameElems(y, w)
          /\ w.r.conn = y.r.conn /\ w.r.reqs = Append(y.r.reqs, q) /\ w.r.idles = y.r.idles
          /\ q \in ReqType /\ q.op = "describe"
      <3>1. "describe" \in Requests
        BY Zenon DEF Requests
      <3>. QED
        BY <2>5, <3>1, SendOK, Zenon
    <2> HIDE DEF w, q
    <2>7. Good(Rest) /\ DialogueInv(Rest) /\ TalkInv(Rest)
      BY <2>3, Zenon DEF Keeps, DialogueInv
    <2>8. ASSUME NEW v \in StateType, v.d = y.d, v.s = Rest.s, SameElems(Rest, v),
                 v.r.conn = Rest.r.conn, v.r.idles = Rest.r.idles,
                 v.r.reqs = Rest.r.reqs \/ v.r.reqs = Append(Rest.r.reqs, q)
          PROVE  Keeps(Rest, v)
      <3>1. SameButInfo(Rest, v) /\ SameLife(Rest, v)
        BY <2>5, <2>8, Zenon DEF SameButInfo, SameLife, SameElems, SameInfo
      <3>2. /\ Waits(v, {"setup"}) <=> Waits(Rest, {"setup"})
            /\ Waits(v, {"teardown"}) <=> Waits(Rest, {"teardown"})
            /\ AtMostOne(v, {"options", "describe", "setup"})
        <4>0. AtMostOne(Rest, {"options", "describe", "setup"})
          BY <2>7, Zenon DEF TalkInv
        <4>1. CASE v.r.reqs = Rest.r.reqs
          BY <4>0, <4>1, Zenon DEF Waits, AtMostOne
        <4>2. CASE v.r.reqs = Append(Rest.r.reqs, q)
          <5>1. ASSUME NEW ops
                PROVE  /\ Waits(v, ops) <=> Waits(Rest, ops) \/ q.op \in ops
                       /\ AtMostOne(Rest, ops) /\ (q.op \in ops => ~Waits(Rest, ops)) =>
                             AtMostOne(v, ops)
            BY <2>2, <2>6, <4>2, RequestSent, Zenon
          <5>2. q.op \notin {"setup"} /\ q.op \notin {"teardown"}
            BY <2>6, Zenon
          <5>. QED
            BY <2>4, <4>0, <5>1, <5>2, Zenon
        <4>. QED
          BY <2>8, <4>1, <4>2
      <3>3. TalkInv(v)
        BY <2>1, <2>2, <2>4, <2>5, <2>7, <2>8, <3>2, ZenonT(60) DEF TalkInv
      <3>4. ReadyInv(Rest) => ReadyInv(v)
        BY <2>1, <2>2, <2>4, <2>5, <2>8, Zenon DEF ReadyInv
      <3>5. SocketsInv(Rest) => SocketsInv(v)
        BY <2>2, <2>4, <2>5, <2>8, <3>2, Zenon DEF SocketsInv
      <3>6. AsksInv(Rest) => AsksInv(v)
        <4>1. CASE v.r.reqs = Rest.r.reqs
          BY <2>5, <2>8, <4>1, AsksSame, Zenon
        <4>2. CASE v.r.reqs = Append(Rest.r.reqs, q)
          <5>1. q.op \notin Asks
            BY <2>6, Zenon DEF Asks
          <5>. QED
            BY <2>2, <2>5, <2>6, <2>8, <4>2, <5>1, AsksSent, ZenonT(60)
        <4>. QED
          BY <2>8, <4>1, <4>2
      <3>. QED
        BY <2>7, <3>1, <3>3, <3>4, <3>5, <3>6, TalkKeeps, Zenon
    <2>9. Keeps(Rest, y)
      BY <2>5, <2>8, Zenon
    <2>10. Keeps(Rest, w)
      <3>1. SameElems(Rest, w) /\ w.s = Rest.s
        BY <2>5, <2>6, SameElemsTransitive, Zenon
      <3>. QED
        BY <2>5, <2>6, <2>8, <3>1, Zenon
    <2>. QED
      BY <1>1, <1>3, <2>2, <2>3, <2>9, <2>10, KeepsTransitive, Zenon
  <1>. QED
    BY <1>2, <1>3

-----------------------------------------------------------------------------
(* onNewSdp(): a description that comes with an answer, or is announced.   *)

LEMMA ContentBaseSet ==
  ASSUME NEW z \in StateType, NEW b \in BOOLEAN
  PROVE  LET y == [z EXCEPT !.d.mContentBase = b] IN
         /\ y \in StateType /\ y.s = z.s /\ y.r = z.r /\ SameElems(z, y)
         /\ y.d.mState = z.d.mState /\ y.d.mSeeking = z.d.mSeeking
         /\ y.d.rtsp = z.d.rtsp /\ y.d.mRtspState = z.d.mRtspState
         /\ y.d.mContentBase = b /\ y.d.mRtspSessionId = z.d.mRtspSessionId
         /\ y.d.leaked = z.d.leaked /\ y.d.mReceiver = z.d.mReceiver /\ y.d.socks = z.d.socks
         /\ y.d.mNetworkReadyForStop = z.d.mNetworkReadyForStop
         /\ SameInfo(z.d, y.d)
  <1> DEFINE d == [z.d EXCEPT !.mContentBase = b]
             y == [z EXCEPT !.d.mContentBase = b]
  <1>1. z.d \in DemuxerType
    BY ReqsType, Zenon
  <1>2. d \in DemuxerType
    BY <1>1, Zenon DEF DemuxerType
  <1>3. /\ d.mState = z.d.mState /\ d.mSeeking = z.d.mSeeking
        /\ d.rtsp = z.d.rtsp /\ d.mRtspState = z.d.mRtspState
        /\ d.mContentBase = b /\ d.mRtspSessionId = z.d.mRtspSessionId
        /\ d.leaked = z.d.leaked /\ d.mReceiver = z.d.mReceiver /\ d.socks = z.d.socks
        /\ d.mNetworkReadyForStop = z.d.mNetworkReadyForStop
        /\ SameInfo(z.d, d)
    BY <1>1, Zenon DEF DemuxerType, SameInfo
  <1>4. y = [z EXCEPT !.d = d]
    BY Zenon
  <1> HIDE DEF d
  <1>5. LET w == [z EXCEPT !.d = d] IN
         w \in StateType /\ w.d = d /\ w.s = z.s /\ w.r = z.r /\ SameElems(z, w)
    BY <1>2, DemuxerSet, Zenon
  <1> HIDE DEF y
  <1>6. y \in StateType /\ y.d = d /\ y.s = z.s /\ y.r = z.r /\ SameElems(z, y)
    BY <1>4, <1>5, Zenon
  <1>. QED
    BY <1>3, <1>6, Zenon DEF y

\* The client knows the description it is to set up.
LEMMA ContentBaseKeeps ==
  ASSUME NEW z, Good(z), DialogueInv(z), z.d.mState = "STARTED", z.r.conn = "up",
         ~Waits(z, {"options", "describe"})
  PROVE  Keeps(z, [z EXCEPT !.d.mContentBase = TRUE])
  <1> DEFINE y == [z EXCEPT !.d.mContentBase = TRUE]
  <1>1. /\ y \in StateType /\ y.s = z.s /\ y.r = z.r /\ SameElems(z, y)
        /\ y.d.mState = z.d.mState /\ y.d.mSeeking = z.d.mSeeking
        /\ y.d.rtsp = z.d.rtsp /\ y.d.mRtspState = z.d.mRtspState
        /\ y.d.mContentBase = TRUE /\ y.d.mRtspSessionId = z.d.mRtspSessionId
        /\ y.d.leaked = z.d.leaked /\ y.d.mReceiver = z.d.mReceiver /\ y.d.socks = z.d.socks
        /\ y.d.mNetworkReadyForStop = z.d.mNetworkReadyForStop
        /\ SameInfo(z.d, y.d)
    BY ContentBaseSet, Zenon DEF Good
  <1> HIDE DEF y
  <1>2. SameButInfo(z, y) /\ SameLife(z, y)
    BY <1>1, Zenon DEF SameButInfo, SameLife, SameElems, SameInfo
  <1>3. \A ops : (Waits(y, ops) <=> Waits(z, ops)) /\ (AtMostOne(z, ops) => AtMostOne(y, ops))
    BY <1>1, Zenon DEF Waits, AtMostOne
  <1>4. TalkInv(y)
    BY <1>1, <1>3, Zenon DEF DialogueInv, TalkInv
  <1>5. ReadyInv(z) => ReadyInv(y)
    BY <1>1, Zenon DEF ReadyInv
  <1>6. SocketsInv(z) => SocketsInv(y)
    BY <1>1, <1>3, Zenon DEF SocketsInv
  <1>7. AsksInv(z) => AsksInv(y)
    BY <1>1, AsksSame, Zenon
  <1>8. Keeps(z, y)
    BY <1>1, <1>2, <1>4, <1>5, <1>6, <1>7, TalkKeeps, Zenon
  <1>. QED
    BY <1>8, Zenon DEF y

\* There is nothing to set up, and what was set up is given up.
LEMMA NoMediaOK ==
  ASSUME NEW z \in StateType, z.d.mState = "STARTED"
  PROVE  LET y == NoMedia(z) IN
         /\ y \in StateType /\ y.r = z.r /\ SameElems(z, y)
         /\ SameLife(z, y) /\ ~y.s.mReadyToPlay /\ ~y.s.mDemuxerReady /\ y.s.owed = z.s.owed
         /\ y.d.mState = z.d.mState /\ y.d.mSeeking = z.d.mSeeking
         /\ y.d.rtsp = z.d.rtsp /\ y.d.mRtspState = "OPTIONS_DONE"
         /\ y.d.mContentBase = z.d.mContentBase /\ y.d.mRtspSessionId = z.d.mRtspSessionId
         /\ y.d.leaked = z.d.leaked
         /\ y.d.mNetworkReadyForStop = z.d.mNetworkReadyForStop
         /\ SameInfo(z.d, y.d)
         /\ IF z.d.mRtspState = "SETUP_DONE" THEN ~y.d.mReceiver /\ ~y.d.socks
            ELSE y.d.mReceiver = z.d.mReceiver /\ y.d.socks = z.d.socks
  <1> DEFINE x == OnReadyToPlay(z, FALSE)
             w == IF z.d.mRtspState = "SETUP_DONE" THEN StopRtpAvp(x) ELSE x
             y == [w EXCEPT !.d.mRtspState = "OPTIONS_DONE"]
  <1>1. NoMedia(z) = y
    BY Zenon DEF NoMedia, SetState
  <1>2. /\ x \in StateType /\ x.d = z.d /\ x.r = z.r /\ SameElems(z, x)
        /\ ~x.s.mDemuxerReady /\ ~x.s.mReadyToPlay
        /\ x.s.mState = z.s.mState /\ x.s.mDemuxer = z.s.mDemuxer
        /\ x.s.deleting = z.s.deleting /\ x.s.owed = z.s.owed
    BY OnReadyToPlayOK, Zenon
  <1> HIDE DEF x
  <1>3. /\ w \in StateType /\ w.s = x.s /\ w.r = x.r /\ SameElems(x, w)
        /\ IF z.d.mRtspState = "SETUP_DONE"
           THEN w.d = [x.d EXCEPT !.mReceiver = FALSE, !.socks = FALSE] ELSE w.d = x.d
    <2>1. CASE z.d.mRtspState = "SETUP_DONE"
      BY <1>2, <2>1, StopRtpAvpOK, Zenon
    <2>2. CASE z.d.mRtspState # "SETUP_DONE"
      BY <1>2, <2>2, Zenon DEF SameElems
    <2>. QED
      BY <2>1, <2>2
  <1> HIDE DEF w
  <1>4. z.d \in DemuxerType
    BY ReqsType, Zenon
  <1>5. /\ w.d.mState = z.d.mState /\ w.d.mSeeking = z.d.mSeeking
        /\ w.d.rtsp = z.d.rtsp
        /\ w.d.mContentBase = z.d.mContentBase /\ w.d.mRtspSessionId = z.d.mRtspSessionId
        /\ w.d.leaked = z.d.leaked
        /\ w.d.mNetworkReadyForStop = z.d.mNetworkReadyForStop
        /\ SameInfo(z.d, w.d)
        /\ IF z.d.mRtspState = "SETUP_DONE" THEN ~w.d.mReceiver /\ ~w.d.socks
           ELSE w.d.mReceiver = z.d.mReceiver /\ w.d.socks = z.d.socks
    <2>1. CASE z.d.mRtspState = "SETUP_DONE"
      <3>1. w.d = [z.d EXCEPT !.mReceiver = FALSE, !.socks = FALSE]
        BY <1>2, <1>3, <2>1, Zenon
      <3>. QED
        BY <1>4, <2>1, <3>1, ZenonT(60) DEF DemuxerType, SameInfo
    <2>2. CASE z.d.mRtspState # "SETUP_DONE"
      <3>1. w.d = z.d
        BY <1>2, <1>3, <2>2, Zenon
      <3>. QED
        BY <2>2, <3>1, Zenon DEF SameInfo
    <2>. QED
      BY <2>1, <2>2
  <1>6. /\ y \in StateType /\ y.s = w.s /\ y.r = w.r /\ SameElems(w, y)
        /\ y.d.mState = w.d.mState /\ y.d.mSeeking = w.d.mSeeking
        /\ y.d.rtsp = w.d.rtsp /\ y.d.mRtspState = "OPTIONS_DONE"
        /\ y.d.mContentBase = w.d.mContentBase /\ y.d.mRtspSessionId = w.d.mRtspSessionId
        /\ y.d.leaked = w.d.leaked /\ y.d.mReceiver = w.d.mReceiver /\ y.d.socks = w.d.socks
        /\ y.d.mNetworkReadyForStop = w.d.mNetworkReadyForStop
        /\ SameInfo(w.d, y.d)
    <2>1. "OPTIONS_DONE" \in RtspStates
      BY Zenon DEF RtspStates
    <2>. QED
      BY <1>3, <2>1, RtspStateSet, ZenonT(60)
  <1> HIDE DEF y
  <1>7. SameElems(z, y)
    BY <1>2, <1>3, <1>6, SameElemsTransitive, Zenon
  <1>8. SameLife(z, y) /\ ~y.s.mReadyToPlay /\ ~y.s.mDemuxerReady /\ y.s.owed = z.s.owed
    <2>1. y.s = x.s
      BY <1>3, <1>6, Zenon
    <2>. QED
      BY <1>2, <2>1, Zenon DEF SameLife
  <1>9. y.r = z.r
    BY <1>2, <1>3, <1>6, Zenon
  <1>10. SameInfo(z.d, y.d)
    BY <1>5, <1>6, Zenon DEF SameInfo
  <1>11. /\ y.d.mState = z.d.mState /\ y.d.mSeeking = z.d.mSeeking
         /\ y.d.rtsp = z.d.rtsp /\ y.d.mRtspState = "OPTIONS_DONE"
         /\ y.d.mContentBase = z.d.mContentBase /\ y.d.mRtspSessionId = z.d.mRtspSessionId
         /\ y.d.leaked = z.d.leaked
         /\ y.d.mNetworkReadyForStop = z.d.mNetworkReadyForStop
    BY <1>5, <1>6, Zenon
  <1>12. IF z.d.mRtspState = "SETUP_DONE" THEN ~y.d.mReceiver /\ ~y.d.socks
         ELSE y.d.mReceiver = z.d.mReceiver /\ y.d.socks = z.d.socks
    BY <1>5, <1>6, Zenon
  <1>. QED
    BY <1>1, <1>6, <1>7, <1>8, <1>9, <1>10, <1>11, <1>12, Zenon

LEMMA NoMediaKeeps ==
  ASSUME NEW z, Good(z), DialogueInv(z), z.d.mState = "STARTED", z.r.conn = "up"
  PROVE  Keeps(z, NoMedia(z))
  <1> DEFINE y == NoMedia(z)
  <1>1. /\ y \in StateType /\ y.r = z.r /\ SameElems(z, y)
        /\ SameLife(z, y) /\ ~y.s.mReadyToPlay /\ ~y.s.mDemuxerReady /\ y.s.owed = z.s.owed
        /\ y.d.mState = z.d.mState /\ y.d.mSeeking = z.d.mSeeking
        /\ y.d.rtsp = z.d.rtsp /\ y.d.mRtspState = "OPTIONS_DONE"
        /\ y.d.mContentBase = z.d.mContentBase /\ y.d.mRtspSessionId = z.d.mRtspSessionId
        /\ y.d.leaked = z.d.leaked
        /\ y.d.mNetworkReadyForStop = z.d.mNetworkReadyForStop
        /\ SameInfo(z.d, y.d)
        /\ IF z.d.mRtspState = "SETUP_DONE" THEN ~y.d.mReceiver /\ ~y.d.socks
           ELSE y.d.mReceiver = z.d.mReceiver /\ y.d.socks = z.d.socks
    BY NoMediaOK, Zenon DEF Good
  <1> HIDE DEF y
  <1>2. SameButInfo(z, y)
    BY <1>1, Zenon DEF SameButInfo, SameElems, SameInfo
  <1>3. \A ops : (Waits(y, ops) <=> Waits(z, ops)) /\ (AtMostOne(z, ops) => AtMostOne(y, ops))
    BY <1>1, Zenon DEF Waits, AtMostOne
  <1>4. TalkInv(y)
    BY <1>1, <1>3, Zenon DEF DialogueInv, TalkInv
  <1>5. ReadyInv(z) => ReadyInv(y)
    BY <1>1, Zenon DEF ReadyInv
  <1>6. SocketsInv(z) => SocketsInv(y)
    <2>1. CASE z.d.mRtspState = "SETUP_DONE"
      <3>1. ~y.d.mReceiver /\ ~y.d.socks
        BY <1>1, <2>1, Zenon
      <3>. QED
        BY <1>1, <1>3, <3>1, Zenon DEF SocketsInv
    <2>2. CASE z.d.mRtspState # "SETUP_DONE"
      <3>1. y.d.mReceiver = z.d.mReceiver /\ y.d.socks = z.d.socks
        BY <1>1, <2>2, Zenon
      <3>. QED
        BY <1>1, <1>3, <2>2, <3>1, Zenon DEF SocketsInv
    <2>. QED
      BY <2>1, <2>2
  <1>7. AsksInv(z) => AsksInv(y)
    <2>1. y.r.reqs = z.r.reqs /\ y.s.mDemuxer = z.s.mDemuxer
      BY <1>1, Zenon DEF SameLife
    <2>. QED
      BY <1>1, <2>1, AsksSame, Zenon
  <1>. QED
    BY <1>1, <1>2, <1>4, <1>5, <1>6, <1>7, TalkKeeps, Zenon DEF y

\* A setup is begun.
LEMMA DescribedSet ==
  ASSUME NEW z \in StateType, NEW info \in Infos \cup {None}
  PROVE  LET y == [z EXCEPT !.d.mCodecInfo = info] IN
         /\ y \in StateType /\ y.s = z.s /\ y.r = z.r /\ SameElems(z, y)
         /\ y.d = [z.d EXCEPT !.mCodecInfo = info]
  <1> DEFINE d == [z.d EXCEPT !.mCodecInfo = info]
  <1>1. z.d \in DemuxerType
    BY ReqsType, Zenon
  <1>2. d \in DemuxerType
    BY <1>1, Zenon DEF DemuxerType
  <1>3. [z EXCEPT !.d.mCodecInfo = info] = [z EXCEPT !.d = d]
    BY Zenon
  <1> HIDE DEF d
  <1>4. LET w == [z EXCEPT !.d = d] IN
         w \in StateType /\ w.d = d /\ w.s = z.s /\ w.r = z.r /\ SameElems(z, w)
    BY <1>2, DemuxerSet, Zenon
  <1>. QED
    BY <1>3, <1>4, Zenon DEF d

LEMMA PreparedOK ==
  ASSUME NEW z \in StateType, NEW info \in Infos \cup {None}
  PROVE  LET y == PrepareSetup([z EXCEPT !.d.mCodecInfo = info]) IN
         /\ y \in StateType /\ y.s = z.s /\ y.r = z.r /\ SameElems(z, y)
         /\ y.d.mState = z.d.mState /\ y.d.mSeeking = z.d.mSeeking
         /\ y.d.rtsp = z.d.rtsp
         /\ y.d.mContentBase = z.d.mContentBase /\ y.d.mRtspSessionId = z.d.mRtspSessionId
         /\ y.d.mReceiver = z.d.mReceiver
         /\ y.d.mNetworkReadyForStop = z.d.mNetworkReadyForStop
         /\ y.d.mVideoMedia = z.d.mVideoMedia /\ y.d.mCodecInfo = info
         /\ y.d.mCodecInfoChanging = z.d.mCodecInfoChanging
         /\ y.d.mChannelsReadyForStop = z.d.mChannelsReadyForStop
         /\ y.d.leaked => z.d.leaked \/ (z.d.socks /\ Transport # "mux")
  <1> DEFINE x == [z EXCEPT !.d.mCodecInfo = info]
             y == PrepareSetup(x)
  <1>1. /\ x \in StateType /\ x.s = z.s /\ x.r = z.r /\ SameElems(z, x)
        /\ x.d = [z.d EXCEPT !.mCodecInfo = info]
    BY DescribedSet, Zenon
  <1> HIDE DEF x
  <1>2. z.d \in DemuxerType /\ x.d \in DemuxerType
    BY <1>1, ReqsType, Zenon
  <1>3. /\ x.d.mState = z.d.mState /\ x.d.mSeeking = z.d.mSeeking
        /\ x.d.rtsp = z.d.rtsp
        /\ x.d.mContentBase = z.d.mContentBase /\ x.d.mRtspSessionId = z.d.mRtspSessionId
        /\ x.d.mReceiver = z.d.mReceiver
        /\ x.d.mNetworkReadyForStop = z.d.mNetworkReadyForStop
        /\ x.d.mVideoMedia = z.d.mVideoMedia /\ x.d.mCodecInfo = info
        /\ x.d.mCodecInfoChanging = z.d.mCodecInfoChanging
        /\ x.d.mChannelsReadyForStop = z.d.mChannelsReadyForStop
        /\ x.d.leaked = z.d.leaked /\ x.d.socks = z.d.socks
    BY <1>1, <1>2, Zenon DEF DemuxerType
  <1>4. /\ y \in StateType /\ y.s = x.s /\ y.r = x.r /\ SameElems(x, y)
        /\ IF Transport = "mux" THEN y.d = x.d
           ELSE y.d = [x.d EXCEPT !.leaked = x.d.leaked \/ x.d.socks, !.socks = TRUE]
    BY <1>1, PrepareSetupOK, Zenon
  <1> HIDE DEF y
  <1>5. /\ y.d.mState = x.d.mState /\ y.d.mSeeking = x.d.mSeeking
        /\ y.d.rtsp = x.d.rtsp
        /\ y.d.mContentBase = x.d.mContentBase /\ y.d.mRtspSessionId = x.d.mRtspSessionId
        /\ y.d.mReceiver = x.d.mReceiver
        /\ y.d.mNetworkReadyForStop = x.d.mNetworkReadyForStop
        /\ y.d.mVideoMedia = x.d.mVideoMedia /\ y.d.mCodecInfo = x.d.mCodecInfo
        /\ y.d.mCodecInfoChanging = x.d.mCodecInfoChanging
        /\ y.d.mChannelsReadyForStop = x.d.mChannelsReadyForStop
        /\ y.d.leaked => x.d.leaked \/ (x.d.socks /\ Transport # "mux")
    <2>1. CASE Transport = "mux"
      BY <1>4, <2>1, Zenon
    <2>2. CASE Transport # "mux"
      <3> DEFINE b == x.d.leaked \/ x.d.socks
      <3>1. y.d = [x.d EXCEPT !.leaked = b, !.socks = TRUE]
        BY <1>4, <2>2, Zenon
      <3>2. b => x.d.leaked \/ x.d.socks
        OBVIOUS
      <3> HIDE DEF b
      <3>. QED
        BY <1>2, <2>2, <3>1, <3>2, ZenonT(60) DEF DemuxerType
    <2>. QED
      BY <2>1, <2>2
  <1>6. SameElems(z, y)
    BY <1>1, <1>4, SameElemsTransitive, Zenon
  <1>. QED
    BY <1>1, <1>3, <1>4, <1>5, <1>6, Zenon DEF x, y

\* What the setup of a media does: it is asked for, or cannot be.
SetupBegins(z, y, q) ==
    \/ /\ y.s = z.s /\ y.r.reqs = Append(z.r.reqs, q) /\ y.d.mRtspState = "DESCRIBE_DONE"
    \/ /\ ~SetupWorks /\ y.r.reqs = z.r.reqs /\ y.d.mRtspState = "OPTIONS_DONE"
       /\ ~y.s.mDemuxerReady /\ ~y.s.mReadyToPlay

LEMMA SetupMediaOK ==
  ASSUME NEW z \in StateType, NEW sdp \in Descriptions \ {"empty", "wrongTrack"},
         NEW sent \in Sent
  PROVE  LET y == SetupMedia(z, sdp, sent) IN
         /\ y \in StateType /\ SameElems(z, y)
         /\ y.r.conn = z.r.conn /\ y.r.idles = z.r.idles
         /\ SameLife(z, y) /\ y.s.owed = z.s.owed
         /\ y.d.mState = z.d.mState /\ y.d.mSeeking = z.d.mSeeking
         /\ y.d.rtsp = z.d.rtsp
         /\ y.d.mContentBase = z.d.mContentBase /\ y.d.mRtspSessionId = z.d.mRtspSessionId
         /\ y.d.mReceiver = z.d.mReceiver
         /\ y.d.mNetworkReadyForStop = z.d.mNetworkReadyForStop
         /\ y.d.mVideoMedia = z.d.mVideoMedia /\ (InBand => y.d.mCodecInfo = z.d.mCodecInfo)
         /\ y.d.mCodecInfoChanging = z.d.mCodecInfoChanging
         /\ y.d.mChannelsReadyForStop = z.d.mChannelsReadyForStop
         /\ y.d.leaked => z.d.leaked \/ (z.d.socks /\ Transport # "mux")
         /\ \E q \in ReqType : q.op = "setup" /\ SetupBegins(z, y, q)
  <1> DEFINE info == IF sdp \in Infos THEN sdp ELSE z.d.mCodecInfo
             x == PrepareSetup([z EXCEPT !.d.mCodecInfo = info])
             v == [x EXCEPT !.d.mRtspState = "DESCRIBE_DONE"]
             w == OnReadyToPlay(x, FALSE)
             a == Send(v, "setup")
             b == [w EXCEPT !.d.mRtspState = "OPTIONS_DONE"]
             y == SetupMedia(z, sdp, sent)
             q == [op |-> "setup", sid |-> v.d.mRtspSessionId]
  <1>1. y = IF sent THEN a ELSE b
    BY Zenon DEF SetupMedia
  <1>2. info \in Infos \cup {None}
    <2>1. z.d \in DemuxerType
      BY ReqsType, Zenon
    <2>2. z.d.mCodecInfo \in Infos \cup {None}
      BY <2>1, Zenon DEF DemuxerType
    <2>. QED
      BY <2>2, Zenon
  <1>3. InBand => info = z.d.mCodecInfo
    <2>1. InBand => sdp = None
      BY Zenon DEF InBand, Descriptions
    <2>. QED
      BY <2>1, StreamConstantsOK, Zenon
  <1>4. "DESCRIBE_DONE" \in RtspStates /\ "OPTIONS_DONE" \in RtspStates /\ "setup" \in Requests
    BY Zenon DEF RtspStates, Requests
  <1> HIDE DEF info
  <1>5. /\ x \in StateType /\ x.s = z.s /\ x.r = z.r /\ SameElems(z, x)
        /\ x.d.mState = z.d.mState /\ x.d.mSeeking = z.d.mSeeking
        /\ x.d.rtsp = z.d.rtsp
        /\ x.d.mContentBase = z.d.mContentBase /\ x.d.mRtspSessionId = z.d.mRtspSessionId
        /\ x.d.mReceiver = z.d.mReceiver
        /\ x.d.mNetworkReadyForStop = z.d.mNetworkReadyForStop
        /\ x.d.mVideoMedia = z.d.mVideoMedia /\ x.d.mCodecInfo = info
        /\ x.d.mCodecInfoChanging = z.d.mCodecInfoChanging
        /\ x.d.mChannelsReadyForStop = z.d.mChannelsReadyForStop
        /\ x.d.leaked => z.d.leaked \/ (z.d.socks /\ Transport # "mux")
    BY <1>2, PreparedOK, Zenon
  <1> HIDE DEF x
  <1>6. /\ v \in StateType /\ v.s = x.s /\ v.r = x.r /\ SameElems(x, v)
        /\ v.d.mState = x.d.mState /\ v.d.mSeeking = x.d.mSeeking
        /\ v.d.rtsp = x.d.rtsp /\ v.d.mRtspState = "DESCRIBE_DONE"
        /\ v.d.mContentBase = x.d.mContentBase /\ v.d.mRtspSessionId = x.d.mRtspSessionId
        /\ v.d.leaked = x.d.leaked /\ v.d.mReceiver = x.d.mReceiver
        /\ v.d.mNetworkReadyForStop = x.d.mNetworkReadyForStop
        /\ SameInfo(x.d, v.d)
    BY <1>4, <1>5, RtspStateSet, ZenonT(60)
  <1> HIDE DEF v
  <1>7. /\ a \in StateType /\ a.d = v.d /\ a.s = v.s /\ SameElems(v, a)
        /\ a.r.conn = v.r.conn /\ a.r.reqs = Append(v.r.reqs, q) /\ a.r.idles = v.r.idles
        /\ q \in ReqType /\ q.op = "setup"
    BY <1>4, <1>6, SendOK, Zenon
  <1>8. /\ w \in StateType /\ w.d = x.d /\ w.r = x.r /\ SameElems(x, w)
        /\ ~w.s.mDemuxerReady /\ ~w.s.mReadyToPlay
        /\ w.s.mState = x.s.mState /\ w.s.mDemuxer = x.s.mDemuxer
        /\ w.s.deleting = x.s.deleting /\ w.s.owed = x.s.owed
    BY <1>5, OnReadyToPlayOK, Zenon
  <1> HIDE DEF w
  <1>9. /\ b \in StateType /\ b.s = w.s /\ b.r = w.r /\ SameElems(w, b)
        /\ b.d.mState = w.d.mState /\ b.d.mSeeking = w.d.mSeeking
        /\ b.d.rtsp = w.d.rtsp /\ b.d.mRtspState = "OPTIONS_DONE"
        /\ b.d.mContentBase = w.d.mContentBase /\ b.d.mRtspSessionId = w.d.mRtspSessionId
        /\ b.d.leaked = w.d.leaked /\ b.d.mReceiver = w.d.mReceiver
        /\ b.d.mNetworkReadyForStop = w.d.mNetworkReadyForStop
        /\ SameInfo(w.d, b.d)
    BY <1>4, <1>8, RtspStateSet, ZenonT(60)
  <1> HIDE DEF a, b, q
  <1> DEFINE Same(u) ==
         /\ u \in StateType /\ SameElems(z, u)
         /\ u.r.conn = z.r.conn /\ u.r.idles = z.r.idles
         /\ SameLife(z, u) /\ u.s.owed = z.s.owed
         /\ u.d.mState = z.d.mState /\ u.d.mSeeking = z.d.mSeeking
         /\ u.d.rtsp = z.d.rtsp
         /\ u.d.mContentBase = z.d.mContentBase /\ u.d.mRtspSessionId = z.d.mRtspSessionId
         /\ u.d.mReceiver = z.d.mReceiver
         /\ u.d.mNetworkReadyForStop = z.d.mNetworkReadyForStop
         /\ u.d.mVideoMedia = z.d.mVideoMedia /\ (InBand => u.d.mCodecInfo = z.d.mCodecInfo)
         /\ u.d.mCodecInfoChanging = z.d.mCodecInfoChanging
         /\ u.d.mChannelsReadyForStop = z.d.mChannelsReadyForStop
         /\ u.d.leaked => z.d.leaked \/ (z.d.socks /\ Transport # "mux")
  <1>10. Same(a) /\ SetupBegins(z, a, q)
    <2>1. a.s = z.s /\ a.r.reqs = Append(z.r.reqs, q) /\ a.d.mRtspState = "DESCRIBE_DONE"
      BY <1>5, <1>6, <1>7, Zenon
    <2>2. SameElems(z, a)
      BY <1>5, <1>6, <1>7, SameElemsTransitive, Zenon
    <2>3. SameInfo(x.d, a.d)
      BY <1>6, <1>7, Zenon
    <2>4. SameLife(z, a) /\ a.s.owed = z.s.owed
      BY <2>1, Zenon DEF SameLife
    <2>5. a.r.conn = z.r.conn /\ a.r.idles = z.r.idles
      BY <1>5, <1>6, <1>7, Zenon
    <2>6. /\ a.d.mVideoMedia = z.d.mVideoMedia /\ a.d.mCodecInfo = info
          /\ a.d.mCodecInfoChanging = z.d.mCodecInfoChanging
          /\ a.d.mChannelsReadyForStop = z.d.mChannelsReadyForStop
      BY <1>5, <2>3, Zenon DEF SameInfo
    <2>. QED
      BY <1>3, <1>5, <1>6, <1>7, <2>1, <2>2, <2>4, <2>5, <2>6, ZenonT(60) DEF SetupBegins
  <1>11. ~sent => Same(b) /\ SetupBegins(z, b, q)
    <2>1. ~sent => ~SetupWorks
      BY Zenon DEF Sent, SetupWorks
    <2>2. SameElems(z, b)
      BY <1>5, <1>8, <1>9, SameElemsTransitive, Zenon
    <2>3. SameInfo(x.d, b.d)
      BY <1>8, <1>9, Zenon
    <2>4. SameLife(z, b) /\ b.s.owed = z.s.owed /\ ~b.s.mDemuxerReady /\ ~b.s.mReadyToPlay
      BY <1>5, <1>8, <1>9, Zenon DEF SameLife
    <2>5. b.r = z.r
      BY <1>5, <1>8, <1>9, Zenon
    <2>6. /\ b.d.mVideoMedia = z.d.mVideoMedia /\ b.d.mCodecInfo = info
          /\ b.d.mCodecInfoChanging = z.d.mCodecInfoChanging
          /\ b.d.mChannelsReadyForStop = z.d.mChannelsReadyForStop
      BY <1>5, <2>3, Zenon DEF SameInfo
    <2>. QED
      BY <1>3, <1>5, <1>8, <1>9, <2>1, <2>2, <2>4, <2>5, <2>6, ZenonT(60) DEF SetupBegins
  <1>12. Same(y) /\ SetupBegins(z, y, q)
    BY <1>1, <1>10, <1>11, ZenonT(60)
  <1>. QED
    BY <1>7, <1>12, Zenon

LEMMA SetupMediaKeeps ==
  ASSUME NEW z, Good(z), DialogueInv(z), z.d.mState = "STARTED", z.r.conn = "up",
         ~Waits(z, {"options", "describe", "setup"}), z.d.mRtspState # "SETUP_DONE",
         NEW sdp \in Descriptions \ {"empty", "wrongTrack"}, NEW sent \in Sent
  PROVE  Keeps(z, SetupMedia(z, sdp, sent))
  <1> DEFINE y == SetupMedia(z, sdp, sent)
  <1>1. PICK q \in ReqType :
         /\ y \in StateType /\ SameElems(z, y)
         /\ y.r.conn = z.r.conn /\ y.r.idles = z.r.idles
         /\ SameLife(z, y) /\ y.s.owed = z.s.owed
         /\ y.d.mState = z.d.mState /\ y.d.mSeeking = z.d.mSeeking
         /\ y.d.rtsp = z.d.rtsp
         /\ y.d.mContentBase = z.d.mContentBase /\ y.d.mRtspSessionId = z.d.mRtspSessionId
         /\ y.d.mReceiver = z.d.mReceiver
         /\ y.d.mNetworkReadyForStop = z.d.mNetworkReadyForStop
         /\ y.d.mVideoMedia = z.d.mVideoMedia /\ (InBand => y.d.mCodecInfo = z.d.mCodecInfo)
         /\ y.d.mCodecInfoChanging = z.d.mCodecInfoChanging
         /\ y.d.mChannelsReadyForStop = z.d.mChannelsReadyForStop
         /\ (y.d.leaked => z.d.leaked \/ (z.d.socks /\ Transport # "mux"))
         /\ q.op = "setup" /\ SetupBegins(z, y, q)
    BY SetupMediaOK, Zenon DEF Good
  <1> HIDE DEF y
  <1>2. SameButInfo(z, y)
    BY <1>1, Zenon DEF SameButInfo, SameElems
  <1>3. LifeInv(z) /\ TalkInv(z) /\ z.r.reqs \in Seq(ReqType) /\ z.d.rtsp
    BY ReqsType, Zenon DEF Good, DialogueInv, TalkInv
  <1>4. ~Waits(z, {"setup"}) /\ ~Waits(z, {"options", "describe"})
    BY Zenon DEF Waits
  <1>5. /\ Waits(y, {"teardown"}) <=> Waits(z, {"teardown"})
        /\ ~Waits(y, {"options", "describe"})
        /\ Waits(y, {"setup"}) \/ ~SetupWorks
        /\ AtMostOne(y, {"options", "describe", "setup"})
    <2>1. CASE y.r.reqs = z.r.reqs /\ ~SetupWorks
      <3>1. \A ops : (Waits(y, ops) <=> Waits(z, ops)) /\ (AtMostOne(z, ops) => AtMostOne(y, ops))
        BY <2>1, Zenon DEF Waits, AtMostOne
      <3>. QED
        BY <1>3, <1>4, <2>1, <3>1, Zenon DEF TalkInv
    <2>2. CASE y.r.reqs = Append(z.r.reqs, q)
      <3>1. ASSUME NEW ops
            PROVE  /\ Waits(y, ops) <=> Waits(z, ops) \/ q.op \in ops
                   /\ AtMostOne(z, ops) /\ (q.op \in ops => ~Waits(z, ops)) => AtMostOne(y, ops)
        BY <1>3, <2>2, RequestSent, Zenon
      <3>2. q.op \in {"setup"} /\ q.op \notin {"teardown"} /\ q.op \notin {"options", "describe"}
        BY <1>1, Zenon
      <3>. QED
        BY <1>3, <1>4, <3>1, <3>2, Zenon DEF TalkInv
    <2>. QED
      BY <1>1, <2>1, <2>2, Zenon DEF SetupBegins
  <1>6. y.d.mRtspState # "SETUP_DONE"
    BY <1>1, Zenon DEF SetupBegins
  <1>7. TalkInv(y)
    BY <1>1, <1>3, <1>5, <1>6, Zenon DEF TalkInv
  <1>8. ReadyInv(z) => ReadyInv(y)
    <2>1. ReadyInv(z) => ~z.s.mDemuxerReady /\ ~z.s.mReadyToPlay
      BY <1>3, Zenon DEF ReadyInv
    <2>2. ReadyInv(z) => ~y.s.mDemuxerReady /\ ~y.s.mReadyToPlay
      BY <1>1, <2>1, Zenon DEF SetupBegins
    <2>. QED
      BY <1>1, <2>2, Zenon DEF ReadyInv
  <1>9. SetupWorks /\ SocketsInv(z) => SocketsInv(y)
    <2>1. SocketsInv(z) =>
             ~z.d.leaked /\ ~z.d.mReceiver /\ (z.d.socks /\ Transport = "net" => FALSE)
      BY <1>4, Zenon DEF SocketsInv
    <2>2. SocketsInv(z) => ~y.d.leaked /\ ~y.d.mReceiver
      BY <1>1, <2>1, StreamConstantsOK, Zenon
    <2>. QED
      BY <1>5, <2>2, Zenon DEF SocketsInv
  <1>10. AsksInv(z) => AsksInv(y)
    <2>1. y.s.mDemuxer = z.s.mDemuxer
      BY <1>1, Zenon DEF SameLife
    <2>2. CASE y.r.reqs = z.r.reqs
      BY <1>1, <2>1, <2>2, AsksSame, Zenon
    <2>3. CASE y.r.reqs = Append(z.r.reqs, q)
      <3>1. q.op \notin Asks
        BY <1>1, Zenon DEF Asks
      <3>. QED
        BY <1>1, <1>3, <2>1, <2>3, <3>1, AsksSent, Zenon
    <2>. QED
      BY <1>1, <2>2, <2>3, Zenon DEF SetupBegins
  <1>. QED
    BY <1>1, <1>2, <1>7, <1>8, <1>9, <1>10, TalkKeeps, Zenon DEF y

\* A description does nothing to a demuxer that stops.
LEMMA NewSdpKeeps ==
  ASSUME NEW z, Good(z), DialogueInv(z), z.d.mState \in {"STARTED", "STOPPING"},
         z.r.conn = "up", ~Waits(z, {"options", "describe"}),
         NEW sdp \in Descriptions, NEW sent \in Sent,
         sdp # "empty" => z.d.mRtspState # "SETUP_DONE" /\ ~Waits(z, {"setup"})
  PROVE  Keeps(z, OnNewSdp(z, sdp, sent))
  <1> DEFINE y == [z EXCEPT !.d.mContentBase = TRUE]
  <1>1. OnNewSdp(z, sdp, sent) =
           IF z.d.mState = "STOPPING" THEN z
           ELSE IF sdp = "empty" THEN NoMedia(y)
           ELSE IF sdp = "wrongTrack" THEN StopLater(y)
           ELSE SetupMedia(y, sdp, sent)
    BY Zenon DEF OnNewSdp
  <1>2. CASE z.d.mState = "STOPPING"
    <2>1. Keeps(z, z)
      BY SameButSession, Zenon DEF Good, SameElems, SameLife
    <2>. QED
      BY <1>1, <1>2, <2>1, Zenon
  <1>3. CASE z.d.mState = "STARTED"
    <2>1. Keeps(z, y)
      BY <1>3, ContentBaseKeeps, Zenon
    <2>2. y.r = z.r /\ y.d.mState = z.d.mState /\ y.d.mRtspState = z.d.mRtspState
      BY ContentBaseSet, Zenon DEF Good
    <2> HIDE DEF y
    <2>3. Good(y) /\ DialogueInv(y) /\ y.d.mState = "STARTED" /\ y.r.conn = "up"
      BY <1>3, <2>1, <2>2, Zenon DEF Keeps
    <2>4. CASE sdp = "empty"
      <3>1. Keeps(y, NoMedia(y))
        BY <2>3, NoMediaKeeps, Zenon
      <3>. QED
        BY <1>1, <1>3, <2>1, <2>2, <2>4, <3>1, KeepsTransitive, Zenon
    <2>5. CASE sdp = "wrongTrack"
      <3>1. Keeps(y, StopLater(y))
        BY <2>3, StopLaterKeeps, Zenon
      <3>. QED
        BY <1>1, <1>3, <2>1, <2>2, <2>5, <3>1, KeepsTransitive, Zenon
    <2>6. CASE sdp \notin {"empty", "wrongTrack"}
      <3>1. ~Waits(y, {"options", "describe", "setup"}) /\ y.d.mRtspState # "SETUP_DONE"
        BY <2>2, <2>6, Zenon DEF Waits
      <3>2. sdp \in Descriptions \ {"empty", "wrongTrack"}
        BY <2>6, Zenon
      <3>3. Keeps(y, SetupMedia(y, sdp, sent))
        BY <2>3, <3>1, <3>2, SetupMediaKeeps, Zenon
      <3>. QED
        BY <1>1, <1>3, <2>1, <2>2, <2>6, <3>3, KeepsTransitive, Zenon
    <2>. QED
      BY <2>4, <2>5, <2>6, Zenon
  <1>. QED
    BY <1>2, <1>3, Zenon

\* onRtspDescribeResp()
LEMMA DescribeKeep ==
  ASSUME Orderly, Good(st), DialogueInv(st), OnRtspDescribeResp
  PROVE  Keeps(st, st')
  <1>1. PICK ok \in BOOLEAN, sent \in Sent, sdp \in Descriptions :
           /\ Answered("describe", ok)
           /\ st' = IF ok THEN OnNewSdp(Rest, sdp, sent) ELSE StopLater(Rest)
    BY Zenon DEF OnRtspDescribeResp
  <1>2. CASE ~ok
    BY <1>1, <1>2, RefusedKeeps, Zenon DEF Steps
  <1>3. CASE ok
    <2>1. /\ st.r.reqs # <<>> /\ Head(st.r.reqs).op = "describe"
          /\ st.r.conn = "up" /\ st.d.mState \notin {"CREATED", "STOPPED"}
      BY <1>1, <1>3, AnsweredOK, Zenon
    <2>2. Rest.d = st.d /\ Rest.r.conn = st.r.conn
      BY <2>1, RestOK, Zenon
    <2>3. Keeps(st, Rest)
      BY <2>1, RestKeeps, Zenon DEF Asks
    <2>4. /\ ~Waits(Rest, {"options", "describe"}) /\ ~Waits(Rest, {"setup"})
          /\ st.d.mRtspState # "SETUP_DONE"
      BY <2>1, NoneLeft, Zenon DEF Steps
    <2>5. st.d.mState \in {"STARTED", "STOPPING"}
      BY <2>1, Zenon DEF DialogueInv, LifeInv
    <2>6. Keeps(Rest, OnNewSdp(Rest, sdp, sent))
      BY <2>1, <2>2, <2>3, <2>4, <2>5, NewSdpKeeps, Zenon DEF Keeps
    <2>. QED
      BY <1>1, <1>3, <2>2, <2>3, <2>6, KeepsTransitive, Zenon
  <1>. QED
    BY <1>2, <1>3

\* onRtspAnnounce()
LEMMA AnnounceKeeps ==
  ASSUME Orderly, Good(st), DialogueInv(st), OnRtspAnnounce
  PROVE  Keeps(st, st')
  <1>1. PICK sdp \in Descriptions, sent \in Sent :
           /\ sdp = "empty" \/ "reannounce" \in Allowed
              \/ (st.d.mRtspState = "OPTIONS_DONE" /\ Pending("setup") = {})
           /\ st' = OnNewSdp(st, sdp, sent)
    BY Zenon DEF OnRtspAnnounce
  <1>2. st.r.conn = "up" /\ st.d.mContentBase
    BY Zenon DEF OnRtspAnnounce
  <1>3. sdp # "empty" => st.d.mRtspState = "OPTIONS_DONE" /\ Pending("setup") = {}
    BY <1>1, Zenon DEF Orderly
  <1>4. Pending("setup") = {} => ~Waits(st, {"setup"})
    BY Zenon DEF Pending, Waits
  <1>5. /\ ~Waits(st, {"options", "describe"}) /\ st.d.mState \in {"STARTED", "STOPPING"}
    <2>1. st.d.mState # "CREATED"
      BY <1>2, Opened, Zenon
    <2>. QED
      BY <1>2, <2>1, Zenon DEF DialogueInv, TalkInv, LifeInv
  <1>. QED
    BY <1>1, <1>2, <1>3, <1>4, <1>5, NewSdpKeeps, Zenon

-----------------------------------------------------------------------------
(* onRtspSetupResp() and onRtspTeardownResp().                             *)

LEMMA SetupDoneSet ==
  ASSUME NEW z \in StateType, NEW sid \in Sids
  PROVE  LET y == [z EXCEPT !.d.mRtspSessionId = sid, !.d.mRtspState = "SETUP_DONE"] IN
         /\ y \in StateType /\ y.s = z.s /\ y.r = z.r /\ SameElems(z, y)
         /\ y.d \in DemuxerType
         /\ y.d.mState = z.d.mState /\ y.d.mSeeking = z.d.mSeeking
         /\ y.d.rtsp = z.d.rtsp /\ y.d.mRtspState = "SETUP_DONE"
         /\ y.d.mContentBase = z.d.mContentBase /\ y.d.mRtspSessionId = sid
         /\ y.d.leaked = z.d.leaked /\ y.d.mReceiver = z.d.mReceiver
         /\ y.d.mNetworkReadyForStop = z.d.mNetworkReadyForStop
         /\ SameInfo(z.d, y.d)
  <1> DEFINE d == [z.d EXCEPT !.mRtspSessionId = sid, !.mRtspState = "SETUP_DONE"]
             y == [z EXCEPT !.d.mRtspSessionId = sid, !.d.mRtspState = "SETUP_DONE"]
  <1>1. z.d \in DemuxerType
    BY ReqsType, Zenon
  <1>2. d \in DemuxerType
    BY <1>1, Zenon DEF DemuxerType, RtspStates
  <1>3. /\ d.mState = z.d.mState /\ d.mSeeking = z.d.mSeeking
        /\ d.rtsp = z.d.rtsp /\ d.mRtspState = "SETUP_DONE"
        /\ d.mContentBase = z.d.mContentBase /\ d.mRtspSessionId = sid
        /\ d.leaked = z.d.leaked /\ d.mReceiver = z.d.mReceiver
        /\ d.mNetworkReadyForStop = z.d.mNetworkReadyForStop
        /\ SameInfo(z.d, d)
    BY <1>1, Zenon DEF DemuxerType, SameInfo
  <1>4. y.d = d /\ y.s = z.s /\ y.r = z.r /\ SameElems(z, y)
    BY Zenon DEF StateType, DemuxerType, SameElems
  <1>5. y \in StateType
    BY <1>2, Zenon DEF StateType, DemuxerType, RtspStates
  <1> HIDE DEF d, y
  <1>6. /\ y \in StateType /\ y.s = z.s /\ y.r = z.r /\ SameElems(z, y)
        /\ y.d \in DemuxerType
        /\ y.d.mState = z.d.mState /\ y.d.mSeeking = z.d.mSeeking
        /\ y.d.rtsp = z.d.rtsp /\ y.d.mRtspState = "SETUP_DONE"
        /\ y.d.mContentBase = z.d.mContentBase /\ y.d.mRtspSessionId = sid
        /\ y.d.leaked = z.d.leaked /\ y.d.mReceiver = z.d.mReceiver
        /\ y.d.mNetworkReadyForStop = z.d.mNetworkReadyForStop
        /\ SameInfo(z.d, y.d)
    BY <1>2, <1>3, <1>4, <1>5, Zenon
  <1>. QED
    BY <1>6, Zenon DEF y

\* The receiver is created, or cannot be.
LEMMA ReceiverOK ==
  ASSUME NEW z \in StateType, NEW ok \in BOOLEAN
  PROVE  LET y == StartRtpAvp(z, ok) IN
         /\ y \in StateType /\ y.s = z.s /\ y.r = z.r /\ SameElems(z, y)
         /\ y.d.mState = z.d.mState /\ y.d.mSeeking = z.d.mSeeking
         /\ y.d.rtsp = z.d.rtsp /\ y.d.mRtspState = z.d.mRtspState
         /\ y.d.mContentBase = z.d.mContentBase /\ y.d.mRtspSessionId = z.d.mRtspSessionId
         /\ y.d.leaked => z.d.leaked \/ z.d.mReceiver
         /\ y.d.mReceiver <=> RtpAvpStarts(z, ok)
         /\ y.d.mNetworkReadyForStop = z.d.mNetworkReadyForStop
         /\ SameInfo(z.d, y.d)
  <1> DEFINE y == StartRtpAvp(z, ok)
             Same == /\ y.d.mState = z.d.mState /\ y.d.mSeeking = z.d.mSeeking
                     /\ y.d.rtsp = z.d.rtsp /\ y.d.mRtspState = z.d.mRtspState
                     /\ y.d.mContentBase = z.d.mContentBase
                     /\ y.d.mRtspSessionId = z.d.mRtspSessionId
                     /\ y.d.leaked => z.d.leaked \/ z.d.mReceiver
                     /\ y.d.mReceiver <=> RtpAvpStarts(z, ok)
                     /\ y.d.mNetworkReadyForStop = z.d.mNetworkReadyForStop
                     /\ SameInfo(z.d, y.d)
  <1>1. /\ y \in StateType /\ y.s = z.s /\ y.r = z.r /\ SameElems(z, y)
        /\ IF RtpAvpStarts(z, ok)
           THEN y.d = [z.d EXCEPT !.socks = TRUE, !.leaked = z.d.leaked \/ z.d.mReceiver,
                                  !.mReceiver = TRUE]
           ELSE y.d = [z.d EXCEPT !.mReceiver = FALSE, !.socks = FALSE]
    BY StartRtpAvpOK, Zenon
  <1>2. z.d \in DemuxerType
    BY ReqsType, Zenon
  <1> HIDE DEF y
  <1>3. ASSUME RtpAvpStarts(z, ok) PROVE Same
    <2> DEFINE b == z.d.leaked \/ z.d.mReceiver
    <2>1. y.d = [z.d EXCEPT !.socks = TRUE, !.leaked = b, !.mReceiver = TRUE]
      BY <1>1, <1>3, Zenon
    <2>2. b => z.d.leaked \/ z.d.mReceiver
      OBVIOUS
    <2> HIDE DEF b
    <2>. QED
      BY <1>2, <1>3, <2>1, <2>2, Zenon DEF DemuxerType, SameInfo
  <1>4. ASSUME ~RtpAvpStarts(z, ok) PROVE Same
    <2>1. y.d = [z.d EXCEPT !.mReceiver = FALSE, !.socks = FALSE]
      BY <1>1, <1>4, Zenon
    <2>. QED
      BY <1>2, <1>4, <2>1, ZenonT(60) DEF DemuxerType, SameInfo
  <1>. QED
    BY <1>1, <1>3, <1>4, Zenon DEF y

\* The state a setup leads to: the stream is received and the session told, or
\* the receiver cannot be created.
LEMMA SetupDoneKeeps ==
  ASSUME Good(st), DialogueInv(st), st.r.reqs # <<>>, Head(st.r.reqs).op = "setup",
         st.r.conn = "up", st.d.mState = "STARTED", NEW y \in StateType,
         y.d.mState = "STARTED", y.d.mSeeking = st.d.mSeeking, y.d.rtsp = st.d.rtsp,
         y.d.mRtspState = "SETUP_DONE", y.d.mContentBase = st.d.mContentBase,
         y.d.leaked => st.d.leaked \/ st.d.mReceiver,
         y.d.mNetworkReadyForStop = st.d.mNetworkReadyForStop, SameInfo(st.d, y.d),
         y.r = Rest.r, SameElems(st, y), SameLife(st, y), y.s.owed = st.s.owed,
         \/ y.s = st.s
         \/ y.d.mReceiver /\ y.s.mDemuxerReady
  PROVE  Keeps(st, y)
  <1>1. /\ Rest.r.conn = st.r.conn /\ Rest.r.idles = st.r.idles
        /\ Rest.r.reqs = Tail(st.r.reqs) /\ st.r.reqs \in Seq(ReqType)
    BY RestOK, ReqsType, Zenon DEF Good
  <1>2. SameButInfo(st, y)
    BY Zenon DEF SameButInfo, SameElems, SameInfo
  <1>3. LifeInv(st) /\ TalkInv(st) /\ st.d.rtsp
    BY Zenon DEF DialogueInv, TalkInv
  <1>4. /\ ~Waits(y, {"options", "describe", "setup"}) /\ ~Waits(y, {"options", "describe"})
        /\ ~Waits(y, {"setup"})
        /\ Waits(y, {"teardown"}) => Waits(st, {"teardown"})
        /\ Waits(st, {"setup"}) /\ st.d.mRtspState # "SETUP_DONE"
    <2>1. /\ \A ops \in SUBSET Steps : ~Waits(Rest, ops)
          /\ Waits(st, {Head(st.r.reqs).op}) /\ st.d.mRtspState # "SETUP_DONE"
          /\ \A ops : Waits(Rest, ops) => Waits(st, ops)
      BY NoneLeft, Zenon DEF Steps
    <2>2. \A ops : Waits(y, ops) <=> Waits(Rest, ops)
      BY Zenon DEF Waits
    <2>3. /\ ~Waits(y, Steps) /\ ~Waits(y, {"options", "describe"}) /\ ~Waits(y, {"setup"})
      BY <2>1, <2>2, Zenon DEF Steps
    <2>. QED
      BY <2>1, <2>2, <2>3, Zenon DEF Steps
  <1>5. AtMostOne(y, {"options", "describe", "setup"})
    BY <1>4, Zenon DEF AtMostOne, Waits
  <1>6. TalkInv(y)
    BY <1>1, <1>3, <1>4, <1>5, Zenon DEF TalkInv
  <1>7. ReadyInv(st) => ReadyInv(y)
    <2>1. CASE y.s = st.s
      <3>1. ReadyInv(st) => ~y.s.mDemuxerReady /\ ~y.s.mReadyToPlay
        BY <1>3, <1>4, <2>1, Zenon DEF ReadyInv
      <3>. QED
        BY <1>1, <3>1, Zenon DEF ReadyInv
    <2>2. CASE y.d.mReceiver /\ y.s.mDemuxerReady
      BY <1>1, <2>2, Zenon DEF ReadyInv
    <2>. QED
      BY <2>1, <2>2
  <1>8. SocketsInv(st) => SocketsInv(y)
    BY <1>4, Zenon DEF SocketsInv
  <1>9. AsksInv(st) => AsksInv(y)
    <2>1. /\ Head(st.r.reqs).op \notin Asks /\ Head(st.r.reqs).op \in {"setup", "teardown"}
          /\ y.s.mDemuxer = st.s.mDemuxer /\ y.r.reqs = Tail(st.r.reqs)
      BY <1>1, Zenon DEF Asks, SameLife
    <2>. QED
      BY <1>1, <2>1, AsksAnswered, Zenon
  <1>. QED
    BY <1>2, <1>6, <1>7, <1>8, <1>9, TalkKeeps, Zenon

LEMMA SetupKeeps ==
  ASSUME Orderly, Good(st), DialogueInv(st), OnRtspSetupResp
  PROVE  Keeps(st, st')
  <1>1. PICK ok \in BOOLEAN, sid \in Sids, creates \in Creates :
      /\ Answered("setup", ok)
      /\ LET y == [Rest EXCEPT !.d.mRtspSessionId = sid, !.d.mRtspState = "SETUP_DONE"]
             w == StartRtpAvp(y, creates)
         IN  st' = IF ~ok THEN StopLater(Rest)
                   ELSE IF RtpAvpStarts(y, creates)
                        THEN OnReadyToPlay(SetState(w, "STARTED"), TRUE) ELSE w
    BY Zenon DEF OnRtspSetupResp
  <1> DEFINE y == [Rest EXCEPT !.d.mRtspSessionId = sid, !.d.mRtspState = "SETUP_DONE"]
             w == StartRtpAvp(y, creates)
             u == OnReadyToPlay(w, TRUE)
  <1>2. st' = IF ~ok THEN StopLater(Rest)
              ELSE IF RtpAvpStarts(y, creates)
                   THEN OnReadyToPlay(SetState(w, "STARTED"), TRUE) ELSE w
    BY <1>1, Zenon
  <1>3. CASE ~ok
    BY <1>1, <1>2, <1>3, RefusedKeeps, Zenon DEF Steps
  <1>4. CASE ok
    <2>1. /\ st.r.reqs # <<>> /\ Head(st.r.reqs).op = "setup"
          /\ st.r.conn = "up" /\ st.d.rtsp /\ ~st.d.mNetworkReadyForStop
          /\ st.d.mState \notin {"CREATED", "STOPPED"}
      BY <1>1, <1>4, AnsweredOK, Zenon
    <2>2. st.d.mState = "STARTED"
      <3>1. Waits(st, {"setup"})
        BY <2>1, NoneLeft, Zenon DEF Steps
      <3>. QED
        BY <2>1, <3>1, Zenon DEF DialogueInv, LifeInv, TalkInv
    <2>3. Rest \in StateType /\ Rest.d = st.d /\ Rest.s = st.s /\ SameElems(st, Rest)
      BY <2>1, RestOK, Zenon
    <2>4. /\ y \in StateType /\ y.s = Rest.s /\ y.r = Rest.r /\ SameElems(Rest, y)
          /\ y.d.mState = Rest.d.mState /\ y.d.mSeeking = Rest.d.mSeeking
          /\ y.d.rtsp = Rest.d.rtsp /\ y.d.mRtspState = "SETUP_DONE"
          /\ y.d.mContentBase = Rest.d.mContentBase
          /\ y.d.leaked = Rest.d.leaked /\ y.d.mReceiver = Rest.d.mReceiver
          /\ y.d.mNetworkReadyForStop = Rest.d.mNetworkReadyForStop
          /\ SameInfo(Rest.d, y.d)
      BY <2>3, SetupDoneSet, ZenonT(60)
    <2> HIDE DEF y
    <2>5. creates \in BOOLEAN
      BY Zenon DEF Creates
    <2>6. /\ w \in StateType /\ w.s = y.s /\ w.r = y.r /\ SameElems(y, w)
          /\ w.d.mState = y.d.mState /\ w.d.mSeeking = y.d.mSeeking
          /\ w.d.rtsp = y.d.rtsp /\ w.d.mRtspState = y.d.mRtspState
          /\ w.d.mContentBase = y.d.mContentBase
          /\ w.d.leaked => y.d.leaked \/ y.d.mReceiver
          /\ w.d.mReceiver <=> RtpAvpStarts(y, creates)
          /\ w.d.mNetworkReadyForStop = y.d.mNetworkReadyForStop
          /\ SameInfo(y.d, w.d)
      BY <2>4, <2>5, ReceiverOK, Zenon
    <2> HIDE DEF w
    <2>7. /\ u \in StateType /\ u.d = w.d /\ u.r = w.r /\ SameElems(w, u)
          /\ u.s.mDemuxerReady
          /\ u.s.mState = w.s.mState /\ u.s.mDemuxer = w.s.mDemuxer
          /\ u.s.deleting = w.s.deleting /\ u.s.owed = w.s.owed
      BY <2>6, OnReadyToPlayOK, Zenon
    <2> HIDE DEF u
    <2>8. st' = IF RtpAvpStarts(y, creates) THEN u ELSE w
      <3>1. w.d.mState = "STARTED"
        BY <2>2, <2>3, <2>4, <2>6, ZenonT(60)
      <3>2. SetState(w, "STARTED") = w
        BY <3>1, Zenon DEF SetState
      <3>. QED
        BY <1>2, <1>4, <3>2, Zenon DEF u
    <2>9. ASSUME NEW v \in StateType, v.d = w.d, v.r = w.r, SameElems(w, v),
                 \/ v.s = w.s
                 \/ /\ w.d.mReceiver /\ v.s.mDemuxerReady
                    /\ v.s.mState = w.s.mState /\ v.s.mDemuxer = w.s.mDemuxer
                    /\ v.s.deleting = w.s.deleting /\ v.s.owed = w.s.owed
          PROVE  Keeps(st, v)
      <3>1. SameElems(st, v)
        BY <2>3, <2>4, <2>6, <2>9, SameElemsTransitive, Zenon
      <3>2. SameInfo(st.d, v.d)
        BY <2>3, <2>4, <2>6, <2>9, ZenonT(60) DEF SameInfo
      <3>3. w.s = st.s /\ v.r = Rest.r
        BY <2>3, <2>4, <2>6, <2>9, Zenon
      <3>4. SameLife(st, v) /\ v.s.owed = st.s.owed
        BY <2>9, <3>3, Zenon DEF SameLife
      <3>5. /\ v.d.mState = "STARTED" /\ v.d.mSeeking = st.d.mSeeking /\ v.d.rtsp = st.d.rtsp
            /\ v.d.mRtspState = "SETUP_DONE" /\ v.d.mContentBase = st.d.mContentBase
            /\ v.d.leaked => st.d.leaked \/ st.d.mReceiver
            /\ v.d.mNetworkReadyForStop = st.d.mNetworkReadyForStop
        BY <2>2, <2>3, <2>4, <2>6, <2>9, ZenonT(60)
      <3>. QED
        BY <2>1, <2>2, <2>9, <3>1, <3>2, <3>3, <3>4, <3>5, SetupDoneKeeps, Zenon
    <2>10. CASE RtpAvpStarts(y, creates)
      BY <2>6, <2>7, <2>8, <2>9, <2>10, Zenon
    <2>11. CASE ~RtpAvpStarts(y, creates)
      <3>1. SameElems(w, w)
        BY Zenon DEF SameElems
      <3>. QED
        BY <2>6, <2>8, <2>9, <2>11, <3>1, Zenon
    <2>. QED
      BY <2>10, <2>11
  <1>. QED
    BY <1>3, <1>4

LEMMA TearingDownReset ==
  ASSUME NEW z \in StateType
  PROVE  LET y == [z EXCEPT !.d.mTearingDown = FALSE] IN
         /\ y \in StateType /\ y.s = z.s /\ y.r = z.r /\ SameElems(z, y)
         /\ y.d.mState = z.d.mState /\ y.d.mSeeking = z.d.mSeeking
         /\ SameTalk(z.d, y.d) /\ SameInfo(z.d, y.d)
  <1> DEFINE d == [z.d EXCEPT !.mTearingDown = FALSE]
  <1>1. z.d \in DemuxerType
    BY ReqsType, Zenon
  <1>2. d \in DemuxerType
    BY <1>1, Zenon DEF DemuxerType
  <1>3. /\ d.mState = z.d.mState /\ d.mSeeking = z.d.mSeeking
        /\ SameTalk(z.d, d) /\ SameInfo(z.d, d)
    BY <1>1, Zenon DEF DemuxerType, SameInfo, SameTalk
  <1>4. [z EXCEPT !.d.mTearingDown = FALSE] = [z EXCEPT !.d = d]
    BY Zenon
  <1> HIDE DEF d
  <1>5. LET w == [z EXCEPT !.d = d] IN
         w \in StateType /\ w.d = d /\ w.s = z.s /\ w.r = z.r /\ SameElems(z, w)
    BY <1>2, DemuxerSet, Zenon
  <1>. QED
    BY <1>3, <1>4, <1>5, Zenon

LEMMA TornDownSet ==
  ASSUME NEW z \in StateType
  PROVE  LET y == [z EXCEPT !.d.mRtspSessionId = None, !.d.mRtspState = "OPTIONS_DONE",
                            !.r.idles = @ \cup {"idleRtspDisconnect"}] IN
         /\ y \in StateType /\ y.s = z.s /\ SameElems(z, y)
         /\ y.r.conn = z.r.conn /\ y.r.reqs = z.r.reqs
         /\ y.d.mState = z.d.mState /\ y.d.mSeeking = z.d.mSeeking
         /\ y.d.rtsp = z.d.rtsp /\ y.d.mRtspState = "OPTIONS_DONE"
         /\ y.d.mContentBase = z.d.mContentBase
         /\ y.d.leaked = z.d.leaked /\ y.d.mReceiver = z.d.mReceiver
         /\ y.d.mNetworkReadyForStop = z.d.mNetworkReadyForStop
         /\ SameInfo(z.d, y.d)
  <1> DEFINE d == [z.d EXCEPT !.mRtspSessionId = None, !.mRtspState = "OPTIONS_DONE"]
             r == [z.r EXCEPT !.idles = @ \cup {"idleRtspDisconnect"}]
             y == [z EXCEPT !.d.mRtspSessionId = None, !.d.mRtspState = "OPTIONS_DONE",
                            !.r.idles = @ \cup {"idleRtspDisconnect"}]
  <1>1. z.d \in DemuxerType /\ z.r \in ClientType
    BY ReqsType, Zenon
  <1>2. d \in DemuxerType
    BY <1>1, Zenon DEF DemuxerType, RtspStates
  <1>3. /\ d.mState = z.d.mState /\ d.mSeeking = z.d.mSeeking
        /\ d.rtsp = z.d.rtsp /\ d.mRtspState = "OPTIONS_DONE"
        /\ d.mContentBase = z.d.mContentBase
        /\ d.leaked = z.d.leaked /\ d.mReceiver = z.d.mReceiver
        /\ d.mNetworkReadyForStop = z.d.mNetworkReadyForStop
        /\ SameInfo(z.d, d)
    BY <1>1, Zenon DEF DemuxerType, SameInfo
  <1>4. r \in ClientType /\ r.conn = z.r.conn /\ r.reqs = z.r.reqs
    BY <1>1, Zenon DEF ClientType
  <1>5. y.d = d /\ y.r = r /\ y.s = z.s /\ SameElems(z, y)
    BY Zenon DEF StateType, DemuxerType, ClientType, SameElems
  <1>6. y \in StateType
    BY <1>2, <1>4, ZenonT(60) DEF StateType, DemuxerType, ClientType, RtspStates
  <1> HIDE DEF d, r, y
  <1>7. /\ y \in StateType /\ y.s = z.s /\ SameElems(z, y)
         /\ y.r.conn = z.r.conn /\ y.r.reqs = z.r.reqs
         /\ y.d.mState = z.d.mState /\ y.d.mSeeking = z.d.mSeeking
         /\ y.d.rtsp = z.d.rtsp /\ y.d.mRtspState = "OPTIONS_DONE"
         /\ y.d.mContentBase = z.d.mContentBase
         /\ y.d.leaked = z.d.leaked /\ y.d.mReceiver = z.d.mReceiver
         /\ y.d.mNetworkReadyForStop = z.d.mNetworkReadyForStop
         /\ SameInfo(z.d, y.d)
    BY <1>3, <1>4, <1>5, <1>6, Zenon
  <1>. QED
    BY <1>7, Zenon DEF y

LEMMA TeardownKeeps ==
  ASSUME Good(st), DialogueInv(st), OnRtspTeardownResp
  PROVE  Keeps(st, st')
  <1> DEFINE y == [Rest EXCEPT !.d.mTearingDown = FALSE]
             u == [y EXCEPT !.d.mRtspSessionId = None, !.d.mRtspState = "OPTIONS_DONE",
                            !.r.idles = @ \cup {"idleRtspDisconnect"}]
  <1>1. /\ \E ok \in BOOLEAN : Answered("teardown", ok)
        /\ st' = y \/ st' = u
    BY Zenon DEF OnRtspTeardownResp
  <1>2. /\ st.r.reqs # <<>> /\ Head(st.r.reqs).op = "teardown"
        /\ st.d.mState # "CREATED" /\ st.r.conn # "connecting"
    BY <1>1, AnsweredOK, Zenon
  <1>3. /\ Rest \in StateType /\ Rest.d = st.d /\ Rest.s = st.s /\ SameElems(st, Rest)
        /\ Rest.r.conn = st.r.conn /\ Rest.r.idles = st.r.idles
        /\ Rest.r.reqs = Tail(st.r.reqs) /\ st.r.reqs \in Seq(ReqType)
    BY <1>2, RestOK, ReqsType, Zenon DEF Good
  <1>4. /\ y \in StateType /\ y.s = Rest.s /\ y.r = Rest.r /\ SameElems(Rest, y)
        /\ y.d.mState = Rest.d.mState /\ y.d.mSeeking = Rest.d.mSeeking
        /\ SameTalk(Rest.d, y.d) /\ SameInfo(Rest.d, y.d)
    BY <1>3, TearingDownReset, Zenon
  <1> HIDE DEF y
  <1>5. /\ u \in StateType /\ u.s = y.s /\ SameElems(y, u)
        /\ u.r.conn = y.r.conn /\ u.r.reqs = y.r.reqs
        /\ u.d.mState = y.d.mState /\ u.d.mSeeking = y.d.mSeeking
        /\ u.d.rtsp = y.d.rtsp /\ u.d.mRtspState = "OPTIONS_DONE"
        /\ u.d.mContentBase = y.d.mContentBase
        /\ u.d.leaked = y.d.leaked /\ u.d.mReceiver = y.d.mReceiver
        /\ u.d.mNetworkReadyForStop = y.d.mNetworkReadyForStop
        /\ SameInfo(y.d, u.d)
    BY <1>4, TornDownSet, Zenon
  <1> HIDE DEF u
  <1>6. Head(st.r.reqs).op \notin Asks /\ Head(st.r.reqs).op \in {"setup", "teardown"}
    BY <1>2, Zenon DEF Asks
  <1>7. Keeps(st, y)
    <2>1. SameTalk(st.d, y.d) /\ y.r = Rest.r /\ y.s = st.s /\ SameElems(st, y)
      BY <1>3, <1>4, SameElemsTransitive, Zenon
    <2>2. SameButInfo(st, y) /\ SameButOwed(st, y)
      BY <1>3, <1>4, <2>1, Zenon DEF SameButInfo, SameButOwed, SameLife, SameElems, SameInfo
    <2>3. AsksInv(st) => AsksInv(y)
      <3>1. /\ y.r.reqs = Tail(st.r.reqs) /\ y.d.rtsp = st.d.rtsp
            /\ y.d.mRtspSessionId = st.d.mRtspSessionId /\ y.d.mSeeking = st.d.mSeeking
        BY <1>3, <1>4, <2>1, Zenon DEF SameTalk
      <3>. QED
        BY <1>2, <1>3, <1>6, <2>1, <3>1, AsksAnswered, Zenon
    <2>. QED
      BY <1>2, <1>3, <1>4, <2>1, <2>2, <2>3, AnsweredKeeps, Zenon
  <1>8. Keeps(st, u)
    <2>1. /\ u.s = st.s /\ SameElems(st, u) /\ u.r.conn = st.r.conn
          /\ u.r.reqs = Tail(st.r.reqs)
      <3>1. SameElems(st, u)
        BY <1>3, <1>4, <1>5, SameElemsTransitive, Zenon
      <3>. QED
        BY <1>3, <1>4, <1>5, <3>1, Zenon
    <2>2. /\ u.d.mState = st.d.mState /\ u.d.mSeeking = st.d.mSeeking
          /\ u.d.rtsp = st.d.rtsp /\ u.d.mContentBase = st.d.mContentBase
          /\ u.d.leaked = st.d.leaked /\ u.d.mReceiver = st.d.mReceiver
          /\ u.d.mNetworkReadyForStop = st.d.mNetworkReadyForStop
      BY <1>3, <1>4, <1>5, Zenon DEF SameTalk
    <2>3. SameButInfo(st, u) /\ SameLife(st, u)
      BY <1>3, <1>4, <1>5, <2>1, <2>2, Zenon DEF SameButInfo, SameLife, SameElems, SameInfo
    <2>4. ASSUME NEW ops
          PROVE  /\ Waits(st, ops) <=> Waits(u, ops) \/ Head(st.r.reqs).op \in ops
                 /\ AtMostOne(st, ops) => AtMostOne(u, ops)
      BY <1>2, <1>3, <2>1, RequestAnswered, Zenon
    <2>5. LifeInv(st) /\ TalkInv(st)
      BY Zenon DEF DialogueInv
    <2>6. st.d.mState # "STARTED"
      <3>1. Waits(st, {"teardown"})
        BY <1>2, <2>4, Zenon
      <3>. QED
        BY <2>5, <3>1, Zenon DEF TalkInv
    <2>7. /\ \A ops : Waits(u, ops) => Waits(st, ops)
          /\ AtMostOne(u, {"options", "describe", "setup"})
      <3>1. AtMostOne(st, {"options", "describe", "setup"})
        BY <2>5, Zenon DEF TalkInv
      <3>. QED
        BY <2>4, <3>1, Zenon
    <2>8. TalkInv(u)
      BY <1>2, <1>5, <2>1, <2>2, <2>5, <2>6, <2>7, Zenon DEF TalkInv
    <2>9. ReadyInv(st) => ReadyInv(u)
      BY <2>1, <2>2, <2>6, Zenon DEF ReadyInv
    <2>10. SocketsInv(st) => SocketsInv(u)
      BY <2>2, <2>6, <2>7, Zenon DEF SocketsInv
    <2>11. AsksInv(st) => AsksInv(u)
      BY <1>2, <1>3, <1>6, <2>1, <2>2, AsksAnswered, Zenon
    <2>. QED
      BY <1>5, <2>3, <2>8, <2>9, <2>10, <2>11, TalkKeeps, Zenon
  <1>. QED
    BY <1>1, <1>7, <1>8, Zenon

-----------------------------------------------------------------------------
(* onRtspPlayResp() and onRtspPauseResp().                                 *)

\* The answer to the oldest request, one of the application's, is told to it.
LEMMA AsksTold ==
  ASSUME NEW z, NEW y, AsksInv(z), z.s.mDemuxer, z.r.reqs \in Seq(ReqType), z.r.reqs # <<>>,
         NEW k \in Asks, Head(z.r.reqs).op = k, y.r.reqs = Tail(z.r.reqs),
         y.s.mDemuxer = z.s.mDemuxer, y.d.rtsp = z.d.rtsp,
         y.d.mRtspSessionId = z.d.mRtspSessionId,
         y.d.mSeeking <=> z.d.mSeeking /\ k = "pause",
         y.s.owed[k] = z.s.owed[k] - 1, \A j \in Asks : j # k => y.s.owed[j] = z.s.owed[j]
  PROVE  AsksInv(y)
  <1> DEFINE s == z.r.reqs
  <1>1. s \in Seq(ReqType) /\ s # <<>> /\ Head(s).op = k
    OBVIOUS
  <1>2. y.r.reqs = Tail(s)
    OBVIOUS
  <1>3. ASSUME NEW ops
        PROVE  /\ Waits(z, ops) <=> Waits(y, ops) \/ Head(s).op \in ops
               /\ AtMostOne(z, ops) => AtMostOne(y, ops)
               /\ AtMostOne(z, ops) /\ Head(s).op \in ops => ~Waits(y, ops)
    BY RequestAnswered, Zenon
  <1>4. /\ y.s.mDemuxer => y.d.rtsp
        /\ AtMostOne(z, {"play", "seek"}) /\ (z.d.mSeeking <=> Waits(z, {"seek"}))
    BY Zenon DEF AsksInv
  <1>5. AtMostOne(y, {"play", "seek"})
    BY <1>3, <1>4, Zenon
  <1>6. y.d.mSeeking <=> Waits(y, {"seek"})
    <2>1. CASE k = "pause"
      BY <1>1, <1>3, <1>4, <2>1, Zenon
    <2>2. CASE k # "pause"
      <3>1. Head(s).op \in {"play", "seek"}
        BY <1>1, <2>2, Zenon DEF Asks
      <3>2. ~Waits(y, {"play", "seek"})
        BY <1>3, <1>4, <3>1, Zenon
      <3>. QED
        BY <2>2, <3>2, Zenon DEF Waits
    <2>. QED
      BY <2>1, <2>2
  <1>7. \A j \in Asks : z.s.owed[j] = Cardinality(Kind(s, j))
    BY Zenon DEF AsksInv, Asks
  <1>8. \A i \in DOMAIN s : s[i].op \in Asks =>
           /\ s[i].sid = z.d.mRtspSessionId
           /\ \A j \in 1..(i - 1) : s[j].op \notin {"setup", "teardown"}
    BY SMT DEF AsksInv, Asks
  <1> HIDE DEF s
  <1>9. ASSUME NEW j \in Asks
        PROVE  y.s.owed[j] = Cardinality(Kind(y.r.reqs, j))
    <2>1. Cardinality(Kind(Tail(s), j)) =
             IF Head(s).op = j THEN Cardinality(Kind(s, j)) - 1 ELSE Cardinality(Kind(s, j))
      BY <1>1, CountAnswered, Zenon
    <2>. QED
      BY <1>1, <1>2, <1>7, <2>1, ZenonT(60)
  <1>10. ASSUME NEW i \in DOMAIN y.r.reqs, y.r.reqs[i].op \in Asks
         PROVE  /\ y.r.reqs[i].sid = y.d.mRtspSessionId
                /\ \A j \in 1..(i - 1) : y.r.reqs[j].op \notin {"setup", "teardown"}
    <2>1. /\ i + 1 \in DOMAIN s /\ y.r.reqs[i] = s[i + 1]
          /\ \A j \in 1..(i - 1) : j + 1 \in 1..((i + 1) - 1) /\ y.r.reqs[j] = s[j + 1]
      <3> DEFINE t == Tail(s)
      <3>1. y.r.reqs = t /\ i \in DOMAIN t
        BY <1>2
      <3>2. /\ i + 1 \in DOMAIN s /\ t[i] = s[i + 1]
            /\ \A j \in 1..(i - 1) : j + 1 \in 1..((i + 1) - 1) /\ t[j] = s[j + 1]
            /\ 1 \in 1..((i + 1) - 1) /\ s[1] = Head(s)
        BY <1>1, <3>1, TailShifts, Zenon
      <3> HIDE DEF t
      <3>. QED
        BY <3>1, <3>2, Zenon
    <2>. QED
      BY <1>8, <1>10, <2>1, Zenon
  <1>. QED
    BY <1>4, <1>5, <1>6, <1>9, <1>10, Zenon DEF AsksInv, Asks

LEMMA TellOK ==
  ASSUME NEW z \in StateType, NEW k \in Asks
  PROVE  LET y == Tell(z, k) IN
         /\ y \in StateType /\ y.d = z.d /\ y.r = z.r /\ SameElems(z, y)
         /\ SameButOwed(z, y)
         /\ z.s.owed[k] >= -MaxReqs => y.s.owed[k] = z.s.owed[k] - 1
         /\ \A j \in Asks : j # k => y.s.owed[j] = z.s.owed[j]
  <1> DEFINE n == IF z.s.owed[k] >= -MaxReqs THEN z.s.owed[k] - 1 ELSE z.s.owed[k]
  <1>1. n \in Int
    <2>1. z.s.owed[k] \in Int
      BY ReqsType, SMT DEF SessionType, Asks
    <2>. QED
      BY <2>1, SMT
  <1>2. Tell(z, k) = [z EXCEPT !.s.owed[k] = n]
    BY Zenon DEF Tell
  <1>3. z.s.owed[k] >= -MaxReqs => n = z.s.owed[k] - 1
    OBVIOUS
  <1> HIDE DEF n
  <1>4. LET y == [z EXCEPT !.s.owed[k] = n] IN
         /\ y \in StateType /\ y.d = z.d /\ y.r = z.r /\ SameElems(z, y)
         /\ SameButOwed(z, y)
         /\ y.s.owed[k] = n /\ \A j \in Asks : j # k => y.s.owed[j] = z.s.owed[j]
    BY <1>1, OwedSet, ZenonT(60)
  <1>. QED
    BY <1>2, <1>3, <1>4, Zenon

\* An answer that names its request names the RTSP session there is.
LEMMA AnswerIsOurs ==
  ASSUME OneAtATime, Good(st), AsksInv(st), st.s.mDemuxer, st.r.reqs # <<>>,
         Head(st.r.reqs).op \in Asks, NEW sid \in AnswerSids
  PROVE  /\ Ours(sid)
         /\ Head(st.r.reqs).op = "seek" => st.d.mSeeking
         /\ Head(st.r.reqs).op = "play" => ~st.d.mSeeking
         /\ st.s.owed[Head(st.r.reqs).op] >= -MaxReqs
  <1> DEFINE s == st.r.reqs
             k == Head(st.r.reqs).op
  <1>1. s \in Seq(ReqType) /\ s # <<>>
    BY ReqsType, Zenon DEF Good
  <1>2. 1 \in DOMAIN s /\ Head(s) = s[1]
    BY <1>1, SMT
  <1>3. sid = s[1].sid
    <2>1. sid \in {s[i].sid : i \in DOMAIN s \cap {1}}
      BY Zenon DEF AnswerSids, OneAtATime
    <2>. QED
      BY <2>1, Zenon
  <1>4. s[1].sid = st.d.mRtspSessionId
    BY <1>2, Zenon DEF AsksInv, Asks
  <1>5. AtMostOne(st, {"play", "seek"}) /\ (st.d.mSeeking <=> Waits(st, {"seek"}))
    BY Zenon DEF AsksInv
  <1>6. k = "seek" => st.d.mSeeking
    BY <1>2, <1>5, Zenon DEF Waits
  <1>7. k = "play" => ~st.d.mSeeking
    BY <1>2, <1>5, Zenon DEF Waits, AtMostOne
  <1>8. st.s.owed[k] >= -MaxReqs
    <2>1. st.s.owed[k] = Cardinality(Kind(s, k))
      BY Zenon DEF AsksInv, Asks
    <2>2. Cardinality(Kind(s, k)) \in 0..Len(s) /\ Len(s) \in Nat
      BY <1>1, CountFinite, SMT
    <2>3. MaxReqs \in Nat
      BY StreamConstantsOK, Zenon
    <2> HIDE DEF s, k
    <2>. QED
      BY <2>1, <2>2, <2>3, SMT
  <1>. QED
    BY <1>3, <1>4, <1>6, <1>7, <1>8, Zenon DEF Ours

\* A request of the application is answered: it is told so, and as long as the
\* requests are made one at a time it is told what it asked for.
LEMMA ToldKeeps ==
  ASSUME Good(st), DialogueInv(st), st.s.mDemuxer, st.r.reqs # <<>>,
         Head(st.r.reqs).op \in Asks, NEW k \in Asks, NEW y \in StateType,
         SameTalk(st.d, y.d), SameInfo(st.d, y.d), y.d.mState = st.d.mState,
         y.d.mSeeking <=> st.d.mSeeking /\ k = "pause",
         y.r = Rest.r, SameElems(st, y), SameButOwed(st, y),
         st.s.owed[k] >= -MaxReqs => y.s.owed[k] = st.s.owed[k] - 1,
         \A j \in Asks : j # k => y.s.owed[j] = st.s.owed[j],
         OneAtATime /\ AsksInv(st) => Head(st.r.reqs).op = k /\ st.s.owed[k] >= -MaxReqs
  PROVE  Keeps(st, y)
  <1>1. /\ y.r.conn = st.r.conn /\ y.r.idles = st.r.idles
        /\ y.r.reqs = Tail(st.r.reqs) /\ st.r.reqs \in Seq(ReqType)
    BY RestOK, ReqsType, Zenon DEF Good
  <1>2. SameButInfo(st, y)
    BY Zenon DEF SameButInfo, SameElems, SameInfo
  <1>3. OneAtATime /\ AsksInv(st) => AsksInv(y)
    <2>1. SUFFICES ASSUME OneAtATime, AsksInv(st) PROVE AsksInv(y)
      OBVIOUS
    <2>2. y.d.rtsp = st.d.rtsp /\ y.d.mRtspSessionId = st.d.mRtspSessionId
      BY Zenon DEF SameTalk
    <2>3. y.s.mDemuxer = st.s.mDemuxer
      BY Zenon DEF SameButOwed, SameLife
    <2>4. Head(st.r.reqs).op = k /\ y.s.owed[k] = st.s.owed[k] - 1
      BY <2>1, Zenon
    <2>. QED
      BY <1>1, <2>1, <2>2, <2>3, <2>4, AsksTold, Zenon
  <1>4. Head(st.r.reqs).op # "setup"
    BY Zenon DEF Asks
  <1>. QED
    BY <1>1, <1>2, <1>3, <1>4, AnsweredKeeps, Zenon

\* ... or it is not, when the answer names another session.
LEMMA UntoldKeeps ==
  ASSUME Good(st), DialogueInv(st), st.s.mDemuxer, st.r.reqs # <<>>,
         Head(st.r.reqs).op \in Asks, NEW sid \in AnswerSids, ~Ours(sid)
  PROVE  Keeps(st, Rest)
  <1>1. /\ Rest \in StateType /\ Rest.d = st.d /\ Rest.s = st.s /\ SameElems(st, Rest)
        /\ Rest.r.conn = st.r.conn /\ Rest.r.idles = st.r.idles
        /\ Rest.r.reqs = Tail(st.r.reqs)
    BY RestOK, Zenon
  <1>2. SameTalk(st.d, Rest.d) /\ SameButInfo(st, Rest) /\ SameButOwed(st, Rest)
    BY <1>1, Zenon DEF SameTalk, SameButInfo, SameButOwed, SameLife, SameElems
  <1>3. ~(OneAtATime /\ AsksInv(st))
    BY AnswerIsOurs, Zenon
  <1>4. Head(st.r.reqs).op # "setup"
    BY Zenon DEF Asks
  <1>. QED
    BY <1>1, <1>2, <1>3, <1>4, AnsweredKeeps, Zenon

\* onRtspPlayResp()
LEMMA PlayRespKeeps ==
  ASSUME Good(st), DialogueInv(st), OnRtspPlayResp
  PROVE  Keeps(st, st')
  <1> DEFINE k == IF st.d.mSeeking THEN "seek" ELSE "play"
             y == Tell(Rest, k)
             w == [y EXCEPT !.d.mSeeking = FALSE]
  <1>1. PICK h \in {"play", "seek"}, ok \in BOOLEAN : \E sid \in AnswerSids :
           Answered(h, ok) /\ st' = IF ok /\ ~Ours(sid) THEN Rest ELSE w
    BY Zenon DEF OnRtspPlayResp
  <1>2. PICK sid \in AnswerSids : Answered(h, ok) /\ st' = IF ok /\ ~Ours(sid) THEN Rest ELSE w
    BY <1>1, Zenon
  <1>3. /\ st.r.reqs # <<>> /\ Head(st.r.reqs).op = h /\ st.s.mDemuxer /\ h \in Asks
        /\ k \in Asks /\ k # "pause"
    BY <1>2, AnsweredOK, Zenon DEF Asks
  <1>4. CASE ok /\ ~Ours(sid)
    BY <1>2, <1>3, <1>4, UntoldKeeps, Zenon
  <1>5. CASE ~(ok /\ ~Ours(sid))
    <2>1. /\ Rest \in StateType /\ Rest.d = st.d /\ Rest.s = st.s /\ SameElems(st, Rest)
      BY <1>3, RestOK, Zenon
    <2>2. OneAtATime /\ AsksInv(st) => Head(st.r.reqs).op = k /\ st.s.owed[k] >= -MaxReqs
      <3>1. OneAtATime /\ AsksInv(st) =>
               /\ h = "seek" => st.d.mSeeking
               /\ h = "play" => ~st.d.mSeeking
               /\ st.s.owed[h] >= -MaxReqs
        BY <1>3, AnswerIsOurs, Zenon
      <3>2. OneAtATime /\ AsksInv(st) => h = k
        BY <3>1, Zenon
      <3>. QED
        BY <1>3, <3>1, <3>2, Zenon
    <2> HIDE DEF k
    <2>3. /\ y \in StateType /\ y.d = Rest.d /\ y.r = Rest.r /\ SameElems(Rest, y)
          /\ SameButOwed(Rest, y)
          /\ Rest.s.owed[k] >= -MaxReqs => y.s.owed[k] = Rest.s.owed[k] - 1
          /\ \A j \in Asks : j # k => y.s.owed[j] = Rest.s.owed[j]
      BY <1>3, <2>1, TellOK, Zenon
    <2> HIDE DEF y
    <2>4. /\ w \in StateType /\ w.s = y.s /\ w.r = y.r /\ SameElems(y, w)
          /\ SameTalk(y.d, w.d) /\ SameInfo(y.d, w.d)
          /\ w.d.mState = y.d.mState /\ w.d.mSeeking = FALSE
      BY <2>3, SeekingSet, Zenon
    <2> HIDE DEF w
    <2>5. /\ SameTalk(st.d, w.d) /\ SameInfo(st.d, w.d) /\ w.d.mState = st.d.mState
          /\ w.d.mSeeking <=> st.d.mSeeking /\ k = "pause"
          /\ w.r = Rest.r /\ SameElems(st, w)
      BY <1>3, <2>1, <2>3, <2>4, SameElemsTransitive, Zenon
    <2>6. /\ SameButOwed(st, w)
          /\ st.s.owed[k] >= -MaxReqs => w.s.owed[k] = st.s.owed[k] - 1
          /\ \A j \in Asks : j # k => w.s.owed[j] = st.s.owed[j]
      BY <2>1, <2>3, <2>4, Zenon DEF SameButOwed, SameLife
    <2>7. Keeps(st, w)
      BY <1>3, <2>2, <2>4, <2>5, <2>6, ToldKeeps, Zenon
    <2>. QED
      BY <1>2, <1>5, <2>7, Zenon
  <1>. QED
    BY <1>4, <1>5

\* onRtspPauseResp()
LEMMA PauseRespKeeps ==
  ASSUME Good(st), DialogueInv(st), OnRtspPauseResp
  PROVE  Keeps(st, st')
  <1> DEFINE k == "pause"
             y == Tell(Rest, k)
  <1>1. PICK ok \in BOOLEAN : \E sid \in AnswerSids :
           Answered(k, ok) /\ st' = IF ok /\ ~Ours(sid) THEN Rest ELSE y
    BY Zenon DEF OnRtspPauseResp
  <1>2. PICK sid \in AnswerSids : Answered(k, ok) /\ st' = IF ok /\ ~Ours(sid) THEN Rest ELSE y
    BY <1>1, Zenon
  <1>3. st.r.reqs # <<>> /\ Head(st.r.reqs).op = k /\ st.s.mDemuxer /\ k \in Asks
    BY <1>2, AnsweredOK, Zenon DEF Asks
  <1>4. CASE ok /\ ~Ours(sid)
    BY <1>2, <1>3, <1>4, UntoldKeeps, Zenon
  <1>5. CASE ~(ok /\ ~Ours(sid))
    <2>1. /\ Rest \in StateType /\ Rest.d = st.d /\ Rest.s = st.s /\ SameElems(st, Rest)
      BY <1>3, RestOK, Zenon
    <2>2. OneAtATime /\ AsksInv(st) => st.s.owed[k] >= -MaxReqs
      BY <1>3, AnswerIsOurs, Zenon
    <2>3. /\ y \in StateType /\ y.d = Rest.d /\ y.r = Rest.r /\ SameElems(Rest, y)
          /\ SameButOwed(Rest, y)
          /\ Rest.s.owed[k] >= -MaxReqs => y.s.owed[k] = Rest.s.owed[k] - 1
          /\ \A j \in Asks : j # k => y.s.owed[j] = Rest.s.owed[j]
      BY <1>3, <2>1, TellOK, Zenon
    <2> HIDE DEF y
    <2>4. /\ SameTalk(st.d, y.d) /\ SameInfo(st.d, y.d) /\ y.d.mState = st.d.mState
          /\ y.d.mSeeking <=> st.d.mSeeking /\ k = "pause"
          /\ y.r = Rest.r /\ SameElems(st, y)
      BY <2>1, <2>3, SameElemsTransitive, Zenon DEF SameTalk, SameInfo
    <2>5. /\ SameButOwed(st, y)
          /\ st.s.owed[k] >= -MaxReqs => y.s.owed[k] = st.s.owed[k] - 1
          /\ \A j \in Asks : j # k => y.s.owed[j] = st.s.owed[j]
      BY <2>1, <2>3, Zenon DEF SameButOwed, SameLife
    <2>6. Keeps(st, y)
      BY <1>3, <2>2, <2>3, <2>4, <2>5, ToldKeeps, Zenon
    <2>. QED
      BY <1>2, <1>5, <2>6, Zenon
  <1>. QED
    BY <1>4, <1>5

-----------------------------------------------------------------------------
(* The end of the demuxer, and a step of anybody.                          *)

LEMMA DeletedSet ==
  ASSUME NEW z \in StateType
  PROVE  LET y == [z EXCEPT !.d = [NewDemuxer EXCEPT !.leaked = z.d.leaked],
                            !.s.mDemuxer = FALSE, !.s.deleting = FALSE,
                            !.s.mDemuxerReady = FALSE, !.r = NewClient] IN
         /\ y \in StateType /\ SameElems(z, y) /\ y.r = NewClient
         /\ y.d.mState = "CREATED" /\ ~y.d.mSeeking /\ y.d.leaked = z.d.leaked
         /\ ~y.d.mCodecInfoChanging /\ y.d.mVideoMedia = None
         /\ ~y.d.mContentBase /\ y.d.mRtspState = "DISCONNECTED"
         /\ y.s.mState = z.s.mState /\ y.s.mReadyToPlay = z.s.mReadyToPlay
         /\ ~y.s.mDemuxer /\ ~y.s.deleting /\ ~y.s.mDemuxerReady
  <1> DEFINE d == [NewDemuxer EXCEPT !.leaked = z.d.leaked]
             s == [z.s EXCEPT !.mDemuxer = FALSE, !.deleting = FALSE, !.mDemuxerReady = FALSE]
             y == [z EXCEPT !.d = [NewDemuxer EXCEPT !.leaked = z.d.leaked],
                            !.s.mDemuxer = FALSE, !.s.deleting = FALSE,
                            !.s.mDemuxerReady = FALSE, !.r = NewClient]
  <1>1. z.d \in DemuxerType /\ z.s \in SessionType
    BY ReqsType, Zenon
  <1>2. NewDemuxer \in DemuxerType
    BY SMT DEF NewDemuxer, DemuxerType, ElementStates, RtspStates
  <1>3. /\ NewDemuxer.mState = "CREATED" /\ ~NewDemuxer.mSeeking
        /\ ~NewDemuxer.mCodecInfoChanging /\ NewDemuxer.mVideoMedia = None
        /\ ~NewDemuxer.mContentBase /\ NewDemuxer.mRtspState = "DISCONNECTED"
    BY SMT DEF NewDemuxer
  <1>4. d \in DemuxerType
    BY <1>1, <1>2, Zenon DEF DemuxerType
  <1>5. /\ d.mState = "CREATED" /\ ~d.mSeeking /\ d.leaked = z.d.leaked
        /\ ~d.mCodecInfoChanging /\ d.mVideoMedia = None
        /\ ~d.mContentBase /\ d.mRtspState = "DISCONNECTED"
    BY <1>2, <1>3, Zenon DEF DemuxerType
  <1>6. /\ s \in SessionType /\ s.mState = z.s.mState /\ s.mReadyToPlay = z.s.mReadyToPlay
        /\ ~s.mDemuxer /\ ~s.deleting /\ ~s.mDemuxerReady
    BY <1>1, Zenon DEF SessionType
  <1>7. NewClient \in ClientType
    BY SMT DEF NewClient, ClientType
  <1>8. y.d = d /\ y.s = s /\ y.r = NewClient /\ SameElems(z, y)
    BY Zenon DEF StateType, SessionType, SameElems
  <1>9. y \in StateType
    <2> HIDE DEF d
    <2>1. y = [z EXCEPT !.d = d, !.s = s, !.r = NewClient]
      BY Zenon DEF d
    <2> HIDE DEF s
    <2>2. [z EXCEPT !.d = d, !.s = s, !.r = NewClient] \in StateType
      BY <1>4, <1>6, <1>7, Zenon DEF StateType
    <2>. QED
      BY <2>1, <2>2, Zenon
  <1> HIDE DEF d, s, y
  <1>10. /\ y \in StateType /\ SameElems(z, y) /\ y.r = NewClient
         /\ y.d.mState = "CREATED" /\ ~y.d.mSeeking /\ y.d.leaked = z.d.leaked
         /\ ~y.d.mCodecInfoChanging /\ y.d.mVideoMedia = None
         /\ ~y.d.mContentBase /\ y.d.mRtspState = "DISCONNECTED"
         /\ y.s.mState = z.s.mState /\ y.s.mReadyToPlay = z.s.mReadyToPlay
         /\ ~y.s.mDemuxer /\ ~y.s.deleting /\ ~y.s.mDemuxerReady
    BY <1>5, <1>6, <1>8, <1>9, Zenon
  <1>. QED
    BY <1>10, Zenon DEF y

LEMMA NoRequests ==
  ASSUME NEW z, z.r.reqs = <<>>
  PROVE  /\ \A ops : ~Waits(z, ops) /\ AtMostOne(z, ops)
         /\ \A k : Cardinality(Kind(z.r.reqs, k)) = 0
         /\ \A i \in DOMAIN z.r.reqs : FALSE
  <1>1. DOMAIN z.r.reqs = {}
    BY SMT
  <1>2. \A k : Kind(z.r.reqs, k) = {}
    BY <1>1, Zenon DEF Kind
  <1>. QED
    BY <1>1, <1>2, FS_EmptySet, Zenon DEF Waits, AtMostOne

LEMMA DeleteKeeps ==
  ASSUME Good(st), DialogueInv(st), DeleteDemuxer
  PROVE  Keeps(st, st')
  <1> DEFINE y == [st EXCEPT !.d = [NewDemuxer EXCEPT !.leaked = st.d.leaked],
                             !.s.mDemuxer = FALSE, !.s.deleting = FALSE,
                             !.s.mDemuxerReady = FALSE, !.r = NewClient]
  <1>1. st' = y /\ st.s.deleting /\ st.loop.what = "none"
    BY Zenon DEF DeleteDemuxer, Free
  <1>2. /\ y \in StateType /\ SameElems(st, y) /\ y.r = NewClient
        /\ y.d.mState = "CREATED" /\ ~y.d.mSeeking /\ y.d.leaked = st.d.leaked
        /\ ~y.d.mCodecInfoChanging /\ y.d.mVideoMedia = None
        /\ ~y.d.mContentBase /\ y.d.mRtspState = "DISCONNECTED"
        /\ y.s.mState = st.s.mState /\ y.s.mReadyToPlay = st.s.mReadyToPlay
        /\ ~y.s.mDemuxer /\ ~y.s.deleting /\ ~y.s.mDemuxerReady
    BY DeletedSet, Zenon DEF Good
  <1> HIDE DEF y
  <1>3. y.r.conn = "none" /\ y.r.reqs = <<>> /\ y.r.idles = {}
    BY <1>2, SMT DEF NewClient
  <1>4. /\ \A ops : ~Waits(y, ops) /\ AtMostOne(y, ops)
        /\ \A k : Cardinality(Kind(y.r.reqs, k)) = 0
        /\ \A i \in DOMAIN y.r.reqs : FALSE
    BY <1>3, NoRequests, Zenon
  <1>5. st.d.mState = "STOPPED" /\ st.s.mState \in {"OPENED", "CLOSING", "CLOSED"}
    BY <1>1, Zenon DEF DialogueInv, LifeInv
  <1>6. Good(y)
    BY <1>2, Zenon DEF Good, DecoderLeft
  <1>7. LifeInv(y)
    BY <1>1, <1>2, <1>5, Zenon DEF LifeInv, SameElems
  <1>8. TalkInv(y)
    BY <1>2, <1>3, <1>4, Zenon DEF TalkInv
  <1>9. ReadyInv(st) => ReadyInv(y)
    BY <1>2, <1>5, Zenon DEF ReadyInv
  <1>10. SocketsInv(st) => SocketsInv(y)
    BY <1>2, <1>4, Zenon DEF SocketsInv
  <1>11. AsksInv(y)
    BY <1>2, <1>4, Zenon DEF AsksInv
  <1>12. ChannelsInv(st) => ChannelsInv(y)
    BY <1>1, <1>2, <1>5, Zenon DEF ChannelsInv, SameElems
  <1>13. CodecInfoInv(y)
    BY <1>2, Zenon DEF CodecInfoInv
  <1>14. Final(st, y)
    BY <1>5, Zenon DEF Final
  <1>. QED
    BY <1>1, <1>6, <1>7, <1>8, <1>9, <1>10, <1>11, <1>12, <1>13, <1>14, Zenon
       DEF Keeps, DialogueInv

\* Whatever happens once the demuxer was opened.
LEMMA StepKeeps ==
  ASSUME Orderly, Good(st), DialogueInv(st), [Next]_st
  PROVE  Keeps(st, st')
  <1>1. st.s.mState \in {"OPENED", "CLOSING", "CLOSED"}
    BY Zenon DEF DialogueInv, LifeInv
  <1>2. CASE UNCHANGED st
    <2>1. Keeps(st, st)
      BY SameButSession, Zenon DEF Good, SameElems, SameLife
    <2>. QED
      BY <1>2, <2>1, Zenon
  <1>3. CASE LoopStep
    <2>1. st.loop.what = "stop" => st.d.mState \in {"STOPPING", "STOPPED"}
      BY Zenon DEF DialogueInv, LifeInv
    <2>2. DownStep(st, st')
      BY <1>1, <1>3, <2>1, LoopStepOK, Zenon
    <2>. QED
      BY <2>2, DownKeeps, Zenon
  <1>4. CASE AppEvent
    <2>1. CASE OpenUrl \/ OpenDirect
      BY <1>1, <2>1, Zenon DEF OpenUrl, OpenDirect
    <2>2. CASE Close
      BY <2>2, CloseKeeps, Zenon
    <2>3. CASE Play \/ Pause \/ SeekTo
      BY <2>3, AsksKeep, Zenon
    <2>4. CASE \E c \in Sinks : StartVideoSink(c) \/ StopVideoSink(c) \/ ResyncVideoSink(c)
      <3>1. PICK c \in Sinks : StartVideoSink(c) \/ StopVideoSink(c) \/ ResyncVideoSink(c)
        BY <2>4, Zenon
      <3>2. DownStep(st, st')
        BY <1>1, <3>1, StartVideoSinkOK, StopVideoSinkOK, ResyncVideoSinkOK, Zenon
      <3>. QED
        BY <3>2, DownKeeps, Zenon
    <2>. QED
      BY <1>4, <2>1, <2>2, <2>3, <2>4, Zenon DEF AppEvent
  <1>5. CASE RtspEvent
    <2>1. CASE Connected \/ Disconnected \/ ConnectionLost
      BY <2>1, ConnectionKeeps, Zenon
    <2>2. CASE IdleRtspDisconnect \/ IdleStop \/ OnRtspSessionRemoved
      BY <2>2, IdlesKeep, Zenon
    <2>3. CASE ServerAnswers
      BY <2>3, OptionsKeep, DescribeKeep, SetupKeeps, PlayRespKeeps, PauseRespKeeps,
         TeardownKeeps, Zenon DEF ServerAnswers
    <2>4. CASE OnRtspAnnounce
      BY <2>4, AnnounceKeeps, Zenon
    <2>. QED
      BY <1>5, <2>1, <2>2, <2>3, <2>4, Zenon DEF RtspEvent
  <1>6. CASE StreamEvent
    <2>1. CASE \E info \in Infos : CodecInfoChanged(info)
      BY <2>1, CodecInfoChangedOK, DownKeeps, Zenon
    <2>2. CASE RecvFrame \/ RecvFrameNoBuffer
      BY <2>2, RecvFrameOK, DownKeeps, Zenon
    <2>3. CASE Goodbye
      BY <2>3, GoodbyeKeeps, Zenon
    <2>. QED
      BY <1>6, <2>1, <2>2, <2>3, Zenon DEF StreamEvent
  <1>7. CASE Downstream
    <2>1. PICK c \in Chans : ElementFlushed(c) \/ DecoderStopped(c)
      BY <1>7, Zenon DEF Downstream
    <2>2. DownStep(st, st')
      BY <1>1, <2>1, ElementFlushedOK, DecoderStoppedOK, Zenon
    <2>. QED
      BY <2>2, DownKeeps, Zenon
  <1>8. CASE DeleteDemuxer
    BY <1>8, DeleteKeeps, Zenon
  <1>. QED
    BY <1>2, <1>3, <1>4, <1>5, <1>6, <1>7, <1>8, Zenon DEF Next

-----------------------------------------------------------------------------
(* The open of a session.                                                  *)

LEMMA FreshOK ==
  /\ Fresh \in StateType /\ Fresh.out = <<>> /\ Fresh.loop = NoLoop
  /\ Fresh.d.mState = "CREATED" /\ ~Fresh.d.mSeeking /\ ~Fresh.d.leaked /\ ~Fresh.d.rtsp
  /\ ~Fresh.d.mCodecInfoChanging /\ Fresh.d.mVideoMedia = None /\ Fresh.d.mCodecInfo = None
  /\ ~Fresh.d.mContentBase /\ Fresh.d.mRtspState = "DISCONNECTED"
  /\ ~Fresh.d.mReceiver /\ ~Fresh.d.socks /\ ~Fresh.d.mNetworkReadyForStop
  /\ Fresh.s.mState = "CREATED" /\ ~Fresh.s.mDemuxer /\ ~Fresh.s.deleting
  /\ ~Fresh.s.mReadyToPlay /\ ~Fresh.s.mDemuxerReady
  /\ \A k \in Asks : Fresh.s.owed[k] = 0
  /\ Fresh.r = NewClient /\ Fresh.r.conn = "none" /\ Fresh.r.reqs = <<>> /\ Fresh.r.idles = {}
  /\ Fresh.loop.what = "none"
  /\ \A c \in Chans : Fresh.est[c] = "none" /\ ~Fresh.ch[c].asked
  <1>1. /\ Fresh.d = NewDemuxer /\ Fresh.s = NewSession /\ Fresh.r = NewClient
        /\ Fresh.out = <<>> /\ Fresh.loop = NoLoop
    BY SMT DEF Fresh
  <1>2. /\ NewDemuxer \in DemuxerType
        /\ NewDemuxer.mState = "CREATED" /\ ~NewDemuxer.mSeeking /\ ~NewDemuxer.leaked
        /\ ~NewDemuxer.rtsp
        /\ ~NewDemuxer.mCodecInfoChanging /\ NewDemuxer.mVideoMedia = None
        /\ NewDemuxer.mCodecInfo = None
        /\ ~NewDemuxer.mContentBase /\ NewDemuxer.mRtspState = "DISCONNECTED"
        /\ ~NewDemuxer.mReceiver /\ ~NewDemuxer.socks /\ ~NewDemuxer.mNetworkReadyForStop
    BY SMT DEF NewDemuxer, DemuxerType, ElementStates, RtspStates
  <1>3. /\ NewSession \in SessionType
        /\ NewSession.mState = "CREATED" /\ ~NewSession.mDemuxer /\ ~NewSession.deleting
        /\ ~NewSession.mReadyToPlay /\ ~NewSession.mDemuxerReady
        /\ \A k \in Asks : NewSession.owed[k] = 0
    BY SMT DEF NewSession, SessionType, Asks
  <1>4. /\ NewClient \in ClientType
        /\ NewClient.conn = "none" /\ NewClient.reqs = <<>> /\ NewClient.idles = {}
    BY SMT DEF NewClient, ClientType
  <1>5. NoLoop \in LoopType /\ NoLoop.what = "none"
    BY SMT DEF NoLoop, LoopType
  <1>6. /\ [c \in Chans |-> NewChan] \in [Chans -> ChanType]
        /\ [c \in Chans |-> "none"] \in [Chans -> {"none", "STARTED", "STOPPING"}]
    BY SMT DEF NewChan, ChanType
  <1>7. Fresh \in StateType
    <2>1. <<>> \in Seq(Chans)
      BY SMT
    <2>. QED
      BY <1>2, <1>3, <1>4, <1>5, <1>6, <2>1, SMT DEF Fresh, StateType
  <1>8. \A c \in Chans : Fresh.est[c] = "none" /\ ~Fresh.ch[c].asked
    BY SMT DEF Fresh, NewChan
  <1>. QED
    BY <1>1, <1>2, <1>3, <1>4, <1>5, <1>7, <1>8, Zenon

\* Everything that is always true, at once.
Invs(z) ==
    /\ z = Fresh \/ (Good(z) /\ DialogueInv(z))
    /\ StaysConnected => ReadyInv(z)
    /\ SetupWorks => SocketsInv(z)
    /\ OneAtATime => AsksInv(z)
    /\ DecodeAll /\ StaysConnected => ChannelsInv(z) /\ (InBand => CodecInfoInv(z))
StreamInv == Invs(st)

LEMMA FreshInvs == Invs(Fresh)
  <1>1. /\ \A ops : ~Waits(Fresh, ops) /\ AtMostOne(Fresh, ops)
        /\ \A k : Cardinality(Kind(Fresh.r.reqs, k)) = 0
        /\ \A i \in DOMAIN Fresh.r.reqs : FALSE
    BY FreshOK, NoRequests, Zenon
  <1>2. ReadyInv(Fresh) /\ CodecInfoInv(Fresh)
    BY FreshOK, Zenon DEF ReadyInv, CodecInfoInv
  <1>3. SocketsInv(Fresh)
    BY FreshOK, <1>1, Zenon DEF SocketsInv
  <1>4. AsksInv(Fresh)
    BY FreshOK, <1>1, Zenon DEF AsksInv, Asks
  <1>5. ChannelsInv(Fresh)
    BY FreshOK, Zenon DEF ChannelsInv
  <1>. QED
    BY <1>2, <1>3, <1>4, <1>5, Zenon DEF Invs

\* The demuxer of a URL waits for its connection; the one of addresses is ready.
LEMMA OpenedInvs ==
  ASSUME NEW y \in StateType, SameElems(Fresh, y), y.d.mState = "STARTED",
         ~y.d.mSeeking, ~y.d.leaked, ~y.d.mCodecInfoChanging, y.d.mVideoMedia = None,
         y.d.mCodecInfo = None, ~y.d.mContentBase, y.d.mRtspState = "DISCONNECTED",
         ~y.d.mNetworkReadyForStop, y.r.reqs = <<>>, y.r.idles = {},
         y.s.mState = "OPENED", y.s.mDemuxer, ~y.s.deleting,
         \A k \in Asks : y.s.owed[k] = 0,
         \/ /\ y.d.rtsp /\ y.r.conn = "connecting" /\ ~y.d.mReceiver /\ ~y.d.socks
            /\ ~y.s.mReadyToPlay /\ ~y.s.mDemuxerReady
         \/ /\ ~y.d.rtsp /\ y.r.conn = "none" /\ y.d.mReceiver /\ "direct" \in Allowed
            /\ y.s.mDemuxerReady
  PROVE  Invs(y)
  <1>1. /\ \A ops : ~Waits(y, ops) /\ AtMostOne(y, ops)
        /\ \A k : Cardinality(Kind(y.r.reqs, k)) = 0
        /\ \A i \in DOMAIN y.r.reqs : FALSE
    BY NoRequests, Zenon
  <1>2. y.out = <<>> /\ y.loop.what = "none"
    BY FreshOK, Zenon DEF SameElems
  <1>3. Good(y)
    BY Zenon DEF Good, DecoderLeft
  <1>4. LifeInv(y)
    BY <1>2, Zenon DEF LifeInv
  <1>5. TalkInv(y)
    BY <1>1, Zenon DEF TalkInv
  <1>6. ReadyInv(y)
    BY Zenon DEF ReadyInv
  <1>7. SocketsInv(y)
    BY <1>1, Zenon DEF SocketsInv
  <1>8. OneAtATime => AsksInv(y)
    <2>1. OneAtATime => y.d.rtsp
      BY Zenon DEF OneAtATime
    <2>. QED
      BY <1>1, <2>1, Zenon DEF AsksInv, Asks
  <1>9. ChannelsInv(y) /\ CodecInfoInv(y)
    BY <1>2, Zenon DEF ChannelsInv, CodecInfoInv
  <1>. QED
    BY <1>3, <1>4, <1>5, <1>6, <1>7, <1>8, <1>9, Zenon DEF Invs, DialogueInv

\* setState(STARTED) of a demuxer that starts
LEMMA StartedOK ==
  ASSUME NEW z \in StateType, z.d.mState # "STARTED"
  PROVE  LET y == SetState(z, "STARTED") IN
         /\ y \in StateType /\ y.d = [z.d EXCEPT !.mState = "STARTED"]
         /\ y.r = z.r /\ SameElems(z, y)
         /\ y.s.mState = "OPENED"
         /\ y.s.mReadyToPlay => z.s.mReadyToPlay \/ z.s.mDemuxerReady
         /\ y.s.mDemuxer = z.s.mDemuxer /\ y.s.deleting = z.s.deleting
         /\ y.s.mDemuxerReady = z.s.mDemuxerReady /\ y.s.owed = z.s.owed
  <1> DEFINE x == [z EXCEPT !.d.mState = "STARTED"]
             w == SessionState(x, "OPENED")
             n == IF w.s.opened < 2 THEN w.s.opened + 1 ELSE w.s.opened
             s == [w.s EXCEPT !.opened = n]
             y == SetState(z, "STARTED")
  <1>1. y = OpenResponse(w)
    BY Zenon DEF SetState
  <1>2. OpenResponse(w) = [w EXCEPT !.s = s]
    BY Zenon DEF OpenResponse
  <1>3. /\ x \in StateType /\ x.d = [z.d EXCEPT !.mState = "STARTED"]
        /\ x.s = z.s /\ x.r = z.r /\ SameElems(z, x)
    <2>1. "STARTED" \in ElementStates
      BY Zenon DEF ElementStates
    <2>. QED
      BY <2>1, StateSet, Zenon DEF SameElems
  <1> HIDE DEF x
  <1>4. /\ w \in StateType /\ w.d = x.d /\ w.r = x.r /\ SameElems(x, w)
        /\ w.s.mState = "OPENED"
        /\ w.s.mReadyToPlay => x.s.mReadyToPlay \/ x.s.mDemuxerReady
        /\ w.s.mDemuxer = x.s.mDemuxer /\ w.s.deleting = x.s.deleting
        /\ w.s.mDemuxerReady = x.s.mDemuxerReady /\ w.s.owed = x.s.owed
    <2>1. "OPENED" \in SessionStates
      BY Zenon DEF SessionStates
    <2>2. x \in StateType
      BY <1>3, Zenon
    <2>3. /\ w \in StateType
          /\ w.d = x.d /\ w.r = x.r /\ w.out = x.out /\ w.ch = x.ch /\ w.est = x.est
          /\ w.loop = x.loop
          /\ w.s.mState = "OPENED"
          /\ w.s.mReadyToPlay => x.s.mReadyToPlay \/ x.s.mDemuxerReady
          /\ w.s.mDemuxer = x.s.mDemuxer /\ w.s.deleting = x.s.deleting
          /\ w.s.mDemuxerReady = x.s.mDemuxerReady /\ w.s.owed = x.s.owed
      BY <2>1, <2>2, SessionStateOK, ZenonT(60)
    <2>. QED
      BY <2>3, Zenon DEF SameElems
  <1> HIDE DEF w
  <1>5. w.s \in SessionType
    BY <1>4, ReqsType, Zenon
  <1>6. n \in 0..2
    <2>1. w.s.opened \in 0..2
      BY <1>5, Zenon DEF SessionType
    <2>. QED
      BY <2>1, SMT
  <1> HIDE DEF n
  <1>7. /\ s \in SessionType /\ s.mState = w.s.mState /\ s.mReadyToPlay = w.s.mReadyToPlay
        /\ s.mDemuxer = w.s.mDemuxer /\ s.deleting = w.s.deleting
        /\ s.mDemuxerReady = w.s.mDemuxerReady /\ s.owed = w.s.owed
    BY <1>5, <1>6, Zenon DEF SessionType
  <1> HIDE DEF s, y
  <1>8. /\ y \in StateType /\ y.d = w.d /\ y.s = s /\ y.r = w.r /\ SameElems(w, y)
    <2>1. LET v == [w EXCEPT !.s = s] IN
          v \in StateType /\ v.d = w.d /\ v.s = s /\ v.r = w.r /\ SameElems(w, v)
      BY <1>4, <1>7, SessionSet, Zenon
    <2>. QED
      BY <1>1, <1>2, <2>1, Zenon
  <1>9. SameElems(z, y)
    BY <1>3, <1>4, <1>8, SameElemsTransitive, Zenon
  <1>10. /\ y.d = [z.d EXCEPT !.mState = "STARTED"] /\ y.r = z.r
    BY <1>3, <1>4, <1>8, Zenon
  <1>11. /\ y.s.mState = "OPENED"
         /\ y.s.mReadyToPlay => z.s.mReadyToPlay \/ z.s.mDemuxerReady
         /\ y.s.mDemuxer = z.s.mDemuxer /\ y.s.deleting = z.s.deleting
         /\ y.s.mDemuxerReady = z.s.mDemuxerReady /\ y.s.owed = z.s.owed
    BY <1>3, <1>4, <1>7, <1>8, Zenon
  <1>. QED
    BY <1>8, <1>9, <1>10, <1>11, Zenon DEF y

LEMMA StartingOK ==
  ASSUME NEW z \in StateType, z.d.mState = "CREATED"
  PROVE  LET y == SetState(z, "STARTING") IN
         /\ y \in StateType /\ y.d = [z.d EXCEPT !.mState = "STARTING"]
         /\ y.s = z.s /\ y.r = z.r /\ SameElems(z, y)
  <1>1. SetState(z, "STARTING") = [z EXCEPT !.d.mState = "STARTING"]
    BY Zenon DEF SetState
  <1>2. "STARTING" \in ElementStates
    BY Zenon DEF ElementStates
  <1>3. LET y == [z EXCEPT !.d.mState = "STARTING"] IN
        /\ y \in StateType
        /\ y.d = [z.d EXCEPT !.mState = "STARTING"]
        /\ y.s = z.s /\ y.r = z.r /\ y.out = z.out /\ y.ch = z.ch /\ y.est = z.est
        /\ y.loop = z.loop /\ y.unsynced = z.unsynced
    BY <1>2, StateSet, Zenon
  <1>. QED
    BY <1>1, <1>3, Zenon DEF SameElems

LEMMA OpeningOK ==
  ASSUME st = Fresh
  PROVE  /\ Opening \in StateType /\ Opening.d = Fresh.d /\ Opening.r = Fresh.r
         /\ SameElems(Fresh, Opening)
         /\ Opening.s.mDemuxer /\ ~Opening.s.deleting
         /\ ~Opening.s.mDemuxerReady /\ ~Opening.s.mReadyToPlay
         /\ Opening.s.owed = Fresh.s.owed
  <1> DEFINE x == SessionState(Fresh, "OPENING")
             s == [x.s EXCEPT !.mDemuxer = TRUE]
  <1>1. Opening = [x EXCEPT !.s = s]
    BY Zenon DEF Opening
  <1>2. /\ x \in StateType /\ x.d = Fresh.d /\ x.r = Fresh.r /\ SameElems(Fresh, x)
        /\ ~x.s.mReadyToPlay /\ ~x.s.deleting /\ ~x.s.mDemuxerReady
        /\ x.s.owed = Fresh.s.owed
    <2>1. "OPENING" \in SessionStates /\ Fresh \in StateType
      BY FreshOK, Zenon DEF SessionStates
    <2>2. /\ x \in StateType
          /\ x.d = Fresh.d /\ x.r = Fresh.r /\ x.out = Fresh.out /\ x.ch = Fresh.ch
          /\ x.est = Fresh.est /\ x.loop = Fresh.loop
          /\ x.s.mReadyToPlay => (Fresh.s.mState = "OPENING" /\ Fresh.s.mReadyToPlay)
                                 \/ ("OPENING" = "OPENED" /\ Fresh.s.mDemuxerReady)
          /\ x.s.deleting = Fresh.s.deleting
          /\ x.s.mDemuxerReady = Fresh.s.mDemuxerReady /\ x.s.owed = Fresh.s.owed
      BY <2>1, SessionStateOK, ZenonT(60)
    <2>. QED
      BY <2>2, FreshOK, Zenon DEF SameElems
  <1> HIDE DEF x
  <1>3. x.s \in SessionType
    BY <1>2, ReqsType, Zenon
  <1>4. /\ s \in SessionType /\ s.mDemuxer /\ s.deleting = x.s.deleting
        /\ s.mDemuxerReady = x.s.mDemuxerReady /\ s.mReadyToPlay = x.s.mReadyToPlay
        /\ s.owed = x.s.owed
    BY <1>3, Zenon DEF SessionType
  <1> HIDE DEF s
  <1>5. /\ Opening \in StateType /\ Opening.d = x.d /\ Opening.s = s /\ Opening.r = x.r
        /\ SameElems(x, Opening)
    <2>1. LET y == [x EXCEPT !.s = s] IN
          y \in StateType /\ y.d = x.d /\ y.s = s /\ y.r = x.r /\ SameElems(x, y)
      BY <1>2, <1>4, SessionSet, Zenon
    <2>. QED
      BY <1>1, <2>1, Zenon
  <1>6. SameElems(Fresh, Opening)
    BY <1>2, <1>5, SameElemsTransitive, Zenon
  <1>. QED
    BY <1>2, <1>4, <1>5, <1>6, Zenon

LEMMA ConnectingSet ==
  ASSUME NEW z \in StateType
  PROVE  LET y == [z EXCEPT !.d.rtsp = TRUE, !.r.conn = "connecting"] IN
         /\ y \in StateType /\ y.d = [z.d EXCEPT !.rtsp = TRUE] /\ y.s = z.s /\ SameElems(z, y)
         /\ y.r.conn = "connecting" /\ y.r.reqs = z.r.reqs /\ y.r.idles = z.r.idles
  BY Zenon DEF StateType, DemuxerType, ClientType, SameElems

LEMMA UrlOpened ==
  ASSUME st = Fresh, OpenUrl
  PROVE  Invs(st')
  <1> DEFINE v == [Opening EXCEPT !.d.rtsp = TRUE, !.r.conn = "connecting"]
             w == SetState(v, "STARTING")
             y == SetState(w, "STARTED")
  <1>1. st' = y
    BY Zenon DEF OpenUrl
  <1>2. /\ Opening \in StateType /\ Opening.d = Fresh.d /\ Opening.r = Fresh.r
        /\ SameElems(Fresh, Opening)
        /\ Opening.s.mDemuxer /\ ~Opening.s.deleting
        /\ ~Opening.s.mDemuxerReady /\ ~Opening.s.mReadyToPlay
        /\ Opening.s.owed = Fresh.s.owed
    BY OpeningOK, Zenon
  <1>3. /\ v \in StateType /\ v.d = [Opening.d EXCEPT !.rtsp = TRUE] /\ v.s = Opening.s
        /\ SameElems(Opening, v)
        /\ v.r.conn = "connecting" /\ v.r.reqs = Opening.r.reqs /\ v.r.idles = Opening.r.idles
    BY <1>2, ConnectingSet, Zenon
  <1> HIDE DEF v
  <1>4. Fresh.d \in DemuxerType /\ v.d = [Fresh.d EXCEPT !.rtsp = TRUE]
    BY <1>2, <1>3, FreshOK, ReqsType, Zenon
  <1>5. /\ v.d.mState = "CREATED" /\ ~v.d.mSeeking /\ ~v.d.leaked /\ v.d.rtsp
        /\ ~v.d.mCodecInfoChanging /\ v.d.mVideoMedia = None /\ v.d.mCodecInfo = None
        /\ ~v.d.mContentBase /\ v.d.mRtspState = "DISCONNECTED"
        /\ ~v.d.mReceiver /\ ~v.d.socks /\ ~v.d.mNetworkReadyForStop
    BY <1>4, FreshOK, ZenonT(60) DEF DemuxerType
  <1>6. /\ w \in StateType /\ w.d = [v.d EXCEPT !.mState = "STARTING"]
        /\ w.s = v.s /\ w.r = v.r /\ SameElems(v, w)
    BY <1>3, <1>5, StartingOK, Zenon
  <1> HIDE DEF w
  <1>7. v.d \in DemuxerType /\ w.d \in DemuxerType
    BY <1>3, <1>6, ReqsType, Zenon
  <1>8. /\ w.d.mState = "STARTING" /\ ~w.d.mSeeking /\ ~w.d.leaked /\ w.d.rtsp
        /\ ~w.d.mCodecInfoChanging /\ w.d.mVideoMedia = None /\ w.d.mCodecInfo = None
        /\ ~w.d.mContentBase /\ w.d.mRtspState = "DISCONNECTED"
        /\ ~w.d.mReceiver /\ ~w.d.socks /\ ~w.d.mNetworkReadyForStop
    BY <1>5, <1>6, <1>7, ZenonT(60) DEF DemuxerType
  <1>9. w.d.mState # "STARTED"
    BY <1>8, Zenon
  <1>10. /\ y \in StateType /\ y.d = [w.d EXCEPT !.mState = "STARTED"]
         /\ y.r = w.r /\ SameElems(w, y)
         /\ y.s.mState = "OPENED"
         /\ y.s.mReadyToPlay => w.s.mReadyToPlay \/ w.s.mDemuxerReady
         /\ y.s.mDemuxer = w.s.mDemuxer /\ y.s.deleting = w.s.deleting
         /\ y.s.mDemuxerReady = w.s.mDemuxerReady /\ y.s.owed = w.s.owed
    BY <1>6, <1>9, StartedOK, Zenon
  <1> HIDE DEF y
  <1>11. /\ y.d.mState = "STARTED" /\ ~y.d.mSeeking /\ ~y.d.leaked /\ y.d.rtsp
         /\ ~y.d.mCodecInfoChanging /\ y.d.mVideoMedia = None /\ y.d.mCodecInfo = None
         /\ ~y.d.mContentBase /\ y.d.mRtspState = "DISCONNECTED"
         /\ ~y.d.mReceiver /\ ~y.d.socks /\ ~y.d.mNetworkReadyForStop
    BY <1>7, <1>8, <1>10, ZenonT(60) DEF DemuxerType
  <1>12. SameElems(Fresh, y)
    BY <1>2, <1>3, <1>6, <1>10, SameElemsTransitive, Zenon
  <1>13. /\ y.r.conn = "connecting" /\ y.r.reqs = <<>> /\ y.r.idles = {}
    <2>1. Fresh.r.reqs = <<>> /\ Fresh.r.idles = {}
      BY FreshOK, Zenon
    <2>2. y.r = v.r
      BY <1>6, <1>10, Zenon
    <2>. QED
      BY <1>2, <1>3, <2>1, <2>2, Zenon
  <1>14. w.s = Opening.s
    BY <1>3, <1>6, Zenon
  <1>15. /\ y.s.mDemuxer /\ ~y.s.deleting /\ ~y.s.mReadyToPlay /\ ~y.s.mDemuxerReady
         /\ \A k \in Asks : y.s.owed[k] = 0
    <2>1. \A k \in Asks : Fresh.s.owed[k] = 0
      BY FreshOK, Zenon
    <2>2. y.s.owed = Fresh.s.owed
      BY <1>2, <1>10, <1>14, Zenon
    <2>. QED
      BY <1>2, <1>10, <1>14, <2>1, <2>2, Zenon
  <1>16. Invs(y)
    BY <1>10, <1>11, <1>12, <1>13, <1>15, OpenedInvs, Zenon
  <1>. QED
    BY <1>1, <1>16, Zenon

LEMMA DirectOpened ==
  ASSUME st = Fresh, OpenDirect
  PROVE  Invs(st')
  <1> DEFINE w == SetState(Opening, "STARTING")
             a == StartRtpAvp(w, TRUE)
             b == OnReadyToPlay(a, TRUE)
             y == SetState(b, "STARTED")
  <1>1. st' = y /\ "direct" \in Allowed
    BY Zenon DEF OpenDirect
  <1>2. /\ Opening \in StateType /\ Opening.d = Fresh.d /\ Opening.r = Fresh.r
        /\ SameElems(Fresh, Opening)
        /\ Opening.s.mDemuxer /\ ~Opening.s.deleting
        /\ ~Opening.s.mDemuxerReady /\ ~Opening.s.mReadyToPlay
        /\ Opening.s.owed = Fresh.s.owed
    BY OpeningOK, Zenon
  <1>3. Fresh.d \in DemuxerType /\ Opening.d.mState = "CREATED"
    BY <1>2, FreshOK, ReqsType, Zenon
  <1>4. /\ w \in StateType /\ w.d = [Opening.d EXCEPT !.mState = "STARTING"]
        /\ w.s = Opening.s /\ w.r = Opening.r /\ SameElems(Opening, w)
    BY <1>2, <1>3, StartingOK, Zenon
  <1> HIDE DEF w
  <1>5. w.d = [Fresh.d EXCEPT !.mState = "STARTING"]
    BY <1>2, <1>4, Zenon
  <1>6. /\ w.d.mState = "STARTING" /\ ~w.d.mSeeking /\ ~w.d.leaked /\ ~w.d.rtsp
        /\ ~w.d.mCodecInfoChanging /\ w.d.mVideoMedia = None /\ w.d.mCodecInfo = None
        /\ ~w.d.mContentBase /\ w.d.mRtspState = "DISCONNECTED"
        /\ ~w.d.mReceiver /\ ~w.d.socks /\ ~w.d.mNetworkReadyForStop
    BY <1>3, <1>5, FreshOK, ZenonT(60) DEF DemuxerType
  <1>7. /\ a \in StateType /\ a.s = w.s /\ a.r = w.r /\ SameElems(w, a)
        /\ a.d.mState = w.d.mState /\ a.d.mSeeking = w.d.mSeeking
        /\ a.d.rtsp = w.d.rtsp /\ a.d.mRtspState = w.d.mRtspState
        /\ a.d.mContentBase = w.d.mContentBase
        /\ a.d.leaked => w.d.leaked \/ w.d.mReceiver
        /\ a.d.mReceiver <=> RtpAvpStarts(w, TRUE)
        /\ a.d.mNetworkReadyForStop = w.d.mNetworkReadyForStop
        /\ SameInfo(w.d, a.d)
    BY <1>4, ReceiverOK, Zenon
  <1> HIDE DEF a
  <1>8. a.d.mReceiver /\ ~a.d.leaked
    BY <1>6, <1>7, Zenon DEF RtpAvpStarts
  <1>9. /\ b \in StateType /\ b.d = a.d /\ b.r = a.r /\ SameElems(a, b)
        /\ b.s.mDemuxerReady
        /\ b.s.mState = a.s.mState /\ b.s.mDemuxer = a.s.mDemuxer
        /\ b.s.deleting = a.s.deleting /\ b.s.owed = a.s.owed
    BY <1>7, OnReadyToPlayOK, Zenon
  <1> HIDE DEF b
  <1>10. /\ b.d.mState = "STARTING" /\ ~b.d.mSeeking /\ ~b.d.leaked /\ ~b.d.rtsp
         /\ ~b.d.mCodecInfoChanging /\ b.d.mVideoMedia = None /\ b.d.mCodecInfo = None
         /\ ~b.d.mContentBase /\ b.d.mRtspState = "DISCONNECTED"
         /\ b.d.mReceiver /\ ~b.d.mNetworkReadyForStop
    BY <1>6, <1>7, <1>8, <1>9, Zenon DEF SameInfo
  <1>11. b.d.mState # "STARTED" /\ b.d \in DemuxerType
    BY <1>9, <1>10, ReqsType, Zenon
  <1>12. /\ y \in StateType /\ y.d = [b.d EXCEPT !.mState = "STARTED"]
         /\ y.r = b.r /\ SameElems(b, y)
         /\ y.s.mState = "OPENED"
         /\ y.s.mDemuxer = b.s.mDemuxer /\ y.s.deleting = b.s.deleting
         /\ y.s.mDemuxerReady = b.s.mDemuxerReady /\ y.s.owed = b.s.owed
    BY <1>9, <1>11, StartedOK, Zenon
  <1> HIDE DEF y
  <1>13. /\ y.d.mState = "STARTED" /\ ~y.d.mSeeking /\ ~y.d.leaked /\ ~y.d.rtsp
         /\ ~y.d.mCodecInfoChanging /\ y.d.mVideoMedia = None /\ y.d.mCodecInfo = None
         /\ ~y.d.mContentBase /\ y.d.mRtspState = "DISCONNECTED"
         /\ y.d.mReceiver /\ ~y.d.mNetworkReadyForStop
    BY <1>10, <1>11, <1>12, ZenonT(60) DEF DemuxerType
  <1>14. SameElems(Fresh, y)
    BY <1>2, <1>4, <1>7, <1>9, <1>12, SameElemsTransitive, Zenon
  <1>15. y.r = Fresh.r
    BY <1>2, <1>4, <1>7, <1>9, <1>12, ZenonT(60)
  <1>16. /\ y.r.conn = "none" /\ y.r.reqs = <<>> /\ y.r.idles = {}
    BY <1>15, FreshOK, Zenon
  <1>17. a.s = Opening.s
    BY <1>4, <1>7, Zenon
  <1>18. /\ y.s.mDemuxer /\ ~y.s.deleting /\ y.s.mDemuxerReady
         /\ \A k \in Asks : y.s.owed[k] = 0
    <2>1. \A k \in Asks : Fresh.s.owed[k] = 0
      BY FreshOK, Zenon
    <2>2. y.s.owed = Fresh.s.owed
      BY <1>2, <1>9, <1>12, <1>17, Zenon
    <2>. QED
      BY <1>2, <1>9, <1>12, <1>17, <2>1, <2>2, Zenon
  <1>19. Invs(y)
    BY <1>1, <1>12, <1>13, <1>14, <1>16, <1>18, OpenedInvs, Zenon
  <1>. QED
    BY <1>1, <1>19, Zenon

-----------------------------------------------------------------------------
(* The theorems.                                                           *)

\* Nothing happens to a session that is not opened.
LEMMA FirstStep ==
  ASSUME st = Fresh, [Next]_st
  PROVE  (UNCHANGED st \/ OpenUrl \/ OpenDirect) /\ Invs(st')
  <1>1. /\ st.loop.what = "none" /\ st.s.mState = "CREATED" /\ ~st.d.mReceiver
        /\ ~st.s.deleting /\ ~st.s.mDemuxer
        /\ st.r.conn = "none" /\ st.r.reqs = <<>> /\ st.r.idles = {}
        /\ \A c \in Chans : st.est[c] = "none" /\ ~st.ch[c].asked
    BY FreshOK, Zenon
  <1>2. ~LoopStep
    BY <1>1, Zenon DEF LoopStep, FlushChannel, FlushEnd, TeardownChannel, TeardownEnd, Looping
  <1>3. ~(Close \/ Play \/ Pause \/ SeekTo)
    BY <1>1, Zenon DEF Close, Play, Pause, SeekTo, MayAsk
  <1>4. ~\E c \in Sinks : StartVideoSink(c) \/ StopVideoSink(c) \/ ResyncVideoSink(c)
    <2>1. \A c \in Sinks : st.est[c] # "STARTED"
      BY <1>1, Zenon DEF Chans
    <2>. QED
      BY <1>1, <2>1, Zenon DEF StartVideoSink, StopVideoSink, ResyncVideoSink
  <1>5. ~RtspEvent
    <2>1. ~(Connected \/ Disconnected \/ ConnectionLost \/ IdleRtspDisconnect \/ IdleStop)
      BY <1>1, Zenon DEF Connected, Disconnected, ConnectionLost, IdleRtspDisconnect, IdleStop
    <2>2. \A op, ok : ~Answered(op, ok)
      BY <1>1, Zenon DEF Answered
    <2>3. ~ServerAnswers
      BY <2>2, Zenon DEF ServerAnswers, OnRtspOptionsResp, OnRtspDescribeResp,
         OnRtspSetupResp, OnRtspPlayResp, OnRtspPauseResp, OnRtspTeardownResp
    <2>4. ~(OnRtspAnnounce \/ OnRtspSessionRemoved)
      BY <1>1, Zenon DEF OnRtspAnnounce, OnRtspSessionRemoved
    <2>. QED
      BY <2>1, <2>3, <2>4, Zenon DEF RtspEvent
  <1>6. ~StreamEvent
    BY <1>1, Zenon DEF StreamEvent, CodecInfoChanged, RecvFrame, RecvFrameNoBuffer, Goodbye,
       Receives
  <1>7. ~Downstream
    BY <1>1, Zenon DEF Downstream, ElementFlushed, DecoderStopped
  <1>8. ~DeleteDemuxer
    BY <1>1, Zenon DEF DeleteDemuxer
  <1>9. UNCHANGED st \/ OpenUrl \/ OpenDirect
    BY <1>2, <1>3, <1>4, <1>5, <1>6, <1>7, <1>8, Zenon DEF Next, AppEvent
  <1>10. UNCHANGED st => Invs(st')
    BY FreshInvs, Zenon
  <1>. QED
    BY <1>9, <1>10, UrlOpened, DirectOpened, Zenon

\* Every step keeps all of it, and the demuxer that stops goes on stopping.
LEMMA StreamInductive ==
  ASSUME Orderly, StreamInv, [Next]_st
  PROVE  StreamInv' /\ (st.d.mState = "STOPPING" => st'.d.mState \in {"STOPPING", "STOPPED"})
  <1>1. CASE st = Fresh
    <2>1. Invs(st')
      BY <1>1, FirstStep, Zenon
    <2>2. st.d.mState # "STOPPING"
      BY <1>1, FreshOK, Zenon
    <2>. QED
      BY <2>1, <2>2, Zenon DEF StreamInv
  <1>2. CASE st # Fresh
    <2>1. Good(st) /\ DialogueInv(st)
      BY <1>2, Zenon DEF StreamInv, Invs
    <2>2. Keeps(st, st')
      BY <2>1, StepKeeps, Zenon
    <2>3. OneAtATime => StaysConnected
      BY Zenon DEF OneAtATime, StaysConnected
    <2>4. /\ StaysConnected => ReadyInv(st)
          /\ SetupWorks => SocketsInv(st)
          /\ OneAtATime => AsksInv(st)
          /\ DecodeAll /\ StaysConnected => ChannelsInv(st) /\ (InBand => CodecInfoInv(st))
      BY Zenon DEF StreamInv, Invs
    <2>5. /\ Good(st') /\ DialogueInv(st')
          /\ StaysConnected => ReadyInv(st')
          /\ SetupWorks => SocketsInv(st')
          /\ OneAtATime => AsksInv(st')
          /\ DecodeAll /\ StaysConnected => ChannelsInv(st') /\ (InBand => CodecInfoInv(st'))
      BY <2>2, <2>3, <2>4, Zenon DEF Keeps
    <2>6. Invs(st')
      BY <2>5, Zenon DEF Invs
    <2>. QED
      BY <2>2, <2>6, Zenon DEF StreamInv, Keeps, Final
  <1>. QED
    BY <1>1, <1>2

\* The inductive invariant, whatever else the server and the application do.
THEOREM StreamInvariance == ASSUME Orderly PROVE Spec => []StreamInv
  <1>1. Init => StreamInv
    BY FreshInvs, Zenon DEF Init, StreamInv
  <1>2. StreamInv /\ [Next]_st => StreamInv'
    BY StreamInductive, Zenon
  <1>. QED
    BY <1>1, <1>2, PTL DEF Spec

\* What every state is, and what it says of the state.
LEMMA StreamTypes ==
  ASSUME StreamInv
  PROVE  /\ st \in StateType
         /\ st = Fresh \/ DialogueInv(st)
  BY FreshOK, Zenon DEF StreamInv, Invs, Good

\* Every state is of its type: no answer, frame or loop leaves a field of the
\* session, the demuxer or an element with a value that has no meaning.
THEOREM StreamTypeCorrect == ASSUME Orderly PROVE Spec => []StreamTypeOK
  <1>1. StreamInv => StreamTypeOK
    BY StreamTypes, Zenon DEF StreamTypeOK
  <1>. QED
    BY <1>1, StreamInvariance, PTL

\* A demuxer that stops is never started again, neither by a description that
\* arrives meanwhile nor by a setup that was under way.
THEOREM StopsForGood == ASSUME Orderly PROVE Spec => StopIsFinal
  <1>1. StreamInv /\ [Next]_st =>
           [st.d.mState = "STOPPING" => st'.d.mState \in {"STOPPING", "STOPPED"}]_st
    BY StreamInductive, Zenon
  <1>. QED
    BY <1>1, StreamInvariance, PTL DEF Spec, StopIsFinal

\* The application is told that it may play only when a play request would be
\* sent to a server whose stream is received.
THEOREM ReadyIsTrue ==
  ASSUME Orderly, StaysConnected PROVE Spec => []ReadyToPlayTruth
  <1>1. StreamInv => ReadyToPlayTruth
    BY Zenon DEF StreamInv, Invs, ReadyInv, ReadyToPlayTruth
  <1>. QED
    BY <1>1, StreamInvariance, PTL

\* Neither a socket nor a receiver is replaced while it is in use, however
\* often descriptions are announced.
THEOREM SocketsAreClosed ==
  ASSUME Orderly, SetupWorks PROVE Spec => []NothingLeaked
  <1>1. StreamInv => NothingLeaked
    BY Zenon DEF StreamInv, Invs, SocketsInv, NothingLeaked
  <1>. QED
    BY <1>1, StreamInvariance, PTL

\* Each play(), pause() and seekTo() has its answer, or its request is pending.
THEOREM OneAnswerEach ==
  ASSUME Orderly, OneAtATime PROVE Spec => []EachAnsweredOnce
  <1>1. StreamInv => EachAnsweredOnce
    <2>1. \A k : Pending(k) = Kind(st.r.reqs, k)
      BY Zenon DEF Pending, Kind
    <2>. QED
      BY <2>1, Zenon DEF StreamInv, Invs, AsksInv, EachAnsweredOnce
  <1>. QED
    BY <1>1, StreamInvariance, PTL

\* A demuxer is deleted once it has stopped and its media and its channels are
\* gone, in whatever order the loops over them and the answers go.
THEOREM DeletedWithoutMedia ==
  ASSUME Orderly, StaysConnected, DecodeAll PROVE Spec => []DeletedClean
  <1>1. StreamInv => DeletedClean
    <2>1. SUFFICES ASSUME StreamInv PROVE DeletedClean
      OBVIOUS
    <2>2. CASE st = Fresh
      BY <2>2, FreshOK, Zenon DEF DeletedClean
    <2>3. CASE DialogueInv(st)
      BY <2>1, <2>3, Zenon DEF StreamInv, Invs, ChannelsInv, DialogueInv, LifeInv,
         DeletedClean
    <2>. QED
      BY <2>1, <2>2, <2>3, StreamTypes, Zenon
  <1>. QED
    BY <1>1, StreamInvariance, PTL

\* Frames are waited for only with the media of their parameter sets.
THEOREM MediaFollowsStream ==
  ASSUME Orderly, StaysConnected, DecodeAll, InBand PROVE Spec => []MediaIsCurrent
  <1>1. StreamInv => MediaIsCurrent
    BY Zenon DEF StreamInv, Invs, CodecInfoInv, MediaIsCurrent
  <1>. QED
    BY <1>1, StreamInvariance, PTL

-----------------------------------------------------------------------------
(* The first frame of an element, with one element at a time.              *)

\* There is one element on the stream at a time: the decoder of its media, or
\* the one sink of an application that does not resynchronize it.
OneElement ==
    \/ Sinks = {}
    \/ ~DecodeAll /\ (\A b, c \in Sinks : b = c) /\ "resync" \notin Allowed

\* A state with the fields that the synchronization goes by.
Shape(z) ==
    /\ {"d", "s", "r", "out", "ch", "est", "loop", "unsynced"} \subseteq DOMAIN z
    /\ {"mState", "mVideoMedia", "mFlushing", "mIdrFrameSyncPending"} \subseteq DOMAIN z.d

\* What leaves the synchronization alone.
SameSync(z, y) ==
    /\ y.out = z.out /\ y.est = z.est /\ y.ch = z.ch /\ y.loop = z.loop
    /\ y.unsynced = z.unsynced /\ y.d.mVideoMedia = z.d.mVideoMedia
    /\ y.d.mFlushing = z.d.mFlushing
    /\ y.d.mIdrFrameSyncPending = z.d.mIdrFrameSyncPending
Alike(z, y) == Shape(y) /\ SameSync(z, y)

LEMMA ShapeOK ==
  ASSUME NEW z \in StateType
  PROVE  Shape(z) /\ Alike(z, z)
  <1>1. DOMAIN z = {"d", "s", "r", "out", "ch", "est", "loop", "unsynced"}
    BY SMT DEF StateType
  <1>2. z.d \in DemuxerType
    BY Zenon DEF StateType
  <1>3. {"mState", "mVideoMedia", "mFlushing", "mIdrFrameSyncPending"} \subseteq DOMAIN z.d
    BY <1>2, SMT DEF DemuxerType
  <1>. QED
    BY <1>1, <1>3, Zenon DEF Shape, Alike, SameSync

LEMMA AlikeTransitive ==
  ASSUME NEW x, NEW y, NEW z, Alike(x, y), Alike(y, z)
  PROVE  Alike(x, z)
  BY Zenon DEF Alike, SameSync

LEMMA AlikeSession ==
  ASSUME NEW z, Shape(z), NEW s
  PROVE  LET y == [z EXCEPT !.s = s] IN Alike(z, y) /\ y.d = z.d /\ y.r = z.r /\ y.s = s
  BY SMT DEF Shape, Alike, SameSync

LEMMA AlikeClient ==
  ASSUME NEW z, Shape(z), NEW r
  PROVE  LET y == [z EXCEPT !.r = r] IN Alike(z, y) /\ y.d = z.d /\ y.r = r /\ y.s = z.s
  BY SMT DEF Shape, Alike, SameSync

LEMMA AlikeDemuxer ==
  ASSUME NEW z, Shape(z), NEW d, DOMAIN d = DOMAIN z.d,
         d.mVideoMedia = z.d.mVideoMedia, d.mFlushing = z.d.mFlushing,
         d.mIdrFrameSyncPending = z.d.mIdrFrameSyncPending
  PROVE  LET y == [z EXCEPT !.d = d] IN Alike(z, y) /\ y.d = d /\ y.s = z.s /\ y.r = z.r
  BY SMT DEF Shape, Alike, SameSync

\* The operators of the session and of the dialogue leave it alone.
LEMMA AlikeReady ==
  ASSUME NEW z, Shape(z)
  PROVE  /\ Alike(z, UpdateReadyToPlay(z)) /\ Alike(z, OpenResponse(z))
         /\ \A ready : Alike(z, OnReadyToPlay(z, ready))
         /\ \A s : Alike(z, SessionState(z, s))
         /\ Alike(z, z)
  <1>1. ASSUME NEW x, Shape(x) PROVE Alike(x, UpdateReadyToPlay(x))
    BY <1>1, AlikeSession, Zenon DEF UpdateReadyToPlay
  <1>2. ASSUME NEW ready
        PROVE  Alike(z, OnReadyToPlay(z, ready))
    <2> DEFINE x == [z EXCEPT !.s.mDemuxerReady = ready]
    <2>1. Alike(z, x)
      BY AlikeSession, Zenon
    <2>2. OnReadyToPlay(z, ready) = UpdateReadyToPlay(x)
      BY Zenon DEF OnReadyToPlay
    <2> HIDE DEF x
    <2>. QED
      BY <1>1, <2>1, <2>2, AlikeTransitive, Zenon DEF Alike
  <1>3. Alike(z, z)
    BY Zenon DEF Alike, SameSync
  <1>4. ASSUME NEW s
        PROVE  Alike(z, SessionState(z, s))
    <2> DEFINE x == [z EXCEPT !.s.mState = s]
    <2>1. Alike(z, x)
      BY AlikeSession, Zenon
    <2>2. SessionState(z, s) = z \/ SessionState(z, s) = UpdateReadyToPlay(x)
      BY Zenon DEF SessionState
    <2> HIDE DEF x
    <2>. QED
      BY <1>1, <1>3, <2>1, <2>2, AlikeTransitive, Zenon DEF Alike
  <1>5. Alike(z, OpenResponse(z))
    BY AlikeSession, Zenon DEF OpenResponse
  <1>. QED
    BY <1>1, <1>2, <1>3, <1>4, <1>5, Zenon

LEMMA AlikeStopped ==
  ASSUME NEW z, Shape(z)
  PROVE  /\ Alike(z, OnElementStopped(z)) /\ Alike(z, OnDemuxerStopped(z))
         /\ \A state : Alike(z, SetState(z, state))
         /\ Alike(z, Stopped(z))
  <1>1. ASSUME NEW x, Shape(x) PROVE Alike(x, OnElementStopped(x))
    <2> DEFINE w == SessionState(x, "CLOSED")
               v == [w EXCEPT !.s.closed = 1]
    <2>1. Alike(x, w) /\ Alike(x, x)
      BY <1>1, AlikeReady, Zenon
    <2>2. OnElementStopped(x) = x \/ OnElementStopped(x) = v
      BY Zenon DEF OnElementStopped, Closed
    <2> HIDE DEF w
    <2>3. Alike(w, v)
      BY <2>1, AlikeSession, Zenon DEF Alike
    <2> HIDE DEF v
    <2>. QED
      BY <2>1, <2>2, <2>3, AlikeTransitive, SMT
  <1>2. ASSUME NEW x, Shape(x) PROVE Alike(x, OnDemuxerStopped(x))
    <2> DEFINE y == [x EXCEPT !.s.deleting = TRUE]
               u == SessionState(y, "CREATED")
               w == [y EXCEPT !.s.mUrecoverableErrorOccured = TRUE]
    <2>1. Alike(x, y) /\ Shape(y)
      BY <1>2, AlikeSession, Zenon DEF Alike
    <2>2. \/ OnDemuxerStopped(x) = OnElementStopped(y)
          \/ OnDemuxerStopped(x) = OpenResponse(u)
          \/ OnDemuxerStopped(x) = w
      BY Zenon DEF OnDemuxerStopped
    <2> HIDE DEF y
    <2>3. Alike(y, OnElementStopped(y))
      BY <1>1, <2>1, Zenon
    <2>4. Alike(y, u) /\ Shape(u)
      BY <2>1, AlikeReady, Zenon DEF Alike
    <2> HIDE DEF u
    <2>5. Alike(u, OpenResponse(u))
      BY <2>4, AlikeReady, Zenon
    <2>6. Alike(y, w)
      BY <2>1, AlikeSession, Zenon
    <2> HIDE DEF w
    <2>7. Alike(y, OpenResponse(u))
      BY <2>4, <2>5, AlikeTransitive, SMT
    <2>8. Alike(y, OnDemuxerStopped(x))
      BY <2>2, <2>3, <2>6, <2>7, SMT
    <2>. QED
      BY <2>1, <2>8, AlikeTransitive, SMT
  <1>3. ASSUME NEW state
        PROVE  Alike(z, SetState(z, state))
    <2> DEFINE y == [z EXCEPT !.d.mState = state]
               u == SessionState(y, "OPENED")
    <2>1. Alike(z, y) /\ Shape(y)
      BY Zenon DEF Alike, SameSync, Shape
    <2>2. \/ SetState(z, state) = z \/ SetState(z, state) = y
          \/ SetState(z, state) = OpenResponse(u)
          \/ SetState(z, state) = OnDemuxerStopped(y)
      BY Zenon DEF SetState
    <2> HIDE DEF y
    <2>3. Alike(y, u) /\ Shape(u)
      BY <2>1, AlikeReady, Zenon DEF Alike
    <2> HIDE DEF u
    <2>4. Alike(u, OpenResponse(u)) /\ Alike(z, z)
      BY <2>3, AlikeReady, Zenon
    <2>5. Alike(y, OnDemuxerStopped(y))
      BY <1>2, <2>1, Zenon
    <2>. QED
      BY <2>1, <2>2, <2>3, <2>4, <2>5, AlikeTransitive, SMT
  <1>4. Alike(z, Stopped(z))
    <2> DEFINE y == SetState(z, "STOPPED")
               v == [y EXCEPT !.d.mChannelsReadyForStop = FALSE,
                              !.d.mNetworkReadyForStop = FALSE]
    <2>1. Alike(z, y) /\ Shape(y)
      BY <1>3, Zenon DEF Alike
    <2>2. Stopped(z) = v
      BY Zenon DEF Stopped
    <2> HIDE DEF y
    <2>3. Alike(y, v)
      BY <2>1, Zenon DEF Alike, SameSync, Shape
    <2>. QED
      BY <2>1, <2>2, <2>3, AlikeTransitive, Zenon
  <1>. QED
    BY <1>1, <1>2, <1>3, <1>4, Zenon

LEMMA AlikeReceiver ==
  ASSUME NEW z, Shape(z)
  PROVE  /\ Alike(z, StopRtpAvp(z)) /\ Alike(z, PrepareSetup(z))
         /\ \A ok : Alike(z, StartRtpAvp(z, ok))
  <1>1. Alike(z, StopRtpAvp(z))
    BY Zenon DEF StopRtpAvp, Alike, SameSync, Shape
  <1>2. Alike(z, PrepareSetup(z))
    <2> DEFINE y == [z EXCEPT !.d.leaked = @ \/ z.d.socks, !.d.socks = TRUE]
    <2>1. Alike(z, y)
      BY Zenon DEF Alike, SameSync, Shape
    <2>2. PrepareSetup(z) = z \/ PrepareSetup(z) = y
      BY Zenon DEF PrepareSetup
    <2>. QED
      BY <2>1, <2>2, AlikeReady, Zenon
  <1>3. ASSUME NEW ok
        PROVE  Alike(z, StartRtpAvp(z, ok))
    <2> DEFINE y == [z EXCEPT !.d.socks = TRUE, !.d.leaked = @ \/ z.d.mReceiver,
                              !.d.mReceiver = TRUE]
    <2>1. Alike(z, y)
      BY Zenon DEF Alike, SameSync, Shape
    <2>2. StartRtpAvp(z, ok) = StopRtpAvp(z) \/ StartRtpAvp(z, ok) = y
      BY Zenon DEF StartRtpAvp
    <2>. QED
      BY <1>1, <2>1, <2>2, Zenon
  <1>. QED
    BY <1>1, <1>2, <1>3, Zenon

LEMMA AlikeClientOps ==
  ASSUME NEW z, Shape(z)
  PROVE  /\ Alike(z, Disconnect(z)) /\ Alike(z, StopLater(z))
         /\ \A op : Alike(z, Send(z, op))
         /\ \A k : Alike(z, Tell(z, k))
         /\ \A k, sent : Alike(z, Ask(z, k, sent))
         /\ \A i : Alike(z, [z EXCEPT !.r.idles = i])
         /\ \A s : Alike(z, [z EXCEPT !.r.reqs = s])
         /\ \A c : Alike(z, [z EXCEPT !.r.conn = c])
  <1>1. ASSUME NEW x, Shape(x), NEW op PROVE Alike(x, Send(x, op))
    BY <1>1, AlikeClient, Zenon DEF Send
  <1>2. ASSUME NEW k, NEW sent PROVE Alike(z, Ask(z, k, sent))
    <2> DEFINE y == [z EXCEPT !.s.owed[k] = IF @ <= MaxReqs THEN @ + 1 ELSE @]
    <2>1. Alike(z, y) /\ Shape(y)
      BY AlikeSession, Zenon DEF Alike
    <2>2. Ask(z, k, sent) = y \/ Ask(z, k, sent) = Send(y, k) \/ Ask(z, k, sent) = z
      BY Zenon DEF Ask
    <2> HIDE DEF y
    <2>. QED
      BY <1>1, <2>1, <2>2, AlikeReady, AlikeTransitive, SMT
  <1>3. Alike(z, Disconnect(z)) /\ Alike(z, StopLater(z)) /\ \A k : Alike(z, Tell(z, k))
    BY AlikeClient, AlikeSession, Zenon DEF Disconnect, StopLater, Tell
  <1>4. /\ \A i : Alike(z, [z EXCEPT !.r.idles = i])
        /\ \A s : Alike(z, [z EXCEPT !.r.reqs = s])
        /\ \A c : Alike(z, [z EXCEPT !.r.conn = c])
    BY AlikeClient, Zenon
  <1>. QED
    BY <1>1, <1>2, <1>3, <1>4, Zenon

LEMMA AlikeFields ==
  ASSUME NEW z, Shape(z), NEW v
  PROVE  /\ Alike(z, [z EXCEPT !.d.mRtspState = v]) /\ Alike(z, [z EXCEPT !.d.mRunning = v])
         /\ Alike(z, [z EXCEPT !.d.mSeeking = v]) /\ Alike(z, [z EXCEPT !.d.mTearingDown = v])
         /\ Alike(z, [z EXCEPT !.d.mContentBase = v]) /\ Alike(z, [z EXCEPT !.d.mCodecInfo = v])
         /\ Alike(z, [z EXCEPT !.d.mWaitForCodecInfo = v])
         /\ Alike(z, [z EXCEPT !.d.mCodecInfoChanging = v])
         /\ Alike(z, [z EXCEPT !.d.mChannelsReadyForStop = v])
         /\ Alike(z, [z EXCEPT !.d.rtsp = v])
  <1>1. /\ Alike(z, [z EXCEPT !.d.mRtspState = v]) /\ Alike(z, [z EXCEPT !.d.mRunning = v])
        /\ Alike(z, [z EXCEPT !.d.mSeeking = v]) /\ Alike(z, [z EXCEPT !.d.mTearingDown = v])
    BY Zenon DEF Alike, SameSync, Shape
  <1>2. /\ Alike(z, [z EXCEPT !.d.mContentBase = v]) /\ Alike(z, [z EXCEPT !.d.mCodecInfo = v])
        /\ Alike(z, [z EXCEPT !.d.mWaitForCodecInfo = v])
        /\ Alike(z, [z EXCEPT !.d.mCodecInfoChanging = v])
    BY Zenon DEF Alike, SameSync, Shape
  <1>3. /\ Alike(z, [z EXCEPT !.d.mChannelsReadyForStop = v])
        /\ Alike(z, [z EXCEPT !.d.rtsp = v])
    BY Zenon DEF Alike, SameSync, Shape
  <1>. QED
    BY <1>1, <1>2, <1>3

\* onNewSdp() and the operators that end and begin a stop.
LEMMA AlikeSdp ==
  ASSUME NEW z, Shape(z), NEW sdp, NEW sent
  PROVE  Alike(z, OnNewSdp(z, sdp, sent))
  <1> DEFINE y == [z EXCEPT !.d.mContentBase = TRUE]
  <1>1. Alike(z, z) /\ Alike(z, y) /\ Shape(y)
    <2>1. Alike(z, z)
      BY AlikeReady, Zenon
    <2>2. Alike(z, y)
      BY AlikeFields, Zenon
    <2>. QED
      BY <2>1, <2>2, Zenon DEF Alike
  <1>2. \/ OnNewSdp(z, sdp, sent) = z \/ OnNewSdp(z, sdp, sent) = NoMedia(y)
        \/ OnNewSdp(z, sdp, sent) = StopLater(y)
        \/ OnNewSdp(z, sdp, sent) = SetupMedia(y, sdp, sent)
    BY Zenon DEF OnNewSdp
  <1> HIDE DEF y
  <1>3. Alike(y, NoMedia(y))
    <2> DEFINE x == SetState(y, "STARTED")
               v == OnReadyToPlay(x, FALSE)
               w == IF y.d.mRtspState = "SETUP_DONE" THEN StopRtpAvp(v) ELSE v
               u == [w EXCEPT !.d.mRtspState = "OPTIONS_DONE"]
    <2>1. Alike(y, x) /\ Shape(x)
      BY <1>1, AlikeStopped, Zenon DEF Alike
    <2>2. NoMedia(y) = u
      BY Zenon DEF NoMedia
    <2> HIDE DEF x
    <2>3. Alike(x, v) /\ Shape(v)
      BY <2>1, AlikeReady, Zenon DEF Alike
    <2> HIDE DEF v
    <2>4. Alike(v, w) /\ Shape(w)
      BY <2>3, AlikeReady, AlikeReceiver, Zenon DEF Alike
    <2> HIDE DEF w
    <2>5. Alike(w, u)
      BY <2>4, AlikeFields, Zenon
    <2> HIDE DEF u
    <2>. QED
      BY <2>1, <2>2, <2>3, <2>4, <2>5, AlikeTransitive, SMT
  <1>4. Alike(y, SetupMedia(y, sdp, sent))
    <2> DEFINE x == [y EXCEPT !.d.mCodecInfo = IF sdp \in Infos THEN sdp ELSE @]
               w == PrepareSetup(x)
               v == [w EXCEPT !.d.mRtspState = "DESCRIBE_DONE"]
               u == OnReadyToPlay(w, FALSE)
    <2>1. Alike(y, x) /\ Shape(x)
      BY <1>1, AlikeFields, Zenon DEF Alike
    <2>2. \/ SetupMedia(y, sdp, sent) = Send(v, "setup")
          \/ SetupMedia(y, sdp, sent) = [u EXCEPT !.d.mRtspState = "OPTIONS_DONE"]
      BY Zenon DEF SetupMedia
    <2> HIDE DEF x
    <2>3. Alike(x, w) /\ Shape(w)
      BY <2>1, AlikeReceiver, Zenon DEF Alike
    <2> HIDE DEF w
    <2>4. Alike(w, v) /\ Shape(v) /\ Alike(w, u) /\ Shape(u)
      BY <2>3, AlikeFields, AlikeReady, Zenon DEF Alike
    <2> HIDE DEF v, u
    <2>5. Alike(v, Send(v, "setup")) /\ Alike(u, [u EXCEPT !.d.mRtspState = "OPTIONS_DONE"])
      BY <2>4, AlikeFields, AlikeClientOps, Zenon
    <2>6. Alike(w, SetupMedia(y, sdp, sent))
      <3>1. Alike(w, Send(v, "setup"))
        BY <2>4, <2>5, AlikeTransitive, SMT
      <3>2. Alike(w, [u EXCEPT !.d.mRtspState = "OPTIONS_DONE"])
        BY <2>4, <2>5, AlikeTransitive, SMT
      <3>. QED
        BY <2>2, <3>1, <3>2, SMT
    <2>. QED
      BY <2>1, <2>3, <2>6, AlikeTransitive, SMT
  <1>5. Alike(y, StopLater(y))
    BY <1>1, AlikeClientOps, Zenon
  <1>6. CASE OnNewSdp(z, sdp, sent) = z
    BY <1>1, <1>6, SMT
  <1>7. CASE OnNewSdp(z, sdp, sent) # z
    <2>1. Alike(y, OnNewSdp(z, sdp, sent))
      BY <1>2, <1>3, <1>4, <1>5, <1>7, SMT
    <2>. QED
      BY <1>1, <2>1, AlikeTransitive, SMT
  <1>. QED
    BY <1>6, <1>7

LEMMA AlikeNetwork ==
  ASSUME NEW z, Shape(z)
  PROVE  /\ Alike(z, OnDisconnected(z))
         /\ \A sent : Alike(z, StopNetwork(z, sent))
  <1>1. Alike(z, OnDisconnected(z))
    <2> DEFINE y == [z EXCEPT !.d.mRtspState = "DISCONNECTED", !.d.mRunning = FALSE,
                              !.d.mNetworkReadyForStop = TRUE]
    <2>1. Alike(z, y) /\ Shape(y)
      BY Zenon DEF Alike, SameSync, Shape
    <2>2. OnDisconnected(z) = y \/ OnDisconnected(z) = Stopped(y)
      BY Zenon DEF OnDisconnected
    <2> HIDE DEF y
    <2>3. Alike(y, y) /\ Alike(y, Stopped(y))
      BY <2>1, AlikeReady, AlikeStopped, SMT
    <2>4. Alike(y, OnDisconnected(z))
      BY <2>2, <2>3, SMT
    <2>. QED
      BY <2>1, <2>4, AlikeTransitive, SMT
  <1>2. ASSUME NEW sent
        PROVE  Alike(z, StopNetwork(z, sent))
    <2> DEFINE y == [z EXCEPT !.d.mRunning = FALSE, !.d.mNetworkReadyForStop = TRUE]
               x == [z EXCEPT !.d.mTearingDown = TRUE]
    <2>1. Alike(z, y) /\ Shape(y)
      BY Zenon DEF Alike, SameSync, Shape
    <2>2. Alike(z, x) /\ Shape(x)
      BY AlikeFields, Zenon DEF Alike
    <2>3. \/ StopNetwork(z, sent) = StopRtpAvp(y) \/ StopNetwork(z, sent) = Disconnect(z)
          \/ StopNetwork(z, sent) = Send(x, "teardown") \/ StopNetwork(z, sent) = Disconnect(x)
      BY Zenon DEF StopNetwork
    <2> HIDE DEF x, y
    <2>4. Alike(y, StopRtpAvp(y)) /\ Alike(z, Disconnect(z))
      BY <2>1, AlikeReceiver, AlikeClientOps, SMT
    <2>5. Alike(x, Send(x, "teardown")) /\ Alike(x, Disconnect(x))
      BY <2>2, AlikeClientOps, SMT
    <2>6. Alike(z, StopRtpAvp(y))
      BY <2>1, <2>4, AlikeTransitive, SMT
    <2>7. Alike(z, Send(x, "teardown")) /\ Alike(z, Disconnect(x))
      BY <2>2, <2>5, AlikeTransitive, SMT
    <2>. QED
      BY <2>3, <2>4, <2>6, <2>7, SMT
  <1>. QED
    BY <1>1, <1>2, Zenon

\* What leaves the synchronization alone keeps what is true of it, since the
\* demuxer that is set up anew has no channels.
LEMMA SyncAlike ==
  ASSUME NEW z, NEW y, SyncInv(z), SameSync(z, y),
         z.d.mState # "CREATED" \/ y.d.mState = "CREATED" \/ z.out = <<>>
  PROVE  SyncInv(y)
  <1>1. ASSUME NEW c \in Chans, InOut(y, c)
        PROVE  SyncedElem(y, c)
    <2>1. InOut(z, c) /\ z.out # <<>>
      <3>1. InOut(z, c)
        BY <1>1, Zenon DEF InOut, SameSync
      <3>2. z.out # <<>>
        BY <3>1, SMT DEF InOut
      <3>. QED
        BY <3>1, <3>2
    <2>2. SyncedElem(z, c)
      BY <2>1, Zenon DEF SyncInv
    <2>. QED
      BY <2>1, <2>2, Zenon DEF SyncedElem, SameSync
  <1>2. ~y.unsynced /\ Len(y.out) <= 1
    BY Zenon DEF SyncInv, SameSync
  <1>3. y.d.mVideoMedia = None => y.out = <<>> \/ y.d.mState = "CREATED"
    BY Zenon DEF SyncInv, SameSync
  <1>4. y.loop.what \in {"flush", "stop"} =>
           /\ y.loop.n <= 1
           /\ y.loop.i <= y.loop.n => y.d.mFlushing /\ y.d.mIdrFrameSyncPending
    BY Zenon DEF SyncInv, SameSync
  <1>. QED
    BY <1>1, <1>2, <1>3, <1>4, Zenon DEF SyncInv

\* flush(), up to its loop: there is one channel to go over, or none.
LEMMA FlushSync ==
  ASSUME NEW z, Shape(z), SyncInv(z), NEW what
  PROVE  SyncInv(Flush(z, what))
  <1> DEFINE y == Flush(z, what)
             n == IF z.d.mVideoMedia = None THEN 0 ELSE Len(z.out)
  <1>1. /\ y.out = z.out /\ y.est = z.est /\ y.ch = z.ch /\ y.unsynced = z.unsynced
        /\ y.d.mFlushing /\ y.d.mIdrFrameSyncPending
        /\ y.d.mVideoMedia = z.d.mVideoMedia /\ y.d.mState = z.d.mState
    BY ZenonT(60) DEF Flush, Shape
  <1>2. y.loop = [what |-> what, i |-> 1, n |-> n]
    BY Zenon DEF Flush, Shape
  <1>3. y.loop.n = n
    BY <1>2, SMT
  <1> HIDE DEF y
  <1>4. ASSUME NEW c \in Chans, InOut(y, c)
        PROVE  SyncedElem(y, c)
    <2>1. InOut(z, c)
      BY <1>1, <1>4, Zenon DEF InOut
    <2>2. SyncedElem(z, c)
      BY <2>1, Zenon DEF SyncInv
    <2>. QED
      BY <1>1, <2>2, SMT DEF SyncedElem
  <1>5. n <= 1
    BY SMT DEF SyncInv
  <1> HIDE DEF n
  <1>. QED
    BY <1>1, <1>3, <1>4, <1>5, Zenon DEF SyncInv, y

\* stop(), up to the loop of its flush
LEMMA StopSync ==
  ASSUME NEW z, Shape(z), SyncInv(z), NEW sent
  PROVE  SyncInv(Stop(z, sent))
  <1> DEFINE x == SetState(z, "STOPPING")
             y == OnReadyToPlay(x, FALSE)
             w == [y EXCEPT !.d.mChannelsReadyForStop = FALSE,
                            !.d.mNetworkReadyForStop = FALSE]
             v == StopNetwork(w, sent)
  <1>1. CASE z.d.mState \notin {"STARTED", "STARTING"}
    BY <1>1, Zenon DEF Stop
  <1>2. CASE z.d.mState \in {"STARTED", "STARTING"}
    <2>1. Stop(z, sent) = Flush(v, "stop")
      BY <1>2, Zenon DEF Stop
    <2>2. Alike(z, x) /\ Shape(x)
      BY AlikeStopped, Zenon DEF Alike
    <2> HIDE DEF x
    <2>3. Alike(x, y) /\ Shape(y)
      BY <2>2, AlikeReady, Zenon DEF Alike
    <2> HIDE DEF y
    <2>4. Alike(y, w) /\ Shape(w)
      BY <2>3, Zenon DEF Alike, SameSync, Shape
    <2> HIDE DEF w
    <2>5. Alike(w, v) /\ Shape(v)
      BY <2>4, AlikeNetwork, Zenon DEF Alike
    <2> HIDE DEF v
    <2>6. Alike(z, v)
      BY <2>2, <2>3, <2>4, <2>5, AlikeTransitive, SMT
    <2>7. SyncInv(v)
      BY <1>2, <2>6, SyncAlike, SMT DEF Alike
    <2>. QED
      BY <2>1, <2>5, <2>7, FlushSync, SMT
  <1>. QED
    BY <1>1, <1>2

\* An element that changes needs to be in order only if it is linked.
LEMMA SyncElem ==
  ASSUME NEW z, NEW y, NEW c \in Chans, SyncInv(z),
         y.d = z.d, y.out = z.out, y.loop = z.loop, y.unsynced = z.unsynced,
         \A q \in Chans : q # c => y.est[q] = z.est[q] /\ y.ch[q] = z.ch[q],
         InOut(z, c) => SyncedElem(y, c)
  PROVE  SyncInv(y)
  <1>1. ASSUME NEW q \in Chans, InOut(y, q)
        PROVE  SyncedElem(y, q)
    <2>1. InOut(z, q)
      BY <1>1, Zenon DEF InOut
    <2>2. CASE q = c
      BY <2>1, <2>2, Zenon
    <2>3. CASE q # c
      <3>1. SyncedElem(z, q)
        BY <2>1, Zenon DEF SyncInv
      <3>2. y.est[q] = z.est[q] /\ y.ch[q] = z.ch[q]
        BY <2>3, Zenon
      <3>. QED
        BY <3>1, <3>2, SMT DEF SyncedElem
    <2>. QED
      BY <2>2, <2>3
  <1>. QED
    BY <1>1, Zenon DEF SyncInv

\* A frame is queued on the channels that accept it.
LEMMA Queued ==
  ASSUME NEW z \in StateType, NEW sync \in BOOLEAN
  PROVE  LET y == Queue(z, sync) IN
         /\ y \in StateType
         /\ y.d = z.d /\ y.out = z.out /\ y.est = z.est /\ y.loop = z.loop
         /\ y.unsynced = (z.unsynced
                          \/ (~sync /\ \E c \in Chans : Accepts(z, c) /\ ~z.ch[c].synced))
         /\ \A c \in Chans : /\ y.ch[c].pending = z.ch[c].pending
                             /\ y.ch[c].asked = z.ch[c].asked
                             /\ z.ch[c].synced => y.ch[c].synced
                             /\ Accepts(z, c) /\ sync => y.ch[c].synced
  <1> DEFINE ch == [c \in Chans |->
                 IF Accepts(z, c)
                 THEN [z.ch[c] EXCEPT !.flushed = FALSE, !.synced = @ \/ sync]
                 ELSE z.ch[c]]
             un == z.unsynced \/ (~sync /\ \E c \in Chans : Accepts(z, c) /\ ~z.ch[c].synced)
  <1>1. Queue(z, sync) = [z EXCEPT !.ch = ch, !.unsynced = un]
    BY Zenon DEF Queue
  <1>2. Queue(z, sync) \in StateType
    BY QueueOK, Zenon
  <1>3. ASSUME NEW c \in Chans
        PROVE  /\ ch[c].pending = z.ch[c].pending
               /\ ch[c].asked = z.ch[c].asked
               /\ z.ch[c].synced => ch[c].synced
               /\ Accepts(z, c) /\ sync => ch[c].synced
    <2>1. z.ch[c] \in ChanType
      BY Zenon DEF StateType
    <2>2. ch[c] = IF Accepts(z, c)
                  THEN [z.ch[c] EXCEPT !.flushed = FALSE, !.synced = @ \/ sync]
                  ELSE z.ch[c]
      BY Zenon
    <2> DEFINE q == z.ch[c]
               e == ch[c]
    <2>3. q \in ChanType
      BY <2>1
    <2>4. e = q \/ e = [q EXCEPT !.flushed = FALSE, !.synced = @ \/ sync]
      BY <2>2, Zenon
    <2>5. Accepts(z, c) => e = [q EXCEPT !.flushed = FALSE, !.synced = @ \/ sync]
      BY <2>2, Zenon
    <2> HIDE DEF q, e
    <2>6. LET r == [q EXCEPT !.flushed = FALSE, !.synced = @ \/ sync]
          IN  /\ r.pending = q.pending /\ r.asked = q.asked
              /\ r.synced = (q.synced \/ sync)
      BY <2>3, Zenon DEF ChanType
    <2>7. /\ e.pending = q.pending /\ e.asked = q.asked
          /\ q.synced => e.synced
          /\ Accepts(z, c) /\ sync => e.synced
      BY <2>4, <2>5, <2>6, Zenon
    <2>. QED
      BY <2>7, Zenon DEF q, e
  <1> HIDE DEF ch, un
  <1>4. LET y == [z EXCEPT !.ch = ch, !.unsynced = un] IN
        /\ y.d = z.d /\ y.out = z.out /\ y.est = z.est /\ y.loop = z.loop
        /\ y.unsynced = un /\ y.ch = ch
    BY Zenon DEF StateType
  <1> DEFINE y == Queue(z, sync)
  <1>5. /\ y.d = z.d /\ y.out = z.out /\ y.est = z.est /\ y.loop = z.loop
        /\ y.unsynced = un /\ y.ch = ch
    BY <1>1, <1>4, Zenon
  <1> HIDE DEF y
  <1>. QED
    BY <1>2, <1>3, <1>5, ZenonT(60) DEF un, y

\* idrFrameSync(): no flush is under way, so that every element that takes
\* frames begins with the grey one.
LEMMA IdrFrameSyncSync ==
  ASSUME NEW z, Good(z), SyncInv(z)
  PROVE  SyncInv(IdrFrameSync(z))
  <1>1. z \in StateType
    BY Zenon DEF Good
  <1> DEFINE q == Queue(z, TRUE)
             y == [q EXCEPT !.d.mIdrFrameSyncPending = FALSE]
  <1>2. CASE ~CanSync(z)
    BY <1>2, Zenon DEF IdrFrameSync
  <1>3. CASE CanSync(z)
    <2>1. IdrFrameSync(z) = y
      BY <1>3, Zenon DEF IdrFrameSync
    <2>2. /\ q \in StateType
          /\ q.d = z.d /\ q.out = z.out /\ q.est = z.est /\ q.loop = z.loop
          /\ q.unsynced = (z.unsynced
                           \/ (~TRUE /\ \E c \in Chans : Accepts(z, c) /\ ~z.ch[c].synced))
          /\ \A c \in Chans : /\ q.ch[c].pending = z.ch[c].pending
                              /\ q.ch[c].asked = z.ch[c].asked
                              /\ z.ch[c].synced => q.ch[c].synced
                              /\ Accepts(z, c) => q.ch[c].synced
      BY <1>1, Queued, Zenon
    <2> HIDE DEF q
    <2>3. /\ y.out = q.out /\ y.est = q.est /\ y.loop = q.loop /\ y.ch = q.ch
          /\ y.unsynced = q.unsynced
          /\ y.d.mState = q.d.mState /\ y.d.mVideoMedia = q.d.mVideoMedia
          /\ y.d.mFlushing = q.d.mFlushing
      BY <2>2, Zenon DEF StateType, DemuxerType
    <2> HIDE DEF y
    <2>4. z.d.mState = "STARTED" /\ ~z.d.mFlushing
      BY <1>3, Zenon DEF CanSync
    <2>5. ASSUME NEW c \in Chans, InOut(y, c)
          PROVE  SyncedElem(y, c)
      <3>1. InOut(z, c)
        BY <2>2, <2>3, <2>5, Zenon DEF InOut
      <3>2. SyncedElem(z, c)
        BY <3>1, Zenon DEF SyncInv
      <3>3. ~z.ch[c].pending
        BY <2>4, <3>2, SMT DEF SyncedElem
      <3>4. z.est[c] = "STARTED" => y.ch[c].synced
        BY <2>2, <2>3, <3>1, <3>3, Zenon DEF Accepts
      <3>5. y.est[c] = z.est[c] /\ y.ch[c].asked = z.ch[c].asked /\ ~y.ch[c].pending
            /\ y.ch[c].pending = z.ch[c].pending
        BY <2>2, <2>3, <3>3, Zenon
      <3>. QED
        BY <3>2, <3>4, <3>5, Zenon DEF SyncedElem
    <2>6. y.loop.what \in {"flush", "stop"} => y.loop.n <= 1 /\ ~(y.loop.i <= y.loop.n)
      BY <2>2, <2>3, <2>4, Zenon DEF SyncInv
    <2>7. ~y.unsynced /\ Len(y.out) <= 1
          /\ (y.d.mVideoMedia = None => y.out = <<>> \/ y.d.mState = "CREATED")
      BY <2>2, <2>3, Zenon DEF SyncInv
    <2>. QED
      BY <2>1, <2>5, <2>6, <2>7, Zenon DEF SyncInv
  <1>. QED
    BY <1>2, <1>3

\* A new element, which is the only one, is linked before it gets its grey frame.
LEMMA LinkSync ==
  ASSUME NEW z \in StateType, NEW c \in Chans, SyncInv(z), z.out = <<>>,
         c \in Decoders => DecodeAll,
         z.d.mIdrFrameSyncPending, z.d.mVideoMedia # None
  PROVE  SyncInv(Link(z, c))
  <1> DEFINE y == Link(z, c)
  <1>1. /\ y.out = <<c>>
        /\ y.est[c] = "STARTED" /\ y.ch[c] = NewChan
        /\ y.d = z.d /\ y.loop = z.loop /\ y.unsynced = z.unsynced
    <2>1. Append(z.out, c) = <<c>>
      BY SMT
    <2>2. /\ z.ch \in [Chans -> ChanType]
          /\ z.est \in [Chans -> {"none", "STARTED", "STOPPING"}]
      BY Zenon DEF StateType
    <2>. QED
      BY <2>1, <2>2, Zenon DEF Link, StateType
  <1> HIDE DEF y
  <1>2. Len(y.out) <= 1 /\ \A q : InOut(y, q) => q = c
    BY <1>1, SMT DEF InOut
  <1>3. ~NewChan.pending /\ ~NewChan.asked
    BY SMT DEF NewChan
  <1>4. SyncedElem(y, c)
    BY <1>1, <1>3, SMT DEF SyncedElem
  <1>. QED
    BY <1>1, <1>2, <1>4, Zenon DEF SyncInv, y

\* Without channels only the loop and the past are left to look at.
LEMMA SyncEmpty ==
  ASSUME NEW z, z.out = <<>>, ~z.unsynced,
         z.loop.what \in {"flush", "stop"} =>
             /\ z.loop.n <= 1
             /\ z.loop.i <= z.loop.n => z.d.mFlushing /\ z.d.mIdrFrameSyncPending
  PROVE  SyncInv(z)
  <1>1. Len(z.out) <= 1 /\ \A c : ~InOut(z, c)
    BY SMT DEF InOut
  <1>. QED
    BY <1>1, Zenon DEF SyncInv

\* setupInputMedia()
LEMMA SetupInputMediaSync ==
  ASSUME NEW z, Good(z), SyncInv(z), ~z.d.mCodecInfoChanging,
         DecodeAll => \E c \in Decoders : z.est[c] = "none"
  PROVE  SyncInv(SetupInputMedia(z))
  <1>1. z \in StateType
    BY Zenon DEF Good
  <1>2. CASE z.d.mState # "STARTED" \/ z.d.mCodecInfo = None \/ z.d.mVideoMedia # None
    BY <1>2, Zenon DEF SetupInputMedia
  <1>3. CASE z.d.mState = "STARTED" /\ z.d.mCodecInfo # None /\ z.d.mVideoMedia = None
    <2> DEFINE y == [z EXCEPT !.d.mVideoMedia = z.d.mCodecInfo,
                              !.d.mIdrFrameSyncPending = TRUE]
               c == FreeDecoder(y)
               w == IF DecodeAll THEN Link(y, c) ELSE y
    <2>1. SetupInputMedia(z) = IdrFrameSync(w)
      BY <1>3, Zenon DEF SetupInputMedia
    <2>2. /\ y \in StateType
          /\ y.loop = z.loop /\ y.d.mVideoMedia = z.d.mCodecInfo
          /\ y.d.mCodecInfoChanging = z.d.mCodecInfoChanging
          /\ y.out = z.out /\ y.est = z.est
      BY <1>1, MediaSet, Zenon
    <2>3. /\ y.unsynced = z.unsynced /\ y.d.mFlushing = z.d.mFlushing
          /\ y.d.mIdrFrameSyncPending
      BY <1>1, Zenon DEF StateType, DemuxerType
    <2> HIDE DEF y
    <2>4. z.out = <<>>
      BY <1>3, SMT DEF SyncInv
    <2>5. SyncInv(y)
      <3>1. y.loop.what \in {"flush", "stop"} =>
               /\ y.loop.n <= 1
               /\ y.loop.i <= y.loop.n => y.d.mFlushing /\ y.d.mIdrFrameSyncPending
        BY <2>2, <2>3, Zenon DEF SyncInv
      <3>2. y.out = <<>> /\ ~y.unsynced
        BY <2>2, <2>3, <2>4, Zenon DEF SyncInv
      <3>. QED
        BY <3>1, <3>2, SyncEmpty, Zenon
    <2>6. DecodeAll => c \in Decoders /\ c \in Chans
      BY <2>2, Zenon DEF FreeDecoder, Chans
    <2> HIDE DEF c
    <2>7. DecodeAll => /\ Link(y, c) \in StateType /\ Link(y, c).d = y.d
      BY <2>2, <2>6, LinkOK, Zenon
    <2>8. DecodeAll => SyncInv(Link(y, c))
      <3>1. y.out = <<>> /\ y.d.mVideoMedia # None
        BY <1>3, <2>2, <2>4, Zenon
      <3>. QED
        BY <2>2, <2>3, <2>5, <2>6, <3>1, LinkSync, Zenon
    <2>9. SyncInv(w) /\ w \in StateType /\ w.d = y.d
      BY <2>2, <2>5, <2>7, <2>8, Zenon
    <2> HIDE DEF w
    <2>10. Good(w)
      BY <2>2, <2>9, Zenon DEF Good, DecoderLeft
    <2>. QED
      BY <2>1, <2>9, <2>10, IdrFrameSyncSync, Zenon
  <1>. QED
    BY <1>2, <1>3

\* completeTeardown()
LEMMA CompleteTeardownSync ==
  ASSUME NEW z, Good(z), SyncInv(z)
  PROVE  SyncInv(CompleteTeardown(z))
  <1>1. z \in StateType
    BY Zenon DEF Good
  <1>2. CASE z.d.mVideoMedia # None /\ z.out # <<>>
    BY <1>2, Zenon DEF CompleteTeardown
  <1>3. CASE z.d.mVideoMedia = None \/ z.out = <<>>
    <2> DEFINE y == [z EXCEPT !.d.mVideoMedia = None]
               w == [y EXCEPT !.d.mChannelsReadyForStop = TRUE]
               v == [y EXCEPT !.d.mCodecInfoChanging = FALSE]
    <2>1. CompleteTeardown(z) =
            IF z.d.mState = "STOPPING"
            THEN IF z.d.mNetworkReadyForStop THEN Stopped(y) ELSE w
            ELSE IF z.d.mCodecInfoChanging THEN SetupInputMedia(v) ELSE y
      BY <1>3, Zenon DEF CompleteTeardown
    <2>2. /\ y \in StateType
          /\ y.loop = z.loop /\ y.out = z.out /\ y.est = z.est
          /\ y.d.mState = z.d.mState
          /\ y.d.mCodecInfoChanging = z.d.mCodecInfoChanging
      BY <1>1, MediaUnset, Zenon
    <2>3. /\ y.unsynced = z.unsynced /\ y.d.mFlushing = z.d.mFlushing
          /\ y.d.mIdrFrameSyncPending = z.d.mIdrFrameSyncPending /\ y.ch = z.ch
      BY <1>1, Zenon DEF StateType, DemuxerType
    <2> HIDE DEF y
    <2>4. SyncInv(y)
      <3>1. ASSUME NEW c \in Chans, InOut(y, c)
            PROVE  SyncedElem(y, c)
        <4>1. InOut(z, c)
          BY <2>2, <3>1, Zenon DEF InOut
        <4>2. SyncedElem(z, c)
          BY <4>1, Zenon DEF SyncInv
        <4>. QED
          BY <2>2, <2>3, <4>2, SMT DEF SyncedElem
      <3>2. y.out = <<>> \/ y.d.mState = "CREATED"
        BY <1>3, <2>2, Zenon DEF SyncInv
      <3>3. y.loop.what \in {"flush", "stop"} =>
               /\ y.loop.n <= 1
               /\ y.loop.i <= y.loop.n => y.d.mFlushing /\ y.d.mIdrFrameSyncPending
        BY <2>2, <2>3, Zenon DEF SyncInv
      <3>4. ~y.unsynced /\ Len(y.out) <= 1
        BY <2>2, <2>3, Zenon DEF SyncInv
      <3>. QED
        BY <3>1, <3>2, <3>3, <3>4, Zenon DEF SyncInv
    <2>5. Good(y) /\ Shape(y)
      BY <2>2, ShapeOK, Zenon DEF Good, DecoderLeft
    <2>6. CASE z.d.mState = "STOPPING"
      <3>1. Alike(y, Stopped(y)) /\ Alike(y, w)
        BY <2>5, AlikeStopped, AlikeFields, Zenon
      <3> HIDE DEF w
      <3>2. SyncInv(Stopped(y)) /\ SyncInv(w)
        BY <2>2, <2>4, <2>6, <3>1, SyncAlike, SMT DEF Alike
      <3>. QED
        BY <2>1, <2>6, <3>2, Zenon
    <2>7. CASE z.d.mState # "STOPPING" /\ ~z.d.mCodecInfoChanging
      BY <2>1, <2>4, <2>7, Zenon
    <2>8. CASE z.d.mState # "STOPPING" /\ z.d.mCodecInfoChanging
      <3>1. /\ v \in StateType
            /\ v.out = y.out /\ v.est = y.est /\ v.d.mState = y.d.mState
            /\ ~v.d.mCodecInfoChanging
        BY <2>2, ChangingReset, Zenon
      <3>2. Alike(y, v)
        BY <2>5, AlikeFields, Zenon
      <3> HIDE DEF v
      <3>3. SyncInv(v)
        BY <2>4, <3>1, <3>2, SyncAlike, SMT DEF Alike
      <3>4. Good(v)
        BY <3>1, Zenon DEF Good, DecoderLeft
      <3>5. DecodeAll => \E c \in Decoders : v.est[c] = "none"
        BY <2>2, <2>8, <3>1, Zenon DEF Good, DecoderLeft
      <3>6. SyncInv(SetupInputMedia(v))
        BY <3>1, <3>3, <3>4, <3>5, SetupInputMediaSync, Zenon
      <3>. QED
        BY <2>1, <2>8, <3>6, Zenon
    <2>. QED
      BY <2>6, <2>7, <2>8
  <1>. QED
    BY <1>2, <1>3

\* onChannelUnlink() takes the only channel away, whatever it holds.
LEMMA OnChannelUnlinkSync ==
  ASSUME NEW z, Good(z), NEW c \in Chans, InOut(z, c),
         ~z.unsynced, Len(z.out) <= 1,
         z.loop.what \in {"flush", "stop"} =>
             /\ z.loop.n <= 1
             /\ z.loop.i <= z.loop.n => z.d.mFlushing /\ z.d.mIdrFrameSyncPending
  PROVE  SyncInv(OnChannelUnlink(z, c))
  <1> DEFINE x == [z EXCEPT !.out = Without(z.out, c), !.ch[c].pending = FALSE]
  <1>1. z \in StateType /\ z.out \in Seq(Chans)
    BY Zenon DEF Good, StateType
  <1>2. OnChannelUnlink(z, c) = CompleteTeardown(x)
    BY Zenon DEF OnChannelUnlink
  <1>3. /\ x \in StateType
        /\ x.d = z.d /\ x.est = z.est /\ x.loop = z.loop
        /\ x.out = Without(z.out, c)
    BY <1>1, ChannelRemoved, Zenon
  <1>4. x.unsynced = z.unsynced
    BY <1>1, Zenon DEF StateType
  <1> HIDE DEF x
  <1>5. Without(z.out, c) = <<>>
    <2> DEFINE s == z.out
               t == Without(s, c)
    <2>1. s \in Seq(Chans) /\ \E i \in DOMAIN s : s[i] = c
      BY <1>1, Zenon DEF InOut
    <2>2. Len(s) <= 1
      OBVIOUS
    <2> HIDE DEF s
    <2>3. t \in Seq(Chans) /\ Len(t) = Len(s) - 1
      BY <2>1, WithoutOK, SMT
    <2> HIDE DEF t
    <2>4. t = <<>>
      BY <2>1, <2>2, <2>3, SMT
    <2>. QED
      BY <2>4, Zenon DEF s, t
  <1>6. SyncInv(x)
    <2>1. x.out = <<>> /\ ~x.unsynced
      BY <1>3, <1>4, <1>5, Zenon
    <2>2. x.loop.what \in {"flush", "stop"} =>
             /\ x.loop.n <= 1
             /\ x.loop.i <= x.loop.n => x.d.mFlushing /\ x.d.mIdrFrameSyncPending
      BY <1>3, Zenon
    <2>. QED
      BY <2>1, <2>2, SyncEmpty, Zenon
  <1>7. Good(x)
    BY <1>3, Zenon DEF Good, DecoderLeft
  <1>. QED
    BY <1>2, <1>6, <1>7, CompleteTeardownSync, Zenon

\* onChannelTeardown(): a decoder that is to be flushed first is not asked for a
\* frame any more.
LEMMA ChannelTeardownSync ==
  ASSUME NEW z, Good(z), SyncInv(z), NEW c \in Chans
  PROVE  SyncInv(ChannelTeardown(z, c))
  <1>1. z \in StateType
    BY Zenon DEF Good
  <1>2. /\ ~z.unsynced /\ Len(z.out) <= 1
        /\ z.loop.what \in {"flush", "stop"} =>
             /\ z.loop.n <= 1
             /\ z.loop.i <= z.loop.n => z.d.mFlushing /\ z.d.mIdrFrameSyncPending
    BY Zenon DEF SyncInv
  <1>3. CASE c \in Sinks
    <2> DEFINE b == z.ch[c].asked \/ ~z.ch[c].flushed
               x == [z EXCEPT !.ch[c].asked = b]
    <2>1. Elem(z, x, c)
      BY <1>1, AskedSet, Zenon
    <2>2. ChannelTeardown(z, c) = OnChannelUnlink(x, c)
      BY <1>3, Zenon DEF ChannelTeardown
    <2>3. /\ x.unsynced = z.unsynced /\ x.est = z.est
          /\ \A q \in Chans : q # c => x.ch[q] = z.ch[q]
      BY <1>1, Zenon DEF StateType
    <2> HIDE DEF x
    <2>4. Good(x) /\ x.d = z.d /\ x.out = z.out /\ x.loop = z.loop
      BY <2>1, ElemOK, Zenon DEF Elem
    <2>5. CASE InOut(z, c)
      <3>1. InOut(x, c)
        BY <2>4, <2>5, Zenon DEF InOut
      <3>2. /\ ~x.unsynced /\ Len(x.out) <= 1
            /\ x.loop.what \in {"flush", "stop"} =>
                 /\ x.loop.n <= 1
                 /\ x.loop.i <= x.loop.n => x.d.mFlushing /\ x.d.mIdrFrameSyncPending
        BY <1>2, <2>3, <2>4, Zenon
      <3>. QED
        BY <2>2, <2>4, <3>1, <3>2, OnChannelUnlinkSync, Zenon
    <2>6. CASE ~InOut(z, c)
      <3>1. OnChannelUnlink(x, c) = x
        BY <2>4, <2>6, Zenon DEF OnChannelUnlink, InOut
      <3>2. SyncInv(x)
        BY <2>3, <2>4, <2>6, SyncElem, Zenon
      <3>. QED
        BY <2>2, <3>1, <3>2, Zenon
    <2>. QED
      BY <2>5, <2>6
  <1>4. CASE c \notin Sinks /\ z.est[c] # "STARTED"
    BY <1>4, Zenon DEF ChannelTeardown
  <1>5. CASE c \notin Sinks /\ z.est[c] = "STARTED"
    <2> DEFINE y == [z EXCEPT !.est[c] = "STOPPING"]
               w == [y EXCEPT !.ch[c].asked = TRUE]
    <2>1. Elem(z, y, c) /\ y.est[c] = "STOPPING" /\ y.ch = z.ch
      BY <1>1, <1>5, EstSet, Zenon
    <2>2. \/ ChannelTeardown(z, c) = OnChannelUnlink(y, c)
          \/ ChannelTeardown(z, c) = w
      BY <1>5, Zenon DEF ChannelTeardown
    <2>3. y.unsynced = z.unsynced
      BY <1>1, Zenon DEF StateType
    <2> HIDE DEF y
    <2>4. /\ Good(y) /\ y \in StateType /\ y.d = z.d /\ y.out = z.out /\ y.loop = z.loop
          /\ \A q \in Chans : q # c => y.est[q] = z.est[q]
      BY <2>1, ElemOK, Zenon DEF Elem
    <2>5. InOut(z, c) => SyncedElem(y, c)
      <3> SUFFICES ASSUME InOut(z, c) PROVE SyncedElem(y, c)
        OBVIOUS
      <3>1. SyncedElem(z, c)
        BY Zenon DEF SyncInv
      <3>. QED
        BY <1>5, <2>1, <2>4, <3>1, SMT DEF SyncedElem
    <2>6. SyncInv(y)
      <3>1. \A q \in Chans : q # c => y.est[q] = z.est[q] /\ y.ch[q] = z.ch[q]
        BY <2>1, <2>4, Zenon
      <3>. QED
        BY <2>3, <2>4, <2>5, <3>1, SyncElem, Zenon
    <2>7. SyncInv(OnChannelUnlink(y, c))
      <3>1. CASE InOut(y, c)
        <4>1. /\ ~y.unsynced /\ Len(y.out) <= 1
              /\ y.loop.what \in {"flush", "stop"} =>
                   /\ y.loop.n <= 1
                   /\ y.loop.i <= y.loop.n => y.d.mFlushing /\ y.d.mIdrFrameSyncPending
          BY <2>6, Zenon DEF SyncInv
        <4>. QED
          BY <2>4, <3>1, <4>1, OnChannelUnlinkSync, Zenon
      <3>2. CASE ~InOut(y, c)
        BY <2>6, <3>2, Zenon DEF OnChannelUnlink
      <3>. QED
        BY <3>1, <3>2
    <2>8. SyncInv(w)
      <3>1. /\ w.d = y.d /\ w.out = y.out /\ w.loop = y.loop /\ w.unsynced = y.unsynced
            /\ w.est = y.est
            /\ \A q \in Chans : q # c => w.ch[q] = y.ch[q]
        BY <2>4, Zenon DEF StateType
      <3>2. w.ch[c].pending = y.ch[c].pending
        BY <2>4, ZenonT(60) DEF StateType, ChanType
      <3>4. w.ch[c].asked
        BY <2>4, Zenon DEF StateType, ChanType
      <3> HIDE DEF w
      <3>3. InOut(y, c) => SyncedElem(w, c)
        <4> SUFFICES ASSUME InOut(y, c) PROVE SyncedElem(w, c)
          OBVIOUS
        <4>1. SyncedElem(y, c)
          BY <2>6, Zenon DEF SyncInv
        <4>. QED
          BY <2>1, <3>1, <3>2, <3>4, <4>1, SMT DEF SyncedElem
      <3>. QED
        BY <2>6, <3>1, <3>3, SyncElem, Zenon
    <2>. QED
      BY <2>2, <2>7, <2>8, Zenon
  <1>. QED
    BY <1>3, <1>4, <1>5

\* onChannelFlushed(), of a flush that leaves what it has to.
LEMMA OnChannelFlushedSync ==
  ASSUME NEW z, Good(z), NEW c \in Chans, SyncInv(z),
         InOut(z, c) => SyncInv([z EXCEPT !.d.mFlushing = FALSE])
  PROVE  SyncInv(OnChannelFlushed(z, c))
  <1>1. z \in StateType
    BY Zenon DEF Good
  <1>2. CASE ~InOut(z, c)
    BY <1>2, Zenon DEF OnChannelFlushed
  <1>3. CASE InOut(z, c)
    <2> DEFINE y == [z EXCEPT !.d.mFlushing = FALSE]
               w == IF y.d.mIdrFrameSyncPending THEN IdrFrameSync(y) ELSE y
               v == ChannelTeardown(w, c)
    <2>1. OnChannelFlushed(z, c) = IF w.d.mState = "STOPPING" THEN v ELSE w
      BY <1>3, Zenon DEF OnChannelFlushed
    <2>2. y \in StateType /\ SameMedia(z, y) /\ SyncInv(y)
      BY <1>1, <1>3, FlushingReset, Zenon
    <2> HIDE DEF y
    <2>3. Good(y)
      BY <2>2, SameMediaLeft, Zenon DEF Good
    <2>4. Good(w) /\ SyncInv(w)
      BY <2>2, <2>3, IdrFrameSyncOK, IdrFrameSyncSync, Zenon
    <2> HIDE DEF w
    <2>5. SyncInv(v)
      BY <2>4, ChannelTeardownSync, Zenon
    <2> HIDE DEF v
    <2>. QED
      BY <2>1, <2>4, <2>5, Zenon
  <1>. QED
    BY <1>2, <1>3

\* The end of a flush of the only element: no other element is being flushed.
LEMMA FlushedSync ==
  ASSUME NEW z \in StateType, NEW c \in Chans, SyncInv(z), InOut(z, c),
         ~z.ch[c].pending,
         z.loop.what \in {"flush", "stop"} => ~(z.loop.i <= z.loop.n),
         z.d.mIdrFrameSyncPending \/ z.d.mState = "CREATED"
  PROVE  SyncInv([z EXCEPT !.d.mFlushing = FALSE])
  <1> DEFINE y == [z EXCEPT !.d.mFlushing = FALSE]
  <1>1. /\ y.out = z.out /\ y.est = z.est /\ y.ch = z.ch /\ y.loop = z.loop
        /\ y.unsynced = z.unsynced
        /\ y.d.mState = z.d.mState /\ y.d.mVideoMedia = z.d.mVideoMedia
        /\ y.d.mIdrFrameSyncPending = z.d.mIdrFrameSyncPending
    BY Zenon DEF StateType, DemuxerType
  <1> HIDE DEF y
  <1>2. ASSUME NEW q \in Chans, InOut(y, q)
        PROVE  SyncedElem(y, q)
    <2>1. q = c
      <3>1. InOut(z, q)
        BY <1>1, <1>2, Zenon DEF InOut
      <3>2. z.out \in Seq(Chans) /\ Len(z.out) <= 1
        BY Zenon DEF StateType, SyncInv
      <3>. QED
        BY <3>1, <3>2, SMT DEF InOut
    <2>2. SyncedElem(z, c)
      BY Zenon DEF SyncInv
    <2>3. SyncedElem(y, c)
      BY <1>1, <2>2, SMT DEF SyncedElem
    <2>. QED
      BY <2>1, <2>3, Zenon
  <1>3. y.loop.what \in {"flush", "stop"} => y.loop.n <= 1 /\ ~(y.loop.i <= y.loop.n)
    BY <1>1, Zenon DEF SyncInv
  <1>4. /\ ~y.unsynced /\ Len(y.out) <= 1
        /\ y.d.mVideoMedia = None => y.out = <<>> \/ y.d.mState = "CREATED"
    BY <1>1, Zenon DEF SyncInv
  <1>. QED
    BY <1>2, <1>3, <1>4, Zenon DEF SyncInv, y

\* Channel::flush(), in the loop of flush(), which goes over one channel.
LEMMA ChannelFlushSync ==
  ASSUME NEW z, Good(z), NEW c \in Chans, SyncInv(z), InOut(z, c),
         ~(z.loop.i <= z.loop.n), z.d.mFlushing, z.d.mIdrFrameSyncPending
  PROVE  SyncInv(ChannelFlush(z, c))
  <1>1. z \in StateType /\ SyncedElem(z, c)
    BY Zenon DEF Good, SyncInv
  <1> DEFINE x == [z EXCEPT !.ch[c].synced = FALSE]
             w == [z EXCEPT !.ch[c].pending = TRUE, !.ch[c].asked = TRUE]
  <1>2. CASE z.ch[c].flushed /\ ~z.ch[c].asked
    <2>1. ChannelFlush(z, c) = OnChannelFlushed(x, c)
      BY <1>2, Zenon DEF ChannelFlush
    <2>2. /\ x.unsynced = z.unsynced /\ x.est = z.est
          /\ \A q \in Chans : q # c => x.ch[q] = z.ch[q]
      BY <1>1, Zenon DEF StateType
    <2>3. x.ch[c].pending = z.ch[c].pending /\ x.ch[c].asked = z.ch[c].asked
      <3> DEFINE q == [z.ch[c] EXCEPT !.synced = FALSE]
      <3>1. z.ch[c] \in ChanType /\ z.ch \in [Chans -> ChanType]
        BY <1>1, Zenon DEF StateType
      <3>2. q.pending = z.ch[c].pending /\ q.asked = z.ch[c].asked
        BY <3>1, Zenon DEF ChanType
      <3>3. x = [z EXCEPT !.ch[c] = q]
        BY Zenon
      <3> HIDE DEF q
      <3>4. x.ch[c] = q
        BY <1>1, <3>1, <3>3, ZenonT(60) DEF StateType
      <3>. QED
        BY <3>2, <3>4, Zenon
    <2>4. Elem(z, x, c)
      BY <1>1, SyncedReset, Zenon
    <2> HIDE DEF x
    <2>5. Good(x) /\ x \in StateType /\ x.d = z.d /\ x.out = z.out /\ x.loop = z.loop
      BY <2>4, ElemOK, ZenonT(60) DEF Elem
    <2>6. SyncedElem(x, c)
      BY <1>1, <2>2, <2>3, <2>5, SMT DEF SyncedElem
    <2>7. SyncInv(x)
      BY <2>2, <2>5, <2>6, SyncElem, Zenon
    <2>8. SyncInv([x EXCEPT !.d.mFlushing = FALSE])
      <3>1. InOut(x, c)
        BY <2>5, Zenon DEF InOut
      <3>2. ASSUME z.ch[c].pending PROVE FALSE
        BY <1>1, <1>2, <3>2, Zenon DEF SyncedElem
      <3>3. ~x.ch[c].pending
        BY <2>3, <3>2, Zenon
      <3>. QED
        BY <2>5, <2>7, <3>1, <3>3, FlushedSync, Zenon
    <2>9. SyncInv(OnChannelFlushed(x, c))
      BY <2>5, <2>7, <2>8, OnChannelFlushedSync, Zenon
    <2>. QED
      BY <2>1, <2>9, Zenon
  <1>3. CASE ~(z.ch[c].flushed /\ ~z.ch[c].asked)
    <2>1. ChannelFlush(z, c) = w
      BY <1>3, Zenon DEF ChannelFlush
    <2>2. /\ w.unsynced = z.unsynced /\ w.est = z.est
          /\ \A q \in Chans : q # c => w.ch[q] = z.ch[q]
          /\ w.d = z.d /\ w.out = z.out /\ w.loop = z.loop
      BY <1>1, Zenon DEF StateType
    <2>3. w.ch[c].pending /\ w.ch[c].asked
      <3>1. w.ch[c].pending
        BY <1>1, ZenonT(60) DEF StateType, ChanType
      <3>2. w.ch[c].asked
        BY <1>1, ZenonT(60) DEF StateType, ChanType
      <3>. QED
        BY <3>1, <3>2
    <2> HIDE DEF w
    <2>4. SyncedElem(w, c)
      BY <1>1, <2>2, <2>3, SMT DEF SyncedElem
    <2>5. SyncInv(w)
      BY <2>2, <2>4, SyncElem, Zenon
    <2>. QED
      BY <2>1, <2>5, Zenon
  <1>. QED
    BY <1>2, <1>3

\* Only the loop changes, to one that is not about to ask an element.
LEMMA SyncLoop ==
  ASSUME NEW z, NEW y, SyncInv(z),
         y.d = z.d, y.out = z.out, y.est = z.est, y.ch = z.ch, y.unsynced = z.unsynced,
         y.loop.what \in {"flush", "stop"} => y.loop.n <= 1 /\ ~(y.loop.i <= y.loop.n)
  PROVE  SyncInv(y)
  <1>1. ASSUME NEW c \in Chans, InOut(y, c)
        PROVE  SyncedElem(y, c)
    <2>1. InOut(z, c)
      BY <1>1, Zenon DEF InOut
    <2>2. SyncedElem(z, c)
      BY <2>1, Zenon DEF SyncInv
    <2>. QED
      BY <2>2, SMT DEF SyncedElem
  <1>. QED
    BY <1>1, Zenon DEF SyncInv

\* The loop of flush() asks the only element once.
LEMMA FlushChannelSync ==
  ASSUME Good(st), SyncInv(st), FlushChannel
  PROVE  SyncInv(st')
  <1> DEFINE y == [st EXCEPT !.loop.i = @ + 1]
             c == st.out[st.loop.i]
  <1>1. /\ st \in StateType /\ st.out \in Seq(Chans) /\ st.loop \in LoopType
    BY Zenon DEF Good, StateType
  <1>2. /\ st.loop.what \in {"flush", "stop"} /\ st.loop.i \in 1..st.loop.n
        /\ st' = IF st.loop.i \in DOMAIN st.out THEN ChannelFlush(y, c) ELSE y
    BY Zenon DEF FlushChannel, Looping
  <1>3. st.loop.i + 1 \in Nat /\ st.loop.i <= st.loop.n
    BY <1>1, <1>2, SMT DEF LoopType
  <1>4. /\ y \in StateType
        /\ y.loop = [what |-> st.loop.what, i |-> st.loop.i + 1, n |-> st.loop.n]
        /\ y.d = st.d /\ y.s = st.s /\ y.r = st.r /\ y.out = st.out /\ y.est = st.est
    BY <1>1, <1>3, LoopNext, Zenon
  <1>5. y.ch = st.ch /\ y.unsynced = st.unsynced
    BY <1>1, Zenon DEF StateType
  <1> HIDE DEF y
  <1>6. st.d.mFlushing /\ st.d.mIdrFrameSyncPending /\ st.loop.n <= 1
    BY <1>2, <1>3, Zenon DEF SyncInv
  <1>7. ~(y.loop.i <= y.loop.n) /\ y.loop.n <= 1
    BY <1>1, <1>2, <1>4, <1>6, SMT DEF LoopType
  <1>8. SyncInv(y)
    BY <1>4, <1>5, <1>7, SyncLoop, Zenon
  <1>9. Good(y)
    BY <1>4, Zenon DEF Good, DecoderLeft
  <1>10. CASE st.loop.i \in DOMAIN st.out
    <2>1. c \in Chans
      BY <1>1, <1>10, SMT
    <2>2. InOut(y, c)
      BY <1>4, <1>10, Zenon DEF InOut
    <2> HIDE DEF c
    <2>3. SyncInv(ChannelFlush(y, c))
      BY <1>4, <1>6, <1>7, <1>8, <1>9, <2>1, <2>2, ChannelFlushSync, Zenon
    <2>. QED
      BY <1>2, <1>10, <2>3, Zenon
  <1>. QED
    BY <1>2, <1>8, <1>10, Zenon

\* The end of flush(), and of stop()
LEMMA FlushEndSync ==
  ASSUME Good(st), SyncInv(st), FlushEnd,
         st.loop.what = "stop" => st.d.mState \in {"STOPPING", "STOPPED"}
  PROVE  SyncInv(st')
  <1> DEFINE x == [st EXCEPT !.loop = NoLoop]
             b == st.d.mChannelsReadyForStop \/ st.loop.n = 0
             y == [st EXCEPT !.loop = NoLoop, !.d.mChannelsReadyForStop = b]
  <1>1. st \in StateType
    BY Zenon DEF Good
  <1>2. /\ \/ st' = Stopped(y) /\ st.loop.what = "stop"
           \/ st' = y
    BY Zenon DEF FlushEnd
  <1>3. /\ x.d = st.d /\ x.out = st.out /\ x.est = st.est /\ x.ch = st.ch
        /\ x.unsynced = st.unsynced /\ x.loop = NoLoop
    BY <1>1, Zenon DEF StateType
  <1>4. NoLoop.what = "none" /\ NoLoop \in LoopType
    BY SMT DEF NoLoop, LoopType
  <1>5. x \in StateType
    BY <1>1, <1>4, LoopSet, Zenon
  <1>6. y = [x EXCEPT !.d.mChannelsReadyForStop = b]
    BY Zenon
  <1> HIDE DEF x, b
  <1>7. SyncInv(x) /\ Shape(x)
    <2>1. x.loop.what \notin {"flush", "stop"}
      BY <1>3, <1>4, SMT
    <2>. QED
      BY <1>3, <1>5, <2>1, SyncLoop, ShapeOK, Zenon
  <1>8. Alike(x, y) /\ y.d.mState = st.d.mState
    <2>1. Alike(x, y)
      BY <1>6, <1>7, AlikeFields, Zenon
    <2>2. [x EXCEPT !.d.mChannelsReadyForStop = b].d.mState = x.d.mState
      BY <1>5, Zenon DEF StateType, DemuxerType
    <2>. QED
      BY <1>3, <1>6, <2>1, <2>2, Zenon
  <1> HIDE DEF y
  <1>9. SyncInv(y) /\ Shape(y)
    BY <1>3, <1>7, <1>8, SyncAlike, SMT DEF Alike
  <1>10. Alike(y, Stopped(y))
    BY <1>9, AlikeStopped, Zenon
  <1>11. st.loop.what = "stop" => SyncInv(Stopped(y))
    <2> SUFFICES ASSUME st.loop.what = "stop" PROVE SyncInv(Stopped(y))
      OBVIOUS
    <2>1. y.d.mState # "CREATED"
      BY <1>8, SMT
    <2>. QED
      BY <1>9, <1>10, <2>1, SyncAlike, Zenon DEF Alike
  <1>. QED
    BY <1>2, <1>9, <1>11, Zenon

\* A step of the loop of codecInfoChangedCb(), and its end
LEMMA TeardownSync ==
  ASSUME Good(st), SyncInv(st), TeardownChannel \/ TeardownEnd
  PROVE  SyncInv(st')
  <1>1. /\ st \in StateType /\ st.out \in Seq(Chans) /\ st.loop \in LoopType
    BY Zenon DEF Good, StateType
  <1>2. CASE TeardownEnd
    <2>1. st' = [st EXCEPT !.loop = NoLoop]
      BY <1>2, Zenon DEF TeardownEnd
    <2>2. /\ st'.d = st.d /\ st'.out = st.out /\ st'.est = st.est /\ st'.ch = st.ch
          /\ st'.unsynced = st.unsynced /\ st'.loop = NoLoop
      BY <1>1, <2>1, Zenon DEF StateType
    <2>3. st'.loop.what \notin {"flush", "stop"}
      BY <2>2, SMT DEF NoLoop
    <2>. QED
      BY <2>2, <2>3, SyncLoop, Zenon
  <1>3. CASE TeardownChannel
    <2> DEFINE y == [st EXCEPT !.loop.i = @ - 1]
               c == st.out[st.loop.i]
    <2>1. /\ st.loop.what = "teardown" /\ st.loop.i \in 1..st.loop.n
          /\ st' = IF st.loop.i \in DOMAIN st.out THEN ChannelTeardown(y, c) ELSE y
      BY <1>3, Zenon DEF TeardownChannel, Looping
    <2>2. st.loop.i - 1 \in Nat
      BY <1>1, <2>1, SMT DEF LoopType
    <2>3. /\ y \in StateType
          /\ y.loop = [what |-> st.loop.what, i |-> st.loop.i - 1, n |-> st.loop.n]
          /\ y.d = st.d /\ y.out = st.out /\ y.est = st.est
      BY <1>1, <2>2, LoopNext, Zenon
    <2>4. y.ch = st.ch /\ y.unsynced = st.unsynced
      BY <1>1, Zenon DEF StateType
    <2> HIDE DEF y
    <2>5. y.loop.what \notin {"flush", "stop"}
      BY <2>1, <2>3, SMT
    <2>6. SyncInv(y) /\ Good(y)
      BY <2>3, <2>4, <2>5, SyncLoop, Zenon DEF Good, DecoderLeft
    <2>7. CASE st.loop.i \in DOMAIN st.out
      <3>1. c \in Chans
        BY <1>1, <2>7, SMT
      <3> HIDE DEF c
      <3>2. SyncInv(ChannelTeardown(y, c))
        BY <2>6, <3>1, ChannelTeardownSync, Zenon
      <3>. QED
        BY <2>1, <2>7, <3>2, Zenon
    <2>. QED
      BY <2>1, <2>6, <2>7, Zenon
  <1>. QED
    BY <1>2, <1>3

\* Frames, and the end of the stream
LEMMA FramesSync ==
  ASSUME Good(st), SyncInv(st), RecvFrame \/ RecvFrameNoBuffer \/ Goodbye
  PROVE  SyncInv(st')
  <1>1. st \in StateType /\ Shape(st)
    BY ShapeOK, Zenon DEF Good
  <1>2. CASE st' = Flush(st, "flush")
    BY <1>1, <1>2, FlushSync, Zenon
  <1>3. CASE st' = Queue(st, FALSE) /\ ~st.d.mFlushing /\ ~st.d.mIdrFrameSyncPending
             /\ st.d.mState = "STARTED"
    <2>1. /\ st'.d = st.d /\ st'.out = st.out /\ st'.est = st.est /\ st'.loop = st.loop
          /\ st'.unsynced = (st.unsynced
                             \/ (~FALSE /\ \E c \in Chans : Accepts(st, c) /\ ~st.ch[c].synced))
          /\ \A c \in Chans : /\ st'.ch[c].pending = st.ch[c].pending
                              /\ st'.ch[c].asked = st.ch[c].asked
                              /\ st.ch[c].synced => st'.ch[c].synced
      <3>1. FALSE \in BOOLEAN
        OBVIOUS
      <3>. QED
        BY <1>1, <1>3, <3>1, Queued, Zenon
    <2>2. ASSUME NEW c \in Chans, InOut(st, c), st.est[c] = "STARTED"
          PROVE  st.ch[c].synced
      <3>1. SyncedElem(st, c)
        BY <2>2, Zenon DEF SyncInv
      <3>. QED
        BY <1>3, <2>2, <3>1, SMT DEF SyncedElem
    <2>3. ~st'.unsynced
      BY <2>1, <2>2, Zenon DEF SyncInv, Accepts
    <2>4. ASSUME NEW c \in Chans, InOut(st', c)
          PROVE  SyncedElem(st', c)
      <3>1. InOut(st, c)
        BY <2>1, <2>4, Zenon DEF InOut
      <3>2. SyncedElem(st, c)
        BY <3>1, Zenon DEF SyncInv
      <3>3. /\ st'.d = st.d /\ st'.est = st.est
            /\ st'.ch[c].pending = st.ch[c].pending
            /\ st'.ch[c].asked = st.ch[c].asked
            /\ st.ch[c].synced => st'.ch[c].synced
        BY <2>1, Zenon
      <3>. QED
        BY <3>2, <3>3, SMT DEF SyncedElem
    <2>. QED
      BY <2>1, <2>3, <2>4, Zenon DEF SyncInv
  <1>4. CASE Goodbye
    <2> DEFINE y == [st EXCEPT !.d.mWaitForCodecInfo = TRUE]
    <2>1. /\ st.d.mState = "STARTED"
          /\ st' = StopLater(y) \/ st' = y
      BY <1>4, Zenon DEF Goodbye, Receives
    <2>2. Alike(st, y) /\ Shape(y)
      BY <1>1, AlikeFields, Zenon DEF Alike
    <2> HIDE DEF y
    <2>3. Alike(y, StopLater(y)) /\ Alike(y, y)
      BY <2>2, AlikeClientOps, AlikeReady, Zenon
    <2>4. Alike(y, st')
      BY <2>1, <2>3, SMT
    <2>5. Alike(st, st')
      BY <2>2, <2>4, AlikeTransitive, SMT
    <2>. QED
      BY <2>1, <2>5, SyncAlike, SMT DEF Alike
  <1>5. CASE RecvFrame \/ RecvFrameNoBuffer
    <2>1. \/ st' = Flush(st, "flush")
          \/ st' = Queue(st, FALSE) /\ ~st.d.mFlushing /\ ~st.d.mIdrFrameSyncPending
             /\ st.d.mState = "STARTED"
      BY <1>5, Zenon DEF RecvFrame, RecvFrameNoBuffer, Receives
    <2>. QED
      BY <1>2, <1>3, <2>1
  <1>. QED
    BY <1>4, <1>5

\* codecInfoChangedCb()
LEMMA CodecInfoChangedSync ==
  ASSUME Good(st), SyncInv(st), NEW info \in Infos, CodecInfoChanged(info)
  PROVE  SyncInv(st')
  <1> DEFINE y == [st EXCEPT !.d.mWaitForCodecInfo = FALSE]
             w == [y EXCEPT !.d.mCodecInfo = info]
             v == [w EXCEPT !.d.mCodecInfoChanging = FALSE]
             x == [w EXCEPT !.d.mCodecInfoChanging = TRUE]
             l == [what |-> "teardown", i |-> Len(st.out), n |-> Len(st.out)]
             t == [x EXCEPT !.loop = l]
             t0 == [w EXCEPT !.d.mCodecInfoChanging = TRUE,
                             !.loop = [what |-> "teardown", i |-> Len(st.out),
                                       n |-> Len(st.out)]]
  <1>1. /\ st \in StateType /\ st.d.mState = "STARTED" /\ Shape(st)
        /\ DecodeAll => \E c \in Decoders : st.est[c] = "none"
    BY ShapeOK, Zenon DEF Good, CodecInfoChanged, Receives
  <1>2. \/ st' = Flush(y, "flush") \/ st' = SetupInputMedia(v) \/ st' = t0
    BY Zenon DEF CodecInfoChanged
  <1>3. t0 = t
    BY Zenon
  <1> HIDE DEF t0
  <1>4. y \in StateType /\ SameMedia(st, y)
    BY <1>1, WaitReset, Zenon
  <1>5. Alike(st, y) /\ Shape(y)
    BY <1>1, AlikeFields, Zenon DEF Alike
  <1> HIDE DEF y
  <1>6. SyncInv(y)
    BY <1>1, <1>5, SyncAlike, SMT DEF Alike
  <1>7. Alike(y, w) /\ Shape(w)
    BY <1>5, AlikeFields, Zenon DEF Alike
  <1>8. CASE st' = Flush(y, "flush")
    BY <1>5, <1>6, <1>8, FlushSync, Zenon
  <1>9. CASE st' = SetupInputMedia(v)
    <2>1. /\ v \in StateType /\ v.est = y.est /\ v.d.mState = y.d.mState
          /\ v.d.mCodecInfoChanging = FALSE
      <3>1. y \in StateType /\ FALSE \in BOOLEAN
        BY <1>4, Zenon
      <3>. QED
        BY <3>1, CodecInfoSet, ZenonT(60)
    <2> HIDE DEF w
    <2>2. Alike(w, v)
      BY <1>7, AlikeFields, Zenon
    <2> HIDE DEF v
    <2>3. Alike(y, v)
      BY <1>7, <2>2, AlikeTransitive, SMT
    <2>4. SyncInv(v)
      <3>1. y.d.mState # "CREATED"
        BY <1>1, <1>4, SMT DEF SameMedia
      <3>. QED
        BY <1>6, <2>3, <3>1, SyncAlike, SMT DEF Alike
    <2>5. Good(v)
      BY <2>1, Zenon DEF Good, DecoderLeft
    <2>6. DecodeAll => \E c \in Decoders : v.est[c] = "none"
      BY <1>1, <1>4, <2>1, Zenon DEF SameMedia
    <2>. QED
      BY <1>9, <2>1, <2>4, <2>5, <2>6, SetupInputMediaSync, Zenon
  <1>10. CASE st' = t
    <2> HIDE DEF w, l
    <2>1. Alike(w, x) /\ Shape(x)
      BY <1>7, AlikeFields, Zenon DEF Alike
    <2> HIDE DEF x
    <2>2. Alike(y, x)
      BY <1>7, <2>1, AlikeTransitive, SMT
    <2>3. SyncInv(x)
      <3>1. y.d.mState # "CREATED"
        BY <1>1, <1>4, SMT DEF SameMedia
      <3>. QED
        BY <1>6, <2>2, <3>1, SyncAlike, SMT DEF Alike
    <2>4. /\ t.d = x.d /\ t.out = x.out /\ t.est = x.est /\ t.ch = x.ch
          /\ t.unsynced = x.unsynced /\ t.loop = l
      BY <2>1, Zenon DEF Shape
    <2>5. l.what \notin {"flush", "stop"}
      BY SMT DEF l
    <2> HIDE DEF t
    <2>6. SyncInv(t)
      BY <2>3, <2>4, <2>5, SyncLoop, Zenon
    <2>. QED
      BY <1>10, <2>6, Zenon
  <1>. QED
    BY <1>2, <1>3, <1>8, <1>9, <1>10, Zenon

-----------------------------------------------------------------------------
(* ... the elements, the application and the server.                        *)

\* An element that is not linked any more stops.
LEMMA ElementStoppedSync ==
  ASSUME NEW z \in StateType, NEW c \in Chans, SyncInv(z), ~InOut(z, c),
         c \in Decoders => z.est[c] # "none"
  PROVE  SyncInv(OnElementStopped([z EXCEPT !.est[c] = "none"]))
  <1> DEFINE x == [z EXCEPT !.est[c] = "none"]
             y == OnElementStopped(x)
  <1>1. Elem(z, x, c) /\ x.ch = z.ch
    BY EstSet, Zenon
  <1>2. x.unsynced = z.unsynced
    BY Zenon DEF StateType
  <1> HIDE DEF x
  <1>3. /\ x \in StateType /\ x.d = z.d /\ x.out = z.out /\ x.loop = z.loop
        /\ \A q \in Chans : q # c => x.est[q] = z.est[q] /\ x.ch[q] = z.ch[q]
    BY <1>1, Zenon DEF Elem
  <1>4. SyncInv(x)
    BY <1>2, <1>3, SyncElem, Zenon
  <1>5. Alike(x, y) /\ y.d = x.d
    BY <1>3, ShapeOK, AlikeStopped, OnElementStoppedOK, Zenon
  <1> HIDE DEF y
  <1>6. SyncInv(y)
    BY <1>4, <1>5, SyncAlike, Zenon DEF Alike
  <1>. QED
    BY <1>6, Zenon DEF x, y

LEMMA DecoderStoppedSync ==
  ASSUME Good(st), SyncInv(st), NEW c \in Chans, DecoderStopped(c)
  PROVE  SyncInv(st')
  <1>1. /\ st \in StateType /\ ~InOut(st, c) /\ st.est[c] = "STOPPING"
        /\ st' = OnElementStopped([st EXCEPT !.est[c] = "none"])
    BY Zenon DEF Good, DecoderStopped
  <1>2. st.est[c] # "none"
    BY <1>1, SMT
  <1>. QED
    BY <1>1, <1>2, ElementStoppedSync, Zenon

\* An element has done a flush.
LEMMA ElementFlushedSync ==
  ASSUME Good(st), st.s.mState # "OPENING", SyncInv(st), NEW c \in Chans, ElementFlushed(c)
  PROVE  SyncInv(st')
  <1> DEFINE pending == st.ch[c].pending
             q == [flushed |-> st.ch[c].flushed \/ pending \/ c \in Decoders,
                   pending |-> FALSE, asked |-> FALSE, synced |-> FALSE]
             y == [st EXCEPT !.ch[c] = q]
             w1 == OnChannelFlushed(y, c)
             w == IF pending THEN w1 ELSE y
             v1 == OnChannelUnlink(w, c)
             v2 == OnElementStopped([w EXCEPT !.est[c] = "none"])
  <1>1. st \in StateType /\ st.loop.what = "none" /\ st.ch[c].asked
    BY Zenon DEF Good, ElementFlushed, Free
  <1>2. st' = IF w.est[c] # "STOPPING" THEN w ELSE IF c \in Decoders THEN v1 ELSE v2
    BY Zenon DEF ElementFlushed
  <1>3. /\ Elem(st, y, c) /\ y.est = st.est /\ y.unsynced = st.unsynced /\ y.ch[c] = q
        /\ \A p \in Chans : p # c => y.ch[p] = st.ch[p]
    <2>1. q \in ChanType
      BY Zenon DEF ChanType
    <2> HIDE DEF q
    <2>2. /\ y.est = st.est /\ y.unsynced = st.unsynced /\ y.ch[c] = q
          /\ \A p \in Chans : p # c => y.ch[p] = st.ch[p]
      BY <1>1, Zenon DEF StateType
    <2>. QED
      BY <1>1, <2>1, <2>2, ChSet, Zenon
  <1>4. ~q.pending /\ ~q.asked
    BY SMT
  <1> HIDE DEF y, q
  <1>5. /\ Good(y) /\ y \in StateType /\ y.d = st.d /\ y.s = st.s /\ y.out = st.out
        /\ y.loop = st.loop
    BY <1>3, ElemOK, Zenon DEF Elem
  <1>6. InOut(st, c) => SyncedElem(y, c)
    <2> SUFFICES ASSUME InOut(st, c) PROVE SyncedElem(y, c)
      OBVIOUS
    <2>1. SyncedElem(st, c)
      BY Zenon DEF SyncInv
    <2>2. y.est[c] = st.est[c] /\ ~y.ch[c].pending /\ ~y.ch[c].asked
      BY <1>3, <1>4, Zenon
    <2>3. st.est[c] = "STARTED" =>
             y.d.mFlushing \/ y.d.mIdrFrameSyncPending \/ y.d.mState = "CREATED"
      BY <1>1, <1>5, <2>1, SMT DEF SyncedElem
    <2>. QED
      BY <1>5, <2>1, <2>2, <2>3, SMT DEF SyncedElem
  <1>7. SyncInv(y)
    BY <1>3, <1>5, <1>6, SyncElem, ZenonT(60)
  <1>8. pending => Good(w1) /\ SyncInv(w1) /\ w1.s.mState # "OPENING"
    <2> SUFFICES ASSUME pending PROVE Good(w1) /\ SyncInv(w1) /\ w1.s.mState # "OPENING"
      OBVIOUS
    <2>1. Good(w1) /\ Down(y, w1)
      BY <1>5, OnChannelFlushedOK, SMT
    <2>2. w1.s.mState # "OPENING"
      BY <1>5, <2>1, SMT DEF Down
    <2>3. InOut(y, c) => SyncInv([y EXCEPT !.d.mFlushing = FALSE])
      <3> SUFFICES ASSUME InOut(y, c) PROVE SyncInv([y EXCEPT !.d.mFlushing = FALSE])
        OBVIOUS
      <3>1. SyncedElem(st, c)
        BY <1>5, Zenon DEF SyncInv, InOut
      <3>2. y.d.mIdrFrameSyncPending \/ y.d.mState = "CREATED"
        BY <1>5, <3>1, SMT DEF SyncedElem
      <3>3. y.loop.what \notin {"flush", "stop"}
        BY <1>1, <1>5, SMT
      <3>4. ~y.ch[c].pending
        BY <1>3, <1>4, Zenon
      <3>. QED
        BY <1>5, <1>7, <3>2, <3>3, <3>4, FlushedSync, Zenon
    <2>4. SyncInv(w1)
      BY <1>5, <1>7, <2>3, OnChannelFlushedSync, Zenon
    <2>. QED
      BY <2>1, <2>2, <2>4, Zenon
  <1>9. Good(w) /\ SyncInv(w) /\ w \in StateType
    BY <1>5, <1>7, <1>8, Zenon DEF Good
  <1> HIDE DEF w
  <1>10. CASE w.est[c] # "STOPPING"
    BY <1>2, <1>9, <1>10, Zenon
  <1>11. CASE w.est[c] = "STOPPING" /\ c \in Decoders
    <2>1. CASE InOut(w, c)
      <3>1. /\ ~w.unsynced /\ Len(w.out) <= 1
            /\ w.loop.what \in {"flush", "stop"} =>
                 /\ w.loop.n <= 1
                 /\ w.loop.i <= w.loop.n => w.d.mFlushing /\ w.d.mIdrFrameSyncPending
        BY <1>9, Zenon DEF SyncInv
      <3>2. SyncInv(v1)
        BY <1>9, <2>1, <3>1, OnChannelUnlinkSync, Zenon
      <3>. QED
        BY <1>2, <1>11, <3>2, Zenon
    <2>2. CASE ~InOut(w, c)
      <3>1. v1 = w
        BY <2>2, Zenon DEF OnChannelUnlink
      <3>. QED
        BY <1>2, <1>9, <1>11, <3>1, Zenon
    <2>. QED
      BY <2>1, <2>2
  <1>12. CASE w.est[c] = "STOPPING" /\ c \notin Decoders
    <2>1. ~InOut(w, c)
      <3>1. c \in Sinks
        BY <1>12, Zenon DEF Chans
      <3>2. SyncedElem(w, c) => w.est[c] = "STARTED"
        BY <3>1, Zenon DEF SyncedElem
      <3>. QED
        BY <1>9, <1>12, <3>2, SMT DEF SyncInv
    <2>2. SyncInv(v2)
      BY <1>9, <1>12, <2>1, ElementStoppedSync, Zenon
    <2>. QED
      BY <1>2, <1>12, <2>2, Zenon
  <1>. QED
    BY <1>10, <1>11, <1>12

\* Without a decoder no element is linked when a media comes or goes.
LEMMA NothingStarts ==
  ASSUME NEW z \in StateType, ~DecodeAll
  PROVE  CompleteTeardown(z).est = z.est
  <1>1. ASSUME NEW x \in StateType
        PROVE  IdrFrameSync(x).est = x.est
    <2>1. Queue(x, TRUE) \in StateType /\ Queue(x, TRUE).est = x.est
      BY <1>1, Queued, Zenon
    <2> DEFINE q == Queue(x, TRUE)
    <2>2. IdrFrameSync(x) = x \/ IdrFrameSync(x) = [q EXCEPT !.d.mIdrFrameSyncPending = FALSE]
      BY Zenon DEF IdrFrameSync
    <2>3. q \in StateType /\ q.est = x.est
      BY <2>1
    <2> HIDE DEF q
    <2>4. [q EXCEPT !.d.mIdrFrameSyncPending = FALSE].est = q.est
      BY <2>3, Zenon DEF StateType
    <2>. QED
      BY <2>2, <2>3, <2>4, Zenon
  <1>2. ASSUME NEW x \in StateType
        PROVE  SetupInputMedia(x).est = x.est
    <2> DEFINE y == [x EXCEPT !.d.mVideoMedia = x.d.mCodecInfo,
                              !.d.mIdrFrameSyncPending = TRUE]
    <2>1. SetupInputMedia(x) = x \/ SetupInputMedia(x) = IdrFrameSync(y)
      BY Zenon DEF SetupInputMedia
    <2>2. y \in StateType /\ y.est = x.est
      BY <1>2, MediaSet, Zenon
    <2> HIDE DEF y
    <2>. QED
      BY <1>1, <2>1, <2>2, Zenon
  <1> DEFINE y == [z EXCEPT !.d.mVideoMedia = None]
             w == [y EXCEPT !.d.mChannelsReadyForStop = TRUE]
             v == [y EXCEPT !.d.mCodecInfoChanging = FALSE]
  <1>3. CompleteTeardown(z) \in {z, y, w, Stopped(y), SetupInputMedia(v)}
    BY SMT DEF CompleteTeardown
  <1>4. y \in StateType /\ y.est = z.est
    BY MediaUnset, Zenon
  <1> HIDE DEF y
  <1>5. Alike(y, w) /\ Alike(y, Stopped(y))
    BY <1>4, ShapeOK, AlikeFields, AlikeStopped, Zenon
  <1>6. v \in StateType /\ v.est = y.est
    BY <1>4, ChangingReset, Zenon
  <1> HIDE DEF w, v
  <1>7. SetupInputMedia(v).est = z.est
    BY <1>2, <1>4, <1>6, Zenon
  <1>8. w.est = z.est /\ Stopped(y).est = z.est
    BY <1>4, <1>5, Zenon DEF Alike, SameSync
  <1>. QED
    BY <1>3, <1>4, <1>7, <1>8, SMT

\* The only element is a sink.
LEMMA OnlySink ==
  ASSUME OneElement, NEW z, SyncInv(z), NEW c \in Sinks, NEW b \in Chans, InOut(z, b)
  PROVE  b = c /\ ~DecodeAll /\ "resync" \notin Allowed
  <1>1. ~DecodeAll /\ (\A a, e \in Sinks : a = e) /\ "resync" \notin Allowed
    BY SMT DEF OneElement
  <1>2. SyncedElem(z, b)
    BY Zenon DEF SyncInv
  <1>3. b \in Sinks
    BY <1>1, <1>2, Zenon DEF SyncedElem, Chans
  <1>. QED
    BY <1>1, <1>3

\* startVideoSink()
LEMMA StartVideoSinkSync ==
  ASSUME OneElement, Good(st), SyncInv(st), NEW c \in Sinks, StartVideoSink(c)
  PROVE  SyncInv(st')
  <1> DEFINE y == Link(st, c)
             x == [y EXCEPT !.d.mIdrFrameSyncPending = TRUE]
  <1>1. /\ st \in StateType /\ st.loop.what = "none" /\ st.d.mVideoMedia # None
        /\ st.est[c] = "none" /\ st' = OnChannelResync(y) /\ st.out \in Seq(Chans)
    BY Zenon DEF Good, StateType, StartVideoSink, Free
  <1>2. c \in Chans /\ c \notin Decoders
    BY StreamConstantsOK, Zenon DEF Chans
  <1>3. \A b \in Chans : ~InOut(st, b)
    <2>1. ASSUME NEW b \in Chans, InOut(st, b)
          PROVE  FALSE
      <3>1. b = c
        BY <2>1, OnlySink, Zenon
      <3>2. SyncedElem(st, b)
        BY <2>1, Zenon DEF SyncInv
      <3>. QED
        BY <1>1, <3>1, <3>2, Zenon DEF SyncedElem
    <2>. QED
      BY <2>1
  <1>4. st.out = <<>>
    BY <1>1, <1>3, SMT DEF InOut
  <1>5. /\ y.out = <<c>> /\ y \in StateType
        /\ y.est[c] = "STARTED" /\ y.ch[c] = NewChan
        /\ y.d = st.d /\ y.loop = st.loop /\ y.unsynced = st.unsynced
    <2>1. Append(st.out, c) = <<c>>
      BY <1>4, SMT
    <2>2. /\ st.ch \in [Chans -> ChanType]
          /\ st.est \in [Chans -> {"none", "STARTED", "STOPPING"}]
      BY <1>1, Zenon DEF StateType
    <2>3. y.ch[c] = NewChan /\ y.est[c] = "STARTED" /\ y.unsynced = st.unsynced
      BY <1>1, <1>2, <2>2, Zenon DEF Link, StateType
    <2>4. y \in StateType /\ y.out = Append(st.out, c) /\ y.d = st.d /\ y.loop = st.loop
      BY <1>1, <1>2, LinkOK, Zenon
    <2>. QED
      BY <2>1, <2>3, <2>4, Zenon
  <1>6. Good(y)
    <2>1. /\ y.est = [st.est EXCEPT ![c] = "STARTED"]
      BY <1>1, <1>2, LinkOK, Zenon
    <2>2. \A q \in Decoders : y.est[q] = st.est[q]
      BY <1>1, <1>2, <2>1, Zenon DEF StateType, Chans
    <2>. QED
      BY <1>5, <2>2, Zenon DEF Good, DecoderLeft
  <1> HIDE DEF y
  <1>7. x \in StateType /\ SameMedia(y, x)
    BY <1>5, SyncPendingSet, Zenon
  <1>8. x.ch = y.ch /\ x.unsynced = y.unsynced /\ x.d.mIdrFrameSyncPending
    BY <1>5, Zenon DEF StateType, DemuxerType
  <1>9. st' = IdrFrameSync(x)
    BY <1>1, Zenon DEF OnChannelResync
  <1> HIDE DEF x
  <1>10. /\ x.out = <<c>> /\ x.est[c] = "STARTED" /\ x.ch[c] = NewChan
         /\ x.loop = st.loop /\ ~x.unsynced /\ x.d.mVideoMedia # None
    BY <1>1, <1>5, <1>7, <1>8, Zenon DEF SyncInv, SameMedia
  <1>11. Len(x.out) <= 1 /\ \A q : InOut(x, q) => q = c
    BY <1>10, SMT DEF InOut
  <1>12. ~NewChan.pending /\ ~NewChan.asked
    BY SMT DEF NewChan
  <1>13. SyncedElem(x, c)
    BY <1>2, <1>8, <1>10, <1>12, SMT DEF SyncedElem
  <1>14. x.loop.what \notin {"flush", "stop"}
    BY <1>1, <1>10, SMT
  <1>15. SyncInv(x)
    BY <1>10, <1>11, <1>13, <1>14, Zenon DEF SyncInv
  <1>16. Good(x)
    BY <1>6, <1>7, SameMediaLeft, Zenon DEF Good
  <1>. QED
    BY <1>9, <1>15, <1>16, IdrFrameSyncSync, Zenon

\* stopVideoSink(): a sink that is linked is the only element.
LEMMA StopVideoSinkSync ==
  ASSUME OneElement, Good(st), st.s.mState # "OPENING", SyncInv(st),
         NEW c \in Sinks, StopVideoSink(c)
  PROVE  SyncInv(st')
  <1> DEFINE y == [st EXCEPT !.est[c] = "STOPPING"]
             b == y.ch[c].asked \/ ~y.ch[c].flushed
             x == [y EXCEPT !.ch[c].asked = b]
             w1 == ChannelTeardown(y, c)
             w2 == [y EXCEPT !.ch[c].asked = FALSE]
             w == IF InOut(st, c) THEN w1 ELSE w2
             v == OnElementStopped([w EXCEPT !.est[c] = "none"])
  <1>1. /\ st \in StateType /\ st.est[c] = "STARTED" /\ st.loop.what = "none"
        /\ st' = IF w.ch[c].asked THEN w ELSE v
    BY Zenon DEF Good, StopVideoSink, Free
  <1>2. c \in Chans /\ c \notin Decoders
    BY StreamConstantsOK, Zenon DEF Chans
  <1>3. Elem(st, y, c) /\ y.est[c] = "STOPPING" /\ y.ch = st.ch
    BY <1>1, <1>2, EstSet, Zenon
  <1>4. y.unsynced = st.unsynced
    BY <1>1, Zenon DEF StateType
  <1>5. w1 = OnChannelUnlink(x, c)
    BY Zenon DEF ChannelTeardown
  <1> HIDE DEF y
  <1>6. /\ Good(y) /\ y \in StateType /\ y.d = st.d /\ y.out = st.out /\ y.loop = st.loop
        /\ y.s.mState # "OPENING"
        /\ \A q \in Chans : q # c => y.est[q] = st.est[q] /\ y.ch[q] = st.ch[q]
    BY <1>2, <1>3, ElemOK, Zenon DEF Elem
  <1>7. CASE ~InOut(st, c)
    <2>1. SyncInv(y)
      BY <1>2, <1>4, <1>6, <1>7, SyncElem, Zenon
    <2>2. Elem(y, w2, c)
      BY <1>2, <1>6, AskedSet, Zenon
    <2>3. w2.unsynced = y.unsynced /\ \A q \in Chans : q # c => w2.ch[q] = y.ch[q]
      BY <1>6, Zenon DEF StateType
    <2>4. w2.est = y.est
      BY <1>6, Zenon DEF StateType
    <2> HIDE DEF w2
    <2>5. SyncInv(w2) /\ w2 \in StateType /\ ~InOut(w2, c)
      <3>1. /\ w2 \in StateType /\ w2.d = y.d /\ w2.out = y.out /\ w2.loop = y.loop
            /\ \A q \in Chans : q # c => w2.est[q] = y.est[q]
        BY <2>2, Zenon DEF Elem
      <3>2. ~InOut(y, c) /\ ~InOut(w2, c)
        BY <1>6, <1>7, <3>1, Zenon DEF InOut
      <3>3. /\ w2.unsynced = y.unsynced /\ w2.d = y.d /\ w2.out = y.out /\ w2.loop = y.loop
            /\ \A q \in Chans : q # c => w2.est[q] = y.est[q] /\ w2.ch[q] = y.ch[q]
        BY <2>3, <3>1, Zenon
      <3>4. SyncInv(w2)
        BY <1>2, <2>1, <3>2, <3>3, SyncElem, Zenon
      <3>. QED
        BY <3>1, <3>2, <3>4
    <2>6. w = w2
      BY <1>7, Zenon
    <2> HIDE DEF w
    <2>7. SyncInv(v)
      BY <1>2, <2>5, <2>6, ElementStoppedSync, Zenon
    <2>. QED
      BY <1>1, <2>5, <2>6, <2>7, Zenon
  <1>8. CASE InOut(st, c)
    <2>1. ~DecodeAll
      BY <1>2, <1>8, OnlySink, Zenon
    <2>2. Elem(y, x, c)
      <3>1. b \in BOOLEAN
        BY Zenon
      <3> HIDE DEF b
      <3>. QED
        BY <1>2, <1>6, <3>1, AskedSet, Zenon
    <2>3. x.unsynced = y.unsynced /\ x.est = y.est
      BY <1>6, Zenon DEF StateType
    <2> HIDE DEF x
    <2>4. /\ Good(x) /\ x \in StateType /\ x.d = y.d /\ x.out = y.out /\ x.loop = y.loop
      BY <1>2, <1>6, <2>2, ElemOK, ZenonT(60) DEF Elem
    <2>5. InOut(x, c)
      BY <1>6, <1>8, <2>4, Zenon DEF InOut
    <2>6. SyncInv(w1)
      <3>1. ~x.unsynced /\ Len(x.out) <= 1
        BY <1>4, <1>6, <2>3, <2>4, Zenon DEF SyncInv
      <3>2. x.loop.what \notin {"flush", "stop"}
        BY <1>1, <1>6, <2>4, SMT
      <3>. QED
        BY <1>2, <1>5, <2>4, <2>5, <3>1, <3>2, OnChannelUnlinkSync, Zenon
    <2>7. w1.est = x.est
      <3> DEFINE u == [x EXCEPT !.out = Without(x.out, c), !.ch[c].pending = FALSE]
      <3>1. u \in StateType /\ u.est = x.est
        BY <1>2, <2>4, <2>5, ChannelRemoved, Zenon
      <3>2. w1 = CompleteTeardown(u)
        BY <1>5, <2>5, Zenon DEF OnChannelUnlink
      <3> HIDE DEF u
      <3>. QED
        BY <2>1, <3>1, <3>2, NothingStarts, Zenon
    <2>8. w1 \in StateType
      <3>1. OnChannel(y, w1, c)
        BY <1>2, <1>6, ChannelTeardownOK, Zenon
      <3>. QED
        BY <3>1, Zenon DEF OnChannel, Good
    <2> HIDE DEF w1
    <2>9. ~InOut(w1, c)
      <3>1. w1.est[c] # "STARTED"
        BY <1>3, <2>3, <2>7, SMT
      <3>2. SyncedElem(w1, c) => w1.est[c] = "STARTED"
        BY Zenon DEF SyncedElem
      <3>. QED
        BY <1>2, <2>6, <3>1, <3>2, Zenon DEF SyncInv
    <2>10. w = w1
      BY <1>8, Zenon
    <2> HIDE DEF w
    <2>11. SyncInv(v)
      BY <1>2, <2>6, <2>8, <2>9, <2>10, ElementStoppedSync, Zenon
    <2>. QED
      BY <1>1, <2>6, <2>10, <2>11, Zenon
  <1>. QED
    BY <1>7, <1>8

\* resyncVideoSink(), which is not called.
LEMMA ResyncVideoSinkSync ==
  ASSUME OneElement, SyncInv(st), NEW c \in Sinks
  PROVE  ~ResyncVideoSink(c)
  BY SMT DEF OneElement, ResyncVideoSink

\* The demuxer is deleted.
LEMMA DeleteDemuxerSync ==
  ASSUME Good(st), SyncInv(st), DeleteDemuxer
  PROVE  SyncInv(st')
  <1>1. /\ st \in StateType /\ st.loop.what = "none"
        /\ st' = [st EXCEPT !.d = [NewDemuxer EXCEPT !.leaked = st.d.leaked],
                            !.s.mDemuxer = FALSE, !.s.deleting = FALSE,
                            !.s.mDemuxerReady = FALSE, !.r = NewClient]
    BY Zenon DEF Good, DeleteDemuxer, Free
  <1>2. st' \in StateType /\ SameElems(st, st') /\ st'.d.mState = "CREATED"
    BY <1>1, DeletedSet, Zenon
  <1>3. /\ st'.out = st.out /\ st'.est = st.est /\ st'.ch = st.ch /\ st'.loop = st.loop
        /\ st'.unsynced = st.unsynced
    BY <1>1, Zenon DEF StateType
  <1>4. ASSUME NEW c \in Chans, InOut(st', c)
        PROVE  SyncedElem(st', c)
    <2>1. InOut(st, c)
      BY <1>3, <1>4, Zenon DEF InOut
    <2>2. SyncedElem(st, c)
      BY <2>1, Zenon DEF SyncInv
    <2>. QED
      BY <1>2, <1>3, <2>2, SMT DEF SyncedElem
  <1>5. st'.loop.what \notin {"flush", "stop"}
    BY <1>1, <1>3, SMT
  <1>6. ~st'.unsynced /\ Len(st'.out) <= 1
    BY <1>3, Zenon DEF SyncInv
  <1>. QED
    BY <1>2, <1>4, <1>5, <1>6, Zenon DEF SyncInv

\* A demuxer that talks to a server, or is asked for something, was opened.
LEMMA OpenedTalks ==
  ASSUME DialogueInv(st),
         st.r.conn # "none" \/ st.r.idles # {} \/ st.s.mDemuxer \/ st.d.mState = "STARTED"
  PROVE  st.d.mState # "CREATED"
  <1>1. NewClient.conn = "none" /\ NewClient.idles = {}
    BY SMT DEF NewClient
  <1>. QED
    BY <1>1, SMT DEF DialogueInv, LifeInv, TalkInv

\* What the application asks for.
LEMMA AsksSync ==
  ASSUME Good(st), SyncInv(st), Play \/ Pause \/ SeekTo
  PROVE  SyncInv(st')
  <1>1. st \in StateType /\ Shape(st) /\ st.d.mState # "CREATED"
    <2>1. st.d.mState = "STARTED"
      BY Zenon DEF Play, Pause, SeekTo, MayAsk
    <2>. QED
      BY <2>1, ShapeOK, SMT DEF Good
  <1>2. ASSUME NEW b, NEW k, NEW sent, st' = Ask([st EXCEPT !.d.mRunning = b], k, sent)
        PROVE  Alike(st, st')
    <2> DEFINE y == [st EXCEPT !.d.mRunning = b]
    <2>1. Alike(st, y) /\ Shape(y)
      BY <1>1, AlikeFields, Zenon DEF Alike
    <2> HIDE DEF y
    <2>2. Alike(y, Ask(y, k, sent))
      BY <2>1, AlikeClientOps, Zenon
    <2>3. st' = Ask(y, k, sent)
      BY <1>2, Zenon DEF y
    <2>. QED
      BY <2>1, <2>2, <2>3, AlikeTransitive, Zenon
  <1>3. ASSUME st' = [Ask(st, "seek", TRUE) EXCEPT !.d.mSeeking = TRUE]
        PROVE  Alike(st, st')
    <2> DEFINE y == Ask(st, "seek", TRUE)
    <2>1. Alike(st, y) /\ Shape(y)
      BY <1>1, AlikeClientOps, Zenon DEF Alike
    <2>2. st' = [y EXCEPT !.d.mSeeking = TRUE]
      BY <1>3, Zenon
    <2> HIDE DEF y
    <2>3. Alike(y, st')
      BY <2>1, <2>2, AlikeFields, Zenon
    <2>. QED
      BY <2>1, <2>3, AlikeTransitive, Zenon
  <1>4. Alike(st, st')
    <2>1. CASE Play
      <3>1. PICK sent \in Sent : st' = Ask([st EXCEPT !.d.mRunning = TRUE], "play", sent)
        BY <2>1, Zenon DEF Play
      <3>. QED
        BY <1>2, <3>1, Zenon
    <2>2. CASE Pause
      <3>1. PICK sent \in Sent : st' = Ask([st EXCEPT !.d.mRunning = FALSE], "pause", sent)
        BY <2>2, Zenon DEF Pause
      <3>. QED
        BY <1>2, <3>1, Zenon
    <2>3. CASE SeekTo
      BY <1>3, <2>3, Zenon DEF SeekTo
    <2>. QED
      BY <2>1, <2>2, <2>3
  <1>. QED
    BY <1>1, <1>4, SyncAlike, Zenon DEF Alike

\* close()
LEMMA CloseSync ==
  ASSUME Good(st), SyncInv(st), Close
  PROVE  SyncInv(st')
  <1> DEFINE y == SessionState(st, "CLOSING")
             w == SessionState(y, "CLOSED")
             v == [w EXCEPT !.s.closed = 1]
  <1>1. st \in StateType /\ Shape(st)
    BY ShapeOK, Zenon DEF Good
  <1>2. \/ st' = v
        \/ \E sent \in Sent : st' = Stop(y, sent)
        \/ st' = y
    BY Zenon DEF Close, Closed
  <1>3. y \in StateType /\ y.d = st.d
    <2>1. "CLOSING" \in SessionStates
      BY Zenon DEF SessionStates
    <2>. QED
      BY <1>1, <2>1, SessionStateOK, Zenon
  <1>4. Alike(st, y) /\ Shape(y)
    BY <1>1, AlikeReady, Zenon DEF Alike
  <1> HIDE DEF y
  <1>5. SyncInv(y)
    BY <1>3, <1>4, SyncAlike, Zenon DEF Alike
  <1>6. CASE st' = v
    <2>1. w.d = y.d
      <3>1. "CLOSED" \in SessionStates
        BY Zenon DEF SessionStates
      <3>. QED
        BY <1>3, <3>1, SessionStateOK, Zenon
    <2>2. Alike(y, w) /\ Shape(w)
      BY <1>4, AlikeReady, Zenon DEF Alike
    <2> HIDE DEF w
    <2>3. Alike(w, v) /\ v.d = w.d
      BY <2>2, AlikeSession, Zenon
    <2> HIDE DEF v
    <2>4. Alike(y, v)
      BY <2>2, <2>3, AlikeTransitive, Zenon
    <2>5. SyncInv(v)
      BY <1>5, <2>1, <2>3, <2>4, SyncAlike, Zenon DEF Alike
    <2>. QED
      BY <1>6, <2>5, Zenon
  <1>7. CASE \E sent \in Sent : st' = Stop(y, sent)
    BY <1>4, <1>5, <1>7, StopSync, Zenon
  <1>. QED
    BY <1>2, <1>5, <1>6, <1>7, Zenon

\* The connection, and the idle functions.
LEMMA ConnectionSync ==
  ASSUME Good(st), DialogueInv(st), SyncInv(st),
         \/ Connected \/ Disconnected \/ ConnectionLost
         \/ IdleRtspDisconnect \/ IdleStop \/ OnRtspSessionRemoved
  PROVE  SyncInv(st')
  <1>1. st \in StateType /\ Shape(st) /\ st.d.mState # "CREATED"
    <2>1. st.r.conn # "none" \/ st.r.idles # {}
      <3>1. \/ st.r.conn \in {"connecting", "closing", "up"}
            \/ "idleStop" \in st.r.idles \/ "idleRtspDisconnect" \in st.r.idles
        BY SMT DEF Connected, Disconnected, ConnectionLost, IdleRtspDisconnect, IdleStop,
           OnRtspSessionRemoved
      <3>. QED
        BY <3>1, SMT
    <2>. QED
      BY <2>1, ShapeOK, OpenedTalks, Zenon DEF Good
  <1>2. CASE Connected
    <2> DEFINE x == [st EXCEPT !.r.conn = "up"]
               y == [x EXCEPT !.d.mRtspState = "CONNECTED"]
               y0 == [st EXCEPT !.r.conn = "up", !.d.mRtspState = "CONNECTED"]
    <2>1. st' = Send(y0, "options") \/ st' = y0
      BY <1>2, Zenon DEF Connected
    <2>2. y0 = y
      BY Zenon
    <2> HIDE DEF y0
    <2>3. Alike(st, x) /\ Shape(x)
      BY <1>1, AlikeClientOps, Zenon DEF Alike
    <2> HIDE DEF x
    <2>4. Alike(x, y) /\ Shape(y)
      BY <2>3, AlikeFields, Zenon DEF Alike
    <2> HIDE DEF y
    <2>5. Alike(y, Send(y, "options")) /\ Alike(y, y)
      BY <2>4, AlikeClientOps, AlikeReady, Zenon
    <2>6. Alike(y, st')
      BY <2>1, <2>2, <2>5, SMT
    <2>7. Alike(st, st')
      BY <2>3, <2>4, <2>6, AlikeTransitive, SMT
    <2>. QED
      BY <1>1, <2>7, SyncAlike, Zenon DEF Alike
  <1>3. ASSUME NEW c, st' = OnDisconnected([st EXCEPT !.r.conn = c])
        PROVE  SyncInv(st')
    <2> DEFINE x == [st EXCEPT !.r.conn = c]
    <2>1. Alike(st, x) /\ Shape(x)
      BY <1>1, AlikeClientOps, Zenon DEF Alike
    <2>2. st' = OnDisconnected(x)
      BY <1>3, Zenon
    <2> HIDE DEF x
    <2>3. Alike(x, st')
      BY <2>1, <2>2, AlikeNetwork, Zenon
    <2>4. Alike(st, st')
      BY <2>1, <2>3, AlikeTransitive, Zenon
    <2>. QED
      BY <1>1, <2>4, SyncAlike, Zenon DEF Alike
  <1>4. CASE Disconnected \/ ConnectionLost
    BY <1>3, <1>4, Zenon DEF Disconnected, ConnectionLost
  <1>5. CASE IdleRtspDisconnect
    <2> DEFINE x == [st EXCEPT !.r.idles = @ \ {"idleRtspDisconnect"}]
    <2>1. Alike(st, x) /\ Shape(x)
      BY <1>1, AlikeClientOps, Zenon DEF Alike
    <2>2. st' = Disconnect(x)
      BY <1>5, Zenon DEF IdleRtspDisconnect
    <2> HIDE DEF x
    <2>3. Alike(x, st')
      BY <2>1, <2>2, AlikeClientOps, Zenon
    <2>4. Alike(st, st')
      BY <2>1, <2>3, AlikeTransitive, Zenon
    <2>. QED
      BY <1>1, <2>4, SyncAlike, Zenon DEF Alike
  <1>6. CASE IdleStop
    <2> DEFINE x == [st EXCEPT !.r.idles = @ \ {"idleStop"}]
    <2>1. Alike(st, x) /\ Shape(x)
      BY <1>1, AlikeClientOps, Zenon DEF Alike
    <2>2. \E sent \in Sent : st' = Stop(x, sent)
      BY <1>6, Zenon DEF IdleStop
    <2> HIDE DEF x
    <2>3. SyncInv(x)
      BY <1>1, <2>1, SyncAlike, Zenon DEF Alike
    <2>. QED
      BY <2>1, <2>2, <2>3, StopSync, Zenon
  <1>7. CASE OnRtspSessionRemoved
    <2>1. Alike(st, st')
      BY <1>1, <1>7, AlikeClientOps, Zenon DEF OnRtspSessionRemoved
    <2>. QED
      BY <1>1, <2>1, SyncAlike, Zenon DEF Alike
  <1>. QED
    BY <1>2, <1>4, <1>5, <1>6, <1>7

\* What the server answers and announces.
LEMMA ServerSync ==
  ASSUME Good(st), DialogueInv(st), SyncInv(st), ServerAnswers \/ OnRtspAnnounce
  PROVE  SyncInv(st')
  <1>1. st \in StateType /\ Shape(st) /\ st.d.mState # "CREATED"
    <2>1. st.s.mDemuxer \/ st.r.conn = "up"
      BY Zenon DEF ServerAnswers, OnRtspOptionsResp, OnRtspDescribeResp, OnRtspSetupResp,
         OnRtspPlayResp, OnRtspPauseResp, OnRtspTeardownResp, OnRtspAnnounce, Answered
    <2>2. "up" # "none"
      BY SMT
    <2>. QED
      BY <2>1, <2>2, ShapeOK, OpenedTalks, Zenon DEF Good
  <1> DEFINE r == Rest
  <1>2. Alike(st, r) /\ Shape(r)
    BY <1>1, AlikeClientOps, Zenon DEF Rest, Alike
  <1>3. \A x : Alike(r, x) => Alike(st, x)
    BY <1>2, AlikeTransitive, Zenon
  <1>4. Alike(st, StopLater(r)) /\ \A k : Alike(r, Tell(r, k))
    BY <1>2, <1>3, AlikeClientOps, Zenon
  <1> HIDE DEF r
  <1>5. ASSUME OnRtspOptionsResp
        PROVE  Alike(st, st')
    <2> DEFINE y == [r EXCEPT !.d.mRtspState = "OPTIONS_DONE"]
    <2>1. Alike(r, y) /\ Shape(y)
      BY <1>2, AlikeFields, Zenon DEF Alike
    <2>2. st' \in {StopLater(r), Send(y, "describe"), y}
      BY <1>5, SMT DEF OnRtspOptionsResp, r
    <2> HIDE DEF y
    <2>3. Alike(y, Send(y, "describe"))
      BY <2>1, AlikeClientOps, Zenon
    <2>4. Alike(r, Send(y, "describe"))
      BY <2>1, <2>3, AlikeTransitive, Zenon
    <2>. QED
      BY <1>3, <1>4, <2>1, <2>2, <2>4, SMT
  <1>6. ASSUME OnRtspDescribeResp \/ OnRtspAnnounce
        PROVE  Alike(st, st')
    <2>1. PICK sdp, sent :
             st' \in {OnNewSdp(r, sdp, sent), StopLater(r), OnNewSdp(st, sdp, sent)}
      BY <1>6, SMT DEF OnRtspDescribeResp, OnRtspAnnounce, r
    <2>2. Alike(r, OnNewSdp(r, sdp, sent)) /\ Alike(st, OnNewSdp(st, sdp, sent))
      BY <1>1, <1>2, AlikeSdp, Zenon
    <2>. QED
      BY <1>3, <1>4, <2>1, <2>2, SMT
  <1>7. ASSUME OnRtspSetupResp
        PROVE  Alike(st, st')
    <2>1. PICK ok \in BOOLEAN, sid \in Sids, creates \in Creates :
             LET y == [r EXCEPT !.d.mRtspSessionId = sid, !.d.mRtspState = "SETUP_DONE"]
                 w == StartRtpAvp(y, creates)
             IN  \/ st' = StopLater(r) \/ st' = w
                 \/ st' = OnReadyToPlay(SetState(w, "STARTED"), TRUE)
      BY <1>7, Zenon DEF OnRtspSetupResp, r
    <2> DEFINE y == [r EXCEPT !.d.mRtspSessionId = sid, !.d.mRtspState = "SETUP_DONE"]
               w == StartRtpAvp(y, creates)
               v == SetState(w, "STARTED")
               u == OnReadyToPlay(v, TRUE)
    <2>2. Alike(r, y) /\ Shape(y)
      BY <1>2, Zenon DEF Alike, SameSync, Shape
    <2>3. st' = StopLater(r) \/ st' = u \/ st' = w
      BY <2>1, Zenon
    <2> HIDE DEF y
    <2>4. Alike(y, w) /\ Shape(w)
      BY <2>2, AlikeReceiver, Zenon DEF Alike
    <2> HIDE DEF w
    <2>5. Alike(w, v) /\ Shape(v)
      BY <2>4, AlikeStopped, Zenon DEF Alike
    <2> HIDE DEF v
    <2>6. Alike(v, u)
      BY <2>5, AlikeReady, Zenon
    <2> HIDE DEF u
    <2>7. Alike(r, w) /\ Alike(r, u)
      BY <2>2, <2>4, <2>5, <2>6, AlikeTransitive, SMT
    <2>. QED
      BY <1>3, <1>4, <2>3, <2>7, SMT
  <1>8. ASSUME OnRtspPlayResp \/ OnRtspPauseResp
        PROVE  Alike(st, st')
    <2>2. PICK k : LET y == Tell(r, k)
                   IN  st' = r \/ st' = y \/ st' = [y EXCEPT !.d.mSeeking = FALSE]
      BY <1>8, Zenon DEF OnRtspPlayResp, OnRtspPauseResp, r
    <2> DEFINE y == Tell(r, k)
               w == [y EXCEPT !.d.mSeeking = FALSE]
    <2>3. Alike(r, y) /\ Shape(y) /\ (st' = r \/ st' = y \/ st' = w)
      BY <1>4, <2>2, Zenon DEF Alike
    <2> HIDE DEF y
    <2>4. Alike(y, w)
      BY <2>3, AlikeFields, Zenon
    <2> HIDE DEF w
    <2>5. Alike(r, w)
      BY <2>3, <2>4, AlikeTransitive, SMT
    <2>. QED
      BY <1>2, <1>3, <2>3, <2>5, SMT
  <1>9. ASSUME OnRtspTeardownResp
        PROVE  Alike(st, st')
    <2> DEFINE y == [r EXCEPT !.d.mTearingDown = FALSE]
               w == [y EXCEPT !.d.mRtspSessionId = None, !.d.mRtspState = "OPTIONS_DONE",
                              !.r.idles = @ \cup {"idleRtspDisconnect"}]
    <2>1. st' \in {y, w}
      BY <1>9, SMT DEF OnRtspTeardownResp, r
    <2>2. Alike(r, y) /\ Shape(y)
      BY <1>2, AlikeFields, Zenon DEF Alike
    <2> HIDE DEF y
    <2>3. Alike(y, w)
      BY <2>2, Zenon DEF Alike, SameSync, Shape
    <2> HIDE DEF w
    <2>4. Alike(r, w)
      BY <2>2, <2>3, AlikeTransitive, SMT
    <2>. QED
      BY <1>3, <2>1, <2>2, <2>4, SMT
  <1>10. Alike(st, st')
    BY <1>5, <1>6, <1>7, <1>8, <1>9, Zenon DEF ServerAnswers
  <1>. QED
    BY <1>1, <1>10, SyncAlike, Zenon DEF Alike

\* Every step of a session that is open.
LEMMA StepSync ==
  ASSUME OneElement, Good(st), DialogueInv(st), SyncInv(st), [Next]_st
  PROVE  SyncInv(st')
  <1>1. st.s.mState \in {"OPENED", "CLOSING", "CLOSED"}
    BY Zenon DEF DialogueInv, LifeInv
  <1>2. st.s.mState # "OPENING"
    BY <1>1, SMT
  <1>3. CASE LoopStep
    <2>1. st.loop.what = "stop" => st.d.mState \in {"STOPPING", "STOPPED"}
      BY Zenon DEF DialogueInv, LifeInv
    <2>. QED
      BY <1>3, <2>1, FlushChannelSync, FlushEndSync, TeardownSync, Zenon DEF LoopStep
  <1>4. CASE AppEvent
    <2>1. ~(OpenUrl \/ OpenDirect)
      <3>1. OpenUrl \/ OpenDirect => st.s.mState = "CREATED"
        BY Zenon DEF OpenUrl, OpenDirect
      <3>. QED
        BY <1>1, <3>1, SMT
    <2>2. CASE \E c \in Sinks : StartVideoSink(c) \/ StopVideoSink(c) \/ ResyncVideoSink(c)
      BY <1>2, <2>2, StartVideoSinkSync, StopVideoSinkSync, ResyncVideoSinkSync, Zenon
    <2>. QED
      BY <1>4, <2>1, <2>2, CloseSync, AsksSync, Zenon DEF AppEvent
  <1>5. CASE RtspEvent
    BY <1>5, ConnectionSync, ServerSync, Zenon DEF RtspEvent
  <1>6. CASE StreamEvent
    BY <1>6, CodecInfoChangedSync, FramesSync, Zenon DEF StreamEvent
  <1>7. CASE Downstream
    BY <1>2, <1>7, ElementFlushedSync, DecoderStoppedSync, Zenon DEF Downstream
  <1>8. CASE DeleteDemuxer
    BY <1>8, DeleteDemuxerSync, Zenon
  <1>9. CASE UNCHANGED st
    BY <1>9, Zenon
  <1>. QED
    BY <1>3, <1>4, <1>5, <1>6, <1>7, <1>8, <1>9, Zenon DEF Next

\* The open of a session, which has no channels yet.
LEMMA OpenSync ==
  ASSUME st = Fresh, OpenUrl \/ OpenDirect
  PROVE  SyncInv(st')
  <1>1. /\ st \in StateType /\ Shape(st) /\ st.out = <<>> /\ st.loop.what = "none"
        /\ ~st.unsynced
    <2>1. ~Fresh.unsynced
      BY SMT DEF Fresh
    <2>. QED
      BY <2>1, FreshOK, ShapeOK, Zenon
  <1> DEFINE o0 == SessionState(st, "OPENING")
             o == [o0 EXCEPT !.s.mDemuxer = TRUE]
  <1>2. Opening = o
    BY Zenon DEF Opening
  <1>3. Alike(st, o0) /\ Shape(o0)
    BY <1>1, AlikeReady, Zenon DEF Alike
  <1> HIDE DEF o0
  <1>4. Alike(o0, o) /\ Shape(o)
    BY <1>3, AlikeSession, Zenon DEF Alike
  <1> HIDE DEF o
  <1>5. Alike(st, o)
    BY <1>3, <1>4, AlikeTransitive, Zenon
  <1>6. CASE OpenUrl
    <2> DEFINE x == [o EXCEPT !.d.rtsp = TRUE, !.r.conn = "connecting"]
               y == SetState(x, "STARTING")
    <2>1. st' = SetState(y, "STARTED")
      BY <1>2, <1>6, Zenon DEF OpenUrl
    <2>2. Alike(o, x) /\ Shape(x)
      BY <1>4, Zenon DEF Alike, SameSync, Shape
    <2> HIDE DEF x
    <2>3. Alike(x, y) /\ Shape(y)
      BY <2>2, AlikeStopped, Zenon DEF Alike
    <2> HIDE DEF y
    <2>4. Alike(y, st')
      BY <2>1, <2>3, AlikeStopped, Zenon
    <2>5. Alike(st, x)
      BY <1>5, <2>2, AlikeTransitive, Zenon
    <2>6. Alike(st, y)
      BY <2>3, <2>5, AlikeTransitive, Zenon
    <2>7. Alike(st, st')
      BY <2>4, <2>6, AlikeTransitive, Zenon
    <2>. QED
      BY <1>1, <2>7, SyncEmpty, SMT DEF Alike, SameSync
  <1>7. CASE OpenDirect
    <2> DEFINE x == SetState(o, "STARTING")
               w == StartRtpAvp(x, TRUE)
               y == OnReadyToPlay(w, TRUE)
    <2>1. st' = SetState(y, "STARTED")
      BY <1>2, <1>7, Zenon DEF OpenDirect
    <2>2. Alike(o, x) /\ Shape(x)
      BY <1>4, AlikeStopped, Zenon DEF Alike
    <2> HIDE DEF x
    <2>3. Alike(x, w) /\ Shape(w)
      BY <2>2, AlikeReceiver, Zenon DEF Alike
    <2> HIDE DEF w
    <2>4. Alike(w, y) /\ Shape(y)
      BY <2>3, AlikeReady, Zenon DEF Alike
    <2> HIDE DEF y
    <2>5. Alike(y, st')
      BY <2>1, <2>4, AlikeStopped, Zenon
    <2>6. Alike(st, w)
      BY <1>5, <2>2, <2>3, AlikeTransitive, SMT
    <2>7. Alike(st, st')
      BY <2>4, <2>5, <2>6, AlikeTransitive, SMT
    <2>. QED
      BY <1>1, <2>7, SyncEmpty, SMT DEF Alike, SameSync
  <1>. QED
    BY <1>6, <1>7

\* With one element at a time, the first frame it gets after it is linked, and
\* after each flush, is a synchronization frame, in whatever order flushes end,
\* parameter sets change and the demuxer stops meanwhile.
THEOREM FirstFrameIsSync ==
  ASSUME Orderly, OneElement PROVE Spec => []SyncFirst
  <1> DEFINE I == StreamInv /\ SyncInv(st)
  <1>1. SyncInv(Fresh)
    <2>1. ~Fresh.unsynced /\ Fresh.loop.what \notin {"flush", "stop"}
      BY FreshOK, SMT DEF Fresh
    <2>. QED
      BY <2>1, FreshOK, SyncEmpty, Zenon
  <1>2. Init => I
    BY <1>1, FreshInvs, Zenon DEF Init, StreamInv
  <1>3. I /\ [Next]_st => I'
    <2> SUFFICES ASSUME I, [Next]_st PROVE I'
      OBVIOUS
    <2>1. StreamInv'
      BY StreamInductive, Zenon
    <2>2. CASE st = Fresh
      <3>1. UNCHANGED st \/ OpenUrl \/ OpenDirect
        BY <2>2, FirstStep, Zenon
      <3>2. SyncInv(st')
        BY <1>1, <2>2, <3>1, OpenSync, Zenon
      <3>. QED
        BY <2>1, <3>2, Zenon
    <2>3. CASE st # Fresh
      <3>1. Good(st) /\ DialogueInv(st)
        BY <2>3, Zenon DEF StreamInv, Invs
      <3>2. SyncInv(st')
        BY <3>1, StepSync, Zenon
      <3>. QED
        BY <2>1, <3>2, Zenon
    <2>. QED
      BY <2>2, <2>3
  <1>4. I => SyncFirst
    BY Zenon DEF SyncInv, SyncFirst
  <1>. QED
    BY <1>2, <1>3, <1>4, PTL DEF Spec
=============================================================================
