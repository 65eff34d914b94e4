------------------------------ MODULE Pipeline ------------------------------
(***************************************************************************)
(* The state of a libpdraw session that plays a local record: the session  *)
(* (pdraw_session.cpp), its demuxer D (pdraw_demuxer_record.cpp), the      *)
(* decoder V (pdraw_avcdecoder.cpp) and the video sinks the application    *)
(* starts (pdraw_sink_video.cpp).  Elements are linked by channels         *)
(* (pdraw_channel.cpp); a channel belongs to the input port of its sink    *)
(* element, and is named after it.                                         *)
(*                                                                         *)
(* All of it runs on the loop thread, in long chains of synchronous calls  *)
(* (flush -> flushDone -> teardown -> unlink ...) that come back to their  *)
(* callers with the state changed.  The chain is explicit here: agenda is  *)
(* the sequence of calls still to make, the first one next; a call that    *)
(* calls others puts them, and what it does after them, in front of the    *)
(* rest.  Between two calls the thread of the video decoder (vdec, a       *)
(* library) may run.                                                       *)
(***************************************************************************)
EXTENDS Naturals, Integers, Sequences, SequencesExt

CONSTANTS
    D, V,           \* the demuxer and the decoder
    Sinks,          \* the video sinks the application may start
    H264Sinks,      \* those it starts on the media of the demuxer
    None,           \* no element
    DecodeAll,      \* the pipeline mode: a decoder for the media, or none
    Allowed,        \* what may happen besides the usual, see Events
    MaxFrames,      \* bound: frames the demuxer outputs
    MaxFlushes,     \* bound: flushes the demuxer begins while playing
    MaxErrors       \* bound: errors vdec reports

\* Events that not every run allows: the application stops a sink before it
\* is told that its media was removed; it starts a sink while the session is
\* closing; it seeks while playing; it resyncs a sink; the decoder fails to
\* start; reading the session metadata fails in open(); the loop thread runs
\* between the statements of a callback of vdec; and also between the load and
\* the store of mCompleteStopPendingCount++.
Events == {"StopAnytime", "LateSink", "SeekAnytime", "Resync", "DecoderFails",
           "MetadataFails", "Preempt", "RacyCount"}

Elements == {D, V} \cup Sinks
SinkElements == {V} \cup Sinks       \* the elements with an input channel

ASSUME ElementsOK == D # V /\ {D, V} \cap Sinks = {} /\ None \notin Elements
                     /\ H264Sinks \subseteq Sinks
ASSUME EventsOK == Allowed \subseteq Events /\ DecodeAll \in BOOLEAN
ASSUME BoundsOK == MaxFrames \in Nat /\ MaxFlushes \in Nat /\ MaxErrors \in Nat

VARIABLES
    agenda,
    \* Session
    mState, mDemuxer, mDemuxerReady, mReadyToPlay, mElements, mMbox, idle,
    \* Element: mState of each element; channels: the source they are linked
    \* to, whether they exist, mFlushPending
    est, link, port, mFlushPending,
    \* RecordDemuxer: the media exists, its output channels, mChannelsFlushing
    \* and whether it plays (mRunning) and has armed its timer
    dmxMedia, dmxOut, mChannelsFlushing, mRunning, mTimer,
    \* AvcDecoder: its flags and its output channels; vdec
    dec, vdec,
    \* VideoSink: its flags
    sink,
    \* The application: flushes it was asked for and has not done, the medias
    \* it knows, what it called (open, closing) and was told (closed, ready)
    appFlush, appMedia, told,
    \* Counters for the bounds
    frames, flushes, errors

sessionVars == <<mState, mDemuxer, mDemuxerReady, mReadyToPlay, mElements>>
chanVars == <<link, port, mFlushPending>>
dmxVars == <<dmxMedia, dmxOut, mChannelsFlushing, mRunning, mTimer>>
appVars == <<appFlush, appMedia, told>>
counters == <<frames, flushes, errors>>
vars == <<agenda, sessionVars, mMbox, idle, est, chanVars, dmxVars, dec, vdec, sink,
          appVars, counters>>

-----------------------------------------------------------------------------
(* Calls.                                                                  *)

\* A call of function f of element e (None: of the session); c is the channel
\* or the element it is about, i and n are the counters of a loop.
Call(f, e) == [f |-> f, e |-> e, c |-> e, i |-> 0, n |-> 0]
CallOn(f, e, c) == [f |-> f, e |-> e, c |-> c, i |-> 0, n |-> 0]
CallLoop(f, e, i, n) == [f |-> f, e |-> e, c |-> e, i |-> i, n |-> n]

Exists(e) == e \notin {x \in Elements : est[x] = "deleted"}

\* The loop thread can run: it is not inside a callback of vdec.
LoopRuns == vdec.cb = "none" \/ "Preempt" \in Allowed
AtEvent == agenda = <<>> /\ LoopRuns

\* The next call is of function f of element e, which exists (a call of a
\* deleted element is undefined: the model stops there).
Runs(f, e) == /\ LoopRuns /\ agenda # <<>>
              /\ Head(agenda).f = f /\ Head(agenda).e = e /\ Exists(e)
Subject == Head(agenda).c
Then(calls) == agenda' = calls \o Tail(agenda)
Return == Then(<<>>)

Post(cmd, e) == mMbox' = Append(mMbox, [cmd |-> cmd, e |-> e])
Idle(cb, e) == [cb |-> cb, e |-> e]
IdleAdd(cb, e) == idle' = Append(idle, Idle(cb, e))

\* removeOutputChannel(): nothing if the channel is not there.
Without(out, c) ==
    LET i == CHOOSE j \in DOMAIN out : out[j] = c
    IN  IF Contains(out, c)
        THEN [j \in 1..(Len(out) - 1) |-> IF j < i THEN out[j] ELSE out[j + 1]]
        ELSE out

-----------------------------------------------------------------------------
(* Types.                                                                  *)

ElementStates == {"none", "CREATED", "STARTING", "STARTED", "STOPPING", "STOPPED",
                  "deleted"}
\* What is called of whom: by a channel of its two ends, of the three kinds of
\* elements, and of the session (None).
CallsOf(fs, es) == [f : fs, e : es, c : Elements \cup {None}, i : Nat, n : Nat]
Upstream == [f : {"onChannelFlushed", "onChannelUnlink"}, e : {D, V}, c : SinkElements,
             i : Nat, n : Nat]
CallType ==
    Upstream
    \cup CallsOf({"channel.flush", "channel.flushDone", "onChannelFlush",
                  "onChannelTeardown", "removeInputMedia", "deleteChannel"}, SinkElements)
    \cup CallsOf({"stop", "flush", "channelFlushed"}, {D})
    \cup [f : {"flushAt", "flushed"}, e : {D}, c : {D}, i : Nat \ {0}, n : Nat]
    \cup CallsOf({"flush", "vdec_flush", "completeFlush", "afterFlush", "teardownOutputs",
                  "vdec_stop", "completeStop", "resync"}, {V})
    \cup CallsOf({"stop", "inputRemoved", "flush", "flushDone", "completeStop"}, Sinks)
    \cup CallsOf({"idle", "mboxCb"}, {None})
    \cup [f : {"onElementStopped"}, e : {None}, c : Elements, i : Nat, n : Nat]
MessageType == [cmd : {"COMPLETE_FLUSH", "COMPLETE_STOP", "RESYNC"}, e : {V}]
               \cup [cmd : {"ELEMENT_DELETE"}, e : Elements]
Answers == {"ready", "notReady", "openResponse", "closeResponse"}
IdleType == [cb : {"sinkFlush"}, e : Sinks] \cup [cb : Answers, e : {None}]
            \cup [cb : {"mediaAdded", "mediaRemoved"}, e : {D, V}]
DecType == [mIsFlushed : BOOLEAN, mIsSync : BOOLEAN,
            mInputChannelFlushPending : BOOLEAN, mResyncPending : BOOLEAN,
            mVdecFlushPending : BOOLEAN, mVdecStopPending : BOOLEAN,
            mCompleteStopPendingCount : Int,
            mInputMedia : BOOLEAN, mOutputMedia : BOOLEAN, out : Seq(Sinks)]
\* flushing, stopping: requested and not done; busy: there are frames in vdec
\* or in its input queue; cb: the callback it is in; count: what it loaded.
VdecType == [flushing : BOOLEAN, stopping : BOOLEAN, busy : BOOLEAN,
             cb : {"none", "flush", "stop", "stopLoaded", "output"}, count : Int]
SinkType == [mIsFlushed : BOOLEAN, mInputChannelFlushPending : BOOLEAN,
             mInputMedia : BOOLEAN, mVideoSinkListener : BOOLEAN]

TypeOK ==
    /\ agenda \in Seq(CallType) /\ mMbox \in Seq(MessageType) /\ idle \in Seq(IdleType)
    /\ mState \in {"CREATED", "OPENED", "CLOSING", "CLOSED"}
    /\ mDemuxer \in BOOLEAN /\ mDemuxerReady \in BOOLEAN /\ mReadyToPlay \in BOOLEAN
    /\ mElements \subseteq Elements
    /\ est \in [Elements -> ElementStates]
    /\ link \in [SinkElements -> {D, V, None}]
    /\ port \in [SinkElements -> BOOLEAN] /\ mFlushPending \in [SinkElements -> BOOLEAN]
    /\ dmxMedia \in BOOLEAN /\ dmxOut \in Seq(SinkElements)
    /\ mChannelsFlushing \in Nat /\ mRunning \in BOOLEAN /\ mTimer \in BOOLEAN
    /\ dec \in DecType /\ vdec \in VdecType /\ sink \in [Sinks -> SinkType]
    /\ appFlush \subseteq Sinks /\ appMedia \subseteq {D, V}
    /\ told \in [open : BOOLEAN, closing : BOOLEAN, closed : Nat, ready : BOOLEAN]

NewDecoder == [mIsFlushed |-> TRUE, mIsSync |-> TRUE,
               mInputChannelFlushPending |-> FALSE, mResyncPending |-> FALSE,
               mVdecFlushPending |-> FALSE, mVdecStopPending |-> FALSE,
               mCompleteStopPendingCount |-> 0, mInputMedia |-> FALSE,
               mOutputMedia |-> FALSE, out |-> <<>>]
NewSink == [mIsFlushed |-> TRUE, mInputChannelFlushPending |-> FALSE,
            mInputMedia |-> FALSE, mVideoSinkListener |-> FALSE]

Init ==
    /\ agenda = <<>> /\ mState = "CREATED" /\ mDemuxer = FALSE
    /\ mDemuxerReady = FALSE /\ mReadyToPlay = FALSE /\ mElements = {}
    /\ mMbox = <<>> /\ idle = <<>>
    /\ est = [e \in Elements |-> "none"]
    /\ link = [c \in SinkElements |-> None] /\ port = [c \in SinkElements |-> FALSE]
    /\ mFlushPending = [c \in SinkElements |-> FALSE]
    /\ dmxMedia = FALSE /\ dmxOut = <<>> /\ mChannelsFlushing = 0
    /\ mRunning = FALSE /\ mTimer = FALSE
    /\ dec = NewDecoder /\ sink = [s \in Sinks |-> NewSink]
    /\ vdec = [flushing |-> FALSE, stopping |-> FALSE, busy |-> FALSE,
               cb |-> "none", count |-> 0]
    /\ appFlush = {} /\ appMedia = {}
    /\ told = [open |-> FALSE, closing |-> FALSE, closed |-> 0, ready |-> FALSE]
    /\ frames = 0 /\ flushes = 0 /\ errors = 0
=============================================================================
