----------------------------- MODULE BackendRpc -----------------------------
(***************************************************************************)
(* The remote procedure calls of libpdraw-backend as data: for each API    *)
(* function, the command it posts to the loop thread and the member of     *)
(* PdrawBackend it reads its answer from; for each command, the member     *)
(* its handler on the loop thread (internalXxx) writes the answer to.      *)
(*                                                                         *)
(* pause() is play(0) and seekForward()/seekBack() are seek(): they have   *)
(* no entry of their own.  A call whose answer is two members (the status  *)
(* and the sink of startVideoSink) is represented by the second one, since *)
(* both are always written and read together.                              *)
(***************************************************************************)
EXTENDS TLC

\* "Void" stands for no member: the call only waits for mRetValReady.
Slots == {"mRetStatus", "mRetUint16", "mRetBool", "mRetUint64", "mRetVideoSink",
          "mRetQueue", "mRetSessionType", "mRetString", "mRetSessionMeta",
          "mRetDroneModel", "mRetPipelineMode", "mRetFloat", "mRetHmdModel",
          "Void"}

Rpc(cmd, slot) == [cmd |-> cmd, slot |-> slot]

-----------------------------------------------------------------------------
(* The API functions, by the part of the interface they belong to.         *)

OpenRpcs == [openUrl    |-> Rpc("OPEN_URL", "mRetStatus"),
             openSingle |-> Rpc("OPEN_SINGLE", "mRetStatus")]

OpenMuxCloseRpcs == [openMux |-> Rpc("OPEN_URL_MUX", "mRetStatus"),
                     close   |-> Rpc("CLOSE", "mRetStatus")]

PortRpcs ==
    [getSingleStreamLocalStreamPort  |->
        Rpc("GET_SINGLE_STREAM_LOCAL_STREAM_PORT", "mRetUint16"),
     getSingleStreamLocalControlPort |->
        Rpc("GET_SINGLE_STREAM_LOCAL_CONTROL_PORT", "mRetUint16")]

PlayStateRpcs == [isReadyToPlay |-> Rpc("IS_READY_TO_PLAY", "mRetBool"),
                  isPaused      |-> Rpc("IS_PAUSED", "mRetBool")]

PlayRpcs == [play          |-> Rpc("PLAY", "mRetStatus"),
             previousFrame |-> Rpc("PREVIOUS_FRAME", "mRetStatus"),
             nextFrame     |-> Rpc("NEXT_FRAME", "mRetStatus")]

SeekRpcs == [seek   |-> Rpc("SEEK", "mRetStatus"),
             seekTo |-> Rpc("SEEK_TO", "mRetStatus")]

TimeRpcs == [getDuration    |-> Rpc("GET_DURATION", "mRetUint64"),
             getCurrentTime |-> Rpc("GET_CURRENT_TIME", "mRetUint64")]

SinkRpcs == [startVideoSink |-> Rpc("START_VIDEO_SINK", "mRetVideoSink"),
             stopVideoSink  |-> Rpc("STOP_VIDEO_SINK", "mRetStatus")]

SinkQueueRpcs ==
    [resyncVideoSink       |-> Rpc("RESYNC_VIDEO_SINK", "mRetStatus"),
     getVideoSinkQueue     |-> Rpc("GET_VIDEO_SINK_QUEUE", "mRetQueue"),
     videoSinkQueueFlushed |-> Rpc("VIDEO_SINK_QUEUE_FLUSHED", "mRetStatus")]

NameRpcs ==
    [getSessionType      |-> Rpc("GET_SESSION_TYPE", "mRetSessionType"),
     getSelfFriendlyName |-> Rpc("GET_SELF_FRIENDLY_NAME", "mRetString"),
     setSelfFriendlyName |-> Rpc("SET_SELF_FRIENDLY_NAME", "Void")]

SerialRpcs ==
    [getSelfSerialNumber |-> Rpc("GET_SELF_SERIAL_NUMBER", "mRetString"),
     setSelfSerialNumber |-> Rpc("SET_SELF_SERIAL_NUMBER", "Void")]

VersionRpcs ==
    [getSelfSoftwareVersion |-> Rpc("GET_SELF_SOFTWARE_VERSION", "mRetString"),
     setSelfSoftwareVersion |-> Rpc("SET_SELF_SOFTWARE_VERSION", "Void")]

PilotRpcs == [isSelfPilot  |-> Rpc("IS_SELF_PILOT", "mRetBool"),
              setSelfPilot |-> Rpc("SET_SELF_PILOT", "Void")]

\* getPeerSessionMetadata posts the command of getPeerDroneModel
\* (pdraw_backend_impl.cpp:2130), and reads mRetSessionMeta.
PeerRpcs == [getPeerSessionMetadata |-> Rpc("GET_PEER_DRONE_MODEL", "mRetSessionMeta"),
             getPeerDroneModel      |-> Rpc("GET_PEER_DRONE_MODEL", "mRetDroneModel")]

PipelineRpcs ==
    [getPipelineModeSetting |-> Rpc("GET_PIPELINE_MODE_SETTING", "mRetPipelineMode"),
     setPipelineModeSetting |-> Rpc("SET_PIPELINE_MODE_SETTING", "Void")]

DisplayRpcs ==
    [getDisplayScreenSettings |-> Rpc("GET_DISPLAY_SCREEN_SETTINGS", "mRetFloat"),
     setDisplayScreenSettings |-> Rpc("SET_DISPLAY_SCREEN_SETTINGS", "Void")]

HmdRpcs == [getHmdModelSetting |-> Rpc("GET_HMD_MODEL_SETTING", "mRetHmdModel"),
            setHmdModelSetting |-> Rpc("SET_HMD_MODEL_SETTING", "Void"),
            setAndroidJvm      |-> Rpc("SET_ANDROID_JVM", "Void")]

RpcTable == OpenRpcs @@ OpenMuxCloseRpcs @@ PortRpcs @@ PlayStateRpcs @@ PlayRpcs
            @@ SeekRpcs @@ TimeRpcs @@ SinkRpcs @@ SinkQueueRpcs @@ NameRpcs
            @@ SerialRpcs @@ VersionRpcs @@ PilotRpcs @@ PeerRpcs
            @@ PipelineRpcs @@ DisplayRpcs @@ HmdRpcs

ApiCalls == DOMAIN RpcTable

-----------------------------------------------------------------------------
(* The handlers of the loop thread: the member each one writes.            *)

ControlHandlers ==
    [c \in {"OPEN_URL", "OPEN_SINGLE", "OPEN_URL_MUX", "CLOSE", "PLAY",
            "PREVIOUS_FRAME", "NEXT_FRAME"} |-> "mRetStatus"]
    @@ [c \in {"GET_SINGLE_STREAM_LOCAL_STREAM_PORT",
               "GET_SINGLE_STREAM_LOCAL_CONTROL_PORT"} |-> "mRetUint16"]
    @@ [c \in {"IS_READY_TO_PLAY", "IS_PAUSED"} |-> "mRetBool"]

SinkHandlers ==
    [c \in {"SEEK", "SEEK_TO", "STOP_VIDEO_SINK", "RESYNC_VIDEO_SINK",
            "VIDEO_SINK_QUEUE_FLUSHED"} |-> "mRetStatus"]
    @@ [c \in {"GET_DURATION", "GET_CURRENT_TIME"} |-> "mRetUint64"]
    @@ ("START_VIDEO_SINK" :> "mRetVideoSink")
    @@ ("GET_VIDEO_SINK_QUEUE" :> "mRetQueue")

SelfHandlers ==
    [c \in {"GET_SELF_FRIENDLY_NAME", "GET_SELF_SERIAL_NUMBER",
            "GET_SELF_SOFTWARE_VERSION"} |-> "mRetString"]
    @@ [c \in {"SET_SELF_FRIENDLY_NAME", "SET_SELF_SERIAL_NUMBER",
               "SET_SELF_SOFTWARE_VERSION", "SET_SELF_PILOT"} |-> "Void"]
    @@ ("GET_SESSION_TYPE" :> "mRetSessionType")
    @@ ("IS_SELF_PILOT" :> "mRetBool")

SettingsHandlers ==
    [c \in {"SET_PIPELINE_MODE_SETTING", "SET_DISPLAY_SCREEN_SETTINGS",
            "SET_HMD_MODEL_SETTING", "SET_ANDROID_JVM"} |-> "Void"]
    @@ ("GET_PEER_SESSION_METADATA" :> "mRetSessionMeta")
    @@ ("GET_PEER_DRONE_MODEL" :> "mRetDroneModel")
    @@ ("GET_PIPELINE_MODE_SETTING" :> "mRetPipelineMode")
    @@ ("GET_DISPLAY_SCREEN_SETTINGS" :> "mRetFloat")
    @@ ("GET_HMD_MODEL_SETTING" :> "mRetHmdModel")

Handlers == ControlHandlers @@ SinkHandlers @@ SelfHandlers @@ SettingsHandlers

-----------------------------------------------------------------------------
Cmds == DOMAIN Handlers

CmdOf(call) == RpcTable[call].cmd

\* The member call reads, and the member the handler of cmd writes.
ReadSlot(call) == RpcTable[call].slot
HandlerSlot(cmd) == Handlers[cmd]

\* The handler of the command a call posts writes the member the call reads.
Matched(call) == HandlerSlot(CmdOf(call)) = ReadSlot(call)

\* Every call posts a command the switch of mboxCb handles (an unknown
\* command would leave the caller waiting for mRetValReady for ever), and the
\* tables only name members of the class.  ("start" and "none" are not calls
\* of this kind.)
ASSUME RpcTablesOK ==
    /\ \A call \in ApiCalls : CmdOf(call) \in Cmds /\ ReadSlot(call) \in Slots
    /\ \A cmd \in Cmds : HandlerSlot(cmd) \in Slots
    /\ {"start", "none"} \cap ApiCalls = {}
=============================================================================
