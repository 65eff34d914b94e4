---------------------- MODULE PdrawPipeline_delete_proofs ---------------------
(***************************************************************************)
(* Proofs that PdrawPipeline calls nothing that was deleted, for any sinks *)
(* and any number of frames and of seeks: NoUseAfterDelete.                *)
(*                                                                         *)
(* SafeInv is the inductive invariant.  Of a session whose open() has      *)
(* succeeded it is AliveInv: from the removal of a media, whose functions  *)
(* are posted in order, through the flush and the teardown of its channels *)
(* to the last COMPLETE_STOP of the decoder, each part says that what will *)
(* be called of an element keeps the element there.  Of a session that     *)
(* could not open it is FailedInv.                                         *)
(***************************************************************************)
EXTENDS PdrawPipeline_flush_proofs, FiniteSetTheorems

-----------------------------------------------------------------------------
(* Who makes a call.                                                       *)

\* f of e will be called.
WillCall(f, e) == \E i \in DOMAIN agenda' : agenda'[i].f = f /\ agenda'[i].e = e
\* The channel of c is the subject of the next call, which is of f of e.
IsAbout(f, e, c) == IsNext(f, e) /\ agenda[1].c = c

\* Why the application or a call makes the call x: of a sink, ...
SinkMade(x) == x.e \in Sinks =>
    /\ x.f = "flush" => \/ IsNext("onChannelFlush", x.e) \/ IsNext("inputRemoved", x.e)
                        \/ "Resync" \in Allowed /\ est[x.e] = "STARTED"
    /\ x.f = "flushDone" => \/ IsNext("flush", x.e) /\ sink[x.e].mIsFlushed
                            \/ x.e \in appFlush
                            \/ idle # <<>> /\ idle[1].cb = "sinkFlush" /\ idle[1].e = x.e
    /\ x.f = "channel.flushDone" => IsNext("flushDone", x.e) /\ sink'[x.e].mIsFlushed
    /\ x.f = "completeStop" => IsNext("flushDone", x.e)
    /\ x.f = "stop" => /\ sink[x.e].mVideoSinkListener /\ x.e \notin appFlush'
                       /\ SourceOf(x.e) \notin appMedia \/ "StopAnytime" \in Allowed
    /\ x.f = "onChannelTeardown" =>
          \/ IsAbout("onChannelFlushed", D, x.e)
          \/ IsNext("teardownOutputs", V) /\ link[x.e] = V
          \/ IsNext("stop", x.e) /\ sink[x.e].mInputMedia
    /\ x.f = "removeInputMedia" => IsNext("onChannelTeardown", x.e) /\ WillCall("inputRemoved", x.e)
    /\ x.f = "inputRemoved" => IsNext("onChannelTeardown", x.e)
\* ... of a channel, ...
ChannelMade(x) ==
    /\ x.f = "channel.flush" => link[x.e] # None
    /\ x.f = "onChannelFlush" => IsNext("channel.flush", x.e)
    /\ x.f = "deleteChannel" => IsNext("removeInputMedia", x.e)
    /\ x.f = "onChannelFlushed" => IsNext("channel.flushDone", x.c) /\ link[x.c] = x.e
    /\ x.f = "onChannelUnlink" => IsNext("removeInputMedia", x.c) /\ link[x.c] = x.e
\* ... of the decoder, ...
DecMade(x) == x.e = V =>
    /\ x.f = "flush" => \/ IsNext("onChannelFlush", V)
                        \/ IsNext("onChannelTeardown", V) /\ est[V] = "STARTED"
    /\ x.f = "vdec_flush" => IsNext("flush", V)
    /\ x.f = "completeFlush" => IsNext("flush", V) \/ Mail("COMPLETE_FLUSH")
    /\ x.f = "channel.flushDone" => IsNext("completeFlush", V) /\ dec'.mIsFlushed
    /\ x.f = "afterFlush" => IsNext("completeFlush", V)
    /\ x.f \in {"removeInputMedia", "teardownOutputs"} => IsNext("afterFlush", V)
    /\ x.f = "vdec_stop" => IsNext("teardownOutputs", V)
    /\ x.f = "completeStop" => MboxMessage /\ mMbox[1].cmd = "COMPLETE_STOP"
    /\ x.f = "resync" => Mail("RESYNC")
    /\ x.f = "onChannelTeardown" => IsAbout("onChannelFlushed", D, V)
\* ... of the demuxer, ...
DmxMade(x) == x.e = D =>
    /\ x.f = "stop" => mState = "OPENED"
    /\ x.f \in {"flush", "flushAt", "flushed", "channelFlushed"} =>
          \/ est[D] = "STARTED"
          \/ agenda # <<>> /\ agenda[1].e = D
\* ... of any of them.
Made(x) == SinkMade(x) /\ ChannelMade(x) /\ DecMade(x) /\ DmxMade(x)

\* A call of the next agenda is made, or was there and waited.
Old(x) == \E j \in DOMAIN agenda :
    /\ agenda[j] = x
    /\ j # 1 \/ UNCHANGED agenda \/ agenda[1].f \in {"idle", "mboxCb"}
\* Every call of the next agenda has an origin, and none that waits is lost.
Origin == /\ \A i \in DOMAIN agenda' : Made(agenda'[i]) \/ Old(agenda'[i])
          /\ \A j \in DOMAIN agenda : j # 1 => \E i \in DOMAIN agenda' : agenda'[i] = agenda[j]

\* A step that makes no call.
LEMMA OriginSame ==
  ASSUME UNCHANGED agenda
  PROVE  Origin
  <1>1. agenda' = agenda /\ DOMAIN agenda' = DOMAIN agenda
    OBVIOUS
  <1>. QED
    BY <1>1, Zenon DEF Origin, Old

\* A call that makes none.
LEMMA OriginNone ==
  ASSUME agenda \in Seq(CallType), agenda # <<>>, Return
  PROVE  Origin
  <1>1. <<>> \in Seq(CallType) /\ DOMAIN <<>> = {} /\ Then(<<>>)
    BY Chains, Zenon DEF Return
  <1>2. /\ \A j \in DOMAIN agenda : j # 1 => \E i \in DOMAIN agenda' : agenda'[i] = agenda[j]
        /\ \A i \in DOMAIN agenda' : \/ i \in DOMAIN <<>>
                                     \/ \E j \in DOMAIN agenda : j # 1 /\ agenda'[i] = agenda[j]
    BY <1>1, Places, Zenon
  <1>. QED
    BY <1>1, <1>2, SMT DEF Origin, Old

\* A call that makes some.
LEMMA OriginMany ==
  ASSUME agenda \in Seq(CallType), agenda # <<>>, NEW q \in Seq(CallType), Then(q),
         \A i \in DOMAIN q : Made(q[i])
  PROVE  Origin
  <1>2. /\ \A j \in DOMAIN agenda : j # 1 => \E i \in DOMAIN agenda' : agenda'[i] = agenda[j]
        /\ \A i \in DOMAIN agenda' : \/ i \in DOMAIN q /\ agenda'[i] = q[i]
                                     \/ \E j \in DOMAIN agenda : j # 1 /\ agenda'[i] = agenda[j]
    BY Places, Zenon
  <1>3. ASSUME NEW i \in DOMAIN agenda'
        PROVE  Made(agenda'[i]) \/ Old(agenda'[i])
    <2>1. CASE i \in DOMAIN q /\ agenda'[i] = q[i]
      BY <2>1
    <2>2. CASE \E j \in DOMAIN agenda : j # 1 /\ agenda'[i] = agenda[j]
      BY <2>2, Zenon DEF Old
    <2>. QED
      BY <1>2, <2>1, <2>2, Zenon
  <1>. QED
    BY <1>2, <1>3, Zenon DEF Origin

\* A call that makes one.
LEMMA OriginOne ==
  ASSUME agenda \in Seq(CallType), agenda # <<>>, NEW x \in CallType, Then(<<x>>), Made(x)
  PROVE  Origin
  <1>1. <<x>> \in Seq(CallType) /\ DOMAIN <<x>> = {1} /\ <<x>>[1] = x
    BY Chains, Zenon
  <1>2. \A i \in DOMAIN <<x>> : Made(<<x>>[i])
    BY <1>1, Zenon
  <1>. QED
    BY <1>1, <1>2, OriginMany, Zenon

\* A call that makes two, one after the other.
LEMMA OriginTwo ==
  ASSUME agenda \in Seq(CallType), agenda # <<>>, NEW x \in CallType, NEW y \in CallType,
         Then(<<x, y>>), Made(x), Made(y)
  PROVE  Origin
  <1>1. <<x, y>> \in Seq(CallType) /\ DOMAIN <<x, y>> = {1, 2} /\ <<x, y>>[1] = x /\ <<x, y>>[2] = y
    <2>1. /\ <<x, y>> \in Seq(CallType) /\ <<x, y>>[1] = x /\ <<x, y>>[2] = y
          /\ DOMAIN <<x, y>> = {1, 2}
      BY Chains
    <2>. QED
      BY <2>1
  <1>2. \A i \in DOMAIN <<x, y>> : Made(<<x, y>>[i])
    BY <1>1, Zenon
  <1>. QED
    BY <1>1, <1>2, OriginMany, Zenon

\* A call made when the loop thread was waiting.
LEMMA OriginEvent ==
  ASSUME agenda = <<>>, NEW x \in CallType, agenda' = <<x>>, Made(x)
  PROVE  Origin
  <1>1. DOMAIN <<x>> = {1} /\ <<x>>[1] = x /\ DOMAIN agenda = {}
    BY Chains, Zenon
  <1>. QED
    BY <1>1, Zenon DEF Origin

\* A call made by an idle function or by the loop of the mailbox.
LEMMA OriginFront ==
  ASSUME TypeOK, agenda # <<>>, NEW x \in CallType, agenda' = <<x>> \o agenda,
         agenda[1].f \in {"idle", "mboxCb"}, Made(x)
  PROVE  Origin
  <1>1. agenda \in Seq(CallType) /\ <<x>> \in Seq(CallType) /\ Len(<<x>>) = 1 /\ <<x>>[1] = x
    BY Types, Chains, Zenon
  <1>2. /\ agenda' \in Seq(CallType) /\ Len(agenda') = 1 + Len(agenda)
        /\ \A i \in 1..(1 + Len(agenda)) :
                agenda'[i] = IF i <= 1 THEN <<x>>[i] ELSE agenda[i - 1]
    BY <1>1, Concat, ZenonT(60)
  <1>3. DOMAIN agenda' = 1..(1 + Len(agenda)) /\ DOMAIN agenda = 1..Len(agenda) /\ Len(agenda) \in Nat
    BY <1>1, <1>2, SMT
  <1>4. \A j \in DOMAIN agenda : j + 1 \in DOMAIN agenda' /\ agenda'[j + 1] = agenda[j]
    BY <1>2, <1>3, SMT
  <1>5. \A i \in DOMAIN agenda' : agenda'[i] = x \/ (i - 1 \in DOMAIN agenda /\ agenda'[i] = agenda[i - 1])
    BY <1>1, <1>2, <1>3, SMT
  <1>6. ASSUME NEW i \in DOMAIN agenda'
        PROVE  Made(agenda'[i]) \/ Old(agenda'[i])
    BY <1>5, Zenon DEF Old
  <1>. QED
    BY <1>4, <1>6, Zenon DEF Origin

\* Channel::flush().
LEMMA ChannelFlushOrigin ==
  ASSUME TypeOK, ChainInv, NEW c \in SinkElements, ChannelFlush(c)
  PROVE  Origin
  <1>1. /\ agenda # <<>> /\ 1 \in DOMAIN agenda /\ agenda[1].f = "channel.flush" /\ agenda[1].e = c
        /\ Subject = agenda[1].c /\ Head(agenda) = agenda[1] /\ agenda[1] \in CallType
        /\ agenda \in Seq(CallType)
    BY Types, Running, Zenon DEF ChannelFlush
  <1>2. CASE TRUE
    <2> DEFINE x == Call("onChannelFlush", c)
    <2>1. /\ x \in CallType /\ x.f = "onChannelFlush" /\ x.e = c
      <3>1. x \in CallType /\ x.f = "onChannelFlush" /\ x.e = c
        BY Distinct, TypedOfChannel, Zenon
      <3>. QED
        BY <3>1
    <2>2. Then(<<x>>)
      BY <1>1, <1>2, Zenon DEF ChannelFlush
    <2> HIDE DEF x
    <2>3. Made(x)
      BY <1>1, <2>1, <1>2, Distinct, SMT DEF Made, SinkMade, ChannelMade, DecMade, DmxMade, IsNext, IsAbout
    <2>. QED
      BY <1>1, <2>1, <2>2, <2>3, OriginOne, Zenon
  <1>. QED
    BY <1>2, Zenon DEF ChannelFlush

\* Channel::flushDone().
LEMMA ChannelFlushDoneOrigin ==
  ASSUME TypeOK, ChainInv, NEW c \in SinkElements, ChannelFlushDone(c)
  PROVE  Origin
  <1>1. /\ agenda # <<>> /\ 1 \in DOMAIN agenda /\ agenda[1].f = "channel.flushDone" /\ agenda[1].e = c
        /\ Subject = agenda[1].c /\ Head(agenda) = agenda[1] /\ agenda[1] \in CallType
        /\ agenda \in Seq(CallType)
    BY Types, Running, Zenon DEF ChannelFlushDone
  <1>2. link[c] # None => link[c] \in {D, V}
    BY Types, SMT
  <1>3. CASE ~(mFlushPending[c] /\ link[c] # None)
    <2>1. Return
      BY <1>2, <1>3, Zenon DEF ChannelFlushDone
    <2>. QED
      BY <1>1, <2>1, OriginNone, Zenon
  <1>4. CASE mFlushPending[c] /\ link[c] # None
    <2> DEFINE x == CallOn("onChannelFlushed", link[c], c)
    <2>1. /\ x \in CallType /\ x.f = "onChannelFlushed" /\ x.e = link[c] /\ x.c = c
      <3>1. x \in CallType /\ x.f = "onChannelFlushed" /\ x.e = link[c] /\ x.c = c
        BY <1>2, <1>4, Distinct, TypedUpstream, SMT
      <3>. QED
        BY <3>1
    <2>2. Then(<<x>>)
      BY <1>2, <1>1, <1>4, Zenon DEF ChannelFlushDone
    <2> HIDE DEF x
    <2>3. Made(x)
      BY <1>1, <2>1, <1>4, <1>2, Distinct, SMT DEF Made, SinkMade, ChannelMade, DecMade, DmxMade, IsNext, IsAbout
    <2>. QED
      BY <1>1, <2>1, <2>2, <2>3, OriginOne, Zenon
  <1>. QED
    BY <1>3, <1>4, <1>2, Zenon DEF ChannelFlushDone

\* removeInputMedia().
LEMMA RemoveInputMediaOrigin ==
  ASSUME TypeOK, ChainInv, NEW c \in SinkElements, RemoveInputMedia(c)
  PROVE  Origin
  <1>1. /\ agenda # <<>> /\ 1 \in DOMAIN agenda /\ agenda[1].f = "removeInputMedia" /\ agenda[1].e = c
        /\ Subject = agenda[1].c /\ Head(agenda) = agenda[1] /\ agenda[1] \in CallType
        /\ agenda \in Seq(CallType)
    BY Types, Running, Zenon DEF RemoveInputMedia
  <1>2. link[c] # None => link[c] \in {D, V}
    BY Types, SMT
  <1>3. CASE link[c] = None
    <2> DEFINE x == Call("deleteChannel", c)
    <2>1. /\ x \in CallType /\ x.f = "deleteChannel" /\ x.e = c
      <3>1. x \in CallType /\ x.f = "deleteChannel" /\ x.e = c
        BY <1>2, Distinct, TypedOfChannel, Zenon
      <3>. QED
        BY <3>1
    <2>2. Then(<<x>>)
      <3>1. Then((<<>>) \o <<x>>)
        BY <1>2, <1>1, <1>3, Zenon DEF RemoveInputMedia
      <3>. HIDE DEF x
      <3>2. <<x>> \in Seq(CallType)
        BY <2>1, Chains, Zenon
      <3>. QED
        BY <2>1, <3>1, <3>2, JoinNone, Zenon
    <2> HIDE DEF x
    <2>3. Made(x)
      BY <1>1, <2>1, <1>3, <1>2, Distinct, SMT DEF Made, SinkMade, ChannelMade, DecMade, DmxMade, IsNext, IsAbout
    <2>. QED
      BY <1>1, <2>1, <2>2, <2>3, OriginOne, Zenon
  <1>4. CASE link[c] # None
    <2> DEFINE x == CallOn("onChannelUnlink", link[c], c)
               y == Call("deleteChannel", c)
    <2>1. /\ x \in CallType /\ x.f = "onChannelUnlink" /\ x.e = link[c] /\ x.c = c
          /\ y \in CallType /\ y.f = "deleteChannel" /\ y.e = c
      <3>1. x \in CallType /\ x.f = "onChannelUnlink" /\ x.e = link[c] /\ x.c = c
        BY <1>2, <1>4, Distinct, TypedUpstream, SMT
      <3>2. y \in CallType /\ y.f = "deleteChannel" /\ y.e = c
        BY <1>2, Distinct, TypedOfChannel, SMT
      <3>. QED
        BY <3>1, <3>2
    <2>2. Then(<<x, y>>)
      <3>1. Then((<<x>>) \o <<y>>)
        BY <1>2, <1>1, <1>4, Zenon DEF RemoveInputMedia
      <3>. HIDE DEF x, y
      <3>2. <<y>> \in Seq(CallType)
        BY <2>1, Chains, Zenon
      <3>. QED
        BY <2>1, <3>1, <3>2, JoinOne, Zenon
    <2> HIDE DEF x, y
    <2>3. Made(x) /\ Made(y)
      BY <1>1, <2>1, <1>4, <1>2, Distinct, SMT DEF Made, SinkMade, ChannelMade, DecMade, DmxMade, IsNext, IsAbout
    <2>. QED
      BY <1>1, <2>1, <2>2, <2>3, OriginTwo, Zenon
  <1>. QED
    BY <1>3, <1>4, <1>2, Zenon DEF RemoveInputMedia

\* The channel is deleted.
LEMMA DeleteChannelOrigin ==
  ASSUME TypeOK, ChainInv, NEW c \in SinkElements, DeleteChannel(c)
  PROVE  Origin
  <1>1. /\ agenda # <<>> /\ 1 \in DOMAIN agenda /\ agenda[1].f = "deleteChannel" /\ agenda[1].e = c
        /\ Subject = agenda[1].c /\ Head(agenda) = agenda[1] /\ agenda[1] \in CallType
        /\ agenda \in Seq(CallType)
    BY Types, Running, Zenon DEF DeleteChannel
  <1>2. CASE TRUE
    <2>1. Return
      BY <1>2, Zenon DEF DeleteChannel
    <2>. QED
      BY <1>1, <2>1, OriginNone, Zenon
  <1>. QED
    BY <1>2, Zenon DEF DeleteChannel

\* stop() of the demuxer.
LEMMA DmxStopOrigin ==
  ASSUME TypeOK, ChainInv, DmxStop
  PROVE  Origin
  <1>1. /\ agenda # <<>> /\ 1 \in DOMAIN agenda /\ agenda[1].f = "stop" /\ agenda[1].e = D
        /\ Subject = agenda[1].c /\ Head(agenda) = agenda[1] /\ agenda[1] \in CallType
        /\ agenda \in Seq(CallType)
    BY Types, Running, Zenon DEF DmxStop
  <1>2. CASE TRUE
    <2> DEFINE x == Call("flush", D)
    <2>1. /\ x \in CallType /\ x.f = "flush" /\ x.e = D
      <3>1. x \in CallType /\ x.f = "flush" /\ x.e = D
        BY Distinct, TypedOfD, Zenon
      <3>. QED
        BY <3>1
    <2>2. Then(<<x>>)
      BY <1>1, <1>2, Zenon DEF DmxStop
    <2> HIDE DEF x
    <2>3. Made(x)
      BY <1>1, <2>1, <1>2, Distinct, SMT DEF Made, SinkMade, ChannelMade, DecMade, DmxMade, IsNext, IsAbout
    <2>. QED
      BY <1>1, <2>1, <2>2, <2>3, OriginOne, Zenon
  <1>. QED
    BY <1>2, Zenon DEF DmxStop

\* flush() of the demuxer.
LEMMA DmxFlushOrigin ==
  ASSUME TypeOK, ChainInv, DmxFlush
  PROVE  Origin
  <1>1. /\ agenda # <<>> /\ 1 \in DOMAIN agenda /\ agenda[1].f = "flush" /\ agenda[1].e = D
        /\ Subject = agenda[1].c /\ Head(agenda) = agenda[1] /\ agenda[1] \in CallType
        /\ agenda \in Seq(CallType)
    BY Types, Running, Zenon DEF DmxFlush
  <1>2. CASE TRUE
    <2> DEFINE x == CallLoop("flushAt", D, 1, Len(dmxOut))
    <2>1. /\ x \in CallType /\ x.f = "flushAt" /\ x.e = D
      <3>1. x \in CallType /\ x.f = "flushAt" /\ x.e = D
        BY Distinct, TypedLoop, TypedLoopD, SMT
      <3>. QED
        BY <3>1
    <2>2. Then(<<x>>)
      BY <1>1, <1>2, Zenon DEF DmxFlush
    <2> HIDE DEF x
    <2>3. Made(x)
      BY <1>1, <2>1, <1>2, Distinct, SMT DEF Made, SinkMade, ChannelMade, DecMade, DmxMade, IsNext, IsAbout
    <2>. QED
      BY <1>1, <2>1, <2>2, <2>3, OriginOne, Zenon
  <1>. QED
    BY <1>2, Zenon DEF DmxFlush

\* A turn of its loop.
LEMMA DmxFlushAtOrigin ==
  ASSUME TypeOK, ChainInv, DmxFlushAt
  PROVE  Origin
  <1> DEFINE i == Head(agenda).i
             n == Head(agenda).n
  <1>1. /\ agenda # <<>> /\ 1 \in DOMAIN agenda /\ agenda[1].f = "flushAt" /\ agenda[1].e = D
        /\ Subject = agenda[1].c /\ Head(agenda) = agenda[1] /\ agenda[1] \in CallType
        /\ agenda \in Seq(CallType)
    BY Types, Running, Zenon DEF DmxFlushAt
  <1>2. i \in Nat \ {0} /\ n \in Nat /\ Len(dmxOut) \in Nat
    BY <1>1, CallFields, Types, SMT
  <1>3. i <= Len(dmxOut) => dmxOut[i] \in SinkElements /\ link[dmxOut[i]] # None
    <2>1. ASSUME i <= Len(dmxOut)
          PROVE  dmxOut[i] \in SinkElements /\ Contains(dmxOut, dmxOut[i])
      <3>1. dmxOut \in Seq(SinkElements)
        BY Types
      <3>2. i \in DOMAIN dmxOut /\ i \in 1..Len(dmxOut)
        BY <1>2, <2>1, <3>1, SMT
      <3>3. dmxOut[i] \in SinkElements
        BY <3>1, <3>2, SMT
      <3>. QED
        BY <3>2, <3>3, Zenon DEF Contains
    <2>. QED
      BY <2>1, Distinct, Zenon DEF ChainInv, LinkInv
  <1>4. CASE i <= n /\ i <= Len(dmxOut)
    <2> DEFINE x == Call("channel.flush", dmxOut[i])
               y == CallLoop("flushed", D, i, n)
    <2>1. /\ x \in CallType /\ x.f = "channel.flush" /\ x.e = dmxOut[i]
          /\ y \in CallType /\ y.f = "flushed" /\ y.e = D
      <3>1. x \in CallType /\ x.f = "channel.flush" /\ x.e = dmxOut[i]
        BY <1>2, <1>3, <1>4, Distinct, TypedOfChannel, SMT
      <3>2. y \in CallType /\ y.f = "flushed" /\ y.e = D
        BY <1>2, <1>3, <1>4, Distinct, TypedLoop, TypedLoopD, SMT
      <3>. QED
        BY <3>1, <3>2
    <2>2. Then(<<x, y>>)
      BY <1>2, <1>3, <1>1, <1>4, SMT DEF DmxFlushAt
    <2> HIDE DEF x, y
    <2>3. Made(x) /\ Made(y)
      BY <1>1, <2>1, <1>4, <1>2, <1>3, Distinct, SMT DEF Made, SinkMade, ChannelMade, DecMade, DmxMade, IsNext, IsAbout
    <2>. QED
      BY <1>1, <2>1, <2>2, <2>3, OriginTwo, Zenon
  <1>5. CASE i <= n /\ i > Len(dmxOut)
    <2> DEFINE x == CallLoop("flushAt", D, i + 1, n)
    <2>1. /\ x \in CallType /\ x.f = "flushAt" /\ x.e = D
      <3>1. x \in CallType /\ x.f = "flushAt" /\ x.e = D
        BY <1>2, <1>3, <1>5, Distinct, TypedLoop, TypedLoopD, SMT
      <3>. QED
        BY <3>1
    <2>2. Then(<<x>>)
      BY <1>2, <1>3, <1>1, <1>5, SMT DEF DmxFlushAt
    <2> HIDE DEF x
    <2>3. Made(x)
      BY <1>1, <2>1, <1>5, <1>2, <1>3, Distinct, SMT DEF Made, SinkMade, ChannelMade, DecMade, DmxMade, IsNext, IsAbout
    <2>. QED
      BY <1>1, <2>1, <2>2, <2>3, OriginOne, Zenon
  <1>6. CASE i > n
    <2>1. Return
      BY <1>2, <1>3, <1>6, SMT DEF DmxFlushAt
    <2>. QED
      BY <1>1, <2>1, OriginNone, Zenon
  <1>. QED
    BY <1>4, <1>5, <1>6, <1>2, <1>3, Zenon DEF DmxFlushAt

\* The channel is counted.
LEMMA DmxChannelCountedOrigin ==
  ASSUME TypeOK, ChainInv, DmxChannelCounted
  PROVE  Origin
  <1>1. /\ agenda # <<>> /\ 1 \in DOMAIN agenda /\ agenda[1].f = "flushed" /\ agenda[1].e = D
        /\ Subject = agenda[1].c /\ Head(agenda) = agenda[1] /\ agenda[1] \in CallType
        /\ agenda \in Seq(CallType)
    BY Types, Running, Zenon DEF DmxChannelCounted
  <1>2. Head(agenda).i \in Nat \ {0} /\ Head(agenda).n \in Nat
    BY <1>1, CallFields, Types, SMT
  <1>3. CASE TRUE
    <2> DEFINE x == CallLoop("flushAt", D, Head(agenda).i + 1, Head(agenda).n)
    <2>1. /\ x \in CallType /\ x.f = "flushAt" /\ x.e = D
      <3>1. x \in CallType /\ x.f = "flushAt" /\ x.e = D
        BY <1>2, <1>3, Distinct, TypedLoop, TypedLoopD, SMT
      <3>. QED
        BY <3>1
    <2>2. Then(<<x>>)
      BY <1>2, <1>1, <1>3, Zenon DEF DmxChannelCounted
    <2> HIDE DEF x
    <2>3. Made(x)
      BY <1>1, <2>1, <1>3, <1>2, Distinct, SMT DEF Made, SinkMade, ChannelMade, DecMade, DmxMade, IsNext, IsAbout
    <2>. QED
      BY <1>1, <2>1, <2>2, <2>3, OriginOne, Zenon
  <1>. QED
    BY <1>3, <1>2, Zenon DEF DmxChannelCounted

\* onChannelFlushed() of the demuxer.
LEMMA DmxOnChannelFlushedOrigin ==
  ASSUME TypeOK, ChainInv, DmxOnChannelFlushed
  PROVE  Origin
  <1>1. /\ agenda # <<>> /\ 1 \in DOMAIN agenda /\ agenda[1].f = "onChannelFlushed" /\ agenda[1].e = D
        /\ Subject = agenda[1].c /\ Head(agenda) = agenda[1] /\ agenda[1] \in CallType
        /\ agenda \in Seq(CallType)
    BY Types, Running, Zenon DEF DmxOnChannelFlushed
  <1>2. Subject \in SinkElements
    BY <1>1, CallFields, SMT
  <1>3. CASE est[D] # "STOPPING"
    <2> DEFINE x == Call("channelFlushed", D)
    <2>1. /\ x \in CallType /\ x.f = "channelFlushed" /\ x.e = D
      <3>1. x \in CallType /\ x.f = "channelFlushed" /\ x.e = D
        BY <1>2, Distinct, TypedOfD, Zenon
      <3>. QED
        BY <3>1
    <2>2. Then(<<x>>)
      <3>1. Then((<<>>) \o <<x>>)
        BY <1>2, <1>1, <1>3, Zenon DEF DmxOnChannelFlushed
      <3>. HIDE DEF x
      <3>2. <<x>> \in Seq(CallType)
        BY <2>1, Chains, Zenon
      <3>. QED
        BY <2>1, <3>1, <3>2, JoinNone, Zenon
    <2> HIDE DEF x
    <2>3. Made(x)
      BY <1>1, <2>1, <1>3, <1>2, Distinct, SMT DEF Made, SinkMade, ChannelMade, DecMade, DmxMade, IsNext, IsAbout
    <2>. QED
      BY <1>1, <2>1, <2>2, <2>3, OriginOne, Zenon
  <1>4. CASE est[D] = "STOPPING"
    <2> DEFINE x == Call("onChannelTeardown", Subject)
               y == Call("channelFlushed", D)
    <2>1. /\ x \in CallType /\ x.f = "onChannelTeardown" /\ x.e = Subject
          /\ y \in CallType /\ y.f = "channelFlushed" /\ y.e = D
      <3>1. x \in CallType /\ x.f = "onChannelTeardown" /\ x.e = Subject
        BY <1>2, Distinct, TypedOfChannel, Zenon
      <3>2. y \in CallType /\ y.f = "channelFlushed" /\ y.e = D
        BY <1>2, Distinct, TypedOfD, Zenon
      <3>. QED
        BY <3>1, <3>2
    <2>2. Then(<<x, y>>)
      <3>1. Then((<<x>>) \o <<y>>)
        BY <1>2, <1>1, <1>4, Zenon DEF DmxOnChannelFlushed
      <3>. HIDE DEF x, y
      <3>2. <<y>> \in Seq(CallType)
        BY <2>1, Chains, Zenon
      <3>. QED
        BY <2>1, <3>1, <3>2, JoinOne, Zenon
    <2> HIDE DEF x, y
    <2>3. Made(x) /\ Made(y)
      BY <1>1, <2>1, <1>4, <1>2, Distinct, SMT DEF Made, SinkMade, ChannelMade, DecMade, DmxMade, IsNext, IsAbout
    <2>. QED
      BY <1>1, <2>1, <2>2, <2>3, OriginTwo, Zenon
  <1>. QED
    BY <1>3, <1>4, <1>2, Zenon DEF DmxOnChannelFlushed

\* Its end.
LEMMA DmxChannelFlushedOrigin ==
  ASSUME TypeOK, ChainInv, DmxChannelFlushed
  PROVE  Origin
  <1>1. /\ agenda # <<>> /\ 1 \in DOMAIN agenda /\ agenda[1].f = "channelFlushed" /\ agenda[1].e = D
        /\ Subject = agenda[1].c /\ Head(agenda) = agenda[1] /\ agenda[1] \in CallType
        /\ agenda \in Seq(CallType)
    BY Types, Running, Zenon DEF DmxChannelFlushed
  <1>2. CASE TRUE
    <2>1. Return
      BY <1>2, Zenon DEF DmxChannelFlushed
    <2>. QED
      BY <1>1, <2>1, OriginNone, Zenon
  <1>. QED
    BY <1>2, Zenon DEF DmxChannelFlushed

\* stop() of the decoder.
LEMMA DecStopOrigin ==
  ASSUME TypeOK, ChainInv, DecStop
  PROVE  Origin
  <1>1. /\ agenda # <<>> /\ 1 \in DOMAIN agenda /\ agenda[1].f = "onChannelTeardown" /\ agenda[1].e = V
        /\ Subject = agenda[1].c /\ Head(agenda) = agenda[1] /\ agenda[1] \in CallType
        /\ agenda \in Seq(CallType)
    BY Types, Running, Zenon DEF DecStop
  <1>2. CASE est[V] = "STARTED"
    <2> DEFINE x == Call("flush", V)
    <2>1. /\ x \in CallType /\ x.f = "flush" /\ x.e = V
      <3>1. x \in CallType /\ x.f = "flush" /\ x.e = V
        BY Distinct, TypedOfV, Zenon
      <3>. QED
        BY <3>1
    <2>2. Then(<<x>>)
      BY <1>1, <1>2, Zenon DEF DecStop
    <2> HIDE DEF x
    <2>3. Made(x)
      BY <1>1, <2>1, <1>2, Distinct, SMT DEF Made, SinkMade, ChannelMade, DecMade, DmxMade, IsNext, IsAbout
    <2>. QED
      BY <1>1, <2>1, <2>2, <2>3, OriginOne, Zenon
  <1>3. CASE est[V] # "STARTED"
    <2>1. Return
      BY <1>3, Zenon DEF DecStop
    <2>. QED
      BY <1>1, <2>1, OriginNone, Zenon
  <1>. QED
    BY <1>2, <1>3, Zenon DEF DecStop

\* onChannelFlush() of the decoder.
LEMMA DecOnChannelFlushOrigin ==
  ASSUME TypeOK, ChainInv, DecOnChannelFlush
  PROVE  Origin
  <1>1. /\ agenda # <<>> /\ 1 \in DOMAIN agenda /\ agenda[1].f = "onChannelFlush" /\ agenda[1].e = V
        /\ Subject = agenda[1].c /\ Head(agenda) = agenda[1] /\ agenda[1] \in CallType
        /\ agenda \in Seq(CallType)
    BY Types, Running, Zenon DEF DecOnChannelFlush
  <1>2. CASE TRUE
    <2> DEFINE x == Call("flush", V)
    <2>1. /\ x \in CallType /\ x.f = "flush" /\ x.e = V
      <3>1. x \in CallType /\ x.f = "flush" /\ x.e = V
        BY Distinct, TypedOfV, Zenon
      <3>. QED
        BY <3>1
    <2>2. Then(<<x>>)
      BY <1>1, <1>2, Zenon DEF DecOnChannelFlush
    <2> HIDE DEF x
    <2>3. Made(x)
      BY <1>1, <2>1, <1>2, Distinct, SMT DEF Made, SinkMade, ChannelMade, DecMade, DmxMade, IsNext, IsAbout
    <2>. QED
      BY <1>1, <2>1, <2>2, <2>3, OriginOne, Zenon
  <1>. QED
    BY <1>2, Zenon DEF DecOnChannelFlush

\* vdec is asked to flush.
LEMMA VdecFlushOrigin ==
  ASSUME TypeOK, ChainInv, VdecFlush
  PROVE  Origin
  <1>1. /\ agenda # <<>> /\ 1 \in DOMAIN agenda /\ agenda[1].f = "vdec_flush" /\ agenda[1].e = V
        /\ Subject = agenda[1].c /\ Head(agenda) = agenda[1] /\ agenda[1] \in CallType
        /\ agenda \in Seq(CallType)
    BY Types, Running, Zenon DEF VdecFlush
  <1>2. CASE TRUE
    <2>1. Return
      BY <1>2, Zenon DEF VdecFlush
    <2>. QED
      BY <1>1, <2>1, OriginNone, Zenon
  <1>. QED
    BY <1>2, Zenon DEF VdecFlush

\* completeFlush().
LEMMA DecCompleteFlushOrigin ==
  ASSUME TypeOK, ChainInv, DecCompleteFlush
  PROVE  Origin
  <1>1. /\ agenda # <<>> /\ 1 \in DOMAIN agenda /\ agenda[1].f = "completeFlush" /\ agenda[1].e = V
        /\ Subject = agenda[1].c /\ Head(agenda) = agenda[1] /\ agenda[1] \in CallType
        /\ agenda \in Seq(CallType)
    BY Types, Running, Zenon DEF DecCompleteFlush
  <1>2. CASE dec.mVdecFlushPending \/ DecOutputFlushPending
    <2>1. Return
      BY <1>2, Zenon DEF DecCompleteFlush
    <2>. QED
      BY <1>1, <2>1, OriginNone, Zenon
  <1>3. CASE ~(dec.mVdecFlushPending \/ DecOutputFlushPending) /\ ~dec.mInputMedia
    <2> DEFINE x == Call("afterFlush", V)
    <2>1. /\ x \in CallType /\ x.f = "afterFlush" /\ x.e = V
      <3>1. x \in CallType /\ x.f = "afterFlush" /\ x.e = V
        BY Distinct, TypedOfV, Zenon
      <3>. QED
        BY <3>1
    <2>2. Then(<<x>>)
      BY <1>1, <1>3, Zenon DEF DecCompleteFlush
    <2> HIDE DEF x
    <2>3. Made(x)
      BY <1>1, <2>1, <1>3, Distinct, SMT DEF Made, SinkMade, ChannelMade, DecMade, DmxMade, IsNext, IsAbout
    <2>. QED
      BY <1>1, <2>1, <2>2, <2>3, OriginOne, Zenon
  <1>4. CASE ~(dec.mVdecFlushPending \/ DecOutputFlushPending) /\ dec.mInputMedia /\ ~dec.mInputChannelFlushPending
    <2> DEFINE x == Call("afterFlush", V)
    <2>1. /\ x \in CallType /\ x.f = "afterFlush" /\ x.e = V
      <3>1. x \in CallType /\ x.f = "afterFlush" /\ x.e = V
        BY Distinct, TypedOfV, Zenon
      <3>. QED
        BY <3>1
    <2>2. Then(<<x>>)
      <3>1. Then((<<>>) \o <<x>>)
        BY <1>1, <1>4, Zenon DEF DecCompleteFlush
      <3>. HIDE DEF x
      <3>2. <<x>> \in Seq(CallType)
        BY <2>1, Chains, Zenon
      <3>. QED
        BY <2>1, <3>1, <3>2, JoinNone, Zenon
    <2> HIDE DEF x
    <2>3. Made(x)
      BY <1>1, <2>1, <1>4, Distinct, SMT DEF Made, SinkMade, ChannelMade, DecMade, DmxMade, IsNext, IsAbout
    <2>. QED
      BY <1>1, <2>1, <2>2, <2>3, OriginOne, Zenon
  <1>5. CASE ~(dec.mVdecFlushPending \/ DecOutputFlushPending) /\ dec.mInputMedia /\ dec.mInputChannelFlushPending
    <2> DEFINE x == Call("channel.flushDone", V)
               y == Call("afterFlush", V)
    <2>1. /\ x \in CallType /\ x.f = "channel.flushDone" /\ x.e = V
          /\ y \in CallType /\ y.f = "afterFlush" /\ y.e = V
      <3>1. x \in CallType /\ x.f = "channel.flushDone" /\ x.e = V
        BY Distinct, TypedOfChannel, Zenon
      <3>2. y \in CallType /\ y.f = "afterFlush" /\ y.e = V
        BY Distinct, TypedOfV, Zenon
      <3>. QED
        BY <3>1, <3>2
    <2>2. Then(<<x, y>>)
      <3>1. Then((<<x>>) \o <<y>>)
        BY <1>1, <1>5, Zenon DEF DecCompleteFlush
      <3>. HIDE DEF x, y
      <3>2. <<y>> \in Seq(CallType)
        BY <2>1, Chains, Zenon
      <3>. QED
        BY <2>1, <3>1, <3>2, JoinOne, Zenon
    <2> HIDE DEF x, y
    <2>3. dec'.mIsFlushed
      <3>1. dec \in DecType
        BY Types
      <3>2. dec' = [dec EXCEPT !.mIsFlushed = TRUE, !.mInputChannelFlushPending = FALSE]
        BY <1>5, Zenon DEF DecCompleteFlush
      <3>. QED
        BY <3>1, <3>2, SMT DEF DecType
    <2>4. Made(x) /\ Made(y)
      BY <1>1, <2>1, <1>5, <2>3, Distinct, SMT DEF Made, SinkMade, ChannelMade, DecMade, DmxMade, IsNext, IsAbout
    <2>. QED
      BY <1>1, <2>1, <2>2, <2>4, OriginTwo, Zenon
  <1>. QED
    BY <1>2, <1>3, <1>4, <1>5, Zenon DEF DecCompleteFlush

\* completeResync() and tryStop().
LEMMA DecAfterFlushOrigin ==
  ASSUME TypeOK, ChainInv, DecAfterFlush
  PROVE  Origin
  <1>1. /\ agenda # <<>> /\ 1 \in DOMAIN agenda /\ agenda[1].f = "afterFlush" /\ agenda[1].e = V
        /\ Subject = agenda[1].c /\ Head(agenda) = agenda[1] /\ agenda[1] \in CallType
        /\ agenda \in Seq(CallType)
    BY Types, Running, Zenon DEF DecAfterFlush
  <1>2. CASE est[V] # "STOPPING"
    <2>1. Return
      BY <1>2, Zenon DEF DecAfterFlush
    <2>. QED
      BY <1>1, <2>1, OriginNone, Zenon
  <1>3. CASE est[V] = "STOPPING" /\ ~dec.mInputMedia
    <2> DEFINE x == Call("teardownOutputs", V)
    <2>1. /\ x \in CallType /\ x.f = "teardownOutputs" /\ x.e = V
      <3>1. x \in CallType /\ x.f = "teardownOutputs" /\ x.e = V
        BY Distinct, TypedOfV, Zenon
      <3>. QED
        BY <3>1
    <2>2. Then(<<x>>)
      <3>1. Then((<<>>) \o <<x>>)
        BY <1>1, <1>3, Zenon DEF DecAfterFlush
      <3>. HIDE DEF x
      <3>2. <<x>> \in Seq(CallType)
        BY <2>1, Chains, Zenon
      <3>. QED
        BY <2>1, <3>1, <3>2, JoinNone, Zenon
    <2> HIDE DEF x
    <2>3. Made(x)
      BY <1>1, <2>1, <1>3, Distinct, SMT DEF Made, SinkMade, ChannelMade, DecMade, DmxMade, IsNext, IsAbout
    <2>. QED
      BY <1>1, <2>1, <2>2, <2>3, OriginOne, Zenon
  <1>4. CASE est[V] = "STOPPING" /\ dec.mInputMedia
    <2> DEFINE x == Call("removeInputMedia", V)
               y == Call("teardownOutputs", V)
    <2>1. /\ x \in CallType /\ x.f = "removeInputMedia" /\ x.e = V
          /\ y \in CallType /\ y.f = "teardownOutputs" /\ y.e = V
      <3>1. x \in CallType /\ x.f = "removeInputMedia" /\ x.e = V
        BY <1>4, Distinct, TypedOfChannel, Zenon
      <3>2. y \in CallType /\ y.f = "teardownOutputs" /\ y.e = V
        BY Distinct, TypedOfV, Zenon
      <3>. QED
        BY <3>1, <3>2
    <2>2. Then(<<x, y>>)
      <3>1. Then((<<x>>) \o <<y>>)
        BY <1>1, <1>4, Zenon DEF DecAfterFlush
      <3>. HIDE DEF x, y
      <3>2. <<y>> \in Seq(CallType)
        BY <2>1, Chains, Zenon
      <3>. QED
        BY <2>1, <3>1, <3>2, JoinOne, Zenon
    <2> HIDE DEF x, y
    <2>3. Made(x) /\ Made(y)
      BY <1>1, <2>1, <1>4, Distinct, SMT DEF Made, SinkMade, ChannelMade, DecMade, DmxMade, IsNext, IsAbout
    <2>. QED
      BY <1>1, <2>1, <2>2, <2>3, OriginTwo, Zenon
  <1>. QED
    BY <1>2, <1>3, <1>4, Zenon DEF DecAfterFlush

\* vdec is asked to stop.
LEMMA VdecStopOrigin ==
  ASSUME TypeOK, ChainInv, VdecStop
  PROVE  Origin
  <1>1. /\ agenda # <<>> /\ 1 \in DOMAIN agenda /\ agenda[1].f = "vdec_stop" /\ agenda[1].e = V
        /\ Subject = agenda[1].c /\ Head(agenda) = agenda[1] /\ agenda[1] \in CallType
        /\ agenda \in Seq(CallType)
    BY Types, Running, Zenon DEF VdecStop
  <1>2. CASE TRUE
    <2>1. Return
      BY <1>2, Zenon DEF VdecStop
    <2>. QED
      BY <1>1, <2>1, OriginNone, Zenon
  <1>. QED
    BY <1>2, Zenon DEF VdecStop

\* completeStop().
LEMMA DecCompleteStopOrigin ==
  ASSUME TypeOK, ChainInv, DecCompleteStop
  PROVE  Origin
  <1>1. /\ agenda # <<>> /\ 1 \in DOMAIN agenda /\ agenda[1].f = "completeStop" /\ agenda[1].e = V
        /\ Subject = agenda[1].c /\ Head(agenda) = agenda[1] /\ agenda[1] \in CallType
        /\ agenda \in Seq(CallType)
    BY Types, Running, Zenon DEF DecCompleteStop
  <1>2. CASE Then(<<CallOn("onElementStopped", None, V)>>)
    <2> DEFINE x == CallOn("onElementStopped", None, V)
    <2>1. /\ x \in CallType /\ x.f = "onElementStopped" /\ x.e = None
      <3>1. x \in CallType /\ x.f = "onElementStopped" /\ x.e = None
        BY Distinct, TypedOfSession, TypedStopped, Zenon
      <3>. QED
        BY <3>1
    <2>2. Then(<<x>>)
      BY <1>1, <1>2, Zenon DEF DecCompleteStop
    <2> HIDE DEF x
    <2>3. Made(x)
      BY <1>1, <2>1, <1>2, Distinct, SMT DEF Made, SinkMade, ChannelMade, DecMade, DmxMade, IsNext, IsAbout
    <2>. QED
      BY <1>1, <2>1, <2>2, <2>3, OriginOne, Zenon
  <1>3. CASE Return
    <2>1. Return
      BY <1>3, Zenon DEF DecCompleteStop
    <2>. QED
      BY <1>1, <2>1, OriginNone, Zenon
  <1>. QED
    BY <1>2, <1>3, Zenon DEF DecCompleteStop

\* onChannelFlushed() of the decoder.
LEMMA DecOnChannelFlushedOrigin ==
  ASSUME TypeOK, ChainInv, DecOnChannelFlushed
  PROVE  Origin
  <1>1. /\ agenda # <<>> /\ 1 \in DOMAIN agenda /\ agenda[1].f = "onChannelFlushed" /\ agenda[1].e = V
        /\ Subject = agenda[1].c /\ Head(agenda) = agenda[1] /\ agenda[1] \in CallType
        /\ agenda \in Seq(CallType)
    BY Types, Running, Zenon DEF DecOnChannelFlushed
  <1>2. CASE TRUE
    <2>1. Return
      BY <1>2, Zenon DEF DecOnChannelFlushed
    <2>. QED
      BY <1>1, <2>1, OriginNone, Zenon
  <1>. QED
    BY <1>2, Zenon DEF DecOnChannelFlushed

\* resync().
LEMMA DecResyncOrigin ==
  ASSUME TypeOK, ChainInv, DecResync
  PROVE  Origin
  <1>1. /\ agenda # <<>> /\ 1 \in DOMAIN agenda /\ agenda[1].f = "resync" /\ agenda[1].e = V
        /\ Subject = agenda[1].c /\ Head(agenda) = agenda[1] /\ agenda[1] \in CallType
        /\ agenda \in Seq(CallType)
    BY Types, Running, Zenon DEF DecResync
  <1>2. CASE TRUE
    <2>1. Return
      BY <1>2, Zenon DEF DecResync
    <2>. QED
      BY <1>1, <2>1, OriginNone, Zenon
  <1>. QED
    BY <1>2, Zenon DEF DecResync

\* stop() of a sink.
LEMMA SinkStopOrigin ==
  ASSUME TypeOK, ChainInv, NEW s \in Sinks, SinkStop(s)
  PROVE  Origin
  <1>1. /\ agenda # <<>> /\ 1 \in DOMAIN agenda /\ agenda[1].f = "stop" /\ agenda[1].e = s
        /\ Subject = agenda[1].c /\ Head(agenda) = agenda[1] /\ agenda[1] \in CallType
        /\ agenda \in Seq(CallType)
    BY Types, Running, Zenon DEF SinkStop
  <1>2. CASE sink[s].mInputMedia
    <2> DEFINE x == Call("onChannelTeardown", s)
    <2>1. /\ x \in CallType /\ x.f = "onChannelTeardown" /\ x.e = s
      <3>1. x \in CallType /\ x.f = "onChannelTeardown" /\ x.e = s
        BY Distinct, TypedOfChannel, Zenon
      <3>. QED
        BY <3>1
    <2>2. Then(<<x>>)
      BY <1>1, <1>2, Zenon DEF SinkStop
    <2> HIDE DEF x
    <2>3. Made(x)
      BY <1>1, <2>1, <1>2, Distinct, SMT DEF Made, SinkMade, ChannelMade, DecMade, DmxMade, IsNext, IsAbout
    <2>. QED
      BY <1>1, <2>1, <2>2, <2>3, OriginOne, Zenon
  <1>3. CASE ~sink[s].mInputMedia
    <2> DEFINE x == CallOn("onElementStopped", None, s)
    <2>1. /\ x \in CallType /\ x.f = "onElementStopped" /\ x.e = None
      <3>1. x \in CallType /\ x.f = "onElementStopped" /\ x.e = None
        BY Distinct, TypedOfSession, TypedStopped, Zenon
      <3>. QED
        BY <3>1
    <2>2. Then(<<x>>)
      BY <1>1, <1>3, Zenon DEF SinkStop
    <2> HIDE DEF x
    <2>3. Made(x)
      BY <1>1, <2>1, <1>3, Distinct, SMT DEF Made, SinkMade, ChannelMade, DecMade, DmxMade, IsNext, IsAbout
    <2>. QED
      BY <1>1, <2>1, <2>2, <2>3, OriginOne, Zenon
  <1>. QED
    BY <1>2, <1>3, Zenon DEF SinkStop

\* channelTeardown().
LEMMA SinkTeardownOrigin ==
  ASSUME TypeOK, ChainInv, NEW s \in Sinks, SinkTeardown(s)
  PROVE  Origin
  <1>1. /\ agenda # <<>> /\ 1 \in DOMAIN agenda /\ agenda[1].f = "onChannelTeardown" /\ agenda[1].e = s
        /\ Subject = agenda[1].c /\ Head(agenda) = agenda[1] /\ agenda[1] \in CallType
        /\ agenda \in Seq(CallType)
    BY Types, Running, Zenon DEF SinkTeardown
  <1>2. CASE sink[s].mInputMedia
    <2> DEFINE x == Call("removeInputMedia", s)
               y == Call("inputRemoved", s)
    <2>1. /\ x \in CallType /\ x.f = "removeInputMedia" /\ x.e = s
          /\ y \in CallType /\ y.f = "inputRemoved" /\ y.e = s
      <3>1. x \in CallType /\ x.f = "removeInputMedia" /\ x.e = s
        BY <1>2, Distinct, TypedOfChannel, Zenon
      <3>2. y \in CallType /\ y.f = "inputRemoved" /\ y.e = s
        BY <1>2, Distinct, TypedOfSink, Zenon
      <3>. QED
        BY <3>1, <3>2
    <2>2. Then(<<x, y>>)
      BY <1>1, <1>2, Zenon DEF SinkTeardown
    <2> HIDE DEF x, y
    <2>3. WillCall("inputRemoved", s)
      <3>1. Calls("inputRemoved", s)'
        BY <1>1, <2>1, <2>2, LineTwo, ZenonT(60)
      <3>. QED
        BY <3>1, Zenon DEF Calls, WillCall
    <2>4. Made(x) /\ Made(y)
      BY <1>1, <2>1, <1>2, <2>3, Distinct, SMT DEF Made, SinkMade, ChannelMade, DecMade, DmxMade, IsNext, IsAbout
    <2>. QED
      BY <1>1, <2>1, <2>2, <2>4, OriginTwo, Zenon
  <1>3. CASE ~sink[s].mInputMedia
    <2>1. Return
      BY <1>3, Zenon DEF SinkTeardown
    <2>. QED
      BY <1>1, <2>1, OriginNone, Zenon
  <1>. QED
    BY <1>2, <1>3, Zenon DEF SinkTeardown

\* The end of channelTeardown().
LEMMA SinkInputRemovedOrigin ==
  ASSUME TypeOK, ChainInv, NEW s \in Sinks, SinkInputRemoved(s)
  PROVE  Origin
  <1>1. /\ agenda # <<>> /\ 1 \in DOMAIN agenda /\ agenda[1].f = "inputRemoved" /\ agenda[1].e = s
        /\ Subject = agenda[1].c /\ Head(agenda) = agenda[1] /\ agenda[1] \in CallType
        /\ agenda \in Seq(CallType)
    BY Types, Running, Zenon DEF SinkInputRemoved
  <1>2. CASE TRUE
    <2> DEFINE x == Call("flush", s)
    <2>1. /\ x \in CallType /\ x.f = "flush" /\ x.e = s
      <3>1. x \in CallType /\ x.f = "flush" /\ x.e = s
        BY Distinct, TypedOfSink, Zenon
      <3>. QED
        BY <3>1
    <2>2. Then(<<x>>)
      BY <1>1, <1>2, Zenon DEF SinkInputRemoved
    <2> HIDE DEF x
    <2>3. Made(x)
      BY <1>1, <2>1, <1>2, Distinct, SMT DEF Made, SinkMade, ChannelMade, DecMade, DmxMade, IsNext, IsAbout
    <2>. QED
      BY <1>1, <2>1, <2>2, <2>3, OriginOne, Zenon
  <1>. QED
    BY <1>2, Zenon DEF SinkInputRemoved

\* onChannelFlush() of a sink.
LEMMA SinkOnChannelFlushOrigin ==
  ASSUME TypeOK, ChainInv, NEW s \in Sinks, SinkOnChannelFlush(s)
  PROVE  Origin
  <1>1. /\ agenda # <<>> /\ 1 \in DOMAIN agenda /\ agenda[1].f = "onChannelFlush" /\ agenda[1].e = s
        /\ Subject = agenda[1].c /\ Head(agenda) = agenda[1] /\ agenda[1] \in CallType
        /\ agenda \in Seq(CallType)
    BY Types, Running, Zenon DEF SinkOnChannelFlush
  <1>2. CASE TRUE
    <2> DEFINE x == Call("flush", s)
    <2>1. /\ x \in CallType /\ x.f = "flush" /\ x.e = s
      <3>1. x \in CallType /\ x.f = "flush" /\ x.e = s
        BY Distinct, TypedOfSink, Zenon
      <3>. QED
        BY <3>1
    <2>2. Then(<<x>>)
      BY <1>1, <1>2, Zenon DEF SinkOnChannelFlush
    <2> HIDE DEF x
    <2>3. Made(x)
      BY <1>1, <2>1, <1>2, Distinct, SMT DEF Made, SinkMade, ChannelMade, DecMade, DmxMade, IsNext, IsAbout
    <2>. QED
      BY <1>1, <2>1, <2>2, <2>3, OriginOne, Zenon
  <1>. QED
    BY <1>2, Zenon DEF SinkOnChannelFlush

\* flush() of a sink.
LEMMA SinkFlushOrigin ==
  ASSUME TypeOK, ChainInv, NEW s \in Sinks, SinkFlush(s)
  PROVE  Origin
  <1>1. /\ agenda # <<>> /\ 1 \in DOMAIN agenda /\ agenda[1].f = "flush" /\ agenda[1].e = s
        /\ Subject = agenda[1].c /\ Head(agenda) = agenda[1] /\ agenda[1] \in CallType
        /\ agenda \in Seq(CallType)
    BY Types, Running, Zenon DEF SinkFlush
  <1>2. CASE sink[s].mIsFlushed
    <2> DEFINE x == Call("flushDone", s)
    <2>1. /\ x \in CallType /\ x.f = "flushDone" /\ x.e = s
      <3>1. x \in CallType /\ x.f = "flushDone" /\ x.e = s
        BY Distinct, TypedOfSink, Zenon
      <3>. QED
        BY <3>1
    <2>2. Then(<<x>>)
      BY <1>1, <1>2, Zenon DEF SinkFlush
    <2> HIDE DEF x
    <2>3. Made(x)
      BY <1>1, <2>1, <1>2, Distinct, SMT DEF Made, SinkMade, ChannelMade, DecMade, DmxMade, IsNext, IsAbout
    <2>. QED
      BY <1>1, <2>1, <2>2, <2>3, OriginOne, Zenon
  <1>3. CASE ~sink[s].mIsFlushed
    <2>1. Return
      BY <1>3, Zenon DEF SinkFlush
    <2>. QED
      BY <1>1, <2>1, OriginNone, Zenon
  <1>. QED
    BY <1>2, <1>3, Zenon DEF SinkFlush

\* flushDone().
LEMMA SinkFlushDoneOrigin ==
  ASSUME TypeOK, ChainInv, NEW s \in Sinks, SinkFlushDone(s)
  PROVE  Origin
  <1>1. /\ agenda # <<>> /\ 1 \in DOMAIN agenda /\ agenda[1].f = "flushDone" /\ agenda[1].e = s
        /\ Subject = agenda[1].c /\ Head(agenda) = agenda[1] /\ agenda[1] \in CallType
        /\ agenda \in Seq(CallType)
    BY Types, Running, Zenon DEF SinkFlushDone
  <1>2. CASE sink[s].mInputMedia /\ sink[s].mInputChannelFlushPending
    <2> DEFINE x == Call("channel.flushDone", s)
               y == Call("completeStop", s)
    <2>1. /\ x \in CallType /\ x.f = "channel.flushDone" /\ x.e = s
          /\ y \in CallType /\ y.f = "completeStop" /\ y.e = s
      <3>1. x \in CallType /\ x.f = "channel.flushDone" /\ x.e = s
        BY Distinct, TypedOfChannel, Zenon
      <3>2. y \in CallType /\ y.f = "completeStop" /\ y.e = s
        BY Distinct, TypedOfSink, Zenon
      <3>. QED
        BY <3>1, <3>2
    <2>2. Then(<<x, y>>)
      BY <1>1, <1>2, Zenon DEF SinkFlushDone
    <2> HIDE DEF x, y
    <2>3. sink'[s].mIsFlushed
      <3>1. sink \in [Sinks -> SinkType] /\ TRUE \in BOOLEAN /\ FALSE \in BOOLEAN
        BY Types, Zenon
      <3>2. sink' = [sink EXCEPT ![s].mIsFlushed = TRUE, ![s].mInputChannelFlushPending = FALSE]
        BY <1>2, Zenon DEF SinkFlushDone
      <3>3. [sink EXCEPT ![s].mIsFlushed = TRUE, ![s].mInputChannelFlushPending = FALSE][s].mIsFlushed = TRUE
        BY <3>1, SinkFields, Zenon
      <3>. QED
        BY <3>2, <3>3, Zenon
    <2>4. Made(x) /\ Made(y)
      BY <1>1, <2>1, <1>2, <2>3, Distinct, SMT DEF Made, SinkMade, ChannelMade, DecMade, DmxMade, IsNext, IsAbout
    <2>. QED
      BY <1>1, <2>1, <2>2, <2>4, OriginTwo, Zenon
  <1>3. CASE ~(sink[s].mInputMedia /\ sink[s].mInputChannelFlushPending)
    <2> DEFINE x == Call("completeStop", s)
    <2>1. /\ x \in CallType /\ x.f = "completeStop" /\ x.e = s
      <3>1. x \in CallType /\ x.f = "completeStop" /\ x.e = s
        BY Distinct, TypedOfSink, Zenon
      <3>. QED
        BY <3>1
    <2>2. Then(<<x>>)
      BY <1>1, <1>3, Zenon DEF SinkFlushDone
    <2> HIDE DEF x
    <2>3. Made(x)
      BY <1>1, <2>1, <1>3, Distinct, SMT DEF Made, SinkMade, ChannelMade, DecMade, DmxMade, IsNext, IsAbout
    <2>. QED
      BY <1>1, <2>1, <2>2, <2>3, OriginOne, Zenon
  <1>. QED
    BY <1>2, <1>3, Zenon DEF SinkFlushDone

\* The end of flushDone().
LEMMA SinkCompleteStopOrigin ==
  ASSUME TypeOK, ChainInv, NEW s \in Sinks, SinkCompleteStop(s)
  PROVE  Origin
  <1>1. /\ agenda # <<>> /\ 1 \in DOMAIN agenda /\ agenda[1].f = "completeStop" /\ agenda[1].e = s
        /\ Subject = agenda[1].c /\ Head(agenda) = agenda[1] /\ agenda[1] \in CallType
        /\ agenda \in Seq(CallType)
    BY Types, Running, Zenon DEF SinkCompleteStop
  <1>2. CASE est[s] = "STOPPING"
    <2> DEFINE x == CallOn("onElementStopped", None, s)
    <2>1. /\ x \in CallType /\ x.f = "onElementStopped" /\ x.e = None
      <3>1. x \in CallType /\ x.f = "onElementStopped" /\ x.e = None
        BY Distinct, TypedOfSession, TypedStopped, Zenon
      <3>. QED
        BY <3>1
    <2>2. Then(<<x>>)
      BY <1>1, <1>2, Zenon DEF SinkCompleteStop
    <2> HIDE DEF x
    <2>3. Made(x)
      BY <1>1, <2>1, <1>2, Distinct, SMT DEF Made, SinkMade, ChannelMade, DecMade, DmxMade, IsNext, IsAbout
    <2>. QED
      BY <1>1, <2>1, <2>2, <2>3, OriginOne, Zenon
  <1>3. CASE est[s] # "STOPPING"
    <2>1. Return
      BY <1>3, Zenon DEF SinkCompleteStop
    <2>. QED
      BY <1>1, <2>1, OriginNone, Zenon
  <1>. QED
    BY <1>2, <1>3, Zenon DEF SinkCompleteStop

\* onElementStateChanged(STOPPED).
LEMMA OnElementStoppedOrigin ==
  ASSUME TypeOK, ChainInv, OnElementStopped
  PROVE  Origin
  <1>1. /\ agenda # <<>> /\ 1 \in DOMAIN agenda /\ agenda[1].f = "onElementStopped" /\ agenda[1].e = None
        /\ Subject = agenda[1].c /\ Head(agenda) = agenda[1] /\ agenda[1] \in CallType
        /\ agenda \in Seq(CallType)
    BY Types, Running, Zenon DEF OnElementStopped
  <1>2. CASE TRUE
    <2>1. Return
      BY <1>2, Zenon DEF OnElementStopped
    <2>. QED
      BY <1>1, <2>1, OriginNone, Zenon
  <1>. QED
    BY <1>2, Zenon DEF OnElementStopped

\* onChannelUnlink() of the demuxer, and of the decoder.
LEMMA UnlinkOrigin ==
  ASSUME TypeOK, ChainInv, DmxOnChannelUnlink \/ DecOnChannelUnlink
  PROVE  Origin
  <1>1. /\ agenda # <<>> /\ agenda \in Seq(CallType)
        /\ Return \/ Then(<<CallOn("onElementStopped", None, D)>>)
    BY Types, Running, Zenon DEF DmxOnChannelUnlink, DecOnChannelUnlink
  <1> DEFINE x == CallOn("onElementStopped", None, D)
  <1>2. x \in CallType /\ x.f = "onElementStopped" /\ x.e = None
    BY TypedOfSession, TypedStopped, Distinct, Zenon
  <1>3. Return \/ Then(<<x>>)
    BY <1>1
  <1> HIDE DEF x
  <1>4. Made(x)
    BY <1>2, Distinct, SMT DEF Made, SinkMade, ChannelMade, DecMade, DmxMade
  <1>. QED
    BY <1>1, <1>2, <1>3, <1>4, OriginNone, OriginOne, Zenon

\* flush() of the decoder.
LEMMA DecFlushOrigin ==
  ASSUME TypeOK, ChainInv, DecFlush
  PROVE  Origin
  <1>0. LinkInv /\ agenda \in Seq(CallType)
    BY Types, Zenon DEF ChainInv
  <1>1. /\ agenda # <<>> /\ 1 \in DOMAIN agenda /\ agenda[1].f = "flush" /\ agenda[1].e = V
    BY Types, Running, Zenon DEF DecFlush
  <1>3. CASE dec.mIsFlushed
    <2> DEFINE x == Call("completeFlush", V)
    <2>1. x \in CallType /\ x.f = "completeFlush" /\ x.e = V
      BY TypedOfV, Zenon
    <2>2. Then(<<x>>)
      BY <1>3, Zenon DEF DecFlush
    <2> HIDE DEF x
    <2>4. Made(x)
      BY <1>1, <2>1, Distinct, SMT DEF Made, SinkMade, ChannelMade, DecMade, DmxMade, IsNext, IsAbout
    <2>. QED
      BY <1>0, <1>1, <2>1, <2>2, <2>4, OriginOne, Zenon
  <1>4. CASE ~dec.mIsFlushed
    <2> DEFINE y == Call("vdec_flush", V)
               q == [i \in DOMAIN dec.out |-> Call("channel.flush", dec.out[i])] \o <<y>>
               n == Len(dec.out) + 1
    <2>1. y \in CallType /\ y.f = "vdec_flush" /\ y.e = V
      BY TypedOfV, Zenon
    <2>2. Then(q)
      BY <1>4, Zenon DEF DecFlush
    <2>3. dec.out \in Seq(Sinks) /\ DOMAIN dec.out = 1..Len(dec.out) /\ n \in Nat
      BY Types, SMT DEF DecType
    <2>4. \A i \in DOMAIN dec.out : link[dec.out[i]] = V
      <3>1. \A i \in DOMAIN dec.out : dec.out[i] \in SinkElements
        BY <2>3, Distinct, SMT
      <3>. QED
        BY <1>0, <2>3, <3>1, Zenon DEF LinkInv, Contains
    <2> HIDE DEF y
    <2>5. /\ q \in Seq(CallType) /\ 1 \in DOMAIN q
          /\ n \in DOMAIN q /\ q[n] = y
          /\ \A i \in DOMAIN q : (i = n \/ i \in DOMAIN dec.out) /\ i \in Nat
          /\ \A i \in DOMAIN dec.out :
                i < n /\ q[i].f = "channel.flush" /\ q[i].e = dec.out[i] /\ dec.out[i] \in Sinks
      BY <2>1, <2>3, CallAllAnd, ZenonT(60)
    <2> HIDE DEF q, n
    <2>6. \A i \in DOMAIN q :
             \/ q[i].f = "vdec_flush" /\ q[i].e = V
             \/ q[i].f = "channel.flush" /\ q[i].e \in Sinks /\ link[q[i].e] = V
      BY <2>1, <2>4, <2>5, ZenonT(60)
    <2>7. ASSUME NEW i \in DOMAIN q PROVE Made(q[i])
      BY <1>1, <2>6, Distinct, SMT DEF Made, SinkMade, ChannelMade, DecMade, DmxMade, IsNext, IsAbout
    <2>. QED
      BY <1>0, <1>1, <2>2, <2>5, <2>7, OriginMany, Zenon
  <1>. QED
    BY <1>3, <1>4

\* tryStop() of the decoder: the output channels are torn down.
LEMMA DecTeardownOutputsOrigin ==
  ASSUME TypeOK, ChainInv, DecTeardownOutputs
  PROVE  Origin
  <1>0. LinkInv /\ agenda \in Seq(CallType)
    BY Types, Zenon DEF ChainInv
  <1>1. /\ agenda # <<>> /\ 1 \in DOMAIN agenda
        /\ agenda[1].f = "teardownOutputs" /\ agenda[1].e = V
    BY Types, Running, Zenon DEF DecTeardownOutputs
  <1> DEFINE y == Call("vdec_stop", V)
             rev == Reverse(dec.out)
             q == [i \in DOMAIN rev |-> Call("onChannelTeardown", rev[i])] \o <<y>>
             n == Len(rev) + 1
  <1>3. y \in CallType /\ y.f = "vdec_stop" /\ y.e = V
    BY TypedOfV, Zenon
  <1>4. rev \in Seq(Sinks) /\ DOMAIN rev = DOMAIN dec.out
        /\ \A i \in DOMAIN rev : link[rev[i]] = V
    <2>1. dec.out \in Seq(Sinks)
      BY Types, SMT DEF DecType
    <2> DEFINE l == Len(dec.out)
    <2>2. l \in Nat /\ DOMAIN dec.out = 1..l /\ \A i \in 1..l : dec.out[i] \in Sinks
      BY <2>1, SMT
    <2>3. rev = [i \in 1..l |-> dec.out[(l - i) + 1]]
      BY Zenon DEF Reverse
    <2>4. \A i \in 1..l : link[dec.out[i]] = V
      <3>1. \A i \in 1..l : dec.out[i] \in SinkElements
        BY <2>2, Distinct, SMT
      <3>. QED
        BY <1>0, <2>2, <3>1, Zenon DEF LinkInv, Contains
    <2> HIDE DEF rev, l
    <2>5. \A i \in 1..l : dec.out[(l - i) + 1] \in Sinks /\ link[dec.out[(l - i) + 1]] = V
      <3>1. \A i \in 1..l : (l - i) + 1 \in 1..l
        BY <2>2, SMT
      <3>. QED
        BY <2>2, <2>4, <3>1, Zenon
    <2>6. DOMAIN rev = 1..l /\ \A i \in 1..l : rev[i] = dec.out[(l - i) + 1]
      BY <2>3
    <2>7. rev \in Seq(Sinks)
      BY <2>2, <2>3, <2>5, SMT
    <2>. QED
      BY <2>2, <2>5, <2>6, <2>7, Zenon
  <1>5. Then(q)
    BY <1>4, Zenon DEF DecTeardownOutputs
  <1>6. n \in Nat
    BY <1>4, SMT
  <1> HIDE DEF y, rev
  <1>7. /\ q \in Seq(CallType) /\ 1 \in DOMAIN q
        /\ n \in DOMAIN q /\ q[n] = y
        /\ \A i \in DOMAIN q : (i = n \/ i \in DOMAIN rev) /\ i \in Nat
        /\ \A i \in DOMAIN rev :
              i < n /\ q[i].f = "onChannelTeardown" /\ q[i].e = rev[i] /\ rev[i] \in Sinks
    BY <1>3, <1>4, CallAllAnd, ZenonT(60)
  <1> HIDE DEF q, n
  <1>8. \A i \in DOMAIN q : \/ q[i].f = "vdec_stop" /\ q[i].e = V
                            \/ q[i].f = "onChannelTeardown" /\ q[i].e \in Sinks /\ link[q[i].e] = V
    BY <1>3, <1>4, <1>7, ZenonT(60)
  <1>9. ASSUME NEW i \in DOMAIN q PROVE Made(q[i])
    BY <1>1, <1>8, Distinct, SMT DEF Made, SinkMade, ChannelMade, DecMade, DmxMade, IsNext, IsAbout
  <1>. QED
    BY <1>0, <1>1, <1>5, <1>7, <1>9, OriginMany, Zenon

\* An idle function.
LEMMA IdleFunctionOrigin ==
  ASSUME TypeOK, ChainInv, IdleFunction
  PROVE  Origin
  <1>0. agenda \in Seq(CallType) /\ idle \in Seq(IdleType)
    BY Types, Zenon
  <1>1. /\ agenda # <<>> /\ agenda[1].f = "idle" /\ agenda[1].e = None /\ idle # <<>>
    BY <1>0, Running, Zenon DEF IdleFunction
  <1>3. CASE UNCHANGED agenda
    BY <1>3, OriginSame, Zenon
  <1>4. CASE ~UNCHANGED agenda
    <2>1. /\ Head(idle).cb = "sinkFlush"
          /\ agenda' = <<Call("flushDone", Head(idle).e)>> \o agenda
      BY <1>4, Zenon DEF IdleFunction, CallVideoSinkFlush, CallListener
    <2>2. Head(idle).e \in Sinks /\ Head(idle) = idle[1]
      BY <1>0, <1>1, <2>1, TailOfSeq, NoticeTypes, Zenon
    <2> DEFINE x == Call("flushDone", Head(idle).e)
    <2>3. x \in CallType /\ x.f = "flushDone" /\ x.e = Head(idle).e
      BY <2>2, TypedOfSink, Zenon
    <2>4. agenda' = <<x>> \o agenda
      BY <2>1
    <2> HIDE DEF x
    <2>5. Made(x)
      BY <1>1, <2>1, <2>2, <2>3, Distinct, SMT DEF Made, SinkMade, ChannelMade, DecMade, DmxMade
    <2>. QED
      BY <1>1, <2>3, <2>4, <2>5, OriginFront, Zenon
  <1>. QED
    BY <1>3, <1>4

\* A message.
LEMMA MboxMessageOrigin ==
  ASSUME TypeOK, ChainInv, MboxMessage
  PROVE  Origin
  <1>1. /\ agenda # <<>> /\ agenda[1].f = "mboxCb" /\ agenda[1].e = None
        /\ 1 \in DOMAIN mMbox
    BY MessageCases, Zenon
  <1>3. CASE UNCHANGED agenda
    BY <1>3, OriginSame, Zenon
  <1>4. ASSUME NEW f, NEW m, <<f, m>> \in {<<"completeFlush", "COMPLETE_FLUSH">>,
                    <<"completeStop", "COMPLETE_STOP">>, <<"resync", "RESYNC">>},
               agenda' = <<Call(f, V)>> \o agenda, mMbox[1].cmd = m
        PROVE  Origin
    <2>0. f \in {"completeFlush", "completeStop", "resync"}
      BY <1>4
    <2> DEFINE x == Call(f, V)
    <2>1. x \in CallType /\ x.f = f /\ x.e = V
      BY <2>0, TypedOfV, Zenon
    <2>2. agenda' = <<x>> \o agenda
      BY <1>4
    <2>3. Mail(m)
      BY <1>1, <1>4, Zenon DEF Mail
    <2> HIDE DEF x
    <2>4. Made(x)
      BY <1>4, <2>1, <2>3, Distinct, SMT DEF Made, SinkMade, ChannelMade, DecMade, DmxMade
    <2>. QED
      BY <1>1, <2>1, <2>2, <2>4, OriginFront, Zenon
  <1>5. \/ UNCHANGED agenda
        \/ mMbox[1].cmd = "COMPLETE_FLUSH" /\ agenda' = <<Call("completeFlush", V)>> \o agenda
        \/ mMbox[1].cmd = "COMPLETE_STOP" /\ agenda' = <<Call("completeStop", V)>> \o agenda
        \/ mMbox[1].cmd = "RESYNC" /\ agenda' = <<Call("resync", V)>> \o agenda
    BY MessageCases, Zenon
  <1>. QED
    BY <1>3, <1>4, <1>5, SMT

\* The end of an event.
LEMMA EventDoneOrigin ==
  ASSUME TypeOK, ChainInv, EventDone
  PROVE  Origin
  <1>1. agenda # <<>> /\ agenda \in Seq(CallType)
    BY Types, Zenon DEF EventDone, Runs
  <1>2. Return
    BY Zenon DEF EventDone
  <1>. QED
    BY <1>1, <1>2, OriginNone, Zenon

\* An event.
LEMMA EventOrigin ==
  ASSUME TypeOK, ChainInv, AppEvent \/ TimerNoBuffer \/ RunIdle \/ RunMbox
  PROVE  Origin
  <1>1. agenda = <<>>
    BY Zenon DEF AppEvent, TimerNoBuffer, RunIdle, RunMbox, AtEvent, Open, Close,
       Play, StartVideoSink, StopVideoSink, VideoSinkQueueFlushed, ResyncVideoSink
  <1>2. CASE UNCHANGED agenda
    BY <1>2, OriginSame, Zenon
  <1>4. ASSUME NEW s \in Sinks, StopVideoSink(s) \/ VideoSinkQueueFlushed(s) \/ ResyncVideoSink(s)
        PROVE  Origin
    <2>2. \E f \in {"stop", "flush", "flushDone"} :
             /\ agenda' = <<Call(f, s)>>
             /\ f = "stop" => StopVideoSink(s)
             /\ f = "flush" => ResyncVideoSink(s)
             /\ f = "flushDone" => VideoSinkQueueFlushed(s)
      BY <1>4, SMT DEF StopVideoSink, VideoSinkQueueFlushed, ResyncVideoSink
    <2>3. PICK f \in {"stop", "flush", "flushDone"} :
             /\ agenda' = <<Call(f, s)>>
             /\ f = "stop" => StopVideoSink(s)
             /\ f = "flush" => ResyncVideoSink(s)
             /\ f = "flushDone" => VideoSinkQueueFlushed(s)
      BY <2>2
    <2>4. f \in {"stop", "inputRemoved", "flush", "flushDone", "completeStop"}
      OBVIOUS
    <2> DEFINE x == Call(f, s)
    <2>5. x \in CallType /\ x.f = f /\ x.e = s
      BY <2>4, TypedOfSink, Zenon
    <2>6. agenda' = <<x>>
      BY <2>3
    <2> HIDE DEF x
    <2>7. Made(x)
      <3>1. CASE f = "stop"
        <4>1. /\ sink[s].mVideoSinkListener /\ appFlush' = appFlush \ {s}
              /\ SourceOf(s) \notin appMedia \/ "StopAnytime" \in Allowed
          BY <2>3, <3>1, Zenon DEF StopVideoSink
        <4>2. s \notin appFlush'
          BY <4>1
        <4>. QED
          BY <2>5, <3>1, <4>1, <4>2, Distinct, SMT DEF Made, SinkMade, ChannelMade, DecMade, DmxMade
      <3>2. CASE f = "flush"
        <4>1. "Resync" \in Allowed /\ est[s] = "STARTED"
          BY <2>3, <3>2, Zenon DEF ResyncVideoSink
        <4>. QED
          BY <2>5, <3>2, <4>1, Distinct, SMT DEF Made, SinkMade, ChannelMade, DecMade, DmxMade
      <3>3. CASE f = "flushDone"
        <4>1. s \in appFlush
          BY <2>3, <3>3, Zenon DEF VideoSinkQueueFlushed
        <4>. QED
          BY <2>5, <3>3, <4>1, Distinct, SMT DEF Made, SinkMade, ChannelMade, DecMade, DmxMade
      <3>. QED
        BY <3>1, <3>2, <3>3
    <2>. QED
      BY <1>1, <2>5, <2>6, <2>7, OriginEvent, Zenon
  <1>5. CASE Close \/ TimerNoBuffer
    <2>1. \/ UNCHANGED agenda
          \/ agenda' = <<Call("stop", D)>> /\ mState = "OPENED"
          \/ agenda' = <<Call("flush", D)>> /\ est[D] = "STARTED"
      BY <1>5, Zenon DEF Close, TimerNoBuffer
    <2>2. ASSUME NEW f \in {"stop", "flush"}, agenda' = <<Call(f, D)>>,
                 f = "stop" => mState = "OPENED", f = "flush" => est[D] = "STARTED"
          PROVE  Origin
      <3>1. f \in {"stop", "flush", "channelFlushed"}
        OBVIOUS
      <3> DEFINE x == Call(f, D)
      <3>2. x \in CallType /\ x.f = f /\ x.e = D
        BY <3>1, TypedOfD, Zenon
      <3>3. agenda' = <<x>>
        BY <2>2
      <3> HIDE DEF x
      <3>4. Made(x)
        BY <2>2, <3>2, Distinct, SMT DEF Made, SinkMade, ChannelMade, DecMade, DmxMade
      <3>. QED
        BY <1>1, <3>2, <3>3, <3>4, OriginEvent, Zenon
    <2>. QED
      BY <1>2, <2>1, <2>2, SMT
  <1>6. CASE RunIdle \/ RunMbox
    <2>1. \E f \in {"idle", "mboxCb"} : agenda' = <<Call(f, None)>>
      BY <1>6, SMT DEF RunIdle, RunMbox
    <2>2. PICK f \in {"idle", "mboxCb"} : agenda' = <<Call(f, None)>>
      BY <2>1
    <2> DEFINE x == Call(f, None)
    <2>3. x \in CallType /\ x.f = f /\ x.e = None
      BY TypedOfSession, Zenon
    <2>4. agenda' = <<x>>
      BY <2>2
    <2> HIDE DEF x
    <2>5. Made(x)
      BY <2>3, Distinct, SMT DEF Made, SinkMade, ChannelMade, DecMade, DmxMade
    <2>. QED
      BY <1>1, <2>3, <2>4, <2>5, OriginEvent, Zenon
  <1>7. CASE Open \/ Play \/ \E s \in Sinks : StartVideoSink(s)
    <2>1. UNCHANGED agenda
      BY <1>7, Zenon DEF Open, OpenOk, OpenWithoutDecoder, OpenFails, Play, StartVideoSink
    <2>. QED
      BY <1>2, <2>1
  <1>. QED
    BY <1>4, <1>5, <1>6, <1>7, Zenon DEF AppEvent

\* Every call is made by the one before, or was there.
LEMMA Origins ==
  ASSUME TypeOK, ChainInv, [Next]_vars
  PROVE  Origin
  <1>1. CASE ChannelStep
    BY <1>1, ChannelFlushOrigin, ChannelFlushDoneOrigin, RemoveInputMediaOrigin,
       DeleteChannelOrigin, Zenon DEF ChannelStep
  <1>2. CASE DmxStep
    BY <1>2, DmxStopOrigin, DmxFlushOrigin, DmxFlushAtOrigin, DmxChannelCountedOrigin,
       DmxOnChannelFlushedOrigin, DmxChannelFlushedOrigin, UnlinkOrigin, Zenon DEF DmxStep
  <1>3. CASE DecStep
    BY <1>3, DecStopOrigin, DecOnChannelFlushOrigin, DecFlushOrigin, VdecFlushOrigin,
       DecCompleteFlushOrigin, DecAfterFlushOrigin, DecTeardownOutputsOrigin, VdecStopOrigin,
       DecCompleteStopOrigin, DecOnChannelFlushedOrigin, UnlinkOrigin, DecResyncOrigin,
       Zenon DEF DecStep
  <1>4. CASE SinkStep
    BY <1>4, SinkStopOrigin, SinkTeardownOrigin, SinkInputRemovedOrigin,
       SinkOnChannelFlushOrigin, SinkFlushOrigin, SinkFlushDoneOrigin, SinkCompleteStopOrigin,
       Zenon DEF SinkStep
  <1>5. CASE SessionStep
    BY <1>5, IdleFunctionOrigin, MboxMessageOrigin, EventDoneOrigin, OnElementStoppedOrigin,
       Zenon DEF SessionStep
  <1>6. CASE AppEvent \/ TimerNoBuffer \/ RunIdle \/ RunMbox
    BY <1>6, EventOrigin, Zenon
  <1>7. CASE TimerFrame \/ VdecCallback \/ OutputError \/ UNCHANGED vars
    <2>1. UNCHANGED agenda
      BY <1>7, Zenon DEF TimerFrame, OutputError, vars, VdecCallback, FlushCb, FlushCbPost, StopCb,
         StopCbCount, StopCbLoad, StopCbStore, OutputCb, OutputCbQueue, otherThanVdec
    <2>. QED
      BY <2>1, OriginSame, Zenon
  <1>. QED
    BY <1>1, <1>2, <1>3, <1>4, <1>5, <1>6, <1>7, Zenon DEF Next, LoopStep, CallStep

-----------------------------------------------------------------------------
(* What is deleted is called by nobody.                                    *)

\* What the theorem takes of what may happen: the loop thread does not run
\* between the statements of a callback of vdec, the application stops a sink
\* when it was told that its media is gone, there is no error of vdec; and the
\* application resyncs no sink, or none is on the media of the demuxer and it
\* does not seek while playing.
Tame == /\ "Preempt" \notin Allowed /\ "StopAnytime" \notin Allowed /\ MaxErrors = 0
        /\ "Resync" \notin Allowed \/ (H264Sinks = {} /\ "SeekAnytime" \notin Allowed)

\* The media of an element exists.
MediaOf(e) == IF e = D THEN dmxMedia ELSE dec.mOutputMedia
\* The application is told that a media is gone when it is.
NoticedInv ==
    /\ \A i \in DOMAIN idle : idle[i].cb = "mediaRemoved" => ~MediaOf(idle[i].e)
    /\ \A s \in Sinks : est[s] # "none" /\ SourceOf(s) \notin appMedia => ~MediaOf(SourceOf(s))

\* A sink is linked to its source or to none; one that has an input media is
\* linked or about to forget it.
InputInv == \A s \in Sinks :
    /\ link[s] \in {SourceOf(s), None}
    /\ sink[s].mInputMedia => link[s] # None \/ Calls("inputRemoved", s)
    /\ IsNext("removeInputMedia", s) => Calls("inputRemoved", s)
    /\ agenda # <<>> /\ agenda[1].f = "onChannelUnlink" /\ agenda[1].c = s =>
           Calls("inputRemoved", s)

\* A sink is stopped when its media is gone, at once.
StopInv == \A s \in Sinks :
    /\ est[s] # "STOPPING"
    /\ Calls("stop", s) => SourceOf(s) \notin appMedia /\ s \notin appFlush

\* A sink that loses its channel: its decoder is stopping and has its media
\* still, its demuxer has seen it flushed.
Leaves(s) == \/ Calls("onChannelTeardown", s) \/ Calls("removeInputMedia", s)
             \/ Calls("inputRemoved", s)
LeaveInv == \A s \in Sinks :
    /\ Leaves(s) /\ SourceOf(s) = V => dec.mOutputMedia /\ est[V] # "STARTED"
    /\ SourceOf(s) = D /\ \/ Leaves(s) \/ IsNext("channel.flushDone", s)
                          \/ IsAbout("onChannelFlushed", D, s)
       => sink[s].mIsFlushed

\* The demuxer stops its decoder when it is flushed; then the sinks after it
\* are, and stay so.
ToldInv ==
    \/ IsNext("channel.flushDone", V) \/ Calls("onChannelTeardown", V)
    \/ IsAbout("onChannelFlushed", D, V)
    => dec.mIsFlushed
RestInv == \A s \in Sinks : est[V] # "STARTED" \/ link[s] = None => sink[s].mIsFlushed

\* A sink is flushed while its media exists, or has nothing to flush.
FlushCallInv == \A s \in Sinks :
    /\ IsNext("onChannelFlush", s) => link[s] # None
    /\ IsNext("flush", s) => MediaOf(SourceOf(s)) \/ sink[s].mIsFlushed

\* The application is asked to flush a sink before it is told that its media is
\* gone.
Asked(s) == \E i \in DOMAIN idle : idle[i].cb = "sinkFlush" /\ idle[i].e = s
AskInv == \A s \in Sinks :
    /\ est[s] # "none" /\ SourceOf(s) \notin appMedia => ~Asked(s)
    /\ \A i, j \in DOMAIN idle :
          /\ idle[i].cb = "mediaRemoved" /\ idle[i].e = SourceOf(s)
          /\ idle[j].cb = "sinkFlush" /\ idle[j].e = s
          => j < i

\* Nothing is called of a sink that has stopped, nor will be.
Over == {"STOPPED", "deleted"}
\* No call of e is in progress or waits.
Uncalled(e) == \A i \in DOMAIN agenda : agenda[i].e # e
GoneInv == \A s \in Sinks : est[s] \in Over =>
    s \notin appFlush /\ Uncalled(s) /\ ~Asked(s)

\* vdec is flushed while the decoder has an input channel, and stopped when the
\* decoder waits for it.
FlowInv ==
    /\ est[V] = "STARTED" => port[V]
    /\ ~port[V] => \A f \in {"channel.flush", "onChannelFlush", "flush", "vdec_flush"} :
                      ~Calls(f, V)
    /\ ~Mail("RESYNC") /\ ~Calls("resync", V)
    /\ vdec.stopping => dec.mVdecStopPending
    /\ vdec.cb = "stopLoaded" => vdec.count = dec.mCompleteStopPendingCount
\* The decoder is stopping or has stopped.
Ending == {"STOPPING", "STOPPED", "deleted"}
\* When vdec has answered the stop of the decoder it flushes no more.
EndInv == est[V] \in Ending /\ ~dec.mVdecStopPending => ~vdec.flushing /\ vdec.cb # "flush"

\* Each COMPLETE_STOP is counted.
StopMails == {i \in DOMAIN mMbox : mMbox[i].cmd = "COMPLETE_STOP"}
CountInv == Cardinality(StopMails) + (IF IsNext("completeStop", V) THEN 1 ELSE 0)
                <= dec.mCompleteStopPendingCount

\* The last message about the decoder is a COMPLETE_STOP.
Ended == /\ est[V] \in Ending /\ ~dec.mVdecStopPending
         /\ vdec.cb \notin {"stop", "stopLoaded"} /\ dec.out = <<>>
LastMail == Ended => \A i \in DOMAIN mMbox : mMbox[i].cmd = "COMPLETE_FLUSH" =>
                 \E j \in DOMAIN mMbox : i < j /\ mMbox[j].cmd = "COMPLETE_STOP"

\* Nothing is called of a decoder that has stopped, nor of a demuxer that is
\* deleted, nor will be.
DecoderGone == est[V] \in Over =>
    /\ Uncalled(V) /\ ~Mail("COMPLETE_FLUSH") /\ ~Mail("COMPLETE_STOP")
    /\ ~dec.mVdecStopPending /\ vdec.cb \notin {"flush", "stop", "stopLoaded"}
    /\ vdec.cb # "none" => est[V] # "deleted"
DemuxerGone == est[D] = "deleted" => Uncalled(D)

\* What holds of a session whose open() has succeeded.
AliveInv ==
    /\ NoticedInv /\ InputInv /\ StopInv /\ LeaveInv /\ ToldInv /\ FlushCallInv /\ AskInv
    /\ GoneInv /\ FlowInv /\ EndInv /\ CountInv /\ LastMail /\ DecoderGone /\ DemuxerGone
    /\ "Resync" \in Allowed => RestInv

\* A session that could not open has a decoder that nobody stops, and sinks
\* that are flushed.
FailedInv ==
    /\ est[D] = "deleted" /\ est[V] = "STARTED" /\ mMbox = <<>> /\ D \notin mElements
    /\ vdec.cb = "none" /\ ~vdec.flushing /\ ~vdec.stopping /\ ~vdec.busy
    /\ appFlush = {}
    /\ \A s \in Sinks : /\ est[s] \in {"none", "STARTED"} /\ sink[s].mIsFlushed
                        /\ ~sink[s].mInputChannelFlushPending
                        /\ sink[s].mVideoSinkListener => SourceOf(s) \in appMedia
    /\ \A i \in DOMAIN idle : idle[i].cb \notin {"mediaRemoved", "sinkFlush"}
    /\ \A i \in DOMAIN agenda : \/ agenda[i].f = "idle" /\ agenda[i].e = None
                                \/ agenda[i].e \in Sinks /\ agenda[i].f \in {"flush", "flushDone", "completeStop"}

\* What holds of every session.
SafeInv == IF mState # "CREATED" THEN AliveInv ELSE told.open => FailedInv

-----------------------------------------------------------------------------
(* What changes each variable, once the session was opened.                *)

\* The states of the elements.
LEMMA EstChange ==
  ASSUME told.open, [Next]_vars
  PROVE  \/ UNCHANGED est
         \/ DmxStop \/ DmxOnChannelUnlink \/ DecStop \/ DecCompleteStop \/ MboxMessage
         \/ \E s \in Sinks : SinkStop(s) \/ SinkCompleteStop(s) \/ StartVideoSink(s)
  <1>1. CASE ChannelStep
    BY <1>1, Zenon DEF ChannelStep, ChannelFlush, ChannelFlushDone, RemoveInputMedia,
       DeleteChannel, otherThanChannels, chanVars
  <1>2. CASE DmxStep
    BY <1>2, Zenon DEF DmxStep, DmxFlush, DmxFlushAt, DmxChannelCounted, DmxOnChannelFlushed,
       DmxChannelFlushed, otherThanDmx, dmxVars
  <1>3. CASE DecStep
    BY <1>3, Zenon DEF DecStep, DecOnChannelFlush, DecFlush, VdecFlush, DecCompleteFlush,
       DecAfterFlush, DecTeardownOutputs, VdecStop, DecOnChannelFlushed, DecOnChannelUnlink,
       DecResync, otherThanDec, dmxVars
  <1>4. CASE SinkStep
    BY <1>4, Zenon DEF SinkStep, SinkTeardown, SinkInputRemoved, SinkOnChannelFlush,
       SinkFlush, SinkFlushDone, otherThanSinks, chanVars, dmxVars
  <1>5. CASE SessionStep
    BY <1>5, Zenon DEF SessionStep, IdleFunction, EventDone, OnElementStopped, ElementDelete,
       CallVideoSinkFlush, CallListener, sessionVars, chanVars, dmxVars
  <1>6. CASE AppEvent \/ RunIdle \/ RunMbox
    BY <1>6, Zenon DEF AppEvent, Open, Close, Play, StopVideoSink, VideoSinkQueueFlushed,
       ResyncVideoSink, RunIdle, RunMbox, otherThanDmx, chanVars, dmxVars, sessionVars
  <1>7. CASE TimerFrame \/ TimerNoBuffer \/ VdecCallback \/ OutputError \/ UNCHANGED vars
    BY <1>7, Zenon DEF TimerFrame, TimerNoBuffer, VdecCallback, FlushCb, FlushCbPost, StopCb,
       StopCbCount, StopCbLoad, StopCbStore, OutputCb, OutputCbQueue, OutputError,
       otherThanVdec, otherThanDec, otherThanDmx, sessionVars, chanVars, dmxVars, vars,
       VdecFree
  <1>. QED
    BY <1>1, <1>2, <1>3, <1>4, <1>5, <1>6, <1>7, Zenon DEF Next, LoopStep, CallStep

\* The links.
LEMMA LinkChange ==
  ASSUME told.open, [Next]_vars
  PROVE  \/ UNCHANGED link
         \/ DmxOnChannelUnlink \/ DecOnChannelUnlink
         \/ \E s \in Sinks : StartVideoSink(s)
  <1>1. CASE ChannelStep
    BY <1>1, Zenon DEF ChannelStep, ChannelFlush, ChannelFlushDone, RemoveInputMedia,
       DeleteChannel, otherThanChannels, chanVars
  <1>2. CASE DmxStep
    BY <1>2, Zenon DEF DmxStep, DmxStop, DmxFlush, DmxFlushAt, DmxChannelCounted,
       DmxOnChannelFlushed, DmxChannelFlushed, otherThanDmx, dmxVars
  <1>3. CASE DecStep
    BY <1>3, Zenon DEF DecStep, DecStop, DecOnChannelFlush, DecFlush, VdecFlush,
       DecCompleteFlush, DecAfterFlush, DecTeardownOutputs, VdecStop, DecCompleteStop,
       DecOnChannelFlushed, DecResync, otherThanDec, dmxVars
  <1>4. CASE SinkStep
    BY <1>4, Zenon DEF SinkStep, SinkStop, SinkTeardown, SinkInputRemoved, SinkOnChannelFlush,
       SinkFlush, SinkFlushDone, SinkCompleteStop, otherThanSinks, chanVars, dmxVars
  <1>5. CASE SessionStep
    BY <1>5, Zenon DEF SessionStep, IdleFunction, MboxMessage, EventDone, OnElementStopped,
       ElementDelete, CallVideoSinkFlush, CallListener, sessionVars, chanVars, dmxVars
  <1>6. CASE AppEvent \/ RunIdle \/ RunMbox
    BY <1>6, Zenon DEF AppEvent, Open, Close, Play, StopVideoSink, VideoSinkQueueFlushed,
       ResyncVideoSink, RunIdle, RunMbox, otherThanDmx, chanVars, dmxVars, sessionVars
  <1>7. CASE TimerFrame \/ TimerNoBuffer \/ VdecCallback \/ OutputError \/ UNCHANGED vars
    BY <1>7, Zenon DEF TimerFrame, TimerNoBuffer, VdecCallback, FlushCb, FlushCbPost, StopCb,
       StopCbCount, StopCbLoad, StopCbStore, OutputCb, OutputCbQueue, OutputError,
       otherThanVdec, otherThanDec, otherThanDmx, sessionVars, chanVars, dmxVars, vars,
       VdecFree
  <1>. QED
    BY <1>1, <1>2, <1>3, <1>4, <1>5, <1>6, <1>7, Zenon DEF Next, LoopStep, CallStep

\* The channels.
LEMMA PortChange ==
  ASSUME told.open, [Next]_vars
  PROVE  \/ UNCHANGED port
         \/ \E c \in SinkElements : DeleteChannel(c)
         \/ \E s \in Sinks : StartVideoSink(s)
  <1>1. CASE ChannelStep
    BY <1>1, Zenon DEF ChannelStep, ChannelFlush, ChannelFlushDone, RemoveInputMedia,
       otherThanChannels, chanVars
  <1>2. CASE DmxStep
    BY <1>2, Zenon DEF DmxStep, DmxStop, DmxFlush, DmxFlushAt, DmxChannelCounted,
       DmxOnChannelFlushed, DmxChannelFlushed, DmxOnChannelUnlink, otherThanDmx, dmxVars
  <1>3. CASE DecStep
    BY <1>3, Zenon DEF DecStep, DecStop, DecOnChannelFlush, DecFlush, VdecFlush,
       DecCompleteFlush, DecAfterFlush, DecTeardownOutputs, VdecStop, DecCompleteStop,
       DecOnChannelFlushed, DecOnChannelUnlink, DecResync, otherThanDec, dmxVars
  <1>4. CASE SinkStep
    BY <1>4, Zenon DEF SinkStep, SinkStop, SinkTeardown, SinkInputRemoved, SinkOnChannelFlush,
       SinkFlush, SinkFlushDone, SinkCompleteStop, otherThanSinks, chanVars, dmxVars
  <1>5. CASE SessionStep
    BY <1>5, Zenon DEF SessionStep, IdleFunction, MboxMessage, EventDone, OnElementStopped,
       ElementDelete, CallVideoSinkFlush, CallListener, sessionVars, chanVars, dmxVars
  <1>6. CASE AppEvent \/ RunIdle \/ RunMbox
    BY <1>6, Zenon DEF AppEvent, Open, Close, Play, StopVideoSink, VideoSinkQueueFlushed,
       ResyncVideoSink, RunIdle, RunMbox, otherThanDmx, chanVars, dmxVars, sessionVars
  <1>7. CASE TimerFrame \/ TimerNoBuffer \/ VdecCallback \/ OutputError \/ UNCHANGED vars
    BY <1>7, Zenon DEF TimerFrame, TimerNoBuffer, VdecCallback, FlushCb, FlushCbPost, StopCb,
       StopCbCount, StopCbLoad, StopCbStore, OutputCb, OutputCbQueue, OutputError,
       otherThanVdec, otherThanDec, otherThanDmx, sessionVars, chanVars, dmxVars, vars,
       VdecFree
  <1>. QED
    BY <1>1, <1>2, <1>3, <1>4, <1>5, <1>6, <1>7, Zenon DEF Next, LoopStep, CallStep

\* The media of the demuxer.
LEMMA DmxMediaChange ==
  ASSUME told.open, [Next]_vars
  PROVE  \/ UNCHANGED dmxMedia
         \/ DmxOnChannelUnlink
  <1>1. CASE ChannelStep
    BY <1>1, Zenon DEF ChannelStep, ChannelFlush, ChannelFlushDone, RemoveInputMedia,
       DeleteChannel, otherThanChannels, chanVars, dmxVars
  <1>2. CASE DmxStep
    BY <1>2, Zenon DEF DmxStep, DmxStop, DmxFlush, DmxFlushAt, DmxChannelCounted,
       DmxOnChannelFlushed, DmxChannelFlushed, otherThanDmx, dmxVars
  <1>3. CASE DecStep
    BY <1>3, Zenon DEF DecStep, DecStop, DecOnChannelFlush, DecFlush, VdecFlush,
       DecCompleteFlush, DecAfterFlush, DecTeardownOutputs, VdecStop, DecCompleteStop,
       DecOnChannelFlushed, DecOnChannelUnlink, DecResync, otherThanDec, dmxVars
  <1>4. CASE SinkStep
    BY <1>4, Zenon DEF SinkStep, SinkStop, SinkTeardown, SinkInputRemoved, SinkOnChannelFlush,
       SinkFlush, SinkFlushDone, SinkCompleteStop, otherThanSinks, chanVars, dmxVars
  <1>5. CASE SessionStep
    BY <1>5, Zenon DEF SessionStep, IdleFunction, MboxMessage, EventDone, OnElementStopped,
       ElementDelete, CallVideoSinkFlush, CallListener, sessionVars, chanVars, dmxVars
  <1>6. CASE AppEvent \/ RunIdle \/ RunMbox
    BY <1>6, Zenon DEF AppEvent, Open, Close, Play, StartVideoSink, StopVideoSink,
       VideoSinkQueueFlushed, ResyncVideoSink, RunIdle, RunMbox, otherThanDmx, chanVars,
       dmxVars, sessionVars
  <1>7. CASE TimerFrame \/ TimerNoBuffer \/ VdecCallback \/ OutputError \/ UNCHANGED vars
    BY <1>7, Zenon DEF TimerFrame, TimerNoBuffer, VdecCallback, FlushCb, FlushCbPost, StopCb,
       StopCbCount, StopCbLoad, StopCbStore, OutputCb, OutputCbQueue, OutputError,
       otherThanVdec, otherThanDec, otherThanDmx, sessionVars, chanVars, dmxVars, vars,
       VdecFree
  <1>. QED
    BY <1>1, <1>2, <1>3, <1>4, <1>5, <1>6, <1>7, Zenon DEF Next, LoopStep, CallStep

\* The flags of the decoder.
LEMMA DecChange ==
  ASSUME told.open, [Next]_vars
  PROVE  \/ UNCHANGED dec
         \/ TimerFrame \/ DecStop \/ DecOnChannelFlush \/ DecFlush \/ DecCompleteFlush
         \/ DecAfterFlush \/ DecTeardownOutputs \/ DecCompleteStop \/ DecOnChannelUnlink
         \/ DecResync \/ FlushCb \/ StopCb \/ StopCbCount \/ StopCbStore
         \/ \E s \in Sinks : StartVideoSink(s)
  <1>1. CASE ChannelStep
    BY <1>1, Zenon DEF ChannelStep, ChannelFlush, ChannelFlushDone, RemoveInputMedia,
       DeleteChannel, otherThanChannels, chanVars
  <1>2. CASE DmxStep
    BY <1>2, Zenon DEF DmxStep, DmxStop, DmxFlush, DmxFlushAt, DmxChannelCounted,
       DmxOnChannelFlushed, DmxChannelFlushed, DmxOnChannelUnlink, otherThanDmx, dmxVars
  <1>3. CASE DecStep
    BY <1>3, Zenon DEF DecStep, VdecFlush, VdecStop, DecOnChannelFlushed, otherThanDec, dmxVars
  <1>4. CASE SinkStep
    BY <1>4, Zenon DEF SinkStep, SinkStop, SinkTeardown, SinkInputRemoved, SinkOnChannelFlush,
       SinkFlush, SinkFlushDone, SinkCompleteStop, otherThanSinks, chanVars, dmxVars
  <1>5. CASE SessionStep
    BY <1>5, Zenon DEF SessionStep, IdleFunction, MboxMessage, EventDone, OnElementStopped,
       ElementDelete, CallVideoSinkFlush, CallListener, sessionVars, chanVars, dmxVars
  <1>6. CASE AppEvent \/ RunIdle \/ RunMbox
    BY <1>6, Zenon DEF AppEvent, Open, Close, Play, StopVideoSink, VideoSinkQueueFlushed,
       ResyncVideoSink, RunIdle, RunMbox, otherThanDmx, chanVars, dmxVars, sessionVars
  <1>7. CASE TimerFrame \/ TimerNoBuffer \/ VdecCallback \/ OutputError \/ UNCHANGED vars
    BY <1>7, Zenon DEF TimerNoBuffer, VdecCallback, FlushCbPost, StopCbLoad, OutputCb,
       OutputCbQueue, OutputError, otherThanVdec, otherThanDec, otherThanDmx, sessionVars,
       chanVars, dmxVars, vars, VdecFree
  <1>. QED
    BY <1>1, <1>2, <1>3, <1>4, <1>5, <1>6, <1>7, Zenon DEF Next, LoopStep, CallStep

\* The decoding library.
LEMMA VdecChange ==
  ASSUME told.open, [Next]_vars
  PROVE  \/ UNCHANGED vdec
         \/ TimerFrame \/ VdecFlush \/ VdecStop \/ DecResync \/ FlushCb \/ FlushCbPost
         \/ StopCb \/ StopCbCount \/ StopCbLoad \/ StopCbStore \/ OutputCb \/ OutputCbQueue
  <1>1. CASE ChannelStep
    BY <1>1, Zenon DEF ChannelStep, ChannelFlush, ChannelFlushDone, RemoveInputMedia,
       DeleteChannel, otherThanChannels, chanVars
  <1>2. CASE DmxStep
    BY <1>2, Zenon DEF DmxStep, DmxStop, DmxFlush, DmxFlushAt, DmxChannelCounted,
       DmxOnChannelFlushed, DmxChannelFlushed, DmxOnChannelUnlink, otherThanDmx, dmxVars
  <1>3. CASE DecStep
    BY <1>3, Zenon DEF DecStep, DecStop, DecOnChannelFlush, DecFlush, DecCompleteFlush,
       DecAfterFlush, DecTeardownOutputs, DecCompleteStop, DecOnChannelFlushed,
       DecOnChannelUnlink, otherThanDec, dmxVars
  <1>4. CASE SinkStep
    BY <1>4, Zenon DEF SinkStep, SinkStop, SinkTeardown, SinkInputRemoved, SinkOnChannelFlush,
       SinkFlush, SinkFlushDone, SinkCompleteStop, otherThanSinks, chanVars, dmxVars
  <1>5. CASE SessionStep
    BY <1>5, Zenon DEF SessionStep, IdleFunction, MboxMessage, EventDone, OnElementStopped,
       ElementDelete, CallVideoSinkFlush, CallListener, sessionVars, chanVars, dmxVars
  <1>6. CASE AppEvent \/ RunIdle \/ RunMbox
    BY <1>6, Zenon DEF AppEvent, Open, Close, Play, StartVideoSink, StopVideoSink,
       VideoSinkQueueFlushed, ResyncVideoSink, RunIdle, RunMbox, otherThanDmx, chanVars,
       dmxVars, sessionVars
  <1>7. CASE TimerFrame \/ TimerNoBuffer \/ VdecCallback \/ OutputError \/ UNCHANGED vars
    BY <1>7, Zenon DEF TimerNoBuffer, VdecCallback, OutputError, otherThanVdec, otherThanDec,
       otherThanDmx, sessionVars, chanVars, dmxVars, vars, VdecFree
  <1>. QED
    BY <1>1, <1>2, <1>3, <1>4, <1>5, <1>6, <1>7, Zenon DEF Next, LoopStep, CallStep

\* The flags of the sinks.
LEMMA SinkChange ==
  ASSUME told.open, [Next]_vars
  PROVE  \/ UNCHANGED sink
         \/ TimerFrame \/ OutputCbQueue
         \/ \E s \in Sinks : \/ SinkStop(s) \/ SinkInputRemoved(s) \/ SinkOnChannelFlush(s)
                            \/ SinkFlushDone(s) \/ StartVideoSink(s)
  <1>1. CASE ChannelStep
    BY <1>1, Zenon DEF ChannelStep, ChannelFlush, ChannelFlushDone, RemoveInputMedia,
       DeleteChannel, otherThanChannels, chanVars
  <1>2. CASE DmxStep
    BY <1>2, Zenon DEF DmxStep, DmxStop, DmxFlush, DmxFlushAt, DmxChannelCounted,
       DmxOnChannelFlushed, DmxChannelFlushed, DmxOnChannelUnlink, otherThanDmx, dmxVars
  <1>3. CASE DecStep
    BY <1>3, Zenon DEF DecStep, DecStop, DecOnChannelFlush, DecFlush, VdecFlush,
       DecCompleteFlush, DecAfterFlush, DecTeardownOutputs, VdecStop, DecCompleteStop,
       DecOnChannelFlushed, DecOnChannelUnlink, DecResync, otherThanDec, dmxVars
  <1>4. CASE SinkStep
    BY <1>4, Zenon DEF SinkStep, SinkTeardown, SinkFlush, SinkCompleteStop, otherThanSinks,
       chanVars, dmxVars
  <1>5. CASE SessionStep
    BY <1>5, Zenon DEF SessionStep, IdleFunction, MboxMessage, EventDone, OnElementStopped,
       ElementDelete, CallVideoSinkFlush, CallListener, sessionVars, chanVars, dmxVars
  <1>6. CASE AppEvent \/ RunIdle \/ RunMbox
    BY <1>6, Zenon DEF AppEvent, Open, Close, Play, StopVideoSink, VideoSinkQueueFlushed,
       ResyncVideoSink, RunIdle, RunMbox, otherThanDmx, chanVars, dmxVars, sessionVars
  <1>7. CASE TimerFrame \/ TimerNoBuffer \/ VdecCallback \/ OutputError \/ UNCHANGED vars
    BY <1>7, Zenon DEF TimerNoBuffer, VdecCallback, FlushCb, FlushCbPost, StopCb, StopCbCount,
       StopCbLoad, StopCbStore, OutputCb, OutputError, otherThanVdec, otherThanDec,
       otherThanDmx, sessionVars, chanVars, dmxVars, vars, VdecFree
  <1>. QED
    BY <1>1, <1>2, <1>3, <1>4, <1>5, <1>6, <1>7, Zenon DEF Next, LoopStep, CallStep

\* The idle functions.
LEMMA IdleChange ==
  ASSUME told.open, [Next]_vars
  PROVE  \/ UNCHANGED idle
         \/ DmxStop \/ DmxOnChannelUnlink \/ DecCompleteStop \/ Close \/ IdleFunction \/ OnElementStopped
         \/ \E s \in Sinks : SinkFlush(s)
  <1>1. CASE ChannelStep
    BY <1>1, Zenon DEF ChannelStep, ChannelFlush, ChannelFlushDone, RemoveInputMedia,
       DeleteChannel, otherThanChannels, chanVars
  <1>2. CASE DmxStep
    BY <1>2, Zenon DEF DmxStep, DmxFlush, DmxFlushAt, DmxChannelCounted, DmxOnChannelFlushed,
       DmxChannelFlushed, otherThanDmx, dmxVars
  <1>3. CASE DecStep
    BY <1>3, Zenon DEF DecStep, DecStop, DecOnChannelFlush, DecFlush, VdecFlush,
       DecCompleteFlush, DecAfterFlush, DecTeardownOutputs, VdecStop, DecOnChannelFlushed,
       DecOnChannelUnlink, DecResync, otherThanDec, dmxVars
  <1>4. CASE SinkStep
    BY <1>4, Zenon DEF SinkStep, SinkStop, SinkTeardown, SinkInputRemoved, SinkOnChannelFlush,
       SinkFlushDone, SinkCompleteStop, otherThanSinks, chanVars, dmxVars
  <1>5. CASE SessionStep
    BY <1>5, Zenon DEF SessionStep, MboxMessage, EventDone, ElementDelete, CallVideoSinkFlush,
       CallListener, sessionVars, chanVars, dmxVars
  <1>6. CASE AppEvent \/ RunIdle \/ RunMbox
    BY <1>6, Zenon DEF AppEvent, Open, Play, StartVideoSink, StopVideoSink,
       VideoSinkQueueFlushed, ResyncVideoSink, RunIdle, RunMbox, otherThanDmx, chanVars,
       dmxVars, sessionVars
  <1>7. CASE TimerFrame \/ TimerNoBuffer \/ VdecCallback \/ OutputError \/ UNCHANGED vars
    BY <1>7, Zenon DEF TimerFrame, TimerNoBuffer, VdecCallback, FlushCb, FlushCbPost, StopCb,
       StopCbCount, StopCbLoad, StopCbStore, OutputCb, OutputCbQueue, OutputError,
       otherThanVdec, otherThanDec, otherThanDmx, sessionVars, chanVars, dmxVars, vars,
       VdecFree
  <1>. QED
    BY <1>1, <1>2, <1>3, <1>4, <1>5, <1>6, <1>7, Zenon DEF Next, LoopStep, CallStep

\* The messages.
LEMMA MboxChange ==
  ASSUME told.open, [Next]_vars
  PROVE  \/ UNCHANGED mMbox
         \/ DecOnChannelFlushed \/ DecOnChannelUnlink \/ FlushCbPost \/ StopCbCount \/ StopCbStore
         \/ OutputError \/ MboxMessage \/ OnElementStopped
  <1>1. CASE ChannelStep
    BY <1>1, Zenon DEF ChannelStep, ChannelFlush, ChannelFlushDone, RemoveInputMedia,
       DeleteChannel, otherThanChannels, chanVars
  <1>2. CASE DmxStep
    BY <1>2, Zenon DEF DmxStep, DmxStop, DmxFlush, DmxFlushAt, DmxChannelCounted,
       DmxOnChannelFlushed, DmxChannelFlushed, DmxOnChannelUnlink, otherThanDmx, dmxVars
  <1>3. CASE DecStep
    BY <1>3, Zenon DEF DecStep, DecStop, DecOnChannelFlush, DecFlush, VdecFlush,
       DecCompleteFlush, DecAfterFlush, DecTeardownOutputs, VdecStop, DecCompleteStop,
       DecResync, otherThanDec, dmxVars
  <1>4. CASE SinkStep
    BY <1>4, Zenon DEF SinkStep, SinkStop, SinkTeardown, SinkInputRemoved, SinkOnChannelFlush,
       SinkFlush, SinkFlushDone, SinkCompleteStop, otherThanSinks, chanVars, dmxVars
  <1>5. CASE SessionStep
    BY <1>5, Zenon DEF SessionStep, IdleFunction, EventDone, ElementDelete,
       CallVideoSinkFlush, CallListener, sessionVars, chanVars, dmxVars
  <1>6. CASE AppEvent \/ RunIdle \/ RunMbox
    BY <1>6, Zenon DEF AppEvent, Open, Close, Play, StartVideoSink, StopVideoSink,
       VideoSinkQueueFlushed, ResyncVideoSink, RunIdle, RunMbox, otherThanDmx, chanVars,
       dmxVars, sessionVars
  <1>7. CASE TimerFrame \/ TimerNoBuffer \/ VdecCallback \/ OutputError \/ UNCHANGED vars
    BY <1>7, Zenon DEF TimerFrame, TimerNoBuffer, VdecCallback, FlushCb, StopCb, StopCbLoad,
       OutputCb, OutputCbQueue, otherThanVdec, otherThanDec, otherThanDmx, sessionVars,
       chanVars, dmxVars, vars, VdecFree
  <1>. QED
    BY <1>1, <1>2, <1>3, <1>4, <1>5, <1>6, <1>7, Zenon DEF Next, LoopStep, CallStep

\* The medias the application knows.
LEMMA AppMediaChange ==
  ASSUME told.open, [Next]_vars
  PROVE  \/ UNCHANGED appMedia
         \/ IdleFunction
  <1>1. CASE ChannelStep
    BY <1>1, Zenon DEF ChannelStep, ChannelFlush, ChannelFlushDone, RemoveInputMedia,
       DeleteChannel, otherThanChannels, chanVars, appVars
  <1>2. CASE DmxStep
    BY <1>2, Zenon DEF DmxStep, DmxStop, DmxFlush, DmxFlushAt, DmxChannelCounted,
       DmxOnChannelFlushed, DmxChannelFlushed, DmxOnChannelUnlink, otherThanDmx, dmxVars,
       appVars
  <1>3. CASE DecStep
    BY <1>3, Zenon DEF DecStep, DecStop, DecOnChannelFlush, DecFlush, VdecFlush,
       DecCompleteFlush, DecAfterFlush, DecTeardownOutputs, VdecStop, DecCompleteStop,
       DecOnChannelFlushed, DecOnChannelUnlink, DecResync, otherThanDec, dmxVars, appVars
  <1>4. CASE SinkStep
    BY <1>4, Zenon DEF SinkStep, SinkStop, SinkTeardown, SinkInputRemoved, SinkOnChannelFlush,
       SinkFlush, SinkFlushDone, SinkCompleteStop, otherThanSinks, chanVars, dmxVars, appVars
  <1>5. CASE SessionStep
    BY <1>5, Zenon DEF SessionStep, MboxMessage, EventDone, OnElementStopped, ElementDelete,
       CallVideoSinkFlush, CallListener, sessionVars, chanVars, dmxVars, appVars
  <1>6. CASE AppEvent \/ RunIdle \/ RunMbox
    BY <1>6, Zenon DEF AppEvent, Open, Close, Play, StartVideoSink, StopVideoSink,
       VideoSinkQueueFlushed, ResyncVideoSink, RunIdle, RunMbox, otherThanDmx, chanVars,
       dmxVars, sessionVars, appVars
  <1>7. CASE TimerFrame \/ TimerNoBuffer \/ VdecCallback \/ OutputError \/ UNCHANGED vars
    BY <1>7, Zenon DEF TimerFrame, TimerNoBuffer, VdecCallback, FlushCb, FlushCbPost, StopCb,
       StopCbCount, StopCbLoad, StopCbStore, OutputCb, OutputCbQueue, OutputError,
       otherThanVdec, otherThanDec, otherThanDmx, sessionVars, chanVars, dmxVars, vars,
       VdecFree, appVars
  <1>. QED
    BY <1>1, <1>2, <1>3, <1>4, <1>5, <1>6, <1>7, Zenon DEF Next, LoopStep, CallStep

\* The flushes the application was asked for.
LEMMA AppFlushChange ==
  ASSUME told.open, [Next]_vars
  PROVE  \/ UNCHANGED appFlush
         \/ IdleFunction
         \/ \E s \in Sinks : StopVideoSink(s) \/ VideoSinkQueueFlushed(s)
  <1>1. CASE ChannelStep
    BY <1>1, Zenon DEF ChannelStep, ChannelFlush, ChannelFlushDone, RemoveInputMedia,
       DeleteChannel, otherThanChannels, chanVars, appVars
  <1>2. CASE DmxStep
    BY <1>2, Zenon DEF DmxStep, DmxStop, DmxFlush, DmxFlushAt, DmxChannelCounted,
       DmxOnChannelFlushed, DmxChannelFlushed, DmxOnChannelUnlink, otherThanDmx, dmxVars,
       appVars
  <1>3. CASE DecStep
    BY <1>3, Zenon DEF DecStep, DecStop, DecOnChannelFlush, DecFlush, VdecFlush,
       DecCompleteFlush, DecAfterFlush, DecTeardownOutputs, VdecStop, DecCompleteStop,
       DecOnChannelFlushed, DecOnChannelUnlink, DecResync, otherThanDec, dmxVars, appVars
  <1>4. CASE SinkStep
    BY <1>4, Zenon DEF SinkStep, SinkStop, SinkTeardown, SinkInputRemoved, SinkOnChannelFlush,
       SinkFlush, SinkFlushDone, SinkCompleteStop, otherThanSinks, chanVars, dmxVars, appVars
  <1>5. CASE SessionStep
    BY <1>5, Zenon DEF SessionStep, MboxMessage, EventDone, OnElementStopped, ElementDelete,
       CallVideoSinkFlush, CallListener, sessionVars, chanVars, dmxVars, appVars
  <1>6. CASE AppEvent \/ RunIdle \/ RunMbox
    BY <1>6, Zenon DEF AppEvent, Open, Close, Play, StartVideoSink, ResyncVideoSink, RunIdle,
       RunMbox, otherThanDmx, chanVars, dmxVars, sessionVars, appVars
  <1>7. CASE TimerFrame \/ TimerNoBuffer \/ VdecCallback \/ OutputError \/ UNCHANGED vars
    BY <1>7, Zenon DEF TimerFrame, TimerNoBuffer, VdecCallback, FlushCb, FlushCbPost, StopCb,
       StopCbCount, StopCbLoad, StopCbStore, OutputCb, OutputCbQueue, OutputError,
       otherThanVdec, otherThanDec, otherThanDmx, sessionVars, chanVars, dmxVars, vars,
       VdecFree, appVars
  <1>. QED
    BY <1>1, <1>2, <1>3, <1>4, <1>5, <1>6, <1>7, Zenon DEF Next, LoopStep, CallStep

\* The state of the session.
LEMMA StateChange ==
  ASSUME told.open, [Next]_vars
  PROVE  \/ UNCHANGED mState
         \/ Close \/ OnElementStopped
  <1>1. CASE ChannelStep
    BY <1>1, Zenon DEF ChannelStep, ChannelFlush, ChannelFlushDone, RemoveInputMedia,
       DeleteChannel, otherThanChannels, chanVars, sessionVars
  <1>2. CASE DmxStep
    BY <1>2, Zenon DEF DmxStep, DmxStop, DmxFlush, DmxFlushAt, DmxChannelCounted,
       DmxOnChannelFlushed, DmxChannelFlushed, DmxOnChannelUnlink, otherThanDmx, dmxVars,
       sessionVars
  <1>3. CASE DecStep
    BY <1>3, Zenon DEF DecStep, DecStop, DecOnChannelFlush, DecFlush, VdecFlush,
       DecCompleteFlush, DecAfterFlush, DecTeardownOutputs, VdecStop, DecCompleteStop,
       DecOnChannelFlushed, DecOnChannelUnlink, DecResync, otherThanDec, dmxVars, sessionVars
  <1>4. CASE SinkStep
    BY <1>4, Zenon DEF SinkStep, SinkStop, SinkTeardown, SinkInputRemoved, SinkOnChannelFlush,
       SinkFlush, SinkFlushDone, SinkCompleteStop, otherThanSinks, chanVars, dmxVars,
       sessionVars
  <1>5. CASE SessionStep
    BY <1>5, Zenon DEF SessionStep, IdleFunction, MboxMessage, EventDone, ElementDelete,
       CallVideoSinkFlush, CallListener, sessionVars, chanVars, dmxVars
  <1>6. CASE AppEvent \/ RunIdle \/ RunMbox
    BY <1>6, Zenon DEF AppEvent, Open, Play, StartVideoSink, StopVideoSink,
       VideoSinkQueueFlushed, ResyncVideoSink, RunIdle, RunMbox, otherThanDmx, chanVars,
       dmxVars, sessionVars
  <1>7. CASE TimerFrame \/ TimerNoBuffer \/ VdecCallback \/ OutputError \/ UNCHANGED vars
    BY <1>7, Zenon DEF TimerFrame, TimerNoBuffer, VdecCallback, FlushCb, FlushCbPost, StopCb,
       StopCbCount, StopCbLoad, StopCbStore, OutputCb, OutputCbQueue, OutputError,
       otherThanVdec, otherThanDec, otherThanDmx, sessionVars, chanVars, dmxVars, vars,
       VdecFree
  <1>. QED
    BY <1>1, <1>2, <1>3, <1>4, <1>5, <1>6, <1>7, Zenon DEF Next, LoopStep, CallStep

-----------------------------------------------------------------------------
(* What changes each flag.                                                 *)

\* The flags of the decoder.
LEMMA DecParts ==
  ASSUME TypeOK, told.open, [Next]_vars
  PROVE  /\ dec'.mOutputMedia = dec.mOutputMedia \/ DecCompleteStop
         /\ dec'.out = dec.out \/ DecOnChannelUnlink \/ \E s \in Sinks : StartVideoSink(s)
         /\ dec'.mVdecStopPending = dec.mVdecStopPending \/ DecStop \/ StopCb
         /\ \/ dec'.mCompleteStopPendingCount = dec.mCompleteStopPendingCount
            \/ DecCompleteStop \/ DecOnChannelUnlink \/ StopCbCount \/ StopCbStore
         /\ dec.mIsFlushed => dec'.mIsFlushed \/ TimerFrame
  <1> DEFINE Kept == /\ dec'.mOutputMedia = dec.mOutputMedia /\ dec'.out = dec.out
                     /\ dec'.mVdecStopPending = dec.mVdecStopPending
                     /\ dec'.mCompleteStopPendingCount = dec.mCompleteStopPendingCount
                     /\ dec.mIsFlushed => dec'.mIsFlushed
  <1>0. dec \in DecType
    BY Types, Zenon
  <1>1. CASE UNCHANGED dec
    BY <1>1, Zenon
  <1>2. CASE DecOnChannelFlush \/ DecFlush \/ DecAfterFlush \/ DecTeardownOutputs \/ DecResync
    <2>1. Kept
      <3>1. \/ dec' = dec \/ dec' = [dec EXCEPT !.mInputChannelFlushPending = TRUE]
            \/ dec' = [dec EXCEPT !.mVdecFlushPending = TRUE]
            \/ dec' = [dec EXCEPT !.mResyncPending = FALSE, !.mIsSync = TRUE]
            \/ dec' = [dec EXCEPT !.mInputMedia = FALSE]
            \/ dec' = [dec EXCEPT !.mResyncPending = TRUE]
        BY <1>2, Zenon DEF DecOnChannelFlush, DecFlush, DecAfterFlush, DecTeardownOutputs, DecResync
      <3>. QED
        BY <1>0, <3>1, Zenon DEF DecType
    <2>. QED
      BY <2>1, Zenon
  <1>3. CASE FlushCb \/ DecCompleteFlush
    <2>1. Kept
      <3>1. \/ dec' = dec \/ dec' = [dec EXCEPT !.mVdecFlushPending = FALSE]
            \/ dec' = [dec EXCEPT !.mIsFlushed = TRUE, !.mInputChannelFlushPending = FALSE]
        BY <1>3, Zenon DEF FlushCb, DecCompleteFlush
      <3>. QED
        BY <1>0, <3>1, Zenon DEF DecType
    <2>. QED
      BY <2>1, Zenon
  <1>4. CASE TimerFrame
    <2>1. /\ dec'.mOutputMedia = dec.mOutputMedia /\ dec'.out = dec.out
          /\ dec'.mVdecStopPending = dec.mVdecStopPending
          /\ dec'.mCompleteStopPendingCount = dec.mCompleteStopPendingCount
      <3>1. dec' = dec \/ \E b \in BOOLEAN : dec' = [dec EXCEPT !.mIsFlushed = FALSE, !.mIsSync = b]
        BY <1>4, Zenon DEF TimerFrame
      <3>. QED
        BY <1>0, <3>1, Zenon DEF DecType
    <2>. QED
      BY <2>1, <1>4, Zenon
  <1>5. CASE DecStop \/ StopCb
    <2>1. /\ dec'.mOutputMedia = dec.mOutputMedia /\ dec'.out = dec.out
          /\ dec'.mCompleteStopPendingCount = dec.mCompleteStopPendingCount
          /\ dec.mIsFlushed => dec'.mIsFlushed
      BY <1>0, <1>5, SMT DEF DecStop, StopCb, DecType
    <2>. QED
      BY <2>1, <1>5, Zenon
  <1>6. CASE DecCompleteStop
    <2>1. /\ dec'.out = dec.out /\ dec'.mVdecStopPending = dec.mVdecStopPending
          /\ dec.mIsFlushed => dec'.mIsFlushed
      BY <1>0, <1>6, SMT DEF DecCompleteStop, DecType
    <2>. QED
      BY <2>1, <1>6, Zenon
  <1>7. CASE DecOnChannelUnlink
    <2>1. /\ dec'.mOutputMedia = dec.mOutputMedia /\ dec'.mVdecStopPending = dec.mVdecStopPending
          /\ dec.mIsFlushed => dec'.mIsFlushed
      BY <1>0, <1>7, SMT DEF DecOnChannelUnlink, DecType
    <2>. QED
      BY <2>1, <1>7, Zenon
  <1>8. CASE StopCbCount \/ StopCbStore
    <2>1. /\ dec'.mOutputMedia = dec.mOutputMedia /\ dec'.mVdecStopPending = dec.mVdecStopPending
          /\ dec'.out = dec.out /\ (dec.mIsFlushed => dec'.mIsFlushed)
      BY <1>0, <1>8, SMT DEF StopCbCount, StopCbStore, DecType
    <2>. QED
      BY <2>1, <1>8, Zenon
  <1>9. CASE \E s \in Sinks : StartVideoSink(s)
    <2>1. /\ dec'.mOutputMedia = dec.mOutputMedia /\ dec'.mVdecStopPending = dec.mVdecStopPending
          /\ dec'.mCompleteStopPendingCount = dec.mCompleteStopPendingCount
          /\ dec.mIsFlushed => dec'.mIsFlushed
      BY <1>0, <1>9, SMT DEF StartVideoSink, DecType
    <2>. QED
      BY <2>1, <1>9, Zenon
  <1>. QED
    BY DecChange, <1>1, <1>2, <1>3, <1>4, <1>5, <1>6, <1>7, <1>8, <1>9, Zenon

\* What vdec has to do, and the callback it is in.
LEMMA VdecParts ==
  ASSUME TypeOK, told.open, [Next]_vars
  PROVE  /\ vdec'.flushing => vdec.flushing \/ VdecFlush \/ DecResync
         /\ vdec'.stopping => vdec.stopping \/ VdecStop
         /\ \/ vdec'.cb = vdec.cb /\ vdec'.count = vdec.count
            \/ vdec'.cb = "none" /\ vdec.cb # "stop" /\ vdec.cb # "stopLoaded"
            \/ FlushCb \/ StopCb \/ StopCbCount \/ StopCbLoad \/ StopCbStore \/ OutputCb
  <1>0. vdec \in VdecType
    BY Types, Zenon
  <1>1. CASE UNCHANGED vdec
    BY <1>1, Zenon
  <1>2. CASE VdecFlush \/ DecResync \/ VdecStop
    <2>1. vdec'.cb = vdec.cb /\ vdec'.count = vdec.count
      BY <1>0, <1>2, SMT DEF VdecFlush, DecResync, VdecStop, VdecType
    <2>2. /\ vdec'.stopping => vdec.stopping \/ VdecStop
          /\ vdec'.flushing => vdec.flushing \/ VdecFlush \/ DecResync
      BY <1>0, <1>2, SMT DEF VdecFlush, DecResync, VdecStop, VdecType
    <2>. QED
      BY <2>1, <2>2, Zenon
  <1>3. CASE TimerFrame
    <2>1. vdec'.cb = vdec.cb /\ vdec'.count = vdec.count /\ vdec'.flushing = vdec.flushing
          /\ vdec'.stopping = vdec.stopping
      <3>1. vdec' = vdec \/ vdec' = [vdec EXCEPT !.busy = TRUE]
        BY <1>3, Zenon DEF TimerFrame
      <3>. QED
        BY <1>0, <3>1, Zenon DEF VdecType
    <2>. QED
      BY <2>1, Zenon
  <1>4. CASE FlushCb \/ StopCb \/ StopCbCount \/ StopCbLoad \/ StopCbStore \/ OutputCb
    <2>1. (vdec'.flushing => vdec.flushing) /\ (vdec'.stopping => vdec.stopping)
      <3>1. \/ vdec' = [vdec EXCEPT !.flushing = FALSE, !.busy = FALSE, !.cb = "flush"]
            \/ vdec' = [vdec EXCEPT !.stopping = FALSE, !.busy = FALSE, !.cb = "stop"]
            \/ vdec' = [vdec EXCEPT !.cb = "none"]
            \/ vdec' = [vdec EXCEPT !.cb = "stopLoaded", !.count = dec.mCompleteStopPendingCount]
            \/ vdec' = [vdec EXCEPT !.cb = "none", !.count = 0]
            \/ vdec' = [vdec EXCEPT !.cb = "output"]
        BY <1>4, Zenon DEF FlushCb, StopCb, StopCbCount, StopCbLoad, StopCbStore, OutputCb
      <3>. QED
        BY <1>0, <3>1, Zenon DEF VdecType
    <2>. QED
      BY <2>1, <1>4, Zenon
  <1>5. CASE FlushCbPost \/ OutputCbQueue
    <2>1. /\ (vdec'.flushing => vdec.flushing) /\ (vdec'.stopping => vdec.stopping)
          /\ vdec'.cb = "none" /\ vdec.cb # "stop" /\ vdec.cb # "stopLoaded"
      <3>1. /\ vdec.cb \in {"flush", "output"}
            /\ \/ vdec' = [vdec EXCEPT !.cb = "none"]
               \/ \E b \in BOOLEAN : vdec' = [vdec EXCEPT !.cb = "none", !.busy = b]
        BY <1>5, Zenon DEF FlushCbPost, OutputCbQueue
      <3>. QED
        BY <1>0, <3>1, Zenon DEF VdecType
    <2>. QED
      BY <2>1, Zenon
  <1>. QED
    BY VdecChange, <1>1, <1>2, <1>3, <1>4, <1>5, Zenon

\* The flags of the sinks.
LEMMA SinkParts ==
  ASSUME TypeOK, told.open, [Next]_vars, NEW t \in Sinks
  PROVE  /\ \/ sink'[t].mInputMedia = sink[t].mInputMedia
            \/ SinkInputRemoved(t) /\ ~sink'[t].mInputMedia
            \/ StartVideoSink(t)
         /\ sink[t].mIsFlushed => \/ sink'[t].mIsFlushed
                                  \/ TimerFrame /\ Contains(dmxOut, t)
                                  \/ OutputCbQueue /\ Contains(dec.out, t)
         /\ sink'[t].mVideoSinkListener => sink[t].mVideoSinkListener \/ StartVideoSink(t)
  <1>0. sink \in [Sinks -> SinkType]
    BY Types, Zenon
  <1>1. CASE UNCHANGED sink
    BY <1>1, Zenon
  <1>2. CASE TimerFrame \/ OutputCbQueue
    <2>1. \/ TimerFrame /\ sink' = Queued(dmxOut)
          \/ OutputCbQueue /\ (sink' = Queued(dec.out) \/ sink' = sink)
      BY <1>2, Zenon DEF TimerFrame, OutputCbQueue
    <2>2. \A out : /\ Queued(out)[t].mInputMedia = sink[t].mInputMedia
                   /\ Queued(out)[t].mVideoSinkListener = sink[t].mVideoSinkListener
                   /\ ~Contains(out, t) => Queued(out)[t] = sink[t]
      BY <1>0, SMT DEF Queued, SinkType
    <2>. QED
      BY <2>1, <2>2, Zenon
  <1>3. ASSUME NEW s \in Sinks, SinkStop(s) \/ SinkInputRemoved(s) \/ SinkOnChannelFlush(s)
                                \/ SinkFlushDone(s) \/ StartVideoSink(s)
        PROVE  /\ \/ sink'[t].mInputMedia = sink[t].mInputMedia
                  \/ SinkInputRemoved(t) /\ ~sink'[t].mInputMedia
                  \/ StartVideoSink(t)
               /\ sink[t].mIsFlushed => sink'[t].mIsFlushed
               /\ sink'[t].mVideoSinkListener => sink[t].mVideoSinkListener \/ StartVideoSink(t)
    <2>1. CASE SinkStop(s)
      <3>1. sink' = [sink EXCEPT ![s].mVideoSinkListener = FALSE]
        BY <2>1, Zenon DEF SinkStop
      <3>. QED
        BY <1>0, <3>1, SMT DEF SinkType
    <2>2. CASE SinkInputRemoved(s)
      <3>1. sink' = [sink EXCEPT ![s].mInputMedia = FALSE]
        BY <2>2, Zenon DEF SinkInputRemoved
      <3>2. t = s => ~sink'[t].mInputMedia
        BY <1>0, <3>1, SMT DEF SinkType
      <3>3. /\ t # s => sink'[t] = sink[t]
            /\ sink'[t].mIsFlushed = sink[t].mIsFlushed
            /\ sink'[t].mVideoSinkListener = sink[t].mVideoSinkListener
        <4>1. \A a, b \in BOOLEAN : LET n == [sink EXCEPT ![s].mInputMedia = a] IN
                 n[s].mIsFlushed = sink[s].mIsFlushed /\ n[s].mVideoSinkListener = sink[s].mVideoSinkListener
          BY <1>0, Zenon DEF SinkType
        <4>2. t # s => sink'[t] = sink[t]
          BY <1>0, <3>1, SMT
        <4>. QED
          BY <3>1, <4>1, <4>2, Zenon
      <3>. QED
        BY <2>2, <3>2, <3>3, Zenon
    <2>3. CASE SinkOnChannelFlush(s)
      <3>1. sink' = [sink EXCEPT ![s].mInputChannelFlushPending = TRUE]
        BY <2>3, Zenon DEF SinkOnChannelFlush
      <3>. QED
        BY <1>0, <3>1, SMT DEF SinkType
    <2>4. CASE SinkFlushDone(s)
      <3>1. \/ sink' = [sink EXCEPT ![s].mIsFlushed = TRUE, ![s].mInputChannelFlushPending = FALSE]
            \/ sink' = sink
        BY <2>4, Zenon DEF SinkFlushDone
      <3>. QED
        BY <1>0, <3>1, SMT DEF SinkType
    <2>5. CASE StartVideoSink(s)
      <3>1. sink' = [sink EXCEPT ![s].mInputMedia = TRUE, ![s].mVideoSinkListener = TRUE]
        BY <2>5, Zenon DEF StartVideoSink
      <3>2. /\ t # s => sink'[t] = sink[t]
            /\ sink[t].mIsFlushed => sink'[t].mIsFlushed
        BY <1>0, <3>1, SMT DEF SinkType
      <3>. QED
        BY <2>5, <3>2, Zenon
    <2>. QED
      BY <1>3, <2>1, <2>2, <2>3, <2>4, <2>5, Zenon
  <1>. QED
    BY SinkChange, <1>1, <1>2, <1>3, Zenon

-----------------------------------------------------------------------------
(* A step of a session that was opened.                                    *)

\* What is known already, and a step of an opened session.
Known == PipelineInv /\ ChainInv /\ errors \in Nat /\ ("Resync" \in Allowed => FlushInv)
\* A step of a session whose open() has succeeded.
Going == Tame /\ Known /\ Known' /\ [Next]_vars /\ mState # "CREATED" /\ AliveInv

\* What is known of such a step.
LEMMA GoingFacts ==
  ASSUME Going
  PROVE  /\ TypeOK /\ TypeOK' /\ AnswerInv /\ OpenedInv /\ ChainInv /\ ChainInv'
         /\ told.open /\ [Next]_vars /\ mState # "CREATED" /\ Tame /\ AliveInv
         /\ "Resync" \in Allowed => FlushInv /\ FlushInv'
         /\ vdec.cb = "none" \/ ~LoopRuns
         /\ errors \in Nat
  <1>1. PipelineInv /\ PipelineInv' /\ ChainInv /\ ChainInv' /\ Tame
    BY Zenon DEF Going, Known
  <1>2. TypeOK /\ TypeOK' /\ AnswerInv /\ OpenedInv
    BY <1>1, Zenon DEF PipelineInv, Going
  <1>3. told.open
    BY <1>2, Before, Zenon DEF AnswerInv, Going
  <1>. QED
    BY <1>1, <1>2, <1>3, Zenon DEF Going, Known, Tame, LoopRuns

\* It stays opened.
LEMMA StillOpen ==
  ASSUME Going
  PROVE  mState' # "CREATED" /\ OpenedInv'
  <1>1. mState' # "CREATED"
    BY GoingFacts, StateChange, Zenon DEF Close, OnElementStopped, Going
  <1>2. PipelineInv'
    BY Zenon DEF Going, Known
  <1>. QED
    BY <1>1, <1>2, Zenon DEF PipelineInv

\* The invariants of an opened session, before the step and after it.
LEMMA OpenParts ==
  ASSUME Going
  PROVE  /\ LifeInv /\ StopCall /\ StoppedCall /\ MediaInv /\ UnlinkCall
         /\ DecoderInv /\ TeardownCall /\ PortInv /\ NoticeInv
         /\ LifeInv' /\ StopCall' /\ StoppedCall' /\ MediaInv' /\ UnlinkCall'
         /\ DecoderInv' /\ TeardownCall' /\ PortInv' /\ NoticeInv'
         /\ OrderInv /\ NextInv /\ TornCalls /\ TornState /\ LinkInv
         /\ OrderInv' /\ NextInv' /\ TornCalls' /\ TornState' /\ LinkInv'
  BY GoingFacts, StillOpen, Zenon DEF OpenedInv, ChainInv, CallInv

\* The parts of AliveInv.
LEMMA AliveParts ==
  ASSUME AliveInv
  PROVE  /\ NoticedInv /\ InputInv /\ StopInv /\ LeaveInv /\ ToldInv /\ FlushCallInv /\ AskInv
         /\ GoneInv /\ FlowInv /\ EndInv /\ CountInv /\ LastMail /\ DecoderGone /\ DemuxerGone
         /\ "Resync" \in Allowed => RestInv
  BY Zenon DEF AliveInv

\* The types, before the step and after it.
LEMMA GoingTypes ==
  ASSUME Going
  PROVE  /\ agenda \in Seq(CallType) /\ mMbox \in Seq(MessageType) /\ idle \in Seq(IdleType)
         /\ agenda' \in Seq(CallType) /\ mMbox' \in Seq(MessageType) /\ idle' \in Seq(IdleType)
         /\ est \in [Elements -> ElementStates] /\ est' \in [Elements -> ElementStates]
         /\ link \in [SinkElements -> {D, V, None}] /\ link' \in [SinkElements -> {D, V, None}]
         /\ port \in [SinkElements -> BOOLEAN] /\ port' \in [SinkElements -> BOOLEAN]
         /\ dmxMedia \in BOOLEAN /\ dmxMedia' \in BOOLEAN
         /\ dec \in DecType /\ dec' \in DecType /\ vdec \in VdecType /\ vdec' \in VdecType
         /\ sink \in [Sinks -> SinkType] /\ sink' \in [Sinks -> SinkType]
         /\ \A i \in DOMAIN agenda : agenda[i] \in CallType
         /\ \A i \in DOMAIN agenda' : agenda'[i] \in CallType
  <1>1. TypeOK /\ TypeOK'
    BY GoingFacts, Zenon
  <1>2. /\ agenda \in Seq(CallType) /\ agenda' \in Seq(CallType)
        /\ mMbox \in Seq(MessageType) /\ idle \in Seq(IdleType)
        /\ mMbox' \in Seq(MessageType) /\ idle' \in Seq(IdleType)
    BY <1>1, Zenon DEF TypeOK
  <1>3. /\ est \in [Elements -> ElementStates] /\ est' \in [Elements -> ElementStates]
        /\ link \in [SinkElements -> {D, V, None}] /\ link' \in [SinkElements -> {D, V, None}]
        /\ port \in [SinkElements -> BOOLEAN] /\ port' \in [SinkElements -> BOOLEAN]
        /\ dmxMedia \in BOOLEAN /\ dmxMedia' \in BOOLEAN
        /\ dec \in DecType /\ dec' \in DecType /\ vdec \in VdecType /\ vdec' \in VdecType
        /\ sink \in [Sinks -> SinkType] /\ sink' \in [Sinks -> SinkType]
    BY <1>1, Zenon DEF TypeOK
  <1>4. /\ \A i \in DOMAIN agenda : agenda[i] \in CallType
        /\ \A i \in DOMAIN agenda' : agenda'[i] \in CallType
    BY <1>2
  <1>. QED
    BY <1>2, <1>3, <1>4, Zenon

\* Each call of its agenda has an origin.
LEMMA GoingOrigin ==
  ASSUME Going
  PROVE  Origin
  BY GoingFacts, Origins, Zenon

\* A call made at once was just made.
LEMMA NextMade ==
  ASSUME Going, agenda' # <<>>, AtOnce(agenda'[1])
  PROVE  Made(agenda'[1]) \/ UNCHANGED agenda
  <1>1. agenda' \in Seq(CallType) /\ agenda \in Seq(CallType) /\ OrderInv /\ Origin
    BY GoingTypes, OpenParts, GoingOrigin, Zenon
  <1>2. 1 \in DOMAIN agenda'
    BY <1>1
  <1>3. CASE Old(agenda'[1])
    <2>1. PICK j \in DOMAIN agenda : /\ agenda[j] = agenda'[1]
                                     /\ j # 1 \/ UNCHANGED agenda \/ agenda[1].f \in {"idle", "mboxCb"}
      BY <1>3, Zenon DEF Old
    <2>2. CASE j # 1
      <3>1. AtOnce(agenda[j])
        BY <2>1, Zenon
      <3>2. MayFollow(link, agenda[1], agenda[j])
        BY <1>1, <2>2, Behind, Zenon
      <3>. QED
        BY <3>1, <3>2, Zenon DEF MayFollow
    <2>3. CASE j = 1 /\ agenda[1].f \in {"idle", "mboxCb"}
      BY <2>1, <2>3, SMT DEF AtOnce, Immediate
    <2>. QED
      BY <2>1, <2>2, <2>3, Zenon
  <1>. QED
    BY <1>1, <1>2, <1>3, Zenon DEF Origin

\* A call that is made at once, when it is next, was just made.
LEMMA IsMade ==
  ASSUME Going, NEW f, NEW e, IsNext(f, e)',
         f \in Immediate \/ (e = V /\ f \in {"channel.flush", "completeStop"})
  PROVE  /\ agenda'[1].f = f /\ agenda'[1].e = e /\ 1 \in DOMAIN agenda'
         /\ Made(agenda'[1]) \/ (UNCHANGED agenda /\ IsNext(f, e))
  <1>1. agenda' # <<>> /\ agenda'[1].f = f /\ agenda'[1].e = e
    BY Zenon DEF IsNext
  <1>2. AtOnce(agenda'[1])
    BY <1>1, Zenon DEF AtOnce
  <1>3. 1 \in DOMAIN agenda'
    BY <1>1, GoingTypes
  <1>4. UNCHANGED agenda => IsNext(f, e)
    BY Zenon DEF IsNext
  <1>. QED
    BY <1>1, <1>2, <1>3, <1>4, NextMade, Zenon

\* Where the other calls come from, and where they go.
LEMMA CallMade ==
  ASSUME Going, NEW f, NEW e, Calls(f, e)', f \notin {"idle", "mboxCb"}
  PROVE  \/ \E i \in DOMAIN agenda' : agenda'[i].f = f /\ agenda'[i].e = e /\ Made(agenda'[i])
         \/ Waits(f, e)
         \/ (UNCHANGED agenda /\ Calls(f, e))
  <1>1. PICK i \in DOMAIN agenda' : agenda'[i].f = f /\ agenda'[i].e = e
    BY Zenon DEF Calls
  <1>2. Made(agenda'[i]) \/ Old(agenda'[i])
    BY GoingOrigin, Zenon DEF Origin
  <1>3. CASE Old(agenda'[i])
    <2>1. PICK j \in DOMAIN agenda : /\ agenda[j] = agenda'[i]
                                     /\ j # 1 \/ UNCHANGED agenda \/ agenda[1].f \in {"idle", "mboxCb"}
      BY <1>3, Zenon DEF Old
    <2>2. Calls(f, e)
      BY <1>1, <2>1, Zenon DEF Calls
    <2>3. j # 1 => Waits(f, e)
      BY <1>1, <2>1, Zenon DEF Waits
    <2>. QED
      BY <1>1, <2>1, <2>2, <2>3, Zenon
  <1>. QED
    BY <1>1, <1>2, <1>3, Zenon

\* A call that is not next stays in the agenda.
LEMMA CallStays ==
  ASSUME Going, NEW f, NEW e, Calls(f, e)
  PROVE  Calls(f, e)' \/ IsNext(f, e)
  <1>1. PICK j \in DOMAIN agenda : agenda[j].f = f /\ agenda[j].e = e
    BY Zenon DEF Calls
  <1>2. CASE j # 1
    BY <1>1, <1>2, GoingOrigin, Zenon DEF Origin, Calls
  <1>3. CASE j = 1
    BY <1>1, <1>3, GoingTypes, Line, Zenon DEF IsNext
  <1>. QED
    BY <1>2, <1>3

\* A call that waits stays in it.
LEMMA WaitStays ==
  ASSUME Going, NEW f, NEW e, Waits(f, e)
  PROVE  Calls(f, e)'
  BY GoingOrigin, Zenon DEF Origin, Calls, Waits

-----------------------------------------------------------------------------
(* The idle functions and the medias.                                      *)

\* The source of a sink is the demuxer or the decoder.
LEMMA Sources ==
  ASSUME NEW s \in Sinks
  PROVE  /\ SourceOf(s) \in {D, V} /\ (SourceOf(s) = D \/ SourceOf(s) = V)
         /\ s \in Elements /\ s \in SinkElements /\ s # V /\ s # D /\ s # None
         /\ D # V /\ D # None /\ V # None
  BY Distinct, SMT DEF SourceOf

\* The media of an element still exists after the step.
MediaLeft(e) == IF e = D THEN dmxMedia' ELSE dec'.mOutputMedia
\* What is posted, and why.
Noticed(n) ==
    /\ n \in IdleType /\ n.cb # "mediaAdded"
    /\ n.cb = "sinkFlush" => n.e \in Sinks /\ SinkFlush(n.e) /\ ~sink[n.e].mIsFlushed
    /\ n.cb = "mediaRemoved" => ~MediaLeft(n.e)
\* What changes the idle functions.
LEMMA IdleKinds ==
  ASSUME Going
  PROVE  \/ UNCHANGED idle
         \/ \E n : idle' = Append(idle, n) /\ Noticed(n)
         \/ IdleFunction /\ idle # <<>> /\ idle' = Tail(idle)
  <1>0. told.open /\ [Next]_vars /\ dec \in DecType /\ D # V
    BY GoingFacts, GoingTypes, Distinct, Zenon
  <1>1. CASE DmxStop \/ Close \/ OnElementStopped
    <2>1. UNCHANGED idle \/ \E cb \in Answers : idle' = Append(idle, Idle(cb, None))
      BY <1>1, Zenon DEF DmxStop, Close, OnElementStopped, IdleAdd, Answers
    <2>2. \A cb \in Answers : Noticed(Idle(cb, None))
      BY NoticeTypes, SMT DEF Noticed, Idle, Answers
    <2>. QED
      BY <2>1, <2>2, Zenon
  <1>2. CASE DmxOnChannelUnlink
    <2>1. UNCHANGED idle \/ (idle' = Append(idle, Idle("mediaRemoved", D)) /\ dmxMedia' = FALSE)
      BY <1>2, Zenon DEF DmxOnChannelUnlink, IdleAdd
    <2>2. Idle("mediaRemoved", D).cb = "mediaRemoved" /\ Idle("mediaRemoved", D).e = D
      BY DEF Idle
    <2>3. dmxMedia' = FALSE => Noticed(Idle("mediaRemoved", D))
      BY <2>2, NoticeTypes, SMT DEF Noticed, MediaLeft
    <2>. QED
      BY <2>1, <2>3, Zenon
  <1>3. CASE DecCompleteStop
    <2>1. UNCHANGED idle \/ (idle' = Append(idle, Idle("mediaRemoved", V)) /\ ~dec'.mOutputMedia)
      BY <1>3, Zenon DEF DecCompleteStop, IdleAdd
    <2>2. Idle("mediaRemoved", V).cb = "mediaRemoved" /\ Idle("mediaRemoved", V).e = V
      BY DEF Idle
    <2>3. ~dec'.mOutputMedia => Noticed(Idle("mediaRemoved", V))
      BY <1>0, <2>2, NoticeTypes, SMT DEF Noticed, MediaLeft
    <2>. QED
      BY <2>1, <2>3, Zenon
  <1>4. CASE IdleFunction
    BY <1>4, Zenon DEF IdleFunction
  <1>5. ASSUME NEW s \in Sinks, SinkFlush(s)
        PROVE  UNCHANGED idle \/ \E n : idle' = Append(idle, n) /\ Noticed(n)
    <2>1. UNCHANGED idle \/ (idle' = Append(idle, Idle("sinkFlush", s)) /\ ~sink[s].mIsFlushed)
      BY <1>5, Zenon DEF SinkFlush, IdleAdd
    <2>2. Idle("sinkFlush", s).cb = "sinkFlush" /\ Idle("sinkFlush", s).e = s
      BY DEF Idle
    <2>3. ~sink[s].mIsFlushed => Noticed(Idle("sinkFlush", s))
      BY <1>5, <2>2, NoticeTypes, SMT DEF Noticed
    <2>. QED
      BY <2>1, <2>3, Zenon
  <1>. QED
    BY <1>0, <1>1, <1>2, <1>3, <1>4, <1>5, IdleChange, Zenon

\* The functions posted are those there were and the one that is posted.
LEMMA IdlePlaces ==
  ASSUME Going
  PROVE  \A i \in DOMAIN idle' :
            \/ \E j \in DOMAIN idle : idle'[i] = idle[j]
            \/ Noticed(idle'[i])
  <1>0. idle \in Seq(IdleType)
    BY GoingTypes, Zenon
  <1>1. CASE UNCHANGED idle
    BY <1>1, Zenon
  <1>2. ASSUME NEW n, idle' = Append(idle, n), Noticed(n)
        PROVE  \A i \in DOMAIN idle' : (\E j \in DOMAIN idle : idle'[i] = idle[j]) \/ Noticed(idle'[i])
    <2>1. n \in IdleType
      BY <1>2, Zenon DEF Noticed
    <2>2. /\ \A i \in DOMAIN idle : Append(idle, n)[i] = idle[i]
          /\ \A i \in DOMAIN Append(idle, n) : i \in DOMAIN idle \/ i = Len(idle) + 1
          /\ Append(idle, n)[Len(idle) + 1] = n
      BY <1>0, <2>1, AppendContains
    <2>3. ASSUME NEW i \in DOMAIN idle'
          PROVE  (\E j \in DOMAIN idle : idle'[i] = idle[j]) \/ Noticed(idle'[i])
      <3>1. i \in DOMAIN Append(idle, n)
        BY <1>2, <2>3, Zenon
      <3>2. CASE i \in DOMAIN idle
        BY <1>2, <2>2, <3>2, Zenon
      <3>3. CASE i = Len(idle) + 1
        <4>1. idle'[i] = n
          BY <1>2, <2>2, <3>3, Zenon
        <4>. QED
          BY <1>2, <4>1, Zenon
      <3>. QED
        BY <2>2, <3>1, <3>2, <3>3, Zenon
    <2>. QED
      BY <2>3, Zenon
  <1>3. CASE idle # <<>> /\ idle' = Tail(idle)
    <2>1. \A i \in DOMAIN Tail(idle) : i + 1 \in DOMAIN idle /\ Tail(idle)[i] = idle[i + 1]
      BY <1>0, <1>3, TailOfSeq, Zenon
    <2>. QED
      BY <1>3, <2>1, Zenon
  <1>. QED
    BY <1>1, <1>2, <1>3, IdleKinds, Zenon

\* A media that is gone does not come back.
LEMMA MediaStaysGone ==
  ASSUME Going, NEW e \in {D, V}, ~MediaOf(e)
  PROVE  ~MediaLeft(e)
  <1>0. told.open /\ [Next]_vars /\ TypeOK /\ dec \in DecType /\ D # V
    BY GoingFacts, GoingTypes, Distinct, Zenon
  <1>1. dmxMedia' => dmxMedia
    BY <1>0, DmxMediaChange, Zenon DEF DmxOnChannelUnlink
  <1>2. DecCompleteStop => (dec'.mOutputMedia => dec.mOutputMedia)
    BY <1>0, SMT DEF DecCompleteStop, DecType
  <1>3. dec'.mOutputMedia => dec.mOutputMedia
    BY <1>0, <1>2, DecParts, Zenon
  <1>. QED
    BY <1>1, <1>3, Zenon DEF MediaOf, MediaLeft

\* The application forgets a media when it is told that it is gone.
LEMMA MediaForgotten ==
  ASSUME Going, NEW e \in {D, V}, e \in appMedia, e \notin appMedia'
  PROVE  ListenerIdle /\ idle # <<>> /\ 1 \in DOMAIN idle /\ idle[1].cb = "mediaRemoved" /\ idle[1].e = e
         /\ idle' = Tail(idle) /\ UNCHANGED agenda
  <1>0. told.open /\ [Next]_vars /\ TypeOK /\ idle \in Seq(IdleType)
    BY GoingFacts, GoingTypes, Zenon
  <1>1. IdleFunction
    BY <1>0, AppMediaChange, Zenon
  <1>2. Head(idle).cb # "sinkFlush"
    BY <1>1, Zenon DEF IdleFunction, CallVideoSinkFlush
  <1>3. ListenerIdle
    BY <1>1, <1>2, Zenon DEF ListenerIdle
  <1>4. /\ idle # <<>> /\ idle' = Tail(idle) /\ UNCHANGED agenda
        /\ Head(idle).e = e /\ Head(idle).cb \in {"mediaAdded", "mediaRemoved"}
        /\ Head(idle).cb # "mediaAdded"
    BY <1>0, <1>3, Heard, Zenon
  <1>5. 1 \in DOMAIN idle /\ Head(idle) = idle[1]
    BY <1>0, <1>4, TailOfSeq, Zenon
  <1>. QED
    BY <1>3, <1>4, <1>5

\* What changes the state of a sink.
LEMMA SinkStates ==
  ASSUME Going, NEW s \in Sinks
  PROVE  \/ est'[s] = est[s]
         \/ SinkStop(s) /\ est[s] = "STARTED" /\ est'[s] \in {"STOPPING", "STOPPED"}
         \/ SinkCompleteStop(s) /\ est[s] = "STOPPING" /\ est'[s] = "STOPPED"
         \/ StartVideoSink(s) /\ est[s] = "none" /\ est'[s] = "STARTED"
         \/ MboxMessage /\ est[s] \in {"STOPPED", "deleted"} /\ est'[s] = "deleted"
  <1>0. told.open /\ [Next]_vars /\ est \in [Elements -> ElementStates] /\ LifeInv /\ StopCall
        /\ agenda \in Seq(CallType) /\ StoppedCall /\ mMbox \in Seq(MessageType)
    BY GoingFacts, GoingTypes, OpenParts, Zenon
  <1>1. s \in Elements /\ s # V /\ s # D
    BY Distinct, Zenon
  <1>2. ASSUME NEW t \in Sinks, StartVideoSink(t)
        PROVE  est'[s] = est[s] \/ (t = s /\ est[s] = "none" /\ est'[s] = "STARTED")
    <2>1. est' = [est EXCEPT ![t] = "STARTED"] /\ est[t] = "none"
      BY <1>2, Zenon DEF StartVideoSink
    <2>. QED
      BY <1>0, <1>1, <2>1, Zenon
  <1>3. DmxStop \/ DmxOnChannelUnlink \/ DecStop \/ DecCompleteStop => est'[s] = est[s]
    BY <1>0, <1>1, Zenon DEF DmxStop, DmxOnChannelUnlink, DecStop, DecCompleteStop
  <1>4. ASSUME MboxMessage
        PROVE  est'[s] = est[s] \/ (est[s] \in {"STOPPED", "deleted"} /\ est'[s] = "deleted")
    <2>2. \/ UNCHANGED est
          \/ /\ est' = [est EXCEPT ![mMbox[1].e] = "deleted"] /\ mMbox[1].e \in Elements
             /\ mMbox[1].cmd = "ELEMENT_DELETE" /\ 1 \in DOMAIN mMbox
      BY <1>4, GoingFacts, MessageCases, Zenon
    <2>3. est'[s] = est[s] \/ (mMbox[1].e = s /\ est'[s] = "deleted")
      BY <1>0, <1>1, <2>2, Zenon
    <2>. QED
      BY <1>0, <2>2, <2>3, Zenon DEF StoppedCall
  <1>5. ASSUME NEW t \in Sinks, SinkStop(t)
        PROVE  est'[s] = est[s]
               \/ (t = s /\ est[s] = "STARTED" /\ est'[s] \in {"STOPPING", "STOPPED"})
    <2>2. t \in Elements /\ (est' = [est EXCEPT ![t] = "STOPPING"] \/ est' = [est EXCEPT ![t] = "STOPPED"])
      BY <1>5, Distinct, Zenon DEF SinkStop
    <2>3. est'[s] = est[s] \/ (t = s /\ est'[s] \in {"STOPPING", "STOPPED"})
      BY <1>0, <1>1, <2>2, Zenon
    <2>4. est[t] = "STARTED"
      BY <1>0, <1>5, StopAlone, Zenon DEF SinkStop
    <2>. QED
      BY <2>3, <2>4
  <1>6. ASSUME NEW t \in Sinks, SinkCompleteStop(t)
        PROVE  est'[s] = est[s] \/ (t = s /\ est[s] = "STOPPING" /\ est'[s] = "STOPPED")
    <2>2. t \in Elements /\ (UNCHANGED est \/ (est' = [est EXCEPT ![t] = "STOPPED"] /\ est[t] = "STOPPING"))
      BY <1>1, <1>6, Distinct, Zenon DEF SinkCompleteStop
    <2>. QED
      BY <1>0, <1>1, <2>2, Zenon
  <1>. QED
    BY <1>0, <1>2, <1>3, <1>4, <1>5, <1>6, EstChange, Zenon

\* A step keeps NoticedInv: the function is posted when the media is removed.
LEMMA NoticedKept ==
  ASSUME Going
  PROVE  NoticedInv'
  <1>0. NoticedInv
    BY GoingFacts, AliveParts, Zenon
  <1>1. ASSUME NEW i \in DOMAIN idle', idle'[i].cb = "mediaRemoved"
        PROVE  ~MediaLeft(idle'[i].e)
    <2>1. idle'[i].e \in {D, V}
      <3>1. idle'[i] \in IdleType
        BY GoingTypes
      <3>. QED
        BY <1>1, <3>1, NoticeTypes, Zenon
    <2>2. ASSUME NEW j \in DOMAIN idle, idle'[i] = idle[j]
          PROVE  ~MediaLeft(idle'[i].e)
      <3>1. ~MediaOf(idle'[i].e)
        BY <1>0, <1>1, <2>2, Zenon DEF NoticedInv
      <3>. QED
        BY <2>1, <3>1, MediaStaysGone, Zenon
    <2>. QED
      BY <1>1, <2>2, IdlePlaces, Zenon DEF Noticed
  <1>2. ASSUME NEW s \in Sinks, est'[s] # "none", SourceOf(s) \notin appMedia'
        PROVE  ~MediaLeft(SourceOf(s))
    <2>0. SourceOf(s) \in {D, V}
      BY Sources, Zenon
    <2>1. est[s] # "none"
      BY <1>2, SinkStates, Zenon DEF StartVideoSink, appVars
    <2>2. CASE SourceOf(s) \notin appMedia
      BY <1>0, <2>0, <2>1, <2>2, MediaStaysGone, Zenon DEF NoticedInv
    <2>3. CASE SourceOf(s) \in appMedia
      <3>1. 1 \in DOMAIN idle /\ idle[1].cb = "mediaRemoved" /\ idle[1].e = SourceOf(s)
        BY <1>2, <2>0, <2>3, MediaForgotten, Zenon
      <3>. QED
        BY <1>0, <2>0, <3>1, MediaStaysGone, Zenon DEF NoticedInv
    <2>. QED
      BY <2>2, <2>3
  <1>3. NoticedInv' <=>
            /\ \A i \in DOMAIN idle' : idle'[i].cb = "mediaRemoved" => ~MediaLeft(idle'[i].e)
            /\ \A s \in Sinks : est'[s] # "none" /\ SourceOf(s) \notin appMedia' => ~MediaLeft(SourceOf(s))
    BY Zenon DEF NoticedInv, MediaOf, MediaLeft
  <1>. QED
    BY <1>1, <1>2, <1>3, Zenon

-----------------------------------------------------------------------------
(* The links of the sinks, and their stops.                                *)

\* A call that is next is made by its function.
LEMMA InputForgotten ==
  ASSUME Going, NEW s \in Sinks, IsNext("inputRemoved", s)
  PROVE  UNCHANGED agenda \/ ~sink'[s].mInputMedia
  <1>0. told.open /\ [Next]_vars /\ sink \in [Sinks -> SinkType] /\ agenda \in Seq(CallType)
    BY GoingFacts, GoingTypes, Zenon
  <1>1. agenda # <<>> /\ Head(agenda).f = "inputRemoved" /\ Head(agenda).e = s
    BY <1>0, TailOfSeq, Zenon DEF IsNext
  <1>2. ~ChannelStep /\ ~DmxStep /\ ~DecStep /\ ~SessionStep
    BY <1>1, Zenon DEF ChannelStep, ChannelFlush, ChannelFlushDone, RemoveInputMedia,
       DeleteChannel, DmxStep, DmxStop, DmxFlush, DmxFlushAt, DmxChannelCounted,
       DmxOnChannelFlushed, DmxChannelFlushed, DmxOnChannelUnlink, DecStep, DecStop,
       DecOnChannelFlush, DecFlush, VdecFlush, DecCompleteFlush, DecAfterFlush,
       DecTeardownOutputs, VdecStop, DecCompleteStop, DecOnChannelFlushed,
       DecOnChannelUnlink, DecResync, SessionStep, IdleFunction, MboxMessage, EventDone,
       OnElementStopped, Runs
  <1>3. ~AppEvent /\ ~RunIdle /\ ~RunMbox /\ ~TimerNoBuffer
    BY <1>1, Zenon DEF AppEvent, Open, Close, Play, StartVideoSink, StopVideoSink,
       VideoSinkQueueFlushed, ResyncVideoSink, RunIdle, RunMbox, TimerNoBuffer, AtEvent
  <1>4. TimerFrame \/ VdecCallback \/ OutputError \/ UNCHANGED vars => UNCHANGED agenda
    BY Zenon DEF TimerFrame, VdecCallback, FlushCb, FlushCbPost, StopCb, StopCbCount,
       StopCbLoad, StopCbStore, OutputCb, OutputCbQueue, OutputError, otherThanVdec, vars
  <1>5. ASSUME SinkStep
        PROVE  SinkInputRemoved(s)
    <2>1. \A t \in Sinks : /\ ~SinkStop(t) /\ ~SinkTeardown(t) /\ ~SinkOnChannelFlush(t)
                           /\ ~SinkFlush(t) /\ ~SinkFlushDone(t) /\ ~SinkCompleteStop(t)
                           /\ SinkInputRemoved(t) => t = s
      BY <1>1, Zenon DEF SinkStop, SinkTeardown, SinkInputRemoved, SinkOnChannelFlush,
         SinkFlush, SinkFlushDone, SinkCompleteStop, Runs
    <2>. QED
      BY <1>5, <2>1, Zenon DEF SinkStep
  <1>6. SinkInputRemoved(s) => ~sink'[s].mInputMedia
    <2>1. SinkInputRemoved(s) => sink' = [sink EXCEPT ![s].mInputMedia = FALSE]
      BY Zenon DEF SinkInputRemoved
    <2>. QED
      BY <1>0, <2>1, SMT DEF SinkType
  <1>. QED
    BY <1>0, <1>2, <1>3, <1>4, <1>5, <1>6, Zenon DEF Next, LoopStep, CallStep

\* What changes the link of a channel.
LEMMA LinkStates ==
  ASSUME Going, NEW c \in SinkElements
  PROVE  \/ link'[c] = link[c]
         \/ link'[c] = None /\ link[c] # None /\ IsNext("onChannelUnlink", link[c]) /\ agenda[1].c = c
         \/ c \in Sinks /\ StartVideoSink(c) /\ link'[c] = SourceOf(c)
  <1>0. told.open /\ [Next]_vars /\ link \in [SinkElements -> {D, V, None}]
        /\ agenda \in Seq(CallType) /\ UnlinkCall
    BY GoingFacts, GoingTypes, OpenParts, Zenon
  <1>1. ASSUME NEW e \in {D, V}, Runs("onChannelUnlink", e), link' = [link EXCEPT ![Subject] = None]
        PROVE  \/ link'[c] = link[c]
               \/ link'[c] = None /\ link[c] # None /\ IsNext("onChannelUnlink", link[c]) /\ agenda[1].c = c
    <2>1. Subject \in SinkElements /\ link[Subject] = e
      BY <1>0, <1>1, Unlinked, Zenon
    <2>2. agenda # <<>> /\ agenda[1].f = "onChannelUnlink" /\ agenda[1].e = e /\ Subject = agenda[1].c
      BY <1>0, <1>1, Running, Zenon
    <2>3. e # None
      BY Distinct, SMT
    <2>. QED
      BY <1>0, <1>1, <2>1, <2>2, <2>3, Zenon DEF IsNext
  <1>2. ASSUME NEW t \in Sinks, StartVideoSink(t)
        PROVE  link'[c] = link[c] \/ (c = t /\ link'[c] = SourceOf(c))
    BY <1>0, <1>2, Distinct, Zenon DEF StartVideoSink
  <1>. QED
    BY <1>0, <1>1, <1>2, LinkChange, Zenon DEF DmxOnChannelUnlink, DecOnChannelUnlink

\* A step keeps InputInv.
LEMMA InputKept ==
  ASSUME Going
  PROVE  InputInv'
  <1>0. InputInv /\ told.open /\ [Next]_vars /\ TypeOK
    BY GoingFacts, AliveParts, Zenon
  <1>. SUFFICES ASSUME NEW s \in Sinks
       PROVE  /\ link'[s] \in {SourceOf(s), None}
              /\ sink'[s].mInputMedia => link'[s] # None \/ Calls("inputRemoved", s)'
              /\ IsNext("removeInputMedia", s)' => Calls("inputRemoved", s)'
              /\ agenda' # <<>> /\ agenda'[1].f = "onChannelUnlink" /\ agenda'[1].c = s =>
                     Calls("inputRemoved", s)'
    BY Zenon DEF InputInv
  <1>1. /\ link[s] \in {SourceOf(s), None}
        /\ sink[s].mInputMedia => link[s] # None \/ Calls("inputRemoved", s)
        /\ IsNext("removeInputMedia", s) => Calls("inputRemoved", s)
        /\ agenda # <<>> /\ agenda[1].f = "onChannelUnlink" /\ agenda[1].c = s =>
               Calls("inputRemoved", s)
    BY <1>0, Zenon DEF InputInv
  <1>2. s \in SinkElements /\ SourceOf(s) # None
    BY Sources, Zenon
  <1>3. link'[s] \in {SourceOf(s), None}
    BY <1>1, <1>2, LinkStates, Zenon
  <1>4. Calls("inputRemoved", s) => Calls("inputRemoved", s)' \/ ~sink'[s].mInputMedia
    <2>1. UNCHANGED agenda /\ Calls("inputRemoved", s) => Calls("inputRemoved", s)'
      BY Zenon DEF Calls
    <2>. QED
      BY <2>1, CallStays, InputForgotten, Zenon
  <1>5. ASSUME sink'[s].mInputMedia, link'[s] = None
        PROVE  Calls("inputRemoved", s)'
    <2>1. ~StartVideoSink(s)
      <3>1. SUFFICES ASSUME StartVideoSink(s) PROVE FALSE
        OBVIOUS
      <3>2. link' = [link EXCEPT ![s] = SourceOf(s)]
        BY <3>1, Zenon DEF StartVideoSink
      <3>. QED
        BY <1>2, <1>5, <3>2, GoingTypes, Zenon
    <2>2. sink[s].mInputMedia
      BY <1>0, <1>5, <2>1, SinkParts, Zenon
    <2>3. CASE Calls("inputRemoved", s)
      BY <1>4, <1>5, <2>3
    <2>4. CASE link[s] # None
      <3>1. agenda # <<>> /\ agenda[1].f = "onChannelUnlink" /\ agenda[1].c = s
        BY <1>2, <1>5, <2>1, <2>4, LinkStates, Zenon DEF IsNext
      <3>. QED
        BY <1>1, <1>4, <1>5, <3>1, Zenon
    <2>. QED
      BY <1>1, <2>2, <2>3, <2>4, Zenon
  <1>6. ASSUME IsNext("removeInputMedia", s)'
        PROVE  Calls("inputRemoved", s)'
    <2>1. /\ agenda'[1].f = "removeInputMedia" /\ agenda'[1].e = s
          /\ Made(agenda'[1]) \/ (UNCHANGED agenda /\ IsNext("removeInputMedia", s))
      <3>1. "removeInputMedia" \in Immediate
        BY DEF Immediate
      <3>. QED
        BY <1>6, <3>1, IsMade
    <2>2. CASE Made(agenda'[1])
      BY <2>1, <2>2, Zenon DEF Made, SinkMade, WillCall, Calls
    <2>3. CASE UNCHANGED agenda /\ IsNext("removeInputMedia", s)
      BY <1>1, <2>3, Zenon DEF Calls
    <2>. QED
      BY <2>1, <2>2, <2>3
  <1>7. ASSUME agenda' # <<>>, agenda'[1].f = "onChannelUnlink", agenda'[1].c = s
        PROVE  Calls("inputRemoved", s)'
    <2>1. AtOnce(agenda'[1])
      BY <1>7, SMT DEF AtOnce, Immediate
    <2>2. CASE Made(agenda'[1])
      <3>1. IsNext("removeInputMedia", s)
        BY <1>7, <2>2, Zenon DEF Made, ChannelMade
      <3>2. ~IsNext("inputRemoved", s)
        BY <3>1, SMT DEF IsNext
      <3>. QED
        BY <1>1, <3>1, <3>2, CallStays, Zenon
    <2>3. CASE UNCHANGED agenda
      BY <1>1, <1>7, <2>3, Zenon DEF Calls
    <2>. QED
      BY <1>7, <2>1, <2>2, <2>3, NextMade, Zenon
  <1>. QED
    BY <1>3, <1>5, <1>6, <1>7, Zenon

\* A sink whose media is gone has no channel.
LEMMA NoMediaNoLink ==
  ASSUME Going, NEW s \in Sinks, ~MediaOf(SourceOf(s))
  PROVE  link[s] = None
  <1>1. MediaInv /\ InputInv /\ s \in SinkElements /\ SourceOf(s) \in {D, V} /\ D # V
    BY GoingFacts, AliveParts, OpenParts, Sources, Zenon
  <1>2. \A c : ~Contains(<<>>, c)
    BY DEF Contains
  <1>3. CASE SourceOf(s) = D
    BY <1>1, <1>2, <1>3, Zenon DEF MediaInv, InputInv, MediaOf
  <1>4. CASE SourceOf(s) = V
    BY <1>1, <1>2, <1>4, Zenon DEF MediaInv, InputInv, MediaOf
  <1>. QED
    BY <1>1, <1>3, <1>4

\* A sink that is stopped has no input media.
LEMMA StopsAtOnce ==
  ASSUME Going, NEW s \in Sinks, IsNext("stop", s)
  PROVE  ~sink[s].mInputMedia
  <1>0. InputInv /\ StopInv /\ NoticedInv /\ StopCall /\ agenda \in Seq(CallType)
    BY GoingFacts, GoingTypes, AliveParts, OpenParts, Zenon
  <1>1. agenda # <<>> /\ agenda[1].f = "stop" /\ agenda[1].e = s /\ 1 \in DOMAIN agenda
    BY <1>0, Line, Zenon DEF IsNext
  <1>2. agenda = <<agenda[1]>> /\ est[s] = "STARTED"
    BY <1>0, <1>1, Zenon DEF StopCall
  <1>3. Calls("stop", s)
    BY <1>1, Zenon DEF Calls
  <1>4. SourceOf(s) \notin appMedia
    BY <1>0, <1>3, Zenon DEF StopInv
  <1>5. link[s] = None
    BY <1>0, <1>2, <1>4, NoMediaNoLink, Zenon DEF NoticedInv
  <1>6. ~Calls("inputRemoved", s)
    <2>1. DOMAIN agenda = {1}
      BY <1>2
    <2>. QED
      BY <1>1, <2>1, Zenon DEF Calls
  <1>. QED
    BY <1>0, <1>5, <1>6, Zenon DEF InputInv

\* A step keeps StopInv: the application stops a sink when it is told that the
\* media is gone.
LEMMA StopKept ==
  ASSUME Going
  PROVE  StopInv'
  <1>0. StopInv /\ told.open /\ [Next]_vars /\ TypeOK /\ StopCall /\ StopCall' /\ Tame
        /\ agenda \in Seq(CallType)
    BY GoingFacts, GoingTypes, AliveParts, OpenParts, Zenon
  <1>. SUFFICES ASSUME NEW s \in Sinks
       PROVE  /\ est'[s] # "STOPPING"
              /\ Calls("stop", s)' => SourceOf(s) \notin appMedia' /\ s \notin appFlush'
    BY Zenon DEF StopInv
  <1>1. /\ est[s] # "STOPPING"
        /\ Calls("stop", s) => SourceOf(s) \notin appMedia /\ s \notin appFlush
    BY <1>0, Zenon DEF StopInv
  <1>2. SinkStop(s) => est'[s] = "STOPPED"
    <2>1. SinkStop(s) => est' = [est EXCEPT ![s] = "STOPPED"]
      <3>1. SinkStop(s) => IsNext("stop", s)
        BY <1>0, Running, Zenon DEF SinkStop, IsNext
      <3>. QED
        BY <3>1, StopsAtOnce, Zenon DEF SinkStop
    <2>. QED
      BY <2>1, GoingTypes, Sources, Zenon
  <1>3. est'[s] # "STOPPING"
    BY <1>1, <1>2, SinkStates, Zenon
  <1>4. ASSUME Calls("stop", s)'
        PROVE  SourceOf(s) \notin appMedia' /\ s \notin appFlush'
    <2>1. PICK i \in DOMAIN agenda' : /\ agenda'[i].f = "stop" /\ agenda'[i].e = s
                                      /\ agenda' = <<agenda'[i]>>
      BY <1>0, <1>4, Zenon DEF StopCall, Calls
    <2>2. agenda'[1].f = "stop" /\ agenda' # <<>>
      BY <2>1
    <2>3. ~ListenerIdle
      <3>1. SUFFICES ASSUME ListenerIdle PROVE FALSE
        OBVIOUS
      <3>2. UNCHANGED agenda /\ Runs("idle", None)
        BY <1>0, <3>1, Heard, Zenon DEF ListenerIdle, IdleFunction
      <3>3. agenda[1].f = "idle"
        BY <1>0, <3>2, Running, Zenon
      <3>. QED
        BY <2>2, <3>2, <3>3
    <2>4. SourceOf(s) \notin appMedia => SourceOf(s) \notin appMedia'
      <3>1. UNCHANGED appMedia
        BY <1>0, <2>3, AppMediaChange, Zenon DEF ListenerIdle, IdleFunction, CallVideoSinkFlush
      <3>. QED
        BY <3>1
    <2>5. CASE \E k \in DOMAIN agenda' : agenda'[k].f = "stop" /\ agenda'[k].e = s /\ Made(agenda'[k])
      <3>1. s \notin appFlush' /\ SourceOf(s) \notin appMedia
        BY <1>0, <2>5, Zenon DEF Made, SinkMade, Tame
      <3>. QED
        BY <2>4, <3>1
    <2>6. CASE UNCHANGED agenda /\ Calls("stop", s)
      <3>1. agenda # <<>> /\ agenda[1].f = "stop"
        BY <2>2, <2>6
      <3>2. ~IdleFunction
        <4>1. IdleFunction => Runs("idle", None)
          BY Zenon DEF IdleFunction
        <4>2. Runs("idle", None) => agenda[1].f = "idle"
          BY <1>0, Running, Zenon
        <4>. QED
          BY <3>1, <4>1, <4>2
      <3>3. UNCHANGED appFlush
        BY <1>0, <3>1, <3>2, AppFlushChange, Zenon DEF StopVideoSink, VideoSinkQueueFlushed, AtEvent
      <3>. QED
        BY <1>1, <2>4, <2>6, <3>3
    <2>7. ~Waits("stop", s)
      <3>1. OrderInv
        BY OpenParts, Zenon
      <3>2. "stop" \in Immediate
        BY DEF Immediate
      <3>. QED
        BY <1>0, <3>1, <3>2, Behind, Zenon
    <2>. QED
      BY <1>4, <2>5, <2>6, <2>7, CallMade, SMT
  <1>. QED
    BY <1>3, <1>4

-----------------------------------------------------------------------------
(* The channels that are left.                                             *)

\* What changes the state of the decoder.
LEMMA DecStates ==
  ASSUME Going
  PROVE  \/ est'[V] = est[V]
         \/ DecStop /\ est[V] = "STARTED" /\ est'[V] = "STOPPING"
         \/ DecCompleteStop /\ est'[V] = "STOPPED"
         \/ MboxMessage /\ est[V] \in {"STOPPED", "deleted"} /\ est'[V] = "deleted"
  <1>0. told.open /\ [Next]_vars /\ est \in [Elements -> ElementStates] /\ StoppedCall
    BY GoingFacts, GoingTypes, OpenParts, Zenon
  <1>1. V \in Elements /\ D # V /\ \A s \in Sinks : s # V
    BY Distinct, Zenon
  <1>2. DecStop => est'[V] = est[V] \/ (est[V] = "STARTED" /\ est'[V] = "STOPPING")
    BY <1>0, <1>1, Zenon DEF DecStop
  <1>3. DecCompleteStop => est'[V] = est[V] \/ est'[V] = "STOPPED"
    BY <1>0, <1>1, Zenon DEF DecCompleteStop
  <1>4. ASSUME MboxMessage
        PROVE  est'[V] = est[V] \/ (est[V] \in {"STOPPED", "deleted"} /\ est'[V] = "deleted")
    <2>2. \/ UNCHANGED est
          \/ /\ est' = [est EXCEPT ![mMbox[1].e] = "deleted"] /\ mMbox[1].e \in Elements
             /\ mMbox[1].cmd = "ELEMENT_DELETE" /\ 1 \in DOMAIN mMbox
      BY <1>4, GoingFacts, MessageCases, Zenon
    <2>3. est'[V] = est[V] \/ (mMbox[1].e = V /\ est'[V] = "deleted")
      BY <1>0, <1>1, <2>2, Zenon
    <2>. QED
      BY <1>0, <2>2, <2>3, Zenon DEF StoppedCall
  <1>5. DmxStop \/ DmxOnChannelUnlink => est'[V] = est[V]
    BY <1>0, <1>1, Zenon DEF DmxStop, DmxOnChannelUnlink
  <1>6. ASSUME NEW t \in Sinks, SinkStop(t) \/ SinkCompleteStop(t) \/ StartVideoSink(t)
        PROVE  est'[V] = est[V]
    BY <1>0, <1>1, <1>6, Zenon DEF SinkStop, SinkCompleteStop, StartVideoSink
  <1>. QED
    BY <1>0, <1>2, <1>3, <1>4, <1>5, <1>6, EstChange, Zenon

\* What changes the state of the demuxer.
LEMMA DmxStates ==
  ASSUME Going
  PROVE  \/ est'[D] = est[D]
         \/ DmxStop /\ est'[D] = "STOPPING"
         \/ DmxOnChannelUnlink /\ est[D] = "STOPPING" /\ est'[D] = "STOPPED"
         \/ MboxMessage /\ est[D] \in {"STOPPED", "deleted"} /\ est'[D] = "deleted"
  <1>0. told.open /\ [Next]_vars /\ est \in [Elements -> ElementStates] /\ StoppedCall
    BY GoingFacts, GoingTypes, OpenParts, Zenon
  <1>1. D \in Elements /\ D # V /\ \A s \in Sinks : s # D
    BY Distinct, Zenon
  <1>2. DmxStop => est'[D] = "STOPPING"
    BY <1>0, <1>1, Zenon DEF DmxStop
  <1>3. DmxOnChannelUnlink => est'[D] = est[D] \/ (est[D] = "STOPPING" /\ est'[D] = "STOPPED")
    BY <1>0, <1>1, Zenon DEF DmxOnChannelUnlink
  <1>4. ASSUME MboxMessage
        PROVE  est'[D] = est[D] \/ (est[D] \in {"STOPPED", "deleted"} /\ est'[D] = "deleted")
    <2>2. \/ UNCHANGED est
          \/ /\ est' = [est EXCEPT ![mMbox[1].e] = "deleted"] /\ mMbox[1].e \in Elements
             /\ mMbox[1].cmd = "ELEMENT_DELETE" /\ 1 \in DOMAIN mMbox
      BY <1>4, GoingFacts, MessageCases, Zenon
    <2>3. est'[D] = est[D] \/ (mMbox[1].e = D /\ est'[D] = "deleted")
      BY <1>0, <1>1, <2>2, Zenon
    <2>. QED
      BY <1>0, <2>2, <2>3, Zenon DEF StoppedCall
  <1>5. DecStop \/ DecCompleteStop => est'[D] = est[D]
    BY <1>0, <1>1, Zenon DEF DecStop, DecCompleteStop
  <1>6. ASSUME NEW t \in Sinks, SinkStop(t) \/ SinkCompleteStop(t) \/ StartVideoSink(t)
        PROVE  est'[D] = est[D]
    BY <1>0, <1>1, <1>6, Zenon DEF SinkStop, SinkCompleteStop, StartVideoSink
  <1>. QED
    BY <1>0, <1>2, <1>3, <1>4, <1>5, <1>6, EstChange, Zenon

\* The links of the channels of each element.
LEMMA Linked ==
  ASSUME Going, NEW s \in Sinks
  PROVE  /\ link[s] = D => SourceOf(s) = D
         /\ link[s] = V => SourceOf(s) = V /\ dec.mOutputMedia
         /\ Contains(dec.out, s) => link[s] = V
         /\ Contains(dmxOut, s) => link[s] = D
         /\ IsAbout("onChannelFlushed", D, s) => link[s] = D
  <1>0. InputInv /\ MediaInv /\ LinkInv /\ NextInv /\ s \in SinkElements /\ D # V /\ D # None
        /\ V # None /\ link[s] \in {SourceOf(s), None}
    <2>1. InputInv /\ MediaInv /\ LinkInv /\ NextInv
      BY GoingFacts, AliveParts, OpenParts, Zenon
    <2>. QED
      BY <2>1, Sources, Zenon DEF InputInv
  <1>1. link[s] = V => Contains(dec.out, s) /\ dec.out # <<>>
    <2>1. link[s] = V => Contains(dec.out, s)
      BY <1>0, Zenon DEF MediaInv
    <2>2. ~Contains(<<>>, s)
      BY DEF Contains
    <2>. QED
      BY <2>1, <2>2, Zenon
  <1>2. IsAbout("onChannelFlushed", D, s) => link[s] = D
    BY <1>0, SMT DEF IsAbout, IsNext, NextInv, Sound
  <1>. QED
    BY <1>0, <1>1, <1>2, Zenon DEF MediaInv, LinkInv

\* Who makes a sink lose its channel.
LEMMA LeavesMade ==
  ASSUME Going, NEW s \in Sinks, Leaves(s)'
  PROVE  \/ Leaves(s)
         \/ IsAbout("onChannelFlushed", D, s)
         \/ IsNext("teardownOutputs", V) /\ link[s] = V
  <1>1. ASSUME NEW i \in DOMAIN agenda', Made(agenda'[i]), agenda'[i].e = s,
               agenda'[i].f \in {"onChannelTeardown", "removeInputMedia", "inputRemoved"}
        PROVE  \/ IsNext("onChannelTeardown", s)
               \/ IsAbout("onChannelFlushed", D, s)
               \/ IsNext("teardownOutputs", V) /\ link[s] = V
    BY <1>1, StopsAtOnce, Zenon DEF Made, SinkMade
  <1>2. IsNext("onChannelTeardown", s) => Calls("onChannelTeardown", s)
    BY GoingTypes, Line, Zenon
  <1>3. \A f \in {"onChannelTeardown", "removeInputMedia", "inputRemoved"} :
           Waits(f, s) => Calls(f, s)
    BY GoingTypes, Line, Zenon
  <1>4. PICK f \in {"onChannelTeardown", "removeInputMedia", "inputRemoved"} : Calls(f, s)'
    BY Zenon DEF Leaves
  <1>5. f \notin {"idle", "mboxCb"}
    BY <1>4
  <1>6. Calls(f, s) => Leaves(s)
    BY <1>4, Zenon DEF Leaves
  <1>7. \/ \E i \in DOMAIN agenda' : agenda'[i].f = f /\ agenda'[i].e = s /\ Made(agenda'[i])
        \/ Waits(f, s)
        \/ (UNCHANGED agenda /\ Calls(f, s))
    BY <1>4, <1>5, CallMade, Zenon
  <1>. QED
    BY <1>1, <1>2, <1>3, <1>4, <1>6, <1>7, Zenon DEF Leaves

\* When the decoder completes its stop nothing else is called.
LEMMA CompletesAlone ==
  ASSUME Going, DecCompleteStop
  PROVE  /\ IsNext("completeStop", V)
         /\ \A f, e : Waits(f, e) => f = "mboxCb"
         /\ \A s \in Sinks : ~Leaves(s)'
  <1>0. agenda \in Seq(CallType) /\ OrderInv
    BY GoingTypes, OpenParts, Zenon
  <1>1. IsNext("completeStop", V)
    BY <1>0, Running, Zenon DEF DecCompleteStop, IsNext
  <1>2. \A f, e : Waits(f, e) => f = "mboxCb"
    BY <1>0, <1>1, Behind, Zenon DEF IsNext
  <1>3. ASSUME NEW s \in Sinks, Leaves(s)'
        PROVE  FALSE
    <2>1. ASSUME NEW f, NEW e, Calls(f, e)
          PROVE  f \in {"mboxCb", "completeStop"}
      BY <1>0, <1>1, <1>2, <2>1, Line, SMT DEF IsNext
    <2>2. ~Leaves(s)
      BY <2>1, SMT DEF Leaves
    <2>3. ~IsAbout("onChannelFlushed", D, s) /\ ~IsNext("teardownOutputs", V)
      BY <1>1, SMT DEF IsAbout, IsNext
    <2>. QED
      BY <1>3, <2>2, <2>3, LeavesMade, Zenon
  <1>. QED
    BY <1>1, <1>2, <1>3, Zenon

\* A step keeps LeaveInv.
LEMMA LeaveKept ==
  ASSUME Going
  PROVE  LeaveInv'
  <1>0. LeaveInv /\ told.open /\ [Next]_vars /\ TypeOK /\ TornCalls /\ agenda \in Seq(CallType)
    BY GoingFacts, GoingTypes, AliveParts, OpenParts, Zenon
  <1>. SUFFICES ASSUME NEW s \in Sinks
       PROVE  /\ Leaves(s)' /\ SourceOf(s) = V => dec'.mOutputMedia /\ est'[V] # "STARTED"
              /\ SourceOf(s) = D /\ \/ Leaves(s)' \/ IsNext("channel.flushDone", s)'
                                    \/ IsAbout("onChannelFlushed", D, s)'
                 => sink'[s].mIsFlushed
    BY Zenon DEF LeaveInv
  <1>1. /\ Leaves(s) /\ SourceOf(s) = V => dec.mOutputMedia /\ est[V] # "STARTED"
        /\ SourceOf(s) = D /\ \/ Leaves(s) \/ IsNext("channel.flushDone", s)
                              \/ IsAbout("onChannelFlushed", D, s)
           => sink[s].mIsFlushed
    BY <1>0, Zenon DEF LeaveInv
  <1>2. SourceOf(s) \in {D, V} /\ D # V /\ s # V
    BY Sources, Zenon
  <1>3. ASSUME Leaves(s)', SourceOf(s) = V
        PROVE  dec'.mOutputMedia /\ est'[V] # "STARTED"
    <2>1. IsNext("teardownOutputs", V) => est[V] # "STARTED"
      <3>1. IsNext("teardownOutputs", V) => Tearing(agenda[1]) /\ 1 \in DOMAIN agenda
        BY <1>0, Line, SMT DEF IsNext, Tearing
      <3>. QED
        BY <1>0, <3>1, Zenon DEF TornCalls
    <2>2. dec.mOutputMedia /\ est[V] # "STARTED"
      BY <1>1, <1>2, <1>3, <2>1, LeavesMade, Linked, Zenon
    <2>3. ~DecCompleteStop
      BY <1>3, CompletesAlone, Zenon
    <2>4. dec'.mOutputMedia
      BY <1>0, <2>2, <2>3, DecParts, Zenon
    <2>5. est'[V] # "STARTED"
      BY <2>2, DecStates, SMT
    <2>. QED
      BY <2>4, <2>5
  <1>4. ASSUME SourceOf(s) = D,
               \/ Leaves(s)' \/ IsNext("channel.flushDone", s)'
               \/ IsAbout("onChannelFlushed", D, s)'
        PROVE  sink'[s].mIsFlushed
    <2>1. ASSUME Leaves(s)' PROVE sink[s].mIsFlushed
      BY <1>1, <1>2, <1>4, <2>1, LeavesMade, Linked, Zenon
    <2>2. ASSUME IsNext("channel.flushDone", s)'
          PROVE  sink[s].mIsFlushed \/ sink'[s].mIsFlushed
      <3>1. "channel.flushDone" \in Immediate
        BY DEF Immediate
      <3>2. /\ agenda'[1].f = "channel.flushDone" /\ agenda'[1].e = s
            /\ Made(agenda'[1]) \/ (UNCHANGED agenda /\ IsNext("channel.flushDone", s))
        BY <2>2, <3>1, IsMade
      <3>3. Made(agenda'[1]) => sink'[s].mIsFlushed
        BY <3>2, Zenon DEF Made, SinkMade
      <3>. QED
        BY <1>1, <1>4, <3>2, <3>3
    <2>3. ASSUME IsAbout("onChannelFlushed", D, s)'
          PROVE  sink[s].mIsFlushed
      <3>1. agenda' # <<>> /\ agenda'[1].f = "onChannelFlushed" /\ agenda'[1].e = D /\ agenda'[1].c = s
        BY <2>3, Zenon DEF IsAbout, IsNext
      <3>2. Made(agenda'[1]) \/ UNCHANGED agenda
        <4>1. AtOnce(agenda'[1])
          BY <3>1, SMT DEF AtOnce, Immediate
        <4>. QED
          BY <3>1, <4>1, NextMade, Zenon
      <3>3. Made(agenda'[1]) => IsNext("channel.flushDone", s)
        BY <3>1, Zenon DEF Made, ChannelMade
      <3>4. UNCHANGED agenda => IsAbout("onChannelFlushed", D, s)
        BY <3>1, Zenon DEF IsAbout, IsNext
      <3>. QED
        BY <1>1, <1>4, <3>2, <3>3, <3>4, Zenon
    <2>4. sink[s].mIsFlushed \/ sink'[s].mIsFlushed
      BY <1>4, <2>1, <2>2, <2>3, Zenon
    <2>5. ~TimerFrame
      <3>1. SUFFICES ASSUME TimerFrame PROVE FALSE
        OBVIOUS
      <3>2. agenda' = <<>>
        BY <3>1, Zenon DEF TimerFrame, AtEvent
      <3>3. DOMAIN agenda' = {}
        BY <3>2
      <3>. QED
        BY <1>4, <3>2, <3>3, Zenon DEF Leaves, Calls, IsNext, IsAbout
    <2>6. ~Contains(dec.out, s)
      BY <1>2, <1>4, Linked, Zenon
    <2>. QED
      BY <1>0, <2>4, <2>5, <2>6, SinkParts, Zenon
  <1>. QED
    BY <1>3, <1>4, Zenon

\* The demuxer stops a decoder that is flushed.
LEMMA ToldKept ==
  ASSUME Going
  PROVE  ToldInv'
  <1>0. ToldInv /\ told.open /\ [Next]_vars /\ TypeOK /\ agenda \in Seq(CallType)
    BY GoingFacts, GoingTypes, AliveParts, Zenon
  <1>. SUFFICES ASSUME \/ IsNext("channel.flushDone", V)' \/ Calls("onChannelTeardown", V)'
                       \/ IsAbout("onChannelFlushed", D, V)'
       PROVE  dec'.mIsFlushed
    BY Zenon DEF ToldInv
  <1>1. \/ IsNext("channel.flushDone", V) \/ Calls("onChannelTeardown", V)
        \/ IsAbout("onChannelFlushed", D, V)
        => dec.mIsFlushed
    BY <1>0, Zenon DEF ToldInv
  <1>2. ASSUME IsNext("channel.flushDone", V)'
        PROVE  dec.mIsFlushed \/ dec'.mIsFlushed
    <2>1. "channel.flushDone" \in Immediate
      BY DEF Immediate
    <2>2. /\ agenda'[1].f = "channel.flushDone" /\ agenda'[1].e = V
          /\ Made(agenda'[1]) \/ (UNCHANGED agenda /\ IsNext("channel.flushDone", V))
      BY <1>2, <2>1, IsMade
    <2>3. Made(agenda'[1]) => dec'.mIsFlushed
      BY <2>2, Zenon DEF Made, DecMade
    <2>. QED
      BY <1>1, <2>2, <2>3
  <1>3. ASSUME Calls("onChannelTeardown", V)'
        PROVE  dec.mIsFlushed
    <2>1. \A i \in DOMAIN agenda' :
             agenda'[i].f = "onChannelTeardown" /\ agenda'[i].e = V /\ Made(agenda'[i]) =>
                IsAbout("onChannelFlushed", D, V)
      BY Zenon DEF Made, DecMade
    <2>2. Waits("onChannelTeardown", V) => Calls("onChannelTeardown", V)
      BY <1>0, Line, Zenon
    <2>. QED
      BY <1>1, <1>3, <2>1, <2>2, CallMade, SMT
  <1>4. ASSUME IsAbout("onChannelFlushed", D, V)'
        PROVE  dec.mIsFlushed
    <2>1. agenda' # <<>> /\ agenda'[1].f = "onChannelFlushed" /\ agenda'[1].e = D /\ agenda'[1].c = V
      BY <1>4, Zenon DEF IsAbout, IsNext
    <2>2. Made(agenda'[1]) \/ UNCHANGED agenda
      <3>1. AtOnce(agenda'[1])
        BY <2>1, SMT DEF AtOnce, Immediate
      <3>. QED
        BY <2>1, <3>1, NextMade, Zenon
    <2>3. Made(agenda'[1]) => IsNext("channel.flushDone", V)
      BY <2>1, Zenon DEF Made, ChannelMade
    <2>4. UNCHANGED agenda => IsAbout("onChannelFlushed", D, V)
      BY <2>1, Zenon DEF IsAbout, IsNext
    <2>. QED
      BY <1>1, <2>2, <2>3, <2>4, Zenon
  <1>5. ~TimerFrame
    <2>1. SUFFICES ASSUME TimerFrame PROVE FALSE
      OBVIOUS
    <2>2. agenda' = <<>>
      BY <2>1, Zenon DEF TimerFrame, AtEvent
    <2>3. DOMAIN agenda' = {}
      BY <2>2
    <2>. QED
      BY <2>2, <2>3, Zenon DEF Calls, IsNext, IsAbout
  <1>. QED
    BY <1>0, <1>2, <1>3, <1>4, <1>5, DecParts, Zenon

-----------------------------------------------------------------------------
(* The flushes of the sinks.                                               *)

\* The function that is called next.
LEMMA OnlyNext ==
  ASSUME Going, NEW f, NEW e, IsNext(f, e)
  PROVE  /\ f # "completeStop" \/ e # V => ~DecCompleteStop
         /\ f # "onChannelUnlink" => ~DmxOnChannelUnlink /\ ~DecOnChannelUnlink
         /\ \A g, x : IsNext(g, x) => g = f /\ x = e
         /\ agenda # <<>> /\ ~AtEvent /\ ~TimerFrame
  <1>0. agenda \in Seq(CallType)
    BY GoingTypes, Zenon
  <1>1. agenda # <<>> /\ agenda[1].f = f /\ agenda[1].e = e
    BY Zenon DEF IsNext
  <1>2. DecCompleteStop => agenda[1].f = "completeStop" /\ agenda[1].e = V
    BY <1>0, Running, Zenon DEF DecCompleteStop
  <1>3. DmxOnChannelUnlink \/ DecOnChannelUnlink => agenda[1].f = "onChannelUnlink"
    BY <1>0, Running, Zenon DEF DmxOnChannelUnlink, DecOnChannelUnlink
  <1>. QED
    BY <1>1, <1>2, <1>3, Zenon DEF IsNext, AtEvent, TimerFrame

\* A sink on the way to lose its channel is named by the call of its source.
LEMMA UnlinkLeaves ==
  ASSUME Going, NEW s \in Sinks, link[s] # None, link'[s] = None
  PROVE  Calls("inputRemoved", s) /\ Leaves(s) /\ IsNext("onChannelUnlink", link[s])
  <1>0. InputInv /\ s \in SinkElements /\ link \in [SinkElements -> {D, V, None}]
        /\ SourceOf(s) # None
    BY GoingFacts, GoingTypes, AliveParts, Sources, Zenon
  <1>1. ~StartVideoSink(s) \/ link'[s] = SourceOf(s)
    BY <1>0, Zenon DEF StartVideoSink
  <1>2. IsNext("onChannelUnlink", link[s]) /\ agenda[1].c = s
    BY <1>0, <1>1, LinkStates, Zenon
  <1>. QED
    BY <1>0, <1>2, Zenon DEF InputInv, Leaves, IsNext

\* A sink with a channel has a source with a media.
LEMMA LinkedMedia ==
  ASSUME Going, NEW s \in Sinks, link'[s] # None
  PROVE  MediaLeft(SourceOf(s))
  <1>1. MediaInv' /\ InputInv' /\ s \in SinkElements /\ SourceOf(s) \in {D, V} /\ D # V
    BY OpenParts, InputKept, Sources, Zenon
  <1>2. link'[s] = SourceOf(s)
    BY <1>1, Zenon DEF InputInv
  <1>3. ~Contains(<<>>, s)
    BY DEF Contains
  <1>4. CASE SourceOf(s) = D
    BY <1>1, <1>2, <1>3, <1>4, Zenon DEF MediaInv, MediaLeft
  <1>5. CASE SourceOf(s) = V
    BY <1>1, <1>2, <1>3, <1>5, Zenon DEF MediaInv, MediaLeft
  <1>. QED
    BY <1>1, <1>4, <1>5

\* When a media is removed.
LEMMA MediaLost ==
  ASSUME Going, NEW e \in {D, V}, MediaOf(e), ~MediaLeft(e)
  PROVE  (e = D /\ DmxOnChannelUnlink) \/ (e = V /\ DecCompleteStop)
  <1>0. TypeOK /\ told.open /\ [Next]_vars /\ D # V
    BY GoingFacts, Distinct, Zenon
  <1>1. CASE e = D
    <2>1. dmxMedia /\ ~dmxMedia'
      BY <1>1, Zenon DEF MediaOf, MediaLeft
    <2>. QED
      BY <1>0, <1>1, <2>1, DmxMediaChange, Zenon
  <1>2. CASE e = V
    <2>1. dec.mOutputMedia /\ ~dec'.mOutputMedia
      BY <1>0, <1>2, Zenon DEF MediaOf, MediaLeft
    <2>. QED
      BY <1>0, <1>2, <2>1, DecParts, Zenon
  <1>. QED
    BY <1>1, <1>2

\* A sink of the decoder that was flushed and is not.
LEMMA NotFlushed ==
  ASSUME Going, NEW s \in Sinks, sink[s].mIsFlushed, ~sink'[s].mIsFlushed
  PROVE  \/ TimerFrame /\ link[s] = D /\ SourceOf(s) = D
         \/ OutputCbQueue /\ link[s] = V /\ SourceOf(s) = V
  BY GoingFacts, SinkParts, Linked, Zenon

\* A step keeps RestInv: a flushed sink gets frames of a started decoder only.
LEMMA RestKept ==
  ASSUME Going, "Resync" \in Allowed
  PROVE  RestInv'
  <1>0. RestInv /\ FlushInv /\ Tame /\ LeaveInv /\ ToldInv /\ TornCalls /\ InputInv
        /\ agenda \in Seq(CallType) /\ link \in [SinkElements -> {D, V, None}]
    BY GoingFacts, GoingTypes, AliveParts, OpenParts, Zenon
  <1>. SUFFICES ASSUME NEW s \in Sinks, est'[V] # "STARTED" \/ link'[s] = None
       PROVE  sink'[s].mIsFlushed
    BY Zenon DEF RestInv
  <1>1. SourceOf(s) = V /\ D # V /\ s \in SinkElements /\ V # None
    BY <1>0, Sources, Zenon DEF Tame, SourceOf
  <1>2. CASE est[V] # "STARTED" \/ link[s] = None
    <2>1. sink[s].mIsFlushed
      BY <1>0, <1>2, Zenon DEF RestInv
    <2>2. OutputCbQueue => est[V] = "STARTED"
      BY <1>0, Zenon DEF FlushInv, OutputCbInv, OutputCbQueue, Decoding
    <2>. QED
      BY <1>1, <1>2, <2>1, <2>2, NotFlushed, Zenon
  <1>3. CASE est[V] = "STARTED" /\ link[s] # None
    <2>1. link[s] = V
      BY <1>0, <1>1, <1>3, Zenon DEF InputInv
    <2>2. link'[s] # None
      <3>1. SUFFICES ASSUME link'[s] = None PROVE FALSE
        OBVIOUS
      <3>2. Leaves(s)
        BY <1>3, <3>1, UnlinkLeaves, Zenon
      <3>. QED
        BY <1>0, <1>1, <1>3, <3>2, Zenon DEF LeaveInv
    <2>3. ~DecCompleteStop
      <3>1. SUFFICES ASSUME DecCompleteStop PROVE FALSE
        OBVIOUS
      <3>2. 1 \in DOMAIN agenda /\ agenda[1].f = "completeStop" /\ agenda[1].e = V
        BY <1>0, <3>1, Running, Zenon DEF DecCompleteStop
      <3>3. Tearing(agenda[1])
        BY <3>2, SMT DEF Tearing
      <3>. QED
        BY <1>0, <1>3, <3>2, <3>3, Zenon DEF TornCalls
    <2>4. DecStop
      BY <1>3, <2>2, <2>3, DecStates, SMT
    <2>5. Calls("onChannelTeardown", V)
      BY <1>0, <2>4, Running, Zenon DEF DecStop, Calls
    <2>6. sink[s].mIsFlushed
      BY <1>0, <1>3, <2>1, <2>5, Zenon DEF ToldInv, FlushInv, EmptyInv, Decoding
    <2>7. UNCHANGED sink
      BY <2>4, Zenon DEF DecStop, otherThanDec
    <2>. QED
      BY <2>6, <2>7
  <1>. QED
    BY <1>2, <1>3, Zenon

\* A step keeps FlushCallInv.
LEMMA FlushCallKept ==
  ASSUME Going
  PROVE  FlushCallInv'
  <1>0. FlushCallInv /\ NextInv /\ LeaveInv /\ agenda \in Seq(CallType)
    BY GoingFacts, GoingTypes, AliveParts, OpenParts, Zenon
  <1>. SUFFICES ASSUME NEW s \in Sinks
       PROVE  /\ IsNext("onChannelFlush", s)' => link'[s] # None
              /\ IsNext("flush", s)' => MediaLeft(SourceOf(s)) \/ sink'[s].mIsFlushed
    BY Zenon DEF FlushCallInv, MediaOf, MediaLeft
  <1>1. /\ IsNext("onChannelFlush", s) => link[s] # None
        /\ IsNext("flush", s) => MediaOf(SourceOf(s)) \/ sink[s].mIsFlushed
    BY <1>0, Zenon DEF FlushCallInv
  <1>2. SourceOf(s) \in {D, V} /\ D # V /\ s # V
    BY Sources, Zenon
  <1>3. ASSUME NEW f, NEW e, IsNext(f, e), f # "onChannelUnlink", link[s] # None
        PROVE  link'[s] # None
    BY <1>3, OnlyNext, UnlinkLeaves, Zenon
  <1>4. ASSUME IsNext("onChannelFlush", s)'
        PROVE  link'[s] # None
    <2>1. "onChannelFlush" \in Immediate
      BY DEF Immediate
    <2>2. /\ agenda'[1].f = "onChannelFlush" /\ agenda'[1].e = s
          /\ Made(agenda'[1]) \/ (UNCHANGED agenda /\ IsNext("onChannelFlush", s))
      BY <1>4, <2>1, IsMade
    <2>3. Made(agenda'[1]) => IsNext("channel.flush", s)
      BY <2>2, Zenon DEF Made, ChannelMade
    <2>4. IsNext("channel.flush", s) => link[s] # None
      BY <1>0, SMT DEF NextInv, Sound, IsNext
    <2>. QED
      BY <1>1, <1>3, <2>2, <2>3, <2>4, SMT
  <1>5. ASSUME IsNext("flush", s)'
        PROVE  MediaLeft(SourceOf(s)) \/ sink'[s].mIsFlushed
    <2>1. "flush" \in Immediate
      BY DEF Immediate
    <2>2. /\ agenda'[1].f = "flush" /\ agenda'[1].e = s
          /\ Made(agenda'[1]) \/ (UNCHANGED agenda /\ IsNext("flush", s))
      BY <1>5, <2>1, IsMade
    <2>3. CASE UNCHANGED agenda /\ IsNext("flush", s)
      <3>1. CASE MediaOf(SourceOf(s))
        BY <1>2, <2>3, <3>1, MediaLost, OnlyNext, SMT
      <3>2. CASE sink[s].mIsFlushed /\ link[s] = None
        <4>1. D # None /\ V # None
          BY Sources, Zenon
        <4>. QED
          BY <3>2, <4>1, NotFlushed, Zenon
      <3>3. CASE link[s] # None
        <4>1. link'[s] # None
          BY <1>3, <2>3, <3>3, SMT
        <4>. QED
          BY <4>1, LinkedMedia, Zenon
      <3>. QED
        BY <1>1, <2>3, <3>1, <3>2, <3>3, Zenon
    <2>4. CASE Made(agenda'[1]) /\ IsNext("onChannelFlush", s)
      <3>1. link'[s] # None
        BY <1>1, <1>3, <2>4, SMT
      <3>. QED
        BY <3>1, LinkedMedia, Zenon
    <2>5. CASE Made(agenda'[1]) /\ IsNext("inputRemoved", s)
      <3>1. Leaves(s)
        BY <1>0, <2>5, Line, Zenon DEF Leaves
      <3>2. CASE SourceOf(s) = V
        <4>1. MediaOf(V)
          BY <1>0, <1>2, <3>1, <3>2, Zenon DEF LeaveInv, MediaOf
        <4>. QED
          BY <1>2, <2>5, <3>2, <4>1, MediaLost, OnlyNext, SMT
      <3>3. CASE SourceOf(s) = D
        <4>1. sink[s].mIsFlushed
          BY <1>0, <3>1, <3>3, Zenon DEF LeaveInv
        <4>. QED
          BY <1>2, <2>5, <3>3, <4>1, NotFlushed, OnlyNext, Zenon
      <3>. QED
        BY <1>2, <3>2, <3>3
    <2>6. CASE "Resync" \in Allowed
      <3>1. link'[s] = None => sink'[s].mIsFlushed
        BY <2>6, RestKept, Zenon DEF RestInv
      <3>. QED
        BY <3>1, LinkedMedia, Zenon
    <2>7. Made(agenda'[1]) => \/ IsNext("onChannelFlush", s) \/ IsNext("inputRemoved", s)
                              \/ "Resync" \in Allowed
      BY <2>2, Zenon DEF Made, SinkMade
    <2>. QED
      BY <2>2, <2>3, <2>4, <2>5, <2>6, <2>7, Zenon
  <1>. QED
    BY <1>4, <1>5

-----------------------------------------------------------------------------
(* What the application is asked, and the sinks that have stopped.         *)

\* Who flushes a sink has a sink that runs.
LEMMA SinkFlushes ==
  ASSUME Going, NEW s \in Sinks, SinkFlush(s), ~sink[s].mIsFlushed
  PROVE  /\ MediaOf(SourceOf(s)) /\ IsNext("flush", s)
         /\ UNCHANGED <<est, appMedia, appFlush>> /\ Return
  <1>0. FlushCallInv /\ agenda \in Seq(CallType)
    BY GoingFacts, GoingTypes, AliveParts, Zenon
  <1>1. IsNext("flush", s)
    BY <1>0, Running, Zenon DEF SinkFlush, IsNext
  <1>. QED
    BY <1>0, <1>1, Zenon DEF FlushCallInv, SinkFlush, otherThanSinks, appVars

\* A step keeps AskInv: no sink is flushed once its media is removed.
LEMMA AskKept ==
  ASSUME Going
  PROVE  AskInv'
  <1>0. AskInv /\ NoticedInv /\ idle \in Seq(IdleType) /\ idle' \in Seq(IdleType)
    BY GoingFacts, GoingTypes, AliveParts, Zenon
  <1>. SUFFICES ASSUME NEW s \in Sinks
       PROVE  /\ est'[s] # "none" /\ SourceOf(s) \notin appMedia' => ~Asked(s)'
              /\ \A i, j \in DOMAIN idle' :
                    /\ idle'[i].cb = "mediaRemoved" /\ idle'[i].e = SourceOf(s)
                    /\ idle'[j].cb = "sinkFlush" /\ idle'[j].e = s
                    => j < i
    BY Zenon DEF AskInv
  <1>1. /\ est[s] # "none" /\ SourceOf(s) \notin appMedia => ~Asked(s)
        /\ \A i, j \in DOMAIN idle :
              /\ idle[i].cb = "mediaRemoved" /\ idle[i].e = SourceOf(s)
              /\ idle[j].cb = "sinkFlush" /\ idle[j].e = s
              => j < i
    BY <1>0, Zenon DEF AskInv
  <1>2. SourceOf(s) \in {D, V}
    BY Sources, Zenon
  <1>3. ASSUME est'[s] # "none", SourceOf(s) \notin appMedia'
        PROVE  \/ est[s] # "none" /\ SourceOf(s) \notin appMedia
               \/ idle # <<>> /\ 1 \in DOMAIN idle /\ idle[1].cb = "mediaRemoved"
                  /\ idle[1].e = SourceOf(s) /\ idle' = Tail(idle)
    <2>1. CASE SourceOf(s) \in appMedia
      BY <1>2, <1>3, <2>1, MediaForgotten, Zenon
    <2>2. CASE SourceOf(s) \notin appMedia /\ est[s] = "none"
      <3>1. StartVideoSink(s)
        BY <1>3, <2>2, SinkStates, SMT
      <3>. QED
        BY <2>2, <3>1, Zenon DEF StartVideoSink
    <2>. QED
      BY <2>1, <2>2
  <1>4. CASE UNCHANGED idle
    <2>1. ~(idle # <<>> /\ idle' = Tail(idle))
      BY <1>0, <1>4, SMT
    <2>2. Asked(s)' <=> Asked(s)
      BY <1>4, Zenon DEF Asked
    <2>. QED
      BY <1>1, <1>3, <1>4, <2>1, <2>2, Zenon
  <1>5. CASE idle # <<>> /\ idle' = Tail(idle)
    <2>1. \A i \in DOMAIN idle' : i + 1 \in DOMAIN idle /\ idle'[i] = idle[i + 1] /\ i \in Nat /\ i > 0
      BY <1>0, <1>5, TailOfSeq, Zenon
    <2>2. ASSUME Asked(s)'
          PROVE  \E j \in DOMAIN idle : j > 1 /\ idle[j].cb = "sinkFlush" /\ idle[j].e = s
      <3>1. PICK i \in DOMAIN idle' : idle'[i].cb = "sinkFlush" /\ idle'[i].e = s
        BY <2>2, Zenon DEF Asked
      <3>2. i + 1 \in DOMAIN idle /\ idle'[i] = idle[i + 1] /\ i + 1 > 1
        BY <2>1, SMT
      <3>. QED
        BY <3>1, <3>2, Zenon
    <2>3. Asked(s)' => Asked(s)
      BY <2>2, Zenon DEF Asked
    <2>4. ASSUME Asked(s)', idle[1].cb = "mediaRemoved", idle[1].e = SourceOf(s), 1 \in DOMAIN idle
          PROVE  FALSE
      <3>1. PICK j \in DOMAIN idle : j > 1 /\ idle[j].cb = "sinkFlush" /\ idle[j].e = s
        BY <2>2, <2>4, Zenon
      <3>2. j < 1
        BY <1>1, <2>4, <3>1, Zenon
      <3>. QED
        BY <1>0, <3>1, <3>2, SMT
    <2>5. ASSUME NEW i \in DOMAIN idle', NEW j \in DOMAIN idle',
                 idle'[i].cb = "mediaRemoved", idle'[i].e = SourceOf(s),
                 idle'[j].cb = "sinkFlush", idle'[j].e = s
          PROVE  j < i
      <3>1. i + 1 \in DOMAIN idle /\ idle'[i] = idle[i + 1] /\ i \in Nat
        BY <2>1, SMT
      <3>2. j + 1 \in DOMAIN idle /\ idle'[j] = idle[j + 1] /\ j \in Nat
        BY <2>1, SMT
      <3>3. j + 1 < i + 1
        BY <1>1, <2>5, <3>1, <3>2, Zenon
      <3>. QED
        BY <3>1, <3>2, <3>3, SMT
    <2>. QED
      BY <1>1, <1>3, <2>3, <2>4, <2>5, Zenon
  <1>6. ASSUME NEW n, idle' = Append(idle, n), Noticed(n)
        PROVE  /\ est'[s] # "none" /\ SourceOf(s) \notin appMedia' => ~Asked(s)'
               /\ \A i, j \in DOMAIN idle' :
                     /\ idle'[i].cb = "mediaRemoved" /\ idle'[i].e = SourceOf(s)
                     /\ idle'[j].cb = "sinkFlush" /\ idle'[j].e = s
                     => j < i
    <2>1. n \in IdleType
      BY <1>6, Zenon DEF Noticed
    <2>2. /\ \A i \in DOMAIN idle : idle'[i] = idle[i] /\ i \in Nat /\ i < Len(idle) + 1
          /\ \A i \in DOMAIN idle' : i \in DOMAIN idle \/ i = Len(idle) + 1
          /\ idle'[Len(idle) + 1] = n
      BY <1>0, <1>6, <2>1, AppendContains, SMT
    <2>3. ASSUME n.cb = "sinkFlush", n.e = s
          PROVE  /\ MediaOf(SourceOf(s))
                 /\ SourceOf(s) \notin appMedia' => est'[s] = "none"
      <3>1. SinkFlush(s) /\ ~sink[s].mIsFlushed
        BY <1>6, <2>3, Zenon DEF Noticed
      <3>2. MediaOf(SourceOf(s)) /\ UNCHANGED <<est, appMedia>>
        BY <3>1, SinkFlushes, Zenon
      <3>. QED
        BY <1>0, <3>2, Zenon DEF NoticedInv
    <2>4. ~(idle # <<>> /\ idle' = Tail(idle))
      BY <1>0, <1>6, <2>1, SMT
    <2>5. ASSUME est'[s] # "none", SourceOf(s) \notin appMedia', Asked(s)'
          PROVE  FALSE
      <3>1. ~Asked(s)
        BY <1>1, <1>3, <2>4, <2>5, Zenon
      <3>2. ~(n.cb = "sinkFlush" /\ n.e = s)
        BY <2>3, <2>5, Zenon
      <3>3. PICK i \in DOMAIN idle' : idle'[i].cb = "sinkFlush" /\ idle'[i].e = s
        BY <2>5, Zenon DEF Asked
      <3>. QED
        BY <2>2, <3>1, <3>2, <3>3, Zenon DEF Asked
    <2>6. ASSUME NEW i \in DOMAIN idle', NEW j \in DOMAIN idle',
                 idle'[i].cb = "mediaRemoved", idle'[i].e = SourceOf(s),
                 idle'[j].cb = "sinkFlush", idle'[j].e = s
          PROVE  j < i
      <3>1. CASE i \in DOMAIN idle /\ j \in DOMAIN idle
        BY <1>1, <2>2, <2>6, <3>1, Zenon
      <3>2. CASE i = Len(idle) + 1
        <4>1. n.cb # "sinkFlush"
          BY <2>2, <2>6, <3>2, SMT
        <4>2. j \in DOMAIN idle
          BY <2>2, <2>6, <4>1, Zenon
        <4>. QED
          BY <2>2, <3>2, <4>2, Zenon
      <3>3. CASE i \in DOMAIN idle /\ j = Len(idle) + 1
        <4>1. n.cb = "sinkFlush" /\ n.e = s
          BY <2>2, <2>6, <3>3, Zenon
        <4>2. MediaOf(SourceOf(s))
          BY <2>3, <4>1, Zenon
        <4>. QED
          BY <1>0, <2>2, <2>6, <3>3, <4>2, Zenon DEF NoticedInv
      <3>. QED
        BY <2>2, <3>1, <3>2, <3>3, Zenon
    <2>. QED
      BY <2>5, <2>6, Zenon
  <1>. QED
    BY <1>4, <1>5, <1>6, IdleKinds, Zenon

\* The calls of each element.
LEMMA CallKinds ==
  ASSUME NEW x \in CallType
  PROVE  /\ x.e \in Sinks => x.f \in {"channel.flush", "channel.flushDone", "onChannelFlush",
                 "onChannelTeardown", "removeInputMedia", "deleteChannel", "stop",
                 "inputRemoved", "flush", "flushDone", "completeStop"}
         /\ x.e = V => x.f \in {"channel.flush", "channel.flushDone", "onChannelFlush",
                 "onChannelTeardown", "removeInputMedia", "deleteChannel", "onChannelFlushed",
                 "onChannelUnlink", "flush", "vdec_flush", "completeFlush", "afterFlush",
                 "teardownOutputs", "vdec_stop", "completeStop", "resync"}
         /\ x.e = D => x.f \in {"onChannelFlushed", "onChannelUnlink", "stop", "flush",
                 "channelFlushed", "flushAt", "flushed"}
  <1>1. CASE x \in Upstream
    BY <1>1, Distinct, SMT DEF Upstream
  <1>2. CASE x \in CallsOf({"channel.flush", "channel.flushDone", "onChannelFlush",
                "onChannelTeardown", "removeInputMedia", "deleteChannel"}, SinkElements)
    BY <1>2, Distinct, SMT DEF CallsOf
  <1>3. CASE x \in CallsOf({"stop", "flush", "channelFlushed"}, {D})
    BY <1>3, Distinct, SMT DEF CallsOf
  <1>4. CASE x \in [f : {"flushAt", "flushed"}, e : {D}, c : {D}, i : Nat \ {0}, n : Nat]
    BY <1>4, Distinct, SMT
  <1>5. CASE x \in CallsOf({"flush", "vdec_flush", "completeFlush", "afterFlush",
                   "teardownOutputs", "vdec_stop", "completeStop", "resync"}, {V})
    BY <1>5, Distinct, SMT DEF CallsOf
  <1>6. CASE x \in CallsOf({"stop", "inputRemoved", "flush", "flushDone",
                               "completeStop"}, Sinks)
    BY <1>6, Distinct, SMT DEF CallsOf
  <1>7. CASE x \in CallsOf({"idle", "mboxCb"}, {None})
    BY <1>7, Distinct, SMT DEF CallsOf
  <1>8. CASE x \in [f : {"onElementStopped"}, e : {None}, c : Elements, i : Nat, n : Nat]
    BY <1>8, Distinct, SMT
  <1>. QED
    BY <1>1, <1>2, <1>3, <1>4, <1>5, <1>6, <1>7, <1>8, Zenon DEF CallType

\* Nothing is called of an element when nothing new is.
LEMMA StaysUncalled ==
  ASSUME Going, NEW e, Uncalled(e), e # None,
         \A i \in DOMAIN agenda' : agenda'[i].e = e => ~Made(agenda'[i])
  PROVE  Uncalled(e)'
  <1>1. SUFFICES ASSUME NEW i \in DOMAIN agenda', agenda'[i].e = e
        PROVE  FALSE
    BY Zenon DEF Uncalled
  <1>2. Old(agenda'[i])
    BY <1>1, GoingOrigin, Zenon DEF Origin
  <1>. QED
    BY <1>1, <1>2, Zenon DEF Old, Uncalled

\* The sinks the application is asked to flush.
LEMMA AppFlushParts ==
  ASSUME Going, NEW s, s \in appFlush', s \notin appFlush
  PROVE  Asked(s)
  <1>0. TypeOK /\ told.open /\ [Next]_vars /\ idle \in Seq(IdleType)
    BY GoingFacts, GoingTypes, Zenon
  <1>1. IdleFunction
    BY <1>0, AppFlushChange, Zenon DEF StopVideoSink, VideoSinkQueueFlushed
  <1>2. idle # <<>> /\ Head(idle).cb = "sinkFlush" /\ Head(idle).e = s
    BY <1>1, Zenon DEF IdleFunction, CallVideoSinkFlush, CallListener
  <1>3. 1 \in DOMAIN idle /\ Head(idle) = idle[1]
    BY <1>0, <1>2, TailOfSeq, Zenon
  <1>. QED
    BY <1>2, <1>3, Zenon DEF Asked
\* Who posts that the application is to flush a sink.
LEMMA AskedMade ==
  ASSUME Going, NEW s \in Sinks, Asked(s)'
  PROVE  Asked(s) \/ (SinkFlush(s) /\ ~sink[s].mIsFlushed)
  <1>1. PICK i \in DOMAIN idle' : idle'[i].cb = "sinkFlush" /\ idle'[i].e = s
    BY Zenon DEF Asked
  <1>2. CASE Noticed(idle'[i])
    BY <1>1, <1>2, Zenon DEF Noticed
  <1>. QED
    BY <1>1, <1>2, IdlePlaces, Zenon DEF Asked

\* A step keeps GoneInv.
LEMMA GoneKept ==
  ASSUME Going
  PROVE  GoneInv'
  <1>0. /\ GoneInv /\ StopInv /\ AskInv /\ LifeInv /\ PortInv /\ LinkInv /\ StopCall
        /\ agenda \in Seq(CallType) /\ \A i \in DOMAIN agenda' : agenda'[i] \in CallType
        /\ agenda' \in Seq(CallType)
    BY GoingFacts, GoingTypes, AliveParts, OpenParts, Zenon
  <1>. SUFFICES ASSUME NEW s \in Sinks, est'[s] \in Over
       PROVE  s \notin appFlush' /\ Uncalled(s)' /\ ~Asked(s)'
    BY Zenon DEF GoneInv
  <1>1. s \in SinkElements /\ s # None /\ SourceOf(s) # None
    BY Sources, Zenon
  <1>2. CASE est[s] \in Over
    <2>1. s \notin appFlush /\ Uncalled(s) /\ ~Asked(s)
      BY <1>0, <1>2, Zenon DEF GoneInv
    <2>2. \A f : ~IsNext(f, s)
      BY <1>0, <2>1, Line, Zenon DEF IsNext, Uncalled
    <2>3. link[s] = None /\ ~sink[s].mVideoSinkListener /\ est[s] # "STARTED"
      <3>1. est[s] # "STARTED" /\ est[s] \in Gone
        BY <1>2 DEF Over, Gone
      <3>. QED
        BY <1>0, <1>1, <3>1, Zenon DEF PortInv, LinkInv, LifeInv
    <2>4. s \notin appFlush'
      BY <2>1, AppFlushParts, Zenon
    <2>5. ~Asked(s)'
      BY <2>1, <2>2, AskedMade, SinkFlushes, Zenon
    <2>6. ~IsAbout("onChannelFlushed", D, s)
      BY <1>1, <2>3, Linked, Sources, Zenon
    <2>7. ~(idle # <<>> /\ idle[1].cb = "sinkFlush" /\ idle[1].e = s)
      <3>1. idle # <<>> => 1 \in DOMAIN idle
        BY GoingTypes
      <3>. QED
        BY <2>1, <3>1, Zenon DEF Asked
    <2>8. ASSUME NEW i \in DOMAIN agenda', agenda'[i].e = s, Made(agenda'[i])
          PROVE  FALSE
      <3>1. SinkMade(agenda'[i]) /\ ChannelMade(agenda'[i])
        BY <2>8, Zenon DEF Made
      <3>2. agenda'[i].f \notin {"channel.flush", "onChannelFlush", "deleteChannel"}
        BY <2>2, <2>3, <2>8, <3>1, Zenon DEF ChannelMade
      <3>3. V # None
        BY Sources, Zenon
      <3>4. agenda'[i].f \notin {"flush", "flushDone", "channel.flushDone", "completeStop", "stop",
                                 "onChannelTeardown", "removeInputMedia", "inputRemoved"}
        BY <2>1, <2>2, <2>3, <2>6, <2>7, <2>8, <3>1, <3>3, Zenon DEF SinkMade
      <3>5. agenda'[i] \in CallType
        BY <1>0, Zenon
      <3>. QED
        BY <2>8, <3>2, <3>4, <3>5, CallKinds, SMT
    <2>. QED
      BY <1>1, <2>1, <2>4, <2>5, <2>8, StaysUncalled, Zenon
  <1>3. CASE est[s] \notin Over
    <2>1. SinkStop(s) /\ est[s] = "STARTED"
      <3>1. est[s] # "STOPPING"
        BY <1>0, Zenon DEF StopInv
      <3>. QED
        BY <1>3, <3>1, SinkStates, SMT DEF Over
    <2>2. IsNext("stop", s) /\ agenda # <<>> /\ 1 \in DOMAIN agenda /\ Calls("stop", s)
      BY <1>0, <2>1, Running, Zenon DEF SinkStop, IsNext, Calls
    <2>3. agenda = <<agenda[1]>>
      BY <1>0, <2>2, Zenon DEF StopCall, IsNext
    <2>4. ~sink[s].mInputMedia
      BY <2>2, StopsAtOnce, Zenon
    <2>5. /\ Then(<<CallOn("onElementStopped", None, s)>>)
          /\ UNCHANGED <<idle, appFlush, appMedia>>
      BY <2>1, <2>4, Zenon DEF SinkStop, otherThanSinks, appVars
    <2>6. SourceOf(s) \notin appMedia /\ s \notin appFlush /\ ~Asked(s)
      BY <1>0, <2>1, <2>2, SMT DEF StopInv, AskInv
    <2>7. Uncalled(s)'
      <3>1. CallOn("onElementStopped", None, s) \in CallType /\ CallOn("onElementStopped", None, s).e = None
        BY <1>1, Distinct, TypedOfSession DEF CallOn
      <3>2. \A i \in DOMAIN agenda' : \/ agenda'[i] = CallOn("onElementStopped", None, s)
                                       \/ \E j \in DOMAIN agenda : j # 1 /\ agenda'[i] = agenda[j]
        BY <1>0, <2>2, <2>5, <3>1, LineOne, Zenon
      <3>3. \A j \in DOMAIN agenda : j = 1
        BY <2>3
      <3>. QED
        BY <1>1, <3>1, <3>2, <3>3, Zenon DEF Uncalled
    <2>8. s \notin appFlush' /\ ~Asked(s)'
      BY <2>5, <2>6, Zenon DEF Asked
    <2>. QED
      BY <2>7, <2>8
  <1>. QED
    BY <1>2, <1>3

-----------------------------------------------------------------------------
(* The messages, and the channel of the decoder.                           *)

\* What is posted to the loop thread, and by whom.
Posted(m) ==
    /\ m \in MessageType /\ m.cmd # "RESYNC"
    /\ m.cmd = "COMPLETE_FLUSH" => DecOnChannelFlushed \/ FlushCbPost
    /\ m.cmd = "COMPLETE_STOP" => \/ DecOnChannelUnlink /\ est[V] = "STOPPING"
                                  \/ StopCbCount \/ StopCbStore
\* What changes the messages.
LEMMA MboxKinds ==
  ASSUME Going
  PROVE  \/ UNCHANGED mMbox
         \/ \E m : mMbox' = Append(mMbox, m) /\ Posted(m)
         \/ MboxMessage /\ mMbox # <<>> /\ mMbox' = Tail(mMbox)
  <1>0. told.open /\ [Next]_vars /\ errors \in Nat /\ MaxErrors = 0 /\ TypeOK
        /\ agenda \in Seq(CallType)
    BY GoingFacts, GoingTypes, Zenon DEF Tame
  <1>1. /\ [cmd |-> "COMPLETE_FLUSH", e |-> V].cmd = "COMPLETE_FLUSH"
        /\ [cmd |-> "COMPLETE_STOP", e |-> V].cmd = "COMPLETE_STOP"
    OBVIOUS
  <1>2. CASE DecOnChannelFlushed \/ FlushCbPost
    <2>1. mMbox' = Append(mMbox, [cmd |-> "COMPLETE_FLUSH", e |-> V])
      BY <1>2, Zenon DEF DecOnChannelFlushed, FlushCbPost, Post
    <2>2. Posted([cmd |-> "COMPLETE_FLUSH", e |-> V])
      BY <1>1, <1>2, Messages, SMT DEF Posted
    <2>. QED
      BY <2>1, <2>2, Zenon
  <1>3. CASE DecOnChannelUnlink \/ StopCbCount \/ StopCbStore
    <2>1. CASE UNCHANGED mMbox
      BY <2>1
    <2>2. CASE mMbox' # mMbox
      <3>1. mMbox' = Append(mMbox, [cmd |-> "COMPLETE_STOP", e |-> V])
        BY <1>3, <2>2, Zenon DEF DecOnChannelUnlink, StopCbCount, StopCbStore, Post
      <3>2. DecOnChannelUnlink => est[V] = "STOPPING"
        BY <2>2, Zenon DEF DecOnChannelUnlink
      <3>3. Posted([cmd |-> "COMPLETE_STOP", e |-> V])
        BY <1>1, <1>3, <3>2, Messages, SMT DEF Posted
      <3>. QED
        BY <3>1, <3>3, Zenon
    <2>. QED
      BY <2>1, <2>2
  <1>4. CASE OutputError
    <2>1. errors < MaxErrors
      BY <1>4, Zenon DEF OutputError
    <2>. QED
      BY <1>0, <2>1, SMT
  <1>5. CASE MboxMessage
    BY <1>0, <1>5, MessageCases, Zenon
  <1>6. CASE OnElementStopped
    <2>1. mMbox' = Append(mMbox, [cmd |-> "ELEMENT_DELETE", e |-> Subject])
      BY <1>6, Zenon DEF OnElementStopped, Post
    <2>2. agenda[1] \in CallType /\ Subject = agenda[1].c /\ agenda[1].f = "onElementStopped"
      BY <1>0, <1>6, Running, Zenon DEF OnElementStopped
    <2>3. Subject \in Elements
      BY <2>2, CallFields, Zenon
    <2>4. Posted([cmd |-> "ELEMENT_DELETE", e |-> Subject])
      BY <2>3, Messages, SMT DEF Posted
    <2>. QED
      BY <2>1, <2>4, Zenon
  <1>. QED
    BY <1>0, <1>2, <1>3, <1>4, <1>5, <1>6, MboxChange, Zenon

\* The messages are those there were and the one that is posted.
LEMMA MailMade ==
  ASSUME Going, NEW cmd, Mail(cmd)'
  PROVE  Mail(cmd) \/ \E m : mMbox' = Append(mMbox, m) /\ Posted(m) /\ m.cmd = cmd
  <1>0. mMbox \in Seq(MessageType)
    BY GoingTypes, Zenon
  <1>1. PICK i \in DOMAIN mMbox' : mMbox'[i].cmd = cmd
    BY Zenon DEF Mail
  <1>2. CASE UNCHANGED mMbox
    BY <1>1, <1>2, Zenon DEF Mail
  <1>3. ASSUME NEW m, mMbox' = Append(mMbox, m), Posted(m)
        PROVE  Mail(cmd) \/ m.cmd = cmd
    <2>1. m \in MessageType
      BY <1>3, Zenon DEF Posted
    <2>2. /\ i \in DOMAIN mMbox \/ i = Len(mMbox) + 1
          /\ i \in DOMAIN mMbox => mMbox'[i] = mMbox[i]
          /\ mMbox'[Len(mMbox) + 1] = m
      BY <1>0, <1>1, <1>3, <2>1, AppendContains, SMT
    <2>. QED
      BY <1>1, <2>2, Zenon DEF Mail
  <1>4. CASE mMbox # <<>> /\ mMbox' = Tail(mMbox)
    <2>1. i + 1 \in DOMAIN mMbox /\ mMbox'[i] = mMbox[i + 1]
      BY <1>0, <1>1, <1>4, TailOfSeq, Zenon
    <2>. QED
      BY <1>1, <2>1, Zenon DEF Mail
  <1>. QED
    BY <1>2, <1>3, <1>4, MboxKinds, Zenon

\* What changes a channel.
LEMMA PortStates ==
  ASSUME Going, NEW c \in SinkElements
  PROVE  \/ port'[c] = port[c]
         \/ DeleteChannel(c)
         \/ c \in Sinks /\ StartVideoSink(c)
  <1>0. told.open /\ [Next]_vars /\ port \in [SinkElements -> BOOLEAN]
    BY GoingFacts, GoingTypes, Zenon
  <1>1. ASSUME NEW x \in SinkElements, DeleteChannel(x) \/ (x \in Sinks /\ StartVideoSink(x)), x # c
        PROVE  port'[c] = port[c]
    BY <1>0, <1>1, Zenon DEF DeleteChannel, StartVideoSink
  <1>2. Sinks \subseteq SinkElements
    BY Distinct, Zenon
  <1>. QED
    BY <1>0, <1>1, <1>2, PortChange, Zenon

\* No resync is asked for.
LEMMA NeverResync ==
  ASSUME Going
  PROVE  ~Mail("RESYNC")' /\ ~Calls("resync", V)' /\ ~DecResync
  <1>0. ~Mail("RESYNC") /\ ~Calls("resync", V) /\ agenda \in Seq(CallType)
    BY GoingFacts, GoingTypes, AliveParts, Zenon DEF FlowInv
  <1>1. ~Mail("RESYNC")'
    BY <1>0, MailMade, Zenon DEF Posted
  <1>2. ~Calls("resync", V)'
    <2>1. SUFFICES ASSUME Calls("resync", V)' PROVE FALSE
      OBVIOUS
    <2>2. \A i \in DOMAIN agenda' : agenda'[i].f = "resync" /\ agenda'[i].e = V => ~Made(agenda'[i])
      BY <1>0, Zenon DEF Made, DecMade
    <2>3. Waits("resync", V) => Calls("resync", V)
      BY <1>0, Line, Zenon
    <2>4. "resync" \notin {"idle", "mboxCb"}
      OBVIOUS
    <2>. QED
      BY <1>0, <2>1, <2>2, <2>3, <2>4, CallMade, Zenon
  <1>3. ~DecResync
    BY <1>0, Running, Zenon DEF DecResync, Calls
  <1>. QED
    BY <1>1, <1>2, <1>3

\* What makes the decoder wait for vdec to stop, and what ends it.
LEMMA PendingStates ==
  ASSUME Going
  PROVE  \/ dec'.mVdecStopPending = dec.mVdecStopPending
         \/ DecStop /\ dec'.mVdecStopPending
         \/ StopCb /\ vdec.stopping /\ ~vdec.flushing /\ vdec.cb = "none" /\ Exists(V)
            /\ ~vdec'.stopping /\ ~vdec'.flushing /\ vdec'.cb = "stop" /\ ~dec'.mVdecStopPending
  <1>0. TypeOK /\ told.open /\ [Next]_vars /\ dec \in DecType /\ vdec \in VdecType
    BY GoingFacts, GoingTypes, Zenon
  <1>1. CASE DecStop
    <2>1. dec' = [dec EXCEPT !.mVdecStopPending = TRUE] \/ dec' = dec
      BY <1>1, Zenon DEF DecStop
    <2>. QED
      BY <1>0, <1>1, <2>1, Zenon DEF DecType
  <1>2. CASE StopCb
    <2>1. /\ dec' = [dec EXCEPT !.mVdecStopPending = FALSE]
          /\ vdec' = [vdec EXCEPT !.stopping = FALSE, !.busy = FALSE, !.cb = "stop"]
          /\ vdec.stopping /\ ~vdec.flushing /\ vdec.cb = "none" /\ Exists(V)
      BY <1>2, Zenon DEF StopCb, VdecFree
    <2>2. ~dec'.mVdecStopPending
      BY <1>0, <2>1, Zenon DEF DecType
    <2>3. ~vdec'.stopping /\ ~vdec'.flushing /\ vdec'.cb = "stop"
      BY <1>0, <2>1, Zenon DEF VdecType
    <2>. QED
      BY <1>2, <2>1, <2>2, <2>3
  <1>. QED
    BY <1>0, <1>1, <1>2, DecParts, Zenon

\* What the callbacks of vdec are.
LEMMA CbStates ==
  ASSUME Going
  PROVE  \/ vdec'.cb = vdec.cb /\ vdec'.count = vdec.count
         \/ vdec'.cb = "none" /\ vdec.cb \notin {"stop", "stopLoaded"}
         \/ FlushCb /\ vdec.flushing /\ vdec'.cb = "flush" /\ Exists(V)
         \/ StopCb /\ vdec.stopping /\ vdec'.cb = "stop" /\ Exists(V)
         \/ OutputCb /\ vdec'.cb = "output" /\ Exists(V)
         \/ StopCbCount /\ vdec.cb = "stop" /\ vdec'.cb = "none"
         \/ StopCbStore /\ vdec.cb = "stopLoaded" /\ vdec'.cb = "none"
         \/ /\ StopCbLoad /\ vdec.cb = "stop" /\ vdec'.cb = "stopLoaded" /\ UNCHANGED dec
            /\ vdec'.count = dec.mCompleteStopPendingCount
  <1>0. TypeOK /\ told.open /\ [Next]_vars /\ vdec \in VdecType
    BY GoingFacts, GoingTypes, Zenon
  <1>1. CASE FlushCb
    <2>1. /\ vdec' = [vdec EXCEPT !.flushing = FALSE, !.busy = FALSE, !.cb = "flush"]
          /\ vdec.flushing /\ Exists(V)
      BY <1>1, Zenon DEF FlushCb, VdecFree
    <2>. QED
      BY <1>0, <1>1, <2>1, Zenon DEF VdecType
  <1>2. CASE StopCb
    <2>1. /\ vdec' = [vdec EXCEPT !.stopping = FALSE, !.busy = FALSE, !.cb = "stop"]
          /\ vdec.stopping /\ Exists(V)
      BY <1>2, Zenon DEF StopCb, VdecFree
    <2>. QED
      BY <1>0, <1>2, <2>1, Zenon DEF VdecType
  <1>3. CASE OutputCb
    <2>1. vdec' = [vdec EXCEPT !.cb = "output"] /\ Exists(V)
      BY <1>3, Zenon DEF OutputCb, VdecFree
    <2>. QED
      BY <1>0, <1>3, <2>1, Zenon DEF VdecType
  <1>4. CASE StopCbCount
    <2>1. vdec' = [vdec EXCEPT !.cb = "none"] /\ vdec.cb = "stop"
      BY <1>4, Zenon DEF StopCbCount
    <2>. QED
      BY <1>0, <1>4, <2>1, Zenon DEF VdecType
  <1>5. CASE StopCbStore
    <2>1. vdec' = [vdec EXCEPT !.cb = "none", !.count = 0] /\ vdec.cb = "stopLoaded"
      BY <1>5, Zenon DEF StopCbStore
    <2>. QED
      BY <1>0, <1>5, <2>1, Zenon DEF VdecType
  <1>6. CASE StopCbLoad
    <2>1. /\ vdec' = [vdec EXCEPT !.cb = "stopLoaded", !.count = dec.mCompleteStopPendingCount]
          /\ vdec.cb = "stop" /\ UNCHANGED dec
      BY <1>6, Zenon DEF StopCbLoad
    <2>. QED
      BY <1>0, <1>6, <2>1, Zenon DEF VdecType
  <1>. QED
    BY <1>0, <1>1, <1>2, <1>3, <1>4, <1>5, <1>6, VdecParts, SMT

-----------------------------------------------------------------------------
(* The flush and the stop of vdec.                                         *)

\* An element is called by a call that was made or waited.
LEMMA CallFrom ==
  ASSUME Going, NEW f, NEW e, Calls(f, e)', ~Calls(f, e), f \notin {"idle", "mboxCb"}
  PROVE  \E i \in DOMAIN agenda' : agenda'[i].f = f /\ agenda'[i].e = e /\ Made(agenda'[i])
  <1>1. Waits(f, e) => Calls(f, e)
    BY GoingTypes, Line, Zenon
  <1>. QED
    BY <1>1, CallMade, Zenon

\* A step keeps FlowInv.
LEMMA FlowKept ==
  ASSUME Going
  PROVE  FlowInv'
  <1>0. /\ FlowInv /\ LinkInv /\ TornCalls /\ OrderInv /\ agenda \in Seq(CallType)
        /\ V \in SinkElements /\ V \notin Sinks /\ dec \in DecType /\ vdec \in VdecType
        /\ port \in [SinkElements -> BOOLEAN] /\ TypeOK /\ told.open /\ [Next]_vars
    BY GoingFacts, GoingTypes, AliveParts, OpenParts, Distinct, Zenon
  <1>a. /\ est[V] = "STARTED" => port[V]
        /\ ~port[V] => \A f \in {"channel.flush", "onChannelFlush", "flush", "vdec_flush"} :
                          ~Calls(f, V)
        /\ vdec.stopping => dec.mVdecStopPending
        /\ vdec.cb = "stopLoaded" => vdec.count = dec.mCompleteStopPendingCount
    BY <1>0, Zenon DEF FlowInv
  <1>b. DeleteChannel(V) => IsNext("deleteChannel", V) /\ Return /\ agenda # <<>> /\ 1 \in DOMAIN agenda
    BY <1>0, Running, Zenon DEF DeleteChannel, IsNext
  <1>1. est'[V] = "STARTED" => port'[V]
    <2>1. SUFFICES ASSUME est'[V] = "STARTED" PROVE port'[V]
      OBVIOUS
    <2>2. est[V] = "STARTED"
      BY <2>1, DecStates, SMT
    <2>3. ~DeleteChannel(V)
      <3>1. DeleteChannel(V) => Tearing(agenda[1])
        BY <1>b, SMT DEF Tearing, IsNext
      <3>. QED
        BY <1>0, <1>b, <2>2, <3>1, Zenon DEF TornCalls
    <2>. QED
      BY <1>0, <1>a, <2>2, <2>3, PortStates, Zenon
  <1>2. ASSUME ~port'[V], NEW f \in {"channel.flush", "onChannelFlush", "flush", "vdec_flush"},
               Calls(f, V)'
        PROVE  FALSE
    <2>1. CASE port[V]
      <3>1. DeleteChannel(V)
        BY <1>0, <1>2, <2>1, PortStates, Zenon
      <3>2. Waits(f, V)
        BY <1>0, <1>2, <1>b, <3>1, LineNone, Zenon
      <3>3. /\ f \notin Immediate /\ f # "channel.flush"
            /\ f = "vdec_flush" => DownCall(link, agenda[1])
        BY <1>0, <3>2, Behind, SMT
      <3>4. ~DownCall(link, agenda[1])
        BY <1>0, <1>b, <3>1, SMT DEF DownCall, IsNext
      <3>. QED
        BY <1>2, <3>3, <3>4, SMT DEF Immediate
    <2>2. CASE ~port[V]
      <3>1. link[V] = None /\ est[V] # "STARTED"
        BY <1>0, <1>a, <2>2, Zenon DEF LinkInv
      <3>2. \A g \in {"channel.flush", "onChannelFlush", "flush"} : ~IsNext(g, V)
        BY <1>0, <1>a, <2>2, Line, SMT
      <3>3. f \notin {"idle", "mboxCb"} /\ ~Calls(f, V)
        BY <1>a, <1>2, <2>2, SMT
      <3>4. PICK i \in DOMAIN agenda' : agenda'[i].f = f /\ agenda'[i].e = V /\ Made(agenda'[i])
        BY <1>2, <3>3, CallFrom
      <3>5. ChannelMade(agenda'[i]) /\ DecMade(agenda'[i])
        BY <3>4, Zenon DEF Made
      <3>6. f \notin {"channel.flush", "onChannelFlush"}
        BY <3>1, <3>2, <3>4, <3>5, Zenon DEF ChannelMade
      <3>7. IsNext("onChannelTeardown", V) /\ est[V] = "STARTED" => FALSE
        BY <3>1
      <3>8. f \notin {"flush", "vdec_flush"}
        BY <3>1, <3>2, <3>4, <3>5, Zenon DEF DecMade
      <3>. QED
        BY <1>2, <3>6, <3>8, SMT
    <2>. QED
      BY <2>1, <2>2
  <1>3. vdec'.stopping => dec'.mVdecStopPending
    <2>1. SUFFICES ASSUME vdec'.stopping PROVE dec'.mVdecStopPending
      OBVIOUS
    <2>2. CASE VdecStop
      <3>1. vdec' = [vdec EXCEPT !.stopping = dec.mVdecStopPending] /\ UNCHANGED dec
        BY <2>2, Zenon DEF VdecStop
      <3>2. vdec'.stopping = dec.mVdecStopPending
        BY <1>0, <3>1, Zenon DEF VdecType
      <3>. QED
        BY <2>1, <3>1, <3>2
    <2>3. CASE vdec.stopping
      BY <1>a, <2>1, <2>3, PendingStates, Zenon
    <2>. QED
      BY <1>0, <2>1, <2>2, <2>3, VdecParts, Zenon
  <1>4. vdec'.cb = "stopLoaded" => vdec'.count = dec'.mCompleteStopPendingCount
    <2>1. SUFFICES ASSUME vdec'.cb = "stopLoaded" PROVE vdec'.count = dec'.mCompleteStopPendingCount
      OBVIOUS
    <2>2. CASE vdec.cb = "stopLoaded" /\ vdec'.count = vdec.count
      <3>1. ~LoopRuns
        BY <2>2, GoingFacts, SMT
      <3>2. ~DecCompleteStop /\ ~DecOnChannelUnlink
        BY <3>1, Zenon DEF DecCompleteStop, DecOnChannelUnlink, Runs
      <3>3. ~StopCbCount /\ ~StopCbStore
        <4>1. StopCbCount => vdec.cb = "stop"
          BY Zenon DEF StopCbCount
        <4>2. StopCbStore => vdec' = [vdec EXCEPT !.cb = "none", !.count = 0]
          BY Zenon DEF StopCbStore
        <4>3. StopCbStore => vdec'.cb = "none"
          BY <1>0, <4>2, Zenon DEF VdecType
        <4>. QED
          BY <2>1, <2>2, <4>1, <4>3
      <3>4. dec'.mCompleteStopPendingCount = dec.mCompleteStopPendingCount
        BY <1>0, <3>2, <3>3, DecParts, Zenon
      <3>. QED
        BY <1>a, <2>2, <3>4
    <2>. QED
      BY <2>1, <2>2, CbStates, SMT
  <1>5. ~Mail("RESYNC")' /\ ~Calls("resync", V)'
    BY NeverResync, Zenon
  <1>. QED
    BY <1>1, <1>2, <1>3, <1>4, <1>5, Zenon DEF FlowInv

\* A step keeps EndInv.
LEMMA EndKept ==
  ASSUME Going
  PROVE  EndInv'
  <1>0. /\ FlowInv /\ EndInv /\ DecoderInv /\ PortInv /\ agenda \in Seq(CallType)
        /\ TypeOK /\ told.open /\ [Next]_vars
    BY GoingFacts, GoingTypes, AliveParts, OpenParts, Zenon
  <1>. SUFFICES ASSUME est'[V] \in Ending, ~dec'.mVdecStopPending
       PROVE  ~vdec'.flushing /\ vdec'.cb # "flush"
    BY Zenon DEF EndInv
  <1>1. CASE dec.mVdecStopPending
    <2>1. ~vdec'.flushing /\ vdec'.cb = "stop"
      BY <1>1, PendingStates, Zenon
    <2>. QED
      BY <2>1
  <1>2. CASE ~dec.mVdecStopPending
    <2>1. est[V] \in Ending
      <3>1. ~(DecStop /\ est'[V] = "STOPPING" /\ est[V] = "STARTED")
        <4>1. SUFFICES ASSUME DecStop, est[V] = "STARTED" PROVE FALSE
          OBVIOUS
        <4>2. dec' = [dec EXCEPT !.mVdecStopPending = TRUE]
          BY <4>1, Zenon DEF DecStop
        <4>3. dec'.mVdecStopPending
          BY <4>2, GoingTypes DEF DecType
        <4>. QED
          BY <4>3
      <3>2. DecCompleteStop => Calls("completeStop", V)
        BY <1>0, Running, Zenon DEF DecCompleteStop, Calls
      <3>3. DecCompleteStop => est[V] \in Ending
        BY <1>0, <3>2, Zenon DEF DecoderInv, Ending
      <3>. QED
        BY <3>1, <3>3, DecStates, SMT DEF Ending
    <2>2. ~vdec.flushing /\ vdec.cb # "flush"
      BY <1>0, <1>2, <2>1, Zenon DEF EndInv
    <2>3. ~VdecFlush
      <3>1. SUFFICES ASSUME VdecFlush PROVE FALSE
        OBVIOUS
      <3>2. Calls("vdec_flush", V)
        BY <1>0, <3>1, Running, Zenon DEF VdecFlush, Calls
      <3>3. port[V]
        BY <1>0, <3>2, SMT DEF FlowInv
      <3>4. dec.mInputMedia
        BY <1>0, <3>3, Zenon DEF PortInv
      <3>5. ~dec.mInputMedia
        BY <1>0, <1>2, <2>1, SMT DEF DecoderInv, Ending
      <3>. QED
        BY <3>4, <3>5
    <2>4. ~vdec'.flushing
      BY <1>0, <2>2, <2>3, NeverResync, VdecParts, Zenon
    <2>5. vdec'.cb # "flush"
      BY <2>2, CbStates, SMT
    <2>. QED
      BY <2>4, <2>5
  <1>. QED
    BY <1>1, <1>2

-----------------------------------------------------------------------------
(* The messages that stop the decoder, counted.                            *)

\* The messages of q that complete a stop.
StopsOf(q) == {i \in DOMAIN q : q[i].cmd = "COMPLETE_STOP"}
\* They can be counted.
LEMMA StopsFinite ==
  ASSUME NEW s \in Seq(MessageType)
  PROVE  IsFiniteSet(StopsOf(s)) /\ Cardinality(StopsOf(s)) \in Nat
  <1>1. Len(s) \in Nat /\ StopsOf(s) \subseteq 1..Len(s)
    BY SMT DEF StopsOf
  <1>2. IsFiniteSet(1..Len(s))
    <2>1. 1 \in Int /\ Len(s) \in Int
      BY <1>1, SMT
    <2>. QED
      BY <2>1, FS_Interval, Zenon
  <1>3. IsFiniteSet(StopsOf(s))
    BY <1>1, <1>2, FS_Subset, Zenon
  <1>. QED
    BY <1>3, FS_CardinalityType, Zenon

\* Their count when a message is posted, ...
LEMMA StopsPosted ==
  ASSUME NEW s \in Seq(MessageType), NEW m \in MessageType
  PROVE  Cardinality(StopsOf(Append(s, m))) =
            IF m.cmd = "COMPLETE_STOP" THEN Cardinality(StopsOf(s)) + 1
            ELSE Cardinality(StopsOf(s))
  <1> DEFINE i == Len(s) + 1
  <1>1. IsFiniteSet(StopsOf(s)) /\ Cardinality(StopsOf(s)) \in Nat
    BY StopsFinite, Zenon
  <1>2. CASE m.cmd = "COMPLETE_STOP"
    <2>1. StopsOf(Append(s, m)) = StopsOf(s) \cup {i} /\ i \notin StopsOf(s)
      BY <1>2, SMT DEF StopsOf
    <2>2. Cardinality(StopsOf(s) \cup {i}) = Cardinality(StopsOf(s)) + 1
      BY <1>1, <2>1, FS_AddElement, Zenon
    <2>. QED
      BY <1>2, <2>1, <2>2, Zenon
  <1>3. CASE m.cmd # "COMPLETE_STOP"
    <2>1. StopsOf(Append(s, m)) = StopsOf(s)
      BY <1>3, SMT DEF StopsOf
    <2>. QED
      BY <1>3, <2>1, Zenon
  <1>. QED
    BY <1>2, <1>3

\* ... and when the first message is read.
LEMMA StopsRead ==
  ASSUME NEW s \in Seq(MessageType), s # <<>>
  PROVE  Cardinality(StopsOf(Tail(s))) =
            IF s[1].cmd = "COMPLETE_STOP" THEN Cardinality(StopsOf(s)) - 1
            ELSE Cardinality(StopsOf(s))
  <1> DEFINE t == Tail(s)
             S == StopsOf(t)
             T == {i \in StopsOf(s) : i # 1}
             f == [i \in S |-> i + 1]
  <1>1. /\ t \in Seq(MessageType)
        /\ \A i \in DOMAIN t : i + 1 \in DOMAIN s /\ t[i] = s[i + 1] /\ i \in Nat /\ i > 0
        /\ \A i \in DOMAIN s : i = 1 \/ (i - 1 \in DOMAIN t /\ t[i - 1] = s[i] /\ i \in Nat)
        /\ 1 \in DOMAIN s
    BY TailOfSeq, Zenon
  <1> HIDE DEF t
  <1>2. \A i \in S : f[i] \in T /\ f[i] = i + 1 /\ i \in Nat
    BY <1>1, SMT DEF StopsOf
  <1>3. \A j \in T : j - 1 \in S /\ f[j - 1] = j
    BY <1>1, SMTT(60) DEF StopsOf
  <1>4. f \in Bijection(S, T)
    <2>1. f \in [S -> T]
      BY <1>2, Zenon
    <2>2. \A a, b \in S : f[a] = f[b] => a = b
      BY <1>2, SMT
    <2>3. \A j \in T : \E i \in S : f[i] = j
      BY <1>3, Zenon
    <2>. QED
      BY <2>1, <2>2, <2>3, Zenon DEF Bijection, Injection, Surjection, IsInjective
  <1>5. IsFiniteSet(S) /\ Cardinality(S) \in Nat
    BY <1>1, StopsFinite, SMT
  <1>6. Cardinality(T) = Cardinality(S) /\ IsFiniteSet(T)
    BY <1>4, <1>5, FS_Bijection, Zenon DEF ExistsBijection
  <1>7. CASE s[1].cmd = "COMPLETE_STOP"
    <2>1. StopsOf(s) = T \cup {1} /\ 1 \notin T
      BY <1>1, <1>7, SMT DEF StopsOf
    <2>2. Cardinality(T \cup {1}) = Cardinality(T) + 1
      BY <1>6, <2>1, FS_AddElement, Zenon
    <2>3. Cardinality(StopsOf(s)) = Cardinality(S) + 1
      BY <1>6, <2>1, <2>2, Zenon
    <2> HIDE DEF S, T
    <2>4. Cardinality(S) = Cardinality(StopsOf(s)) - 1
      BY <1>5, <2>3, SMT
    <2>. QED
      BY <1>7, <2>4, Zenon DEF t, S
  <1>8. CASE s[1].cmd # "COMPLETE_STOP"
    <2>1. StopsOf(s) = T
      BY <1>1, <1>8, SMT DEF StopsOf
    <2>. QED
      BY <1>6, <1>8, <2>1, Zenon DEF t
  <1>. QED
    BY <1>7, <1>8

\* What changes the count of the decoder.
LEMMA CountStates ==
  ASSUME Going
  PROVE  /\ \/ dec'.mCompleteStopPendingCount = dec.mCompleteStopPendingCount
            \/ DecCompleteStop /\ dec'.mCompleteStopPendingCount = dec.mCompleteStopPendingCount - 1
            \/ dec'.mCompleteStopPendingCount = dec.mCompleteStopPendingCount + 1
         /\ \/ DecOnChannelUnlink /\ est[V] = "STOPPING"
            \/ StopCbCount \/ StopCbStore
            => dec'.mCompleteStopPendingCount = dec.mCompleteStopPendingCount + 1
         /\ DecCompleteStop => UNCHANGED mMbox
  <1>0. TypeOK /\ told.open /\ [Next]_vars /\ dec \in DecType /\ FlowInv
    BY GoingFacts, GoingTypes, AliveParts, Zenon
  <1> DEFINE c == dec.mCompleteStopPendingCount
  <1>1. /\ DecCompleteStop => UNCHANGED mMbox
        /\ DecCompleteStop => dec'.mCompleteStopPendingCount = c - 1
    <2>1. SUFFICES ASSUME DecCompleteStop PROVE UNCHANGED mMbox /\ dec'.mCompleteStopPendingCount = c - 1
      OBVIOUS
    <2>2. /\ dec' = [dec EXCEPT !.mCompleteStopPendingCount = @ - 1,
                                !.mOutputMedia = @ /\ dec.out # <<>>]
          /\ UNCHANGED mMbox
      BY <2>1, Zenon DEF DecCompleteStop
    <2>. QED
      BY <1>0, <2>2, SMT DEF DecType
  <1>2. DecOnChannelUnlink => /\ dec'.mCompleteStopPendingCount \in {c, c + 1}
                              /\ est[V] = "STOPPING" => dec'.mCompleteStopPendingCount = c + 1
    <2>1. SUFFICES ASSUME DecOnChannelUnlink
          PROVE  dec'.mCompleteStopPendingCount = IF est[V] = "STOPPING" THEN c + 1 ELSE c
      OBVIOUS
    <2>2. dec' = [dec EXCEPT !.out = Without(@, Subject),
                             !.mCompleteStopPendingCount =
                                  IF est[V] = "STOPPING" THEN @ + 1 ELSE @]
      BY <2>1, Zenon DEF DecOnChannelUnlink
    <2>. QED
      BY <1>0, <2>2, Zenon DEF DecType
  <1>3. StopCbCount => dec'.mCompleteStopPendingCount = c + 1
    <2>1. StopCbCount => dec' = [dec EXCEPT !.mCompleteStopPendingCount = @ + 1]
      BY Zenon DEF StopCbCount
    <2>. QED
      BY <1>0, <2>1, Zenon DEF DecType
  <1>4. StopCbStore => dec'.mCompleteStopPendingCount = c + 1
    <2>1. SUFFICES ASSUME StopCbStore PROVE dec'.mCompleteStopPendingCount = c + 1
      OBVIOUS
    <2>2. dec' = [dec EXCEPT !.mCompleteStopPendingCount = vdec.count + 1] /\ vdec.cb = "stopLoaded"
      BY <2>1, Zenon DEF StopCbStore
    <2>3. dec'.mCompleteStopPendingCount = vdec.count + 1
      BY <1>0, <2>2, Zenon DEF DecType
    <2>4. vdec.count = c
      BY <1>0, <2>2, Zenon DEF FlowInv
    <2>. QED
      BY <2>3, <2>4
  <1>5. dec'.mCompleteStopPendingCount = c \/ DecCompleteStop \/ DecOnChannelUnlink
        \/ StopCbCount \/ StopCbStore
    BY <1>0, DecParts, Zenon
  <1>. QED
    BY <1>1, <1>2, <1>3, <1>4, <1>5, SMT

\* A message is read by the loop of the mailbox; nothing else completes a stop.
LEMMA StopIsRead ==
  ASSUME Going
  PROVE  /\ IsNext("completeStop", V)' =>
               \/ IsNext("completeStop", V) /\ ~DecCompleteStop
               \/ MboxMessage /\ mMbox[1].cmd = "COMPLETE_STOP"
         /\ MboxMessage => /\ mMbox # <<>> /\ mMbox' = Tail(mMbox) /\ UNCHANGED dec
                           /\ ~IsNext("completeStop", V)
         /\ DecCompleteStop => IsNext("completeStop", V)
  <1>0. TypeOK /\ agenda \in Seq(CallType) /\ V # None
    BY GoingFacts, GoingTypes, Distinct, Zenon
  <1>1. MboxMessage => /\ mMbox # <<>> /\ mMbox' = Tail(mMbox) /\ UNCHANGED dec
                       /\ ~IsNext("completeStop", V)
    BY <1>0, MessageCases, SMT DEF IsNext
  <1>2. ASSUME IsNext("completeStop", V)'
        PROVE  \/ IsNext("completeStop", V) /\ UNCHANGED agenda
               \/ MboxMessage /\ mMbox[1].cmd = "COMPLETE_STOP"
    <2>1. /\ agenda'[1].f = "completeStop" /\ agenda'[1].e = V
          /\ Made(agenda'[1]) \/ (UNCHANGED agenda /\ IsNext("completeStop", V))
      BY <1>2, IsMade
    <2>2. Made(agenda'[1]) => MboxMessage /\ mMbox[1].cmd = "COMPLETE_STOP"
      BY <2>1, Zenon DEF Made, DecMade
    <2>. QED
      BY <2>1, <2>2
  <1>3. UNCHANGED agenda => ~DecCompleteStop
    <2>1. SUFFICES ASSUME UNCHANGED agenda, DecCompleteStop PROVE FALSE
      OBVIOUS
    <2>2. agenda # <<>> /\ agenda[1].f = "completeStop"
      BY <1>0, <2>1, Running, Zenon DEF DecCompleteStop
    <2>3. Return \/ Then(<<CallOn("onElementStopped", None, V)>>)
      BY <2>1, Zenon DEF DecCompleteStop
    <2>4. CASE Return
      <3>1. agenda' = Tail(agenda)
        BY <1>0, <2>2, <2>4, SMT DEF Return, Then
      <3>. QED
        BY <1>0, <2>1, <2>2, <3>1, SMT
    <2>5. CASE Then(<<CallOn("onElementStopped", None, V)>>)
      <3>1. /\ CallOn("onElementStopped", None, V) \in CallType
            /\ CallOn("onElementStopped", None, V).f = "onElementStopped"
        BY TypedOfSession, Distinct, Zenon
      <3>2. agenda'[1] = CallOn("onElementStopped", None, V)
        BY <1>0, <2>2, <2>5, <3>1, LineOne, Zenon
      <3>. QED
        BY <2>1, <2>2, <3>1, <3>2
    <2>. QED
      BY <2>3, <2>4, <2>5
  <1>4. DecCompleteStop => IsNext("completeStop", V)
    BY <1>0, Running, Zenon DEF DecCompleteStop, IsNext
  <1>. QED
    BY <1>1, <1>2, <1>3, <1>4, Zenon

\* A step keeps CountInv: whoever posts a COMPLETE_STOP counts it.
LEMMA CountKept ==
  ASSUME Going
  PROVE  CountInv'
  <1> DEFINE n == Cardinality(StopsOf(mMbox))
             m == Cardinality(StopsOf(mMbox'))
             c == dec.mCompleteStopPendingCount
             d == dec'.mCompleteStopPendingCount
             a == IsNext("completeStop", V)
             b == IsNext("completeStop", V)'
  <1>0. CountInv /\ mMbox \in Seq(MessageType) /\ mMbox' \in Seq(MessageType)
    BY GoingFacts, GoingTypes, AliveParts, Zenon
  <1>1. n \in Nat /\ m \in Nat
    BY <1>0, StopsFinite, Zenon
  <1>2. c \in Int /\ d \in Int
    BY GoingTypes, SMT DEF DecType
  <1>3. n + (IF a THEN 1 ELSE 0) <= c
    BY <1>0, Zenon DEF CountInv, StopMails, StopsOf
  <1>4. SUFFICES m + (IF b THEN 1 ELSE 0) <= d
    BY Zenon DEF CountInv, StopMails, StopsOf
  <1>5. /\ b => (a /\ ~DecCompleteStop) \/ (MboxMessage /\ mMbox[1].cmd = "COMPLETE_STOP")
        /\ MboxMessage => mMbox # <<>> /\ mMbox' = Tail(mMbox) /\ UNCHANGED dec /\ ~a
        /\ DecCompleteStop => a
    BY StopIsRead, Zenon
  <1>6. /\ d = c \/ (DecCompleteStop /\ d = c - 1) \/ d = c + 1
        /\ \/ DecOnChannelUnlink /\ est[V] = "STOPPING"
           \/ StopCbCount \/ StopCbStore
           => d = c + 1
        /\ DecCompleteStop => UNCHANGED mMbox
    BY CountStates, Zenon
  <1>7. CASE UNCHANGED mMbox
    <2>1. m = n
      BY <1>7
    <2>2. ~MboxMessage
      <3>1. mMbox # <<>> => Tail(mMbox) # mMbox
        BY <1>0, SMT
      <3>. QED
        BY <1>5, <1>7, <3>1
    <2> HIDE DEF n, m, c, d, a, b
    <2>. QED
      BY <1>1, <1>2, <1>3, <1>5, <1>6, <2>1, <2>2, SMT
  <1>8. ASSUME NEW x, mMbox' = Append(mMbox, x), Posted(x)
        PROVE  m + (IF b THEN 1 ELSE 0) <= d
    <2>1. x \in MessageType
      BY <1>8, Zenon DEF Posted
    <2>2. m = IF x.cmd = "COMPLETE_STOP" THEN n + 1 ELSE n
      BY <1>0, <1>8, <2>1, StopsPosted, Zenon
    <2>3. ~MboxMessage /\ ~DecCompleteStop
      <3>1. Append(mMbox, x) # mMbox /\ (mMbox # <<>> => Tail(mMbox) # Append(mMbox, x))
        BY <1>0, <2>1, SMT
      <3>. QED
        BY <1>5, <1>6, <1>8, <3>1
    <2>4. x.cmd = "COMPLETE_STOP" => d = c + 1
      BY <1>6, <1>8, Zenon DEF Posted
    <2> HIDE DEF n, m, c, d, a, b
    <2>. QED
      BY <1>1, <1>2, <1>3, <1>5, <1>6, <2>2, <2>3, <2>4, SMT
  <1>9. CASE MboxMessage /\ mMbox # <<>> /\ mMbox' = Tail(mMbox)
    <2>1. m = IF mMbox[1].cmd = "COMPLETE_STOP" THEN n - 1 ELSE n
      BY <1>0, <1>9, StopsRead, Zenon
    <2>2. c = d
      BY <1>5, <1>9
    <2> HIDE DEF n, m, c, d, a, b
    <2>. QED
      BY <1>1, <1>2, <1>3, <1>5, <1>9, <2>1, <2>2, SMT
  <1>. QED
    BY <1>7, <1>8, <1>9, MboxKinds, Zenon

-----------------------------------------------------------------------------
(* The end of the decoder.                                                 *)

\* The decoder is told that a channel, or vdec, has stopped.
StopPosted == \E m : mMbox' = Append(mMbox, m) /\ m \in MessageType /\ m.cmd = "COMPLETE_STOP"
\* The last channel unlinked from a stopping decoder, and the callback of vdec,
\* post a COMPLETE_STOP.
LEMMA PostsStop ==
  ASSUME Going, (DecOnChannelUnlink /\ est[V] = "STOPPING") \/ StopCbCount \/ StopCbStore
  PROVE  StopPosted
  <1>1. mMbox' = Append(mMbox, [cmd |-> "COMPLETE_STOP", e |-> V])
    BY Zenon DEF DecOnChannelUnlink, StopCbCount, StopCbStore, Post
  <1>2. /\ [cmd |-> "COMPLETE_STOP", e |-> V] \in MessageType
        /\ [cmd |-> "COMPLETE_STOP", e |-> V].cmd = "COMPLETE_STOP"
    BY Messages, SMT
  <1>. QED
    BY <1>1, <1>2, Zenon DEF StopPosted

\* When vdec owes the decoder no stop, the decoder was stopping before.
LEMMA EndingFrom ==
  ASSUME Going, est'[V] \in Ending, ~dec'.mVdecStopPending
  PROVE  est[V] \in Ending
  <1>0. DecoderInv /\ agenda \in Seq(CallType) /\ dec \in DecType
    BY GoingTypes, OpenParts, Zenon
  <1>1. ~(DecStop /\ est'[V] = "STOPPING" /\ est[V] = "STARTED")
    <2>1. SUFFICES ASSUME DecStop, est[V] = "STARTED" PROVE FALSE
      OBVIOUS
    <2>2. dec' = [dec EXCEPT !.mVdecStopPending = TRUE]
      BY <2>1, Zenon DEF DecStop
    <2>3. dec'.mVdecStopPending
      BY <1>0, <2>2 DEF DecType
    <2>. QED
      BY <2>3
  <1>2. DecCompleteStop => Calls("completeStop", V)
    BY <1>0, Running, Zenon DEF DecCompleteStop, Calls
  <1>3. DecCompleteStop => est[V] \in Ending
    BY <1>0, <1>2, Zenon DEF DecoderInv, Ending
  <1>. QED
    BY <1>1, <1>3, DecStates, SMT DEF Ending

\* Ended begins by a COMPLETE_STOP.
LEMMA EndedFrom ==
  ASSUME Going, Ended'
  PROVE  Ended \/ StopPosted
  <1>0. MediaInv /\ TypeOK /\ told.open /\ [Next]_vars /\ dec \in DecType
    BY GoingFacts, GoingTypes, OpenParts, Zenon
  <1>1. /\ est'[V] \in Ending /\ ~dec'.mVdecStopPending
        /\ vdec'.cb \notin {"stop", "stopLoaded"} /\ dec'.out = <<>>
    BY Zenon DEF Ended
  <1>2. est[V] \in Ending
    BY <1>1, EndingFrom, Zenon
  <1>3. ~dec.mVdecStopPending
    BY <1>1, PendingStates, SMT
  <1>4. CASE vdec.cb \in {"stop", "stopLoaded"}
    <2>1. ~FlushCb /\ ~OutputCb
      BY <1>4, SMT DEF FlushCb, OutputCb, VdecFree
    <2>2. StopCbCount \/ StopCbStore
      BY <1>1, <1>4, <2>1, CbStates, SMT
    <2>. QED
      BY <2>2, PostsStop, Zenon
  <1>5. CASE dec.out # <<>>
    <2>1. ASSUME NEW s \in Sinks, StartVideoSink(s) PROVE dec'.out # <<>>
      <3>1. dec' = dec \/ dec' = [dec EXCEPT !.out = Append(@, s)]
        BY <2>1, Zenon DEF StartVideoSink
      <3>2. dec'.out = dec.out \/ dec'.out = Append(dec.out, s)
        BY <1>0, <3>1, Zenon DEF DecType
      <3>3. dec.out \in Seq(Sinks)
        BY <1>0 DEF DecType
      <3>4. Append(dec.out, s) # <<>>
        BY <3>3, SMT
      <3>. QED
        BY <1>5, <3>2, <3>4
    <2>2. DecOnChannelUnlink
      BY <1>0, <1>1, <1>5, <2>1, DecParts, Zenon
    <2>3. est[V] \in Gone => FALSE
      BY <1>0, <1>5, Zenon DEF MediaInv
    <2>4. est[V] = "STOPPING"
      BY <1>2, <2>3, SMT DEF Ending, Gone
    <2>. QED
      BY <2>2, <2>4, PostsStop, Zenon
  <1>. QED
    BY <1>1, <1>2, <1>3, <1>4, <1>5, Zenon DEF Ended

\* Once the decoder is about to complete its stop no flush of it is completed.
LEMMA LastMailKept ==
  ASSUME Going
  PROVE  LastMail'
  <1>0. /\ LastMail /\ EndInv /\ MediaInv /\ NextInv /\ agenda \in Seq(CallType)
        /\ mMbox \in Seq(MessageType)
    BY GoingFacts, GoingTypes, AliveParts, OpenParts, Zenon
  <1>. SUFFICES ASSUME Ended', NEW i \in DOMAIN mMbox', mMbox'[i].cmd = "COMPLETE_FLUSH"
       PROVE  \E j \in DOMAIN mMbox' : i < j /\ mMbox'[j].cmd = "COMPLETE_STOP"
    BY Zenon DEF LastMail
  <1>1. Ended \/ StopPosted
    BY EndedFrom, Zenon
  <1>2. Ended => \A k \in DOMAIN mMbox : mMbox[k].cmd = "COMPLETE_FLUSH" =>
                     \E j \in DOMAIN mMbox : k < j /\ mMbox[j].cmd = "COMPLETE_STOP"
    BY <1>0, Zenon DEF LastMail
  <1>3. CASE UNCHANGED mMbox
    <2>1. ~StopPosted
      <3>1. \A m \in MessageType : Append(mMbox, m) # mMbox
        BY <1>0, SMT
      <3>. QED
        BY <1>3, <3>1 DEF StopPosted
    <2>. QED
      BY <1>1, <1>2, <1>3, <2>1
  <1>4. ASSUME NEW m, mMbox' = Append(mMbox, m), Posted(m)
        PROVE  \E j \in DOMAIN mMbox' : i < j /\ mMbox'[j].cmd = "COMPLETE_STOP"
    <2>1. m \in MessageType
      BY <1>4, Zenon DEF Posted
    <2> DEFINE n == Len(mMbox) + 1
    <2>2. /\ \A k \in DOMAIN mMbox : k \in DOMAIN mMbox' /\ mMbox'[k] = mMbox[k] /\ k < n
          /\ i \in DOMAIN mMbox \/ i = n
          /\ n \in DOMAIN mMbox' /\ mMbox'[n] = m
      BY <1>0, <1>4, <2>1, AppendContains
    <2>3. CASE m.cmd = "COMPLETE_STOP"
      <3>1. i # n
        BY <2>2, <2>3
      <3>. QED
        BY <2>2, <2>3, <3>1
    <2>4. CASE m.cmd # "COMPLETE_STOP"
      <3>1. ~StopPosted
        <4>1. SUFFICES ASSUME NEW x \in MessageType, Append(mMbox, x) = Append(mMbox, m) PROVE x = m
          BY <1>4, <2>4 DEF StopPosted
        <4>. QED
          BY <1>0, <2>1, <4>1, AppendContains
      <3>2. Ended
        BY <1>1, <3>1
      <3>3. m.cmd # "COMPLETE_FLUSH"
        <4>1. ~DecOnChannelFlushed
          <5>1. SUFFICES ASSUME DecOnChannelFlushed PROVE FALSE
            OBVIOUS
          <5>2. agenda # <<>> /\ agenda[1] \in CallType /\ agenda[1].f = "onChannelFlushed" /\ agenda[1].e = V
            BY <1>0, <5>1, Running, Zenon DEF DecOnChannelFlushed
          <5>3. link[agenda[1].c] = V /\ agenda[1].c \in SinkElements
            BY <1>0, <5>2, CallFields, SMT DEF NextInv, Sound
          <5>4. Contains(dec.out, agenda[1].c)
            BY <1>0, <5>3, Zenon DEF MediaInv
          <5>5. dec.out = <<>>
            BY <3>2, Zenon DEF Ended
          <5>. QED
            BY <5>4, <5>5, SMT DEF Contains
        <4>2. ~FlushCbPost
          BY <1>0, <3>2, Zenon DEF FlushCbPost, Ended, EndInv
        <4>. QED
          BY <1>4, <4>1, <4>2, Zenon DEF Posted
      <3>4. i \in DOMAIN mMbox /\ mMbox[i].cmd = "COMPLETE_FLUSH"
        BY <2>2, <3>3
      <3>. QED
        BY <1>2, <2>2, <3>2, <3>4
    <2>. QED
      BY <2>3, <2>4
  <1>5. CASE MboxMessage /\ mMbox # <<>> /\ mMbox' = Tail(mMbox)
    <2>1. ~StopPosted
      <3>1. \A m \in MessageType : Append(mMbox, m) # Tail(mMbox)
        BY <1>0, <1>5, SMT
      <3>. QED
        BY <1>5, <3>1 DEF StopPosted
    <2>2. i + 1 \in DOMAIN mMbox /\ mMbox'[i] = mMbox[i + 1] /\ i \in Nat /\ i > 0
      BY <1>0, <1>5, TailOfSeq, Zenon
    <2>3. PICK j \in DOMAIN mMbox : i + 1 < j /\ mMbox[j].cmd = "COMPLETE_STOP"
      BY <1>1, <1>2, <2>1, <2>2
    <2>4. j = 1 \/ (j - 1 \in DOMAIN mMbox' /\ mMbox'[j - 1] = mMbox[j] /\ j \in Nat)
      BY <1>0, <1>5, TailOfSeq, Zenon
    <2>5. j \in Nat /\ j # 1 /\ i < j - 1
      BY <1>0, <2>2, <2>3, SMT
    <2>. QED
      BY <2>3, <2>4, <2>5
  <1>. QED
    BY <1>3, <1>4, <1>5, MboxKinds, Zenon

-----------------------------------------------------------------------------
(* The decoder that has stopped.                                           *)

\* What does not call V nor is called of V is not about to.
LEMMA NotNext ==
  ASSUME Going, NEW e, Uncalled(e)
  PROVE  /\ \A f : ~IsNext(f, e) /\ ~Runs(f, e)
         /\ \A f, c : ~IsAbout(f, e, c)
  <1>0. agenda \in Seq(CallType)
    BY GoingTypes, Zenon
  <1>1. \A f : ~IsNext(f, e)
    BY <1>0, Line, SMT DEF IsNext, Uncalled
  <1>2. \A f : ~Runs(f, e)
    BY <1>0, <1>1, Running, Zenon DEF IsNext
  <1>. QED
    BY <1>1, <1>2, Zenon DEF IsAbout

\* A decoder that has stopped has no channel.
LEMMA NoChannelLeft ==
  ASSUME Going, est[V] \in Over
  PROVE  /\ link[V] = None /\ dec.out = <<>>
         /\ \A c \in SinkElements : link[c] # V
  <1>0. DecoderInv /\ PortInv /\ LinkInv /\ MediaInv /\ V \in SinkElements
        /\ port \in [SinkElements -> BOOLEAN]
    BY GoingTypes, OpenParts, Distinct, Zenon
  <1>1. ~dec.mInputMedia /\ dec.out = <<>>
    BY <1>0, SMT DEF DecoderInv, MediaInv, Over, Gone
  <1>2. link[V] = None
    BY <1>0, <1>1, Zenon DEF PortInv, LinkInv
  <1>3. \A c : ~Contains(dec.out, c)
    BY <1>1, SMT DEF Contains
  <1>. QED
    BY <1>0, <1>1, <1>2, <1>3, Zenon DEF MediaInv

\* Nothing is called of it any more.
LEMMA DecoderUncalled ==
  ASSUME Going, est[V] \in Over
  PROVE  Uncalled(V)'
  <1>0. /\ DecoderGone /\ FlowInv /\ NextInv /\ agenda \in Seq(CallType)
        /\ V # None /\ V \in SinkElements
        /\ \A i \in DOMAIN agenda' : agenda'[i] \in CallType
    BY GoingTypes, AliveParts, OpenParts, Distinct, GoingFacts, Zenon
  <1>1. /\ Uncalled(V) /\ ~Mail("COMPLETE_FLUSH") /\ ~Mail("COMPLETE_STOP")
        /\ ~Mail("RESYNC") /\ est[V] # "STARTED"
    BY <1>0, SMT DEF DecoderGone, FlowInv, Over
  <1>2. /\ \A f : ~IsNext(f, V)
        /\ \A c \in SinkElements : link[c] # V
        /\ link[V] = None
    BY <1>1, NotNext, NoChannelLeft, Zenon
  <1>3. ASSUME NEW i \in DOMAIN agenda', agenda'[i].e = V, Made(agenda'[i])
        PROVE  FALSE
    <2> DEFINE x == agenda'[i]
    <2>1. x \in CallType /\ x.e = V
      BY <1>0, <1>3
    <2>2. ChannelMade(x) /\ DecMade(x)
      BY <1>3, Zenon DEF Made
    <2> HIDE DEF x
    <2>3. ~IsAbout("onChannelFlushed", D, V)
      <3>1. SUFFICES ASSUME IsAbout("onChannelFlushed", D, V) PROVE FALSE
        OBVIOUS
      <3>2. link[V] = D
        BY <1>0, <3>1, SMT DEF IsAbout, IsNext, NextInv, Sound
      <3>. QED
        BY <1>2, <3>2, Distinct, Zenon
    <2>4. ~(MboxMessage /\ mMbox[1].cmd = "COMPLETE_STOP")
      <3>1. SUFFICES ASSUME MboxMessage, mMbox[1].cmd = "COMPLETE_STOP" PROVE FALSE
        OBVIOUS
      <3>2. 1 \in DOMAIN mMbox
        BY <3>1, StopIsRead, GoingTypes, TailOfSeq, Zenon
      <3>. QED
        BY <1>1, <3>1, <3>2, Zenon DEF Mail
    <2>5. x.f \notin {"channel.flush", "onChannelFlush", "deleteChannel"}
      BY <1>2, <2>1, <2>2, Zenon DEF ChannelMade
    <2>6. x.f \notin {"onChannelFlushed", "onChannelUnlink"}
      <3>1. x.f \in {"onChannelFlushed", "onChannelUnlink"} => x.c \in SinkElements /\ link[x.c] = V
        BY <2>1, <2>2, CallFields, SMT DEF ChannelMade
      <3>. QED
        BY <1>2, <3>1, Zenon
    <2>7. x.f \notin {"flush", "vdec_flush", "completeFlush", "channel.flushDone", "afterFlush",
                      "vdec_stop", "completeStop", "resync", "onChannelTeardown"}
      BY <1>1, <1>2, <2>1, <2>2, <2>3, <2>4, Zenon DEF DecMade
    <2>8. x.f \notin {"removeInputMedia", "teardownOutputs"}
      BY <1>2, <2>1, <2>2, Zenon DEF DecMade
    <2>. QED
      BY <2>1, <2>5, <2>6, <2>7, <2>8, CallKinds, SMT
  <1>. QED
    BY <1>0, <1>1, <1>3, StaysUncalled, Zenon

\* Nor does it get a message, or is in a callback.
LEMMA DecoderQuiet ==
  ASSUME Going, est[V] \in Over
  PROVE  /\ ~Mail("COMPLETE_FLUSH")' /\ ~Mail("COMPLETE_STOP")'
         /\ ~dec'.mVdecStopPending /\ vdec'.cb \notin {"flush", "stop", "stopLoaded"}
         /\ vdec'.cb # "none" => est'[V] # "deleted"
  <1>0. DecoderGone /\ FlowInv /\ EndInv
    BY AliveParts, GoingFacts, Zenon
  <1>1. /\ Uncalled(V) /\ ~Mail("COMPLETE_FLUSH") /\ ~Mail("COMPLETE_STOP")
        /\ ~dec.mVdecStopPending /\ vdec.cb \notin {"flush", "stop", "stopLoaded"}
        /\ vdec.cb # "none" => est[V] # "deleted"
    BY <1>0, Zenon DEF DecoderGone
  <1>2. ~vdec.stopping /\ ~vdec.flushing
    BY <1>0, <1>1, SMT DEF FlowInv, EndInv, Ending, Over
  <1>3. ~DecOnChannelFlushed /\ ~DecOnChannelUnlink /\ ~DecStop
    BY <1>1, NotNext, Zenon DEF DecOnChannelFlushed, DecOnChannelUnlink, DecStop
  <1>4. ~FlushCbPost /\ ~StopCbCount /\ ~StopCbStore
    BY <1>1, SMT DEF FlushCbPost, StopCbCount, StopCbStore
  <1>5. ~Mail("COMPLETE_FLUSH")'
    <2>1. SUFFICES ASSUME Mail("COMPLETE_FLUSH")' PROVE FALSE
      OBVIOUS
    <2>2. PICK m : Posted(m) /\ m.cmd = "COMPLETE_FLUSH"
      BY <1>1, <2>1, MailMade
    <2>. QED
      BY <1>3, <1>4, <2>2, Zenon DEF Posted
  <1>6. ~Mail("COMPLETE_STOP")'
    <2>1. SUFFICES ASSUME Mail("COMPLETE_STOP")' PROVE FALSE
      OBVIOUS
    <2>2. PICK m : Posted(m) /\ m.cmd = "COMPLETE_STOP"
      BY <1>1, <2>1, MailMade
    <2>. QED
      BY <1>3, <1>4, <2>2, Zenon DEF Posted
  <1>7. ~dec'.mVdecStopPending
    BY <1>1, <1>2, <1>3, PendingStates, Zenon
  <1>8. vdec'.cb \notin {"flush", "stop", "stopLoaded"}
    BY <1>1, <1>2, <1>4, CbStates, SMT
  <1>9. ASSUME est'[V] = "deleted" PROVE vdec'.cb = "none"
    <2>1. CASE est[V] = "deleted"
      <3>1. ~Exists(V) /\ vdec.cb = "none"
        BY <1>1, <2>1, Distinct, Zenon DEF Exists
      <3>. QED
        BY <3>1, CbStates, SMT
    <2>2. CASE est[V] # "deleted"
      <3>1. MboxMessage
        BY <1>9, <2>2, DecStates, SMT
      <3>2. LoopRuns /\ UNCHANGED vdec
        BY <3>1, Zenon DEF MboxMessage, Runs
      <3>. QED
        BY <3>2, GoingFacts, Zenon
    <2>. QED
      BY <2>1, <2>2
  <1>. QED
    BY <1>5, <1>6, <1>7, <1>8, <1>9, Zenon

\* The decoder stops when it was told the last time.
LEMMA DecoderStops ==
  ASSUME Going, DecCompleteStop, est[V] \notin Over, est'[V] \in Over
  PROVE  /\ Uncalled(V)' /\ ~Mail("COMPLETE_FLUSH")' /\ ~Mail("COMPLETE_STOP")'
         /\ ~dec'.mVdecStopPending /\ vdec'.cb = "none"
  <1>0. /\ LastMail /\ CountInv /\ MediaInv /\ DecoderInv /\ agenda \in Seq(CallType)
        /\ mMbox \in Seq(MessageType) /\ dec \in DecType /\ V # None
        /\ \A i \in DOMAIN agenda : agenda[i] \in CallType
    BY GoingFacts, GoingTypes, AliveParts, OpenParts, Distinct, Zenon
  <1>1. /\ ~dec'.mOutputMedia /\ ~dec.mVdecStopPending
        /\ dec'.mCompleteStopPendingCount = 0
        /\ Then(<<CallOn("onElementStopped", None, V)>>)
        /\ dec' = [dec EXCEPT !.mCompleteStopPendingCount = @ - 1,
                              !.mOutputMedia = @ /\ dec.out # <<>>]
        /\ UNCHANGED <<mMbox, vdec>> /\ LoopRuns
    <2>1. est' # est
      BY Zenon
    <2>. QED
      BY <2>1, Zenon DEF DecCompleteStop, Runs
  <1>2. vdec.cb = "none"
    BY <1>1, GoingFacts, Zenon
  <1>3. /\ dec'.mCompleteStopPendingCount = dec.mCompleteStopPendingCount - 1
        /\ dec'.mOutputMedia = (dec.mOutputMedia /\ dec.out # <<>>)
        /\ dec'.mVdecStopPending = dec.mVdecStopPending
        /\ dec.mCompleteStopPendingCount \in Int
    BY <1>0, <1>1, SMT DEF DecType
  <1>4. dec.out = <<>>
    BY <1>0, <1>1, <1>3, Zenon DEF MediaInv
  <1>5. IsNext("completeStop", V) /\ \A f, e : Waits(f, e) => f = "mboxCb"
    BY CompletesAlone
  <1>6. est[V] \in Ending
    <2>1. Calls("completeStop", V)
      BY <1>0, <1>5, Line, Zenon
    <2>. QED
      BY <1>0, <2>1, Zenon DEF DecoderInv, Ending
  <1>7. Ended
    BY <1>1, <1>2, <1>4, <1>6, SMT DEF Ended
  <1>8. ~Mail("COMPLETE_STOP")
    <2>1. IsFiniteSet(StopsOf(mMbox)) /\ Cardinality(StopsOf(mMbox)) \in Nat
      BY <1>0, StopsFinite, Zenon
    <2>2. Cardinality(StopsOf(mMbox)) + 1 <= dec.mCompleteStopPendingCount
      BY <1>0, <1>5, Zenon DEF CountInv, StopMails, StopsOf
    <2>3. Cardinality(StopsOf(mMbox)) = 0
      BY <1>1, <1>3, <2>1, <2>2, SMT
    <2>4. StopsOf(mMbox) = {}
      BY <2>1, <2>3, FS_EmptySet, Zenon
    <2>. QED
      BY <2>4, Zenon DEF Mail, StopsOf
  <1>9. ~Mail("COMPLETE_FLUSH")
    BY <1>0, <1>7, <1>8, Zenon DEF Mail, LastMail
  <1>10. ~Mail("COMPLETE_STOP")' /\ ~Mail("COMPLETE_FLUSH")'
    BY <1>1, <1>8, <1>9, Zenon DEF Mail
  <1>11. Uncalled(V)'
    <2> DEFINE x == CallOn("onElementStopped", None, V)
    <2>1. x \in CallType /\ x.f = "onElementStopped"
      BY TypedOfSession, Distinct, Zenon
    <2>2. x.e = None
      BY <2>1, CallFields, Zenon
    <2>3. agenda # <<>>
      BY <1>5, Zenon DEF IsNext
    <2>4. \A i \in DOMAIN agenda' : \/ agenda'[i] = x
                                    \/ \E j \in DOMAIN agenda : j # 1 /\ agenda'[i] = agenda[j]
      BY <1>0, <1>1, <2>1, <2>3, LineOne, Zenon
    <2>5. ASSUME NEW j \in DOMAIN agenda, j # 1 PROVE agenda[j].e # V
      <3>1. Waits(agenda[j].f, agenda[j].e)
        BY <2>5, Zenon DEF Waits
      <3>2. agenda[j].f = "mboxCb"
        BY <1>5, <3>1, Zenon
      <3>3. agenda[j] \in CallType
        BY <1>0
      <3>. QED
        BY <3>2, <3>3, CallKinds, SMT
    <2> HIDE DEF x
    <2>. QED
      BY <1>0, <2>2, <2>4, <2>5, SMT DEF Uncalled
  <1>. QED
    BY <1>1, <1>2, <1>3, <1>10, <1>11, SMT

\* A step keeps DecoderGone.
LEMMA DecoderGoneKept ==
  ASSUME Going
  PROVE  DecoderGone'
  <1>1. SUFFICES ASSUME est'[V] \in Over
        PROVE  /\ Uncalled(V)' /\ ~Mail("COMPLETE_FLUSH")' /\ ~Mail("COMPLETE_STOP")'
               /\ ~dec'.mVdecStopPending /\ vdec'.cb \notin {"flush", "stop", "stopLoaded"}
               /\ vdec'.cb # "none" => est'[V] # "deleted"
    BY Zenon DEF DecoderGone
  <1>2. CASE est[V] \in Over
    BY <1>2, DecoderUncalled, DecoderQuiet, Zenon
  <1>3. CASE est[V] \notin Over
    <2>1. DecCompleteStop
      BY <1>1, <1>3, DecStates, SMT DEF Over
    <2>2. /\ Uncalled(V)' /\ ~Mail("COMPLETE_FLUSH")' /\ ~Mail("COMPLETE_STOP")'
          /\ ~dec'.mVdecStopPending /\ vdec'.cb = "none"
      BY <1>1, <1>3, <2>1, DecoderStops
    <2>. QED
      BY <2>2
  <1>. QED
    BY <1>2, <1>3

-----------------------------------------------------------------------------
(* The demuxer that is deleted, and all of AliveInv.                       *)

\* A step keeps DemuxerGone: its channels are gone when it stops.
LEMMA DemuxerGoneKept ==
  ASSUME Going
  PROVE  DemuxerGone'
  <1>0. /\ DemuxerGone /\ MediaInv /\ LifeInv /\ OrderInv /\ agenda \in Seq(CallType) /\ D # None
        /\ \A i \in DOMAIN agenda' : agenda'[i] \in CallType
    BY GoingTypes, AliveParts, OpenParts, Distinct, GoingFacts, Zenon
  <1>1. SUFFICES ASSUME est'[D] = "deleted" PROVE Uncalled(D)'
    BY Zenon DEF DemuxerGone
  <1>2. CASE est[D] = "deleted"
    <2>1. Uncalled(D)
      BY <1>0, <1>2, Zenon DEF DemuxerGone
    <2>2. /\ mState # "OPENED" /\ est[D] # "STARTED"
          /\ \A c \in SinkElements : link[c] # D
      <3>1. dmxOut = <<>>
        BY <1>0, <1>2, SMT DEF MediaInv, Gone
      <3>2. \A c : ~Contains(dmxOut, c)
        BY <3>1, SMT DEF Contains
      <3>. QED
        BY <1>0, <1>2, <3>2, SMT DEF MediaInv, LifeInv
    <2>3. ~(agenda # <<>> /\ agenda[1].e = D)
      BY <1>0, <2>1, Line, Zenon DEF Uncalled
    <2>4. ASSUME NEW i \in DOMAIN agenda', agenda'[i].e = D, Made(agenda'[i])
          PROVE  FALSE
      <3> DEFINE x == agenda'[i]
      <3>1. x \in CallType /\ x.e = D /\ ChannelMade(x) /\ DmxMade(x)
        BY <1>0, <2>4, Zenon DEF Made
      <3> HIDE DEF x
      <3>2. x.f \in {"onChannelFlushed", "onChannelUnlink"} => x.c \in SinkElements /\ link[x.c] = D
        BY <3>1, CallFields, SMT DEF ChannelMade
      <3>3. x.f \notin {"stop", "flush", "flushAt", "flushed", "channelFlushed"}
        BY <2>2, <2>3, <3>1, Zenon DEF DmxMade
      <3>. QED
        BY <2>2, <3>1, <3>2, <3>3, CallKinds, SMT
    <2>. QED
      BY <1>0, <2>1, <2>4, StaysUncalled, Zenon
  <1>3. CASE est[D] # "deleted"
    <2>1. MboxMessage /\ est' # est
      BY <1>1, <1>3, DmxStates, SMT
    <2>2. UNCHANGED agenda /\ Runs("mboxCb", None)
      BY <2>1, Zenon DEF MboxMessage, ElementDelete
    <2>3. agenda # <<>> /\ agenda[1].f = "mboxCb" /\ agenda[1].e = None
      BY <1>0, <2>2, Running, Zenon
    <2>4. IsLast(agenda[1])
      BY <2>3, Zenon DEF IsLast
    <2>5. \A f, e : Calls(f, e) <=> agenda[1].f = f /\ agenda[1].e = e
      BY <1>0, <2>3, <2>4, LastNow, Zenon
    <2>6. ASSUME NEW i \in DOMAIN agenda, agenda[i].e = D PROVE FALSE
      <3>1. Calls(agenda[i].f, D)
        BY <2>6, Zenon DEF Calls
      <3>. QED
        BY <1>0, <2>3, <2>5, <3>1, Zenon
    <2>. QED
      BY <2>2, <2>6, Zenon DEF Uncalled
  <1>. QED
    BY <1>2, <1>3

\* A step of an opened session keeps AliveInv.
LEMMA AliveKept ==
  ASSUME Going
  PROVE  AliveInv'
  <1>1. NoticedInv' /\ InputInv' /\ StopInv' /\ LeaveInv' /\ ToldInv'
    BY NoticedKept, InputKept, StopKept, LeaveKept, ToldKept
  <1>2. FlushCallInv' /\ AskInv' /\ GoneInv' /\ FlowInv' /\ EndInv'
    BY FlushCallKept, AskKept, GoneKept, FlowKept, EndKept
  <1>3. CountInv' /\ LastMail' /\ DecoderGone' /\ DemuxerGone'
    BY CountKept, LastMailKept, DecoderGoneKept, DemuxerGoneKept
  <1>4. "Resync" \in Allowed => RestInv'
    BY RestKept
  <1>. QED
    BY <1>1, <1>2, <1>3, <1>4, Zenon DEF AliveInv

-----------------------------------------------------------------------------
(* open().                                                                 *)

\* A session that opened: nothing is called, nothing was asked.
NewSession ==
    /\ JustOpened /\ DOMAIN agenda = {} /\ DOMAIN mMbox = {}
    /\ est[V] = "STARTED" => port[V]
    /\ dec.mCompleteStopPendingCount = 0
    /\ \A s \in Sinks : ~sink[s].mInputMedia /\ sink[s].mIsFlushed
    /\ appFlush = {}

\* open() posts no function about a media that is gone.
LEMMA OpenedKinds ==
  ASSUME NEW q, NEW v, Opened(q, v)
  PROVE  \A i \in DOMAIN q : q[i].cb \notin {"mediaRemoved", "sinkFlush"}
  <1>1. PICK n \in {3, 4} : /\ DOMAIN q = 1..n
                            /\ q[n] = Idle("ready", None) /\ q[n - 1] = Idle("openResponse", None)
                            /\ q[n - 2] = Idle("mediaAdded", D)
                            /\ n = 4 => q[1] = Idle("mediaAdded", V)
    BY Zenon DEF Opened
  <1>2. \A i \in 1..n : i = n \/ i = n - 1 \/ i = n - 2 \/ (n = 4 /\ i = 1)
    BY SMT
  <1>3. /\ Idle("ready", None).cb = "ready" /\ Idle("openResponse", None).cb = "openResponse"
        /\ Idle("mediaAdded", D).cb = "mediaAdded" /\ Idle("mediaAdded", V).cb = "mediaAdded"
    BY SMT DEF Idle
  <1>. QED
    BY <1>1, <1>2, <1>3, SMT

\* A new session has AliveInv.
LEMMA NewSessionAlive ==
  ASSUME NewSession'
  PROVE  AliveInv'
  <1>1. /\ JustOpened' /\ DOMAIN agenda' = {} /\ DOMAIN mMbox' = {}
        /\ est'[V] = "STARTED" => port'[V]
        /\ dec'.mCompleteStopPendingCount = 0
        /\ \A s \in Sinks : ~sink'[s].mInputMedia /\ sink'[s].mIsFlushed
        /\ appFlush' = {}
    BY Zenon DEF NewSession
  <1>2. /\ agenda' = <<>> /\ mMbox' = <<>>
        /\ est'[D] = "STARTED" /\ \A s \in Sinks : est'[s] = "none"
        /\ est'[V] \in {"none", "STARTING", "STARTED"}
        /\ ~dec'.mVdecStopPending /\ ~vdec'.stopping /\ vdec'.cb = "none"
        /\ \A s \in Sinks : link'[s] = None
        /\ \A i \in DOMAIN idle' : idle'[i].cb \notin {"mediaRemoved", "sinkFlush"}
    <2>1. Opened(idle', dec'.mOutputMedia)
      BY <1>1, Zenon DEF JustOpened
    <2>. QED
      BY <1>1, <2>1, OpenedKinds, Zenon DEF JustOpened
  <1>3. /\ \A f, e : ~Calls(f, e)' /\ ~IsNext(f, e)'
        /\ \A m : ~Mail(m)'
        /\ \A f, e, c : ~IsAbout(f, e, c)'
    BY <1>1, <1>2, Zenon DEF Calls, IsNext, Mail, IsAbout
  <1>4. \A s \in Sinks : ~Leaves(s)' /\ ~Asked(s)'
    BY <1>2, <1>3, SMT DEF Leaves, Asked
  <1>5. NoticedInv' /\ StopInv' /\ AskInv'
    <2>1. NoticedInv'
      BY <1>2, SMT DEF NoticedInv
    <2>2. StopInv'
      <3>1. "none" # "STOPPING"
        OBVIOUS
      <3>. QED
        BY <1>2, <1>3, <3>1, Zenon DEF StopInv
    <2>3. AskInv'
      BY <1>2, <1>4, SMT DEF AskInv
    <2>. QED
      BY <2>1, <2>2, <2>3
  <1>6. InputInv' /\ LeaveInv' /\ ToldInv' /\ FlushCallInv'
    <2>1. InputInv'
      BY <1>1, <1>2, <1>3, Zenon DEF InputInv
    <2>2. LeaveInv'
      BY <1>3, <1>4, Zenon DEF LeaveInv
    <2>3. ToldInv' /\ FlushCallInv'
      BY <1>3, Zenon DEF ToldInv, FlushCallInv
    <2>. QED
      BY <2>1, <2>2, <2>3
  <1>7. GoneInv' /\ EndInv' /\ LastMail' /\ DecoderGone' /\ DemuxerGone'
    <2>1. /\ "none" \notin Over /\ "STARTING" \notin Over /\ "STARTED" \notin Over
          /\ "none" \notin Ending /\ "STARTING" \notin Ending /\ "STARTED" \notin Ending
          /\ "STARTED" # "deleted"
      BY SMT DEF Over, Ending
    <2>2. est'[V] \notin Over /\ est'[V] \notin Ending
      BY <1>2, <2>1, Zenon
    <2>3. ~Ended'
      BY <2>2, Zenon DEF Ended
    <2>. QED
      BY <1>2, <2>1, <2>2, <2>3, Zenon DEF GoneInv, EndInv, LastMail, DecoderGone, DemuxerGone
  <1>8. FlowInv'
    BY <1>1, <1>2, <1>3, SMT DEF FlowInv
  <1>9. CountInv'
    <2>1. StopMails' = {}
      BY <1>1, Zenon DEF StopMails
    <2>2. Cardinality(StopMails') = 0
      BY <2>1, FS_EmptySet, Zenon
    <2>. QED
      BY <1>1, <1>3, <2>2, SMT DEF CountInv
  <1>10. RestInv'
    BY <1>1, Zenon DEF RestInv
  <1>. QED
    BY <1>5, <1>6, <1>7, <1>8, <1>9, <1>10, Zenon DEF AliveInv

\* An open() that succeeds gives a session with AliveInv, ...
LEMMA OpensAlive ==
  ASSUME Init, OpenOk \/ OpenWithoutDecoder
  PROVE  AliveInv' /\ mState' # "CREATED"
  <1>0. /\ agenda = <<>> /\ mMbox = <<>> /\ dec = NewDecoder /\ appFlush = {}
        /\ est = [e \in Elements |-> "none"]
        /\ port = [c \in SinkElements |-> FALSE]
        /\ sink = [s \in Sinks |-> NewSink]
        /\ V \in Elements /\ D \in Elements /\ D # V /\ V \in SinkElements
    BY Distinct, Zenon DEF Init
  <1>1. JustOpened'
    BY OpenOkKeeps, OpenWithoutDecoderKeeps
  <1>2. UNCHANGED <<agenda, mMbox, sink, appFlush>>
    BY Zenon DEF OpenOk, OpenWithoutDecoder
  <1>3. DOMAIN agenda' = {} /\ DOMAIN mMbox' = {}
    BY <1>0, <1>2, SMT
  <1>4. \A s \in Sinks : ~sink'[s].mInputMedia /\ sink'[s].mIsFlushed
    BY <1>0, <1>2, SMT DEF NewSink
  <1>5. dec'.mCompleteStopPendingCount = 0
    <2>1. \/ \E a, b : dec' = [dec EXCEPT !.mInputMedia = a, !.mOutputMedia = b]
          \/ dec' = [dec EXCEPT !.mInputMedia = TRUE]
      BY Zenon DEF OpenOk, OpenWithoutDecoder
    <2>2. dec \in DecType /\ dec.mCompleteStopPendingCount = 0
      BY <1>0, Before, SMT DEF NewDecoder
    <2>3. ASSUME NEW a, NEW b, dec' = [dec EXCEPT !.mInputMedia = a, !.mOutputMedia = b]
          PROVE  dec'.mCompleteStopPendingCount = 0
      BY <2>2, <2>3, Zenon DEF DecType
    <2>4. CASE dec' = [dec EXCEPT !.mInputMedia = TRUE]
      BY <2>2, <2>4, Zenon DEF DecType
    <2>. QED
      BY <2>1, <2>3, <2>4
  <1>6. est'[V] = "STARTED" => port'[V]
    <2>1. CASE OpenOk
      <3>1. /\ mElements' = {D} \cup (IF DecodeAll THEN {V} ELSE {})
            /\ est' = [e \in Elements |-> IF e \in mElements' THEN "STARTED" ELSE "none"]
            /\ port' = [port EXCEPT ![V] = DecodeAll]
        BY <2>1, Zenon DEF OpenOk
      <3>2. port'[V] = DecodeAll /\ (V \in mElements' => DecodeAll)
        BY <1>0, <3>1, Zenon
      <3>3. est'[V] = "STARTED" => V \in mElements'
        BY <1>0, <3>1, SMT
      <3>. QED
        BY <3>2, <3>3
    <2>2. CASE OpenWithoutDecoder
      <3>1. est' = [est EXCEPT ![D] = "STARTED", ![V] = "STARTING"]
        BY <2>2, Zenon DEF OpenWithoutDecoder
      <3>2. est'[V] = "STARTING"
        BY <1>0, <3>1, SMT
      <3>. QED
        BY <3>2
    <2>. QED
      BY <2>1, <2>2
  <1>7. appFlush' = {}
    BY <1>0, <1>2
  <1>8. NewSession'
    BY <1>1, <1>3, <1>4, <1>5, <1>6, <1>7, Zenon DEF NewSession
  <1>9. mState' # "CREATED"
    BY <1>1, SMT DEF JustOpened
  <1>. QED
    BY <1>8, <1>9, NewSessionAlive

\* ... and one that fails a session with FailedInv.
LEMMA OpensFailed ==
  ASSUME Init, OpenFails
  PROVE  FailedInv' /\ mState' = "CREATED"
  <1>0. /\ agenda = <<>> /\ mMbox = <<>> /\ appFlush = {} /\ mState = "CREATED"
        /\ est = [e \in Elements |-> "none"]
        /\ sink = [s \in Sinks |-> NewSink]
        /\ vdec = [flushing |-> FALSE, stopping |-> FALSE, busy |-> FALSE,
                   cb |-> "none", count |-> 0]
        /\ V \in Elements /\ D \in Elements /\ D # V /\ Sinks \subseteq Elements
        /\ V \notin Sinks /\ D \notin Sinks
    BY Distinct, Zenon DEF Init
  <1>1. /\ mElements' = {V} /\ est' = [est EXCEPT ![D] = "deleted", ![V] = "STARTED"]
        /\ idle' = <<Idle("mediaAdded", V), Idle("mediaAdded", D)>>
        /\ UNCHANGED <<agenda, mState, mMbox, vdec, sink, appFlush>>
    BY Zenon DEF OpenFails
  <1>2. /\ est'[D] = "deleted" /\ est'[V] = "STARTED" /\ \A s \in Sinks : est'[s] = "none"
    BY <1>0, <1>1, SMT
  <1>3. \A i \in DOMAIN idle' : idle'[i].cb \notin {"mediaRemoved", "sinkFlush"}
    BY <1>1, SMT DEF Idle
  <1>4. /\ vdec'.cb = "none" /\ ~vdec'.flushing /\ ~vdec'.stopping /\ ~vdec'.busy
    BY <1>0, <1>1, SMT
  <1>5. \A s \in Sinks : /\ sink'[s].mIsFlushed /\ ~sink'[s].mInputChannelFlushPending
                         /\ ~sink'[s].mVideoSinkListener
    BY <1>0, <1>1, SMT DEF NewSink
  <1>6. /\ DOMAIN agenda' = {} /\ mMbox' = <<>> /\ appFlush' = {} /\ D \notin mElements'
        /\ mState' = "CREATED"
    BY <1>0, <1>1, SMT
  <1>. QED
    BY <1>2, <1>3, <1>4, <1>5, <1>6, SMT DEF FailedInv

-----------------------------------------------------------------------------
(* A session that could not open.                                          *)

\* The parts of FailedInv.
LEMMA FailedParts ==
  ASSUME FailedInv
  PROVE  /\ est[D] = "deleted" /\ est[V] = "STARTED" /\ mMbox = <<>> /\ D \notin mElements
         /\ vdec.cb = "none" /\ ~vdec.flushing /\ ~vdec.stopping /\ ~vdec.busy
         /\ appFlush = {}
         /\ \A s \in Sinks : /\ est[s] \in {"none", "STARTED"} /\ sink[s].mIsFlushed
                             /\ ~sink[s].mInputChannelFlushPending
                             /\ sink[s].mVideoSinkListener => SourceOf(s) \in appMedia
         /\ \A i \in DOMAIN idle : idle[i].cb \notin {"mediaRemoved", "sinkFlush"}
         /\ \A i \in DOMAIN agenda : \/ agenda[i].f = "idle" /\ agenda[i].e = None
                                     \/ agenda[i].e \in Sinks /\ agenda[i].f \in {"flush", "flushDone", "completeStop"}
  BY Zenon DEF FailedInv

\* What is called of it.
FailedCall(f, e) == \/ f = "idle" /\ e = None
                    \/ e \in Sinks /\ f \in {"flush", "flushDone", "completeStop"}
\* What is called in a session that could not open.
LEMMA FailedRuns ==
  ASSUME FailedInv, agenda \in Seq(CallType), NEW f, NEW e, Runs(f, e)
  PROVE  FailedCall(f, e)
  <1>1. 1 \in DOMAIN agenda /\ agenda[1].f = f /\ agenda[1].e = e
    BY Running, Zenon
  <1>2. \A i \in DOMAIN agenda : FailedCall(agenda[i].f, agenda[i].e)
    BY FailedParts, Zenon DEF FailedCall
  <1>. QED
    BY <1>1, <1>2

\* What happens to it.
FailedStep ==
    \/ UNCHANGED vars \/ Close \/ RunIdle \/ ListenerIdle \/ EventDone
    \/ \E s \in Sinks : \/ StartVideoSink(s) \/ ResyncVideoSink(s) \/ SinkFlush(s)
                        \/ SinkFlushDone(s) \/ SinkCompleteStop(s)
\* The steps of such a session.
LEMMA FailedSteps ==
  ASSUME TypeOK, told.open, Tame, mState = "CREATED", FailedInv, [Next]_vars
  PROVE  FailedStep
  <1>0. /\ agenda \in Seq(CallType) /\ idle \in Seq(IdleType)
        /\ D \notin Sinks /\ V \notin Sinks /\ D # None /\ V # None /\ None \notin Sinks
    BY Distinct, Zenon DEF TypeOK
  <1>1. \A f, e : Runs(f, e) => FailedCall(f, e)
    BY <1>0, FailedRuns
  <1>2. ~ChannelStep
    <2>1. \A c : /\ ~FailedCall("channel.flush", c) /\ ~FailedCall("channel.flushDone", c)
                 /\ ~FailedCall("removeInputMedia", c) /\ ~FailedCall("deleteChannel", c)
      BY SMT DEF FailedCall
    <2>. QED
      BY <1>1, <2>1, Zenon DEF ChannelStep, ChannelFlush, ChannelFlushDone, RemoveInputMedia,
         DeleteChannel
  <1>3. ~DmxStep /\ ~DecStep
    <2>1. \A f : ~FailedCall(f, D) /\ ~FailedCall(f, V)
      BY <1>0, Zenon DEF FailedCall
    <2>. QED
      BY <1>1, <2>1, Zenon DEF DmxStep, DmxStop, DmxFlush, DmxFlushAt, DmxChannelCounted,
         DmxOnChannelFlushed, DmxChannelFlushed, DmxOnChannelUnlink, DecStep, DecStop,
         DecOnChannelFlush, DecFlush, VdecFlush, DecCompleteFlush, DecAfterFlush,
         DecTeardownOutputs, VdecStop, DecCompleteStop, DecOnChannelFlushed,
         DecOnChannelUnlink, DecResync
  <1>4. SinkStep => FailedStep
    <2>1. \A s : /\ ~FailedCall("stop", s) /\ ~FailedCall("onChannelTeardown", s)
                 /\ ~FailedCall("inputRemoved", s) /\ ~FailedCall("onChannelFlush", s)
      BY SMT DEF FailedCall
    <2>. QED
      BY <1>1, <2>1, Zenon DEF SinkStep, SinkStop, SinkTeardown, SinkInputRemoved,
         SinkOnChannelFlush, FailedStep
  <1>5. SessionStep => FailedStep
    <2>1. ~FailedCall("mboxCb", None) /\ ~FailedCall("onElementStopped", None)
      BY <1>0, SMT DEF FailedCall
    <2>2. ~MboxMessage /\ ~OnElementStopped
      BY <1>1, <2>1, Zenon DEF MboxMessage, OnElementStopped
    <2>3. IdleFunction => ListenerIdle
      <3>1. idle # <<>> => 1 \in DOMAIN idle /\ Head(idle) = idle[1]
        BY <1>0, SMT
      <3>2. idle # <<>> => idle[1].cb \notin {"mediaRemoved", "sinkFlush"}
        BY <3>1, FailedParts, Zenon
      <3>3. idle # <<>> => Head(idle).cb # "sinkFlush"
        BY <3>1, <3>2, SMT
      <3>4. IdleFunction => idle # <<>>
        BY Zenon DEF IdleFunction
      <3>. QED
        BY <3>3, <3>4, Zenon DEF ListenerIdle
    <2>. QED
      BY <2>2, <2>3, Zenon DEF SessionStep, FailedStep
  <1>6. AppEvent \/ RunIdle \/ RunMbox => FailedStep
    <2>1. "deleted" # "STARTED"
      OBVIOUS
    <2>2. ~Open /\ ~Play /\ ~RunMbox
      BY <2>1, FailedParts, Zenon DEF Open, Play, RunMbox
    <2>3. \A s \in Sinks : ~StopVideoSink(s) /\ ~VideoSinkQueueFlushed(s)
      BY FailedParts, Zenon DEF StopVideoSink, VideoSinkQueueFlushed, Tame
    <2>. QED
      BY <2>2, <2>3, Zenon DEF AppEvent, FailedStep
  <1>7. ~TimerFrame /\ ~TimerNoBuffer
    <2>1. "deleted" # "STARTED"
      OBVIOUS
    <2>. QED
      BY <2>1, FailedParts, Zenon DEF TimerFrame, TimerNoBuffer
  <1>8. ~VdecCallback /\ ~OutputError
    <2>1. vdec.cb = "none" /\ ~vdec.flushing /\ ~vdec.stopping /\ ~vdec.busy
      BY FailedParts
    <2>2. ~FlushCb /\ ~StopCb /\ ~OutputCb /\ ~OutputError
      BY <2>1, Zenon DEF FlushCb, StopCb, OutputCb, OutputError
    <2>3. ~FlushCbPost /\ ~StopCbCount /\ ~StopCbLoad /\ ~StopCbStore /\ ~OutputCbQueue
      BY <2>1, SMT DEF FlushCbPost, StopCbCount, StopCbLoad, StopCbStore, OutputCbQueue
    <2>. QED
      BY <2>2, <2>3, Zenon DEF VdecCallback
  <1>. QED
    BY <1>2, <1>3, <1>4, <1>5, <1>6, <1>7, <1>8, Zenon DEF Next, LoopStep, CallStep, FailedStep

\* An agenda of such calls, after a call that is one of them.
LEMMA FailedThen ==
  ASSUME FailedInv, agenda \in Seq(CallType), agenda # <<>>,
         NEW x \in CallType, FailedCall(x.f, x.e), Then(<<x>>)
  PROVE  \A i \in DOMAIN agenda' : FailedCall(agenda'[i].f, agenda'[i].e)
  <1>1. \A i \in DOMAIN agenda' : \/ agenda'[i] = x
                                  \/ \E j \in DOMAIN agenda : j # 1 /\ agenda'[i] = agenda[j]
    BY LineOne, Zenon
  <1>2. \A j \in DOMAIN agenda : FailedCall(agenda[j].f, agenda[j].e)
    BY FailedParts, Zenon DEF FailedCall
  <1>. QED
    BY <1>1, <1>2, Zenon

\* A call that makes none keeps such an agenda.
LEMMA FailedReturn ==
  ASSUME FailedInv, agenda \in Seq(CallType), agenda # <<>>, Return
  PROVE  \A i \in DOMAIN agenda' : FailedCall(agenda'[i].f, agenda'[i].e)
  <1>1. \A i \in DOMAIN agenda' : \E j \in DOMAIN agenda : j # 1 /\ agenda'[i] = agenda[j]
    BY LineNone, Zenon
  <1>2. \A j \in DOMAIN agenda : FailedCall(agenda[j].f, agenda[j].e)
    BY FailedParts, Zenon DEF FailedCall
  <1>. QED
    BY <1>1, <1>2, Zenon

\* What such a step leaves alone, and what it does to the agenda, to what is
\* posted and to the medias.
LEMMA FailedCalls ==
  ASSUME TypeOK, FailedInv, mState = "CREATED", FailedStep
  PROVE  \A i \in DOMAIN agenda' : FailedCall(agenda'[i].f, agenda'[i].e)
  <1>0. agenda \in Seq(CallType)
    BY Zenon DEF TypeOK
  <1>a. UNCHANGED agenda => \A i \in DOMAIN agenda' : FailedCall(agenda'[i].f, agenda'[i].e)
    BY FailedParts, Zenon DEF FailedCall
  <1>1. CASE UNCHANGED vars \/ Close \/ \E s \in Sinks : StartVideoSink(s)
    <2>1. mState # "OPENED"
      BY SMT
    <2>2. UNCHANGED agenda
      BY <1>1, <2>1, Zenon DEF vars, Close, StartVideoSink
    <2>. QED
      BY <1>a, <2>2, Zenon
  <1>2. CASE RunIdle
    <2>1. agenda' = <<Call("idle", None)>>
      BY <1>2, Zenon DEF RunIdle
    <2>2. DOMAIN agenda' = {1} /\ agenda'[1].f = "idle" /\ agenda'[1].e = None
      BY <2>1, SMT DEF Call
    <2>. QED
      BY <2>2, Zenon DEF FailedCall
  <1>3. CASE ListenerIdle
    <2>1. UNCHANGED agenda
      BY <1>3, Zenon DEF ListenerIdle, IdleFunction, CallListener
    <2>. QED
      BY <1>a, <2>1, Zenon
  <1>4. CASE EventDone
    <2>1. agenda # <<>> /\ Return
      BY <1>4, Zenon DEF EventDone, Runs
    <2>. QED
      BY <1>0, <2>1, FailedReturn, Zenon
  <1>5. ASSUME NEW s \in Sinks, ResyncVideoSink(s)
        PROVE  \A i \in DOMAIN agenda' : FailedCall(agenda'[i].f, agenda'[i].e)
    <2>1. agenda' = <<Call("flush", s)>>
      BY <1>5, Zenon DEF ResyncVideoSink
    <2>2. DOMAIN agenda' = {1} /\ agenda'[1].f = "flush" /\ agenda'[1].e = s
      BY <2>1, SMT DEF Call
    <2>. QED
      BY <2>2, SMT DEF FailedCall
  <1>6. ASSUME NEW s \in Sinks, SinkFlush(s)
        PROVE  \A i \in DOMAIN agenda' : FailedCall(agenda'[i].f, agenda'[i].e)
    <2>1. Then(<<Call("flushDone", s)>>) /\ agenda # <<>>
      BY <1>6, FailedParts, Zenon DEF SinkFlush, Runs
    <2>2. /\ Call("flushDone", s) \in CallType
          /\ Call("flushDone", s).f = "flushDone" /\ Call("flushDone", s).e = s
      BY TypedOfSink, SMT
    <2>3. FailedCall(Call("flushDone", s).f, Call("flushDone", s).e)
      BY <2>2, SMT DEF FailedCall
    <2>. QED
      BY <1>0, <2>1, <2>2, <2>3, FailedThen, Zenon
  <1>7. ASSUME NEW s \in Sinks, SinkFlushDone(s)
        PROVE  \A i \in DOMAIN agenda' : FailedCall(agenda'[i].f, agenda'[i].e)
    <2>1. Then(<<Call("completeStop", s)>>) /\ agenda # <<>>
      BY <1>7, FailedParts, Zenon DEF SinkFlushDone, Runs
    <2>2. /\ Call("completeStop", s) \in CallType
          /\ Call("completeStop", s).f = "completeStop" /\ Call("completeStop", s).e = s
      BY TypedOfSink, SMT
    <2>3. FailedCall(Call("completeStop", s).f, Call("completeStop", s).e)
      BY <2>2, SMT DEF FailedCall
    <2>. QED
      BY <1>0, <2>1, <2>2, <2>3, FailedThen, Zenon
  <1>8. ASSUME NEW s \in Sinks, SinkCompleteStop(s)
        PROVE  \A i \in DOMAIN agenda' : FailedCall(agenda'[i].f, agenda'[i].e)
    <2>1. est[s] # "STOPPING"
      BY FailedParts, SMT
    <2>2. Return /\ agenda # <<>>
      BY <1>8, <2>1, Zenon DEF SinkCompleteStop, Runs
    <2>. QED
      BY <1>0, <2>2, FailedReturn, Zenon
  <1>. QED
    BY <1>1, <1>2, <1>3, <1>4, <1>5, <1>6, <1>7, <1>8, Zenon DEF FailedStep

\* A step keeps FailedInv.
LEMMA FailedKept ==
  ASSUME TypeOK, told.open, Tame, mState = "CREATED", FailedInv, [Next]_vars
  PROVE  FailedInv' /\ mState' = "CREATED"
  <1>0. /\ idle \in Seq(IdleType) /\ sink \in [Sinks -> SinkType]
        /\ est \in [Elements -> ElementStates]
        /\ D \notin Sinks /\ V \notin Sinks /\ D # V
        /\ D \in Elements /\ V \in Elements /\ Sinks \subseteq Elements
        /\ mState # "OPENED"
    BY Distinct, SMT DEF TypeOK
  <1>1. FailedStep
    BY FailedSteps
  <1>2. ASSUME NEW s \in Sinks PROVE est[s] # "STOPPING" /\ ~sink[s].mInputChannelFlushPending /\ sink[s].mIsFlushed
    <2>1. est[s] \in {"none", "STARTED"} /\ ~sink[s].mInputChannelFlushPending /\ sink[s].mIsFlushed
      BY FailedParts, Zenon
    <2>. QED
      BY <2>1
  <1>3. UNCHANGED <<mMbox, vdec, appFlush, mState>>
    BY <1>0, <1>1, Zenon DEF FailedStep, vars, sessionVars, appVars, Close, RunIdle, ListenerIdle,
       IdleFunction, CallListener, EventDone, StartVideoSink, ResyncVideoSink, SinkFlush,
       SinkFlushDone, SinkCompleteStop, otherThanSinks
  <1>4. UNCHANGED <<est, mElements, sink>> \/ \E s \in Sinks : StartVideoSink(s)
    BY <1>1, <1>2, Zenon DEF FailedStep, vars, sessionVars, appVars, Close, RunIdle, ListenerIdle,
       IdleFunction, CallListener, EventDone, ResyncVideoSink, SinkFlush,
       SinkFlushDone, SinkCompleteStop, otherThanSinks
  <1>5. \/ UNCHANGED idle
        \/ idle' = Append(idle, Idle("closeResponse", None))
        \/ idle # <<>> /\ idle' = Tail(idle)
    BY <1>0, <1>1, <1>2, Zenon DEF FailedStep, vars, sessionVars, appVars, Close, RunIdle,
       ListenerIdle, IdleFunction, CallListener, EventDone, ResyncVideoSink, SinkFlush,
       SinkFlushDone, SinkCompleteStop, StartVideoSink, otherThanSinks, IdleAdd
  <1>6. appMedia \subseteq appMedia'
    <2>1. CASE ListenerIdle
      <3>1. /\ idle # <<>> /\ appMedia' = CASE Head(idle).cb = "mediaAdded" -> appMedia \cup {Head(idle).e}
                           [] Head(idle).cb = "mediaRemoved" -> appMedia \ {Head(idle).e}
                           [] OTHER -> appMedia
        BY <2>1, Zenon DEF ListenerIdle, IdleFunction, CallListener
      <3>2. 1 \in DOMAIN idle /\ Head(idle) = idle[1]
        BY <1>0, <3>1, SMT
      <3>3. idle[1].cb \notin {"mediaRemoved", "sinkFlush"}
        BY <3>2, FailedParts, Zenon
      <3>4. Head(idle).cb # "mediaRemoved"
        BY <3>2, <3>3
      <3>. QED
        BY <3>1, <3>4, SMT
    <2>2. CASE ~ListenerIdle
      BY <1>1, <2>2, Zenon DEF FailedStep, vars, appVars, Close, RunIdle, EventDone,
         ResyncVideoSink, SinkFlush, SinkFlushDone, SinkCompleteStop, StartVideoSink,
         otherThanSinks
    <2>. QED
      BY <2>1, <2>2
  <1>7. \A i \in DOMAIN idle' : idle'[i].cb \notin {"mediaRemoved", "sinkFlush"}
    <2>1. \A i \in DOMAIN idle : idle[i].cb \notin {"mediaRemoved", "sinkFlush"}
      BY FailedParts, Zenon
    <2>2. CASE idle' = Append(idle, Idle("closeResponse", None))
      <3>1. Idle("closeResponse", None).cb = "closeResponse" /\ Idle("closeResponse", None) \in IdleType
        BY SMT DEF Idle, IdleType, Answers
      <3>. QED
        BY <1>0, <2>1, <2>2, <3>1, AppendContains, SMT
    <2>3. CASE idle # <<>> /\ idle' = Tail(idle)
      BY <1>0, <2>1, <2>3, TailOfSeq, SMT
    <2>. QED
      BY <1>5, <2>1, <2>2, <2>3, Zenon
  <1>8. /\ est'[D] = "deleted" /\ est'[V] = "STARTED" /\ D \notin mElements'
        /\ \A s \in Sinks : /\ est'[s] \in {"none", "STARTED"} /\ sink'[s].mIsFlushed
                            /\ ~sink'[s].mInputChannelFlushPending
                            /\ sink'[s].mVideoSinkListener => SourceOf(s) \in appMedia'
    <2>0. /\ est[D] = "deleted" /\ est[V] = "STARTED" /\ D \notin mElements
          /\ \A s \in Sinks : /\ est[s] \in {"none", "STARTED"} /\ sink[s].mIsFlushed
                              /\ ~sink[s].mInputChannelFlushPending
                              /\ sink[s].mVideoSinkListener => SourceOf(s) \in appMedia
      BY FailedParts, Zenon
    <2>1. CASE UNCHANGED <<est, mElements, sink>>
      BY <1>6, <2>0, <2>1, SMT
    <2>2. ASSUME NEW t \in Sinks, StartVideoSink(t)
          PROVE  /\ est'[D] = "deleted" /\ est'[V] = "STARTED" /\ D \notin mElements'
                 /\ \A s \in Sinks : /\ est'[s] \in {"none", "STARTED"} /\ sink'[s].mIsFlushed
                                     /\ ~sink'[s].mInputChannelFlushPending
                                     /\ sink'[s].mVideoSinkListener => SourceOf(s) \in appMedia'
      <3>1. /\ SourceOf(t) \in appMedia /\ mElements' = mElements \cup {t}
            /\ est' = [est EXCEPT ![t] = "STARTED"]
            /\ sink' = [sink EXCEPT ![t].mInputMedia = TRUE, ![t].mVideoSinkListener = TRUE]
        BY <2>2, Zenon DEF StartVideoSink
      <3>2. /\ est'[D] = "deleted" /\ est'[V] = "STARTED" /\ D \notin mElements'
            /\ \A s \in Sinks : est'[s] \in {"none", "STARTED"}
        BY <1>0, <2>0, <3>1, SMT
      <3>3. ASSUME NEW s \in Sinks
            PROVE  /\ sink'[s].mIsFlushed = sink[s].mIsFlushed
                   /\ sink'[s].mInputChannelFlushPending = sink[s].mInputChannelFlushPending
                   /\ s # t => sink'[s] = sink[s]
        BY <1>0, <3>1, SMT DEF SinkType
      <3>4. \A s \in Sinks : /\ sink'[s].mIsFlushed /\ ~sink'[s].mInputChannelFlushPending
                             /\ sink'[s].mVideoSinkListener => SourceOf(s) \in appMedia'
        BY <1>6, <2>0, <3>1, <3>3, Zenon
      <3>. QED
        BY <3>2, <3>4, Zenon
    <2>. QED
      BY <1>4, <2>1, <2>2, Zenon
  <1>9. \A i \in DOMAIN agenda' :
            \/ agenda'[i].f = "idle" /\ agenda'[i].e = None
            \/ agenda'[i].e \in Sinks /\ agenda'[i].f \in {"flush", "flushDone", "completeStop"}
    BY <1>1, FailedCalls, Zenon DEF FailedCall
  <1>10. /\ mMbox' = <<>> /\ vdec'.cb = "none" /\ ~vdec'.flushing /\ ~vdec'.stopping /\ ~vdec'.busy
         /\ appFlush' = {} /\ mState' = "CREATED"
    BY <1>3, FailedParts
  <1>. QED
    BY <1>7, <1>8, <1>9, <1>10, Zenon DEF FailedInv

-----------------------------------------------------------------------------
(* SafeInv is an invariant.                                                *)

\* The initial states have SafeInv.
LEMMA InitSafe ==
  ASSUME Init
  PROVE  SafeInv
  <1>1. mState = "CREATED" /\ told.open = FALSE
    BY Before, SMT
  <1>. QED
    BY <1>1, Zenon DEF SafeInv

\* Every step keeps SafeInv.
LEMMA SafeKept ==
  ASSUME Tame, Known, Known', SafeInv, [Next]_vars
  PROVE  SafeInv'
  <1>0. TypeOK /\ AnswerInv
    BY Zenon DEF Known, PipelineInv
  <1>1. CASE mState # "CREATED"
    <2>1. Going
      BY <1>1, Zenon DEF Going, SafeInv
    <2>. QED
      BY <2>1, AliveKept, StillOpen, Zenon DEF SafeInv
  <1>2. CASE mState = "CREATED" /\ told.open
    <2>1. FailedInv
      BY <1>2, Zenon DEF SafeInv
    <2>2. FailedInv' /\ mState' = "CREATED"
      BY <1>0, <1>2, <2>1, FailedKept
    <2>. QED
      BY <2>2, Zenon DEF SafeInv
  <1>3. CASE mState = "CREATED" /\ ~told.open
    <2>1. Init
      BY <1>0, <1>3, Zenon DEF AnswerInv
    <2>2. Open \/ UNCHANGED vars
      BY <2>1, FromInit
    <2>3. CASE Open
      <3>1. CASE OpenFails
        <4>1. FailedInv' /\ mState' = "CREATED"
          BY <2>1, <3>1, OpensFailed
        <4>. QED
          BY <4>1, Zenon DEF SafeInv
      <3>2. CASE OpenOk \/ OpenWithoutDecoder
        <4>1. AliveInv' /\ mState' # "CREATED"
          BY <2>1, <3>2, OpensAlive
        <4>. QED
          BY <4>1, Zenon DEF SafeInv
      <3>. QED
        BY <2>3, <3>1, <3>2, ZenonT(60) DEF Open
    <2>4. CASE UNCHANGED vars
      <3>1. mState' = mState /\ told' = told
        BY <2>4, Zenon DEF vars, sessionVars, appVars
      <3>. QED
        BY <1>3, <3>1, Zenon DEF SafeInv
    <2>. QED
      BY <2>2, <2>3, <2>4
  <1>. QED
    BY <1>1, <1>2, <1>3

\* What SafeInv says of the functions that are called.
LEMMA AliveNoUse ==
  ASSUME TypeOK, AliveInv
  PROVE  NoUseAfterDelete
  <1>0. /\ GoneInv /\ DecoderGone /\ DemuxerGone
        /\ agenda \in Seq(CallType) /\ idle \in Seq(IdleType)
    BY AliveParts, Zenon DEF TypeOK
  <1>1. ASSUME agenda # <<>> PROVE Exists(Head(agenda).e)
    <2>1. 1 \in DOMAIN agenda /\ Head(agenda) = agenda[1]
      BY <1>0, <1>1, SMT
    <2>2. ~Uncalled(Head(agenda).e)
      BY <2>1, Zenon DEF Uncalled
    <2>3. ASSUME NEW e \in Elements, est[e] = "deleted" PROVE Uncalled(e)
      <3>1. "deleted" \in Over
        BY SMT DEF Over
      <3>2. e = D \/ e = V \/ e \in Sinks
        BY Distinct, Zenon
      <3>. QED
        BY <1>0, <2>3, <3>1, <3>2, Zenon DEF GoneInv, DecoderGone, DemuxerGone
    <2>. QED
      BY <2>2, <2>3, Zenon DEF Exists
  <1>2. ASSUME idle # <<>>, Head(idle).cb = "sinkFlush" PROVE Exists(Head(idle).e)
    <2>1. 1 \in DOMAIN idle /\ Head(idle) = idle[1] /\ idle[1] \in IdleType
      BY <1>0, <1>2, SMT
    <2>2. idle[1].e \in Sinks
      BY <1>2, <2>1, SMT DEF IdleType, Answers
    <2>3. Asked(idle[1].e)
      BY <1>2, <2>1, Zenon DEF Asked
    <2>4. est[idle[1].e] \notin Over
      BY <1>0, <2>2, <2>3, Zenon DEF GoneInv
    <2>. QED
      BY <2>1, <2>4, SMT DEF Exists, Over
  <1>3. vdec.cb # "none" => Exists(V)
    BY <1>0, SMT DEF DecoderGone, Exists, Over
  <1>. QED
    BY <1>1, <1>2, <1>3, Zenon DEF NoUseAfterDelete

\* FailedInv says that nothing deleted is called.
LEMMA FailedNoUse ==
  ASSUME TypeOK, FailedInv
  PROVE  NoUseAfterDelete
  <1>0. agenda \in Seq(CallType) /\ idle \in Seq(IdleType) /\ None \notin Elements
    BY Distinct, Zenon DEF TypeOK
  <1>1. ASSUME agenda # <<>> PROVE Exists(Head(agenda).e)
    <2>1. 1 \in DOMAIN agenda /\ Head(agenda) = agenda[1]
      BY <1>0, <1>1, SMT
    <2>2. agenda[1].e = None \/ agenda[1].e \in Sinks
      BY <2>1, FailedParts, Zenon
    <2>3. \A s \in Sinks : est[s] # "deleted"
      BY FailedParts, SMT
    <2>. QED
      BY <1>0, <2>1, <2>2, <2>3, Zenon DEF Exists
  <1>2. idle # <<>> => Head(idle).cb # "sinkFlush"
    <2>1. idle # <<>> => 1 \in DOMAIN idle /\ Head(idle) = idle[1]
      BY <1>0, SMT
    <2>2. idle # <<>> => idle[1].cb \notin {"mediaRemoved", "sinkFlush"}
      BY <2>1, FailedParts, Zenon
    <2>. QED
      BY <2>1, <2>2, SMT
  <1>. QED
    BY <1>1, <1>2, FailedParts, Zenon DEF NoUseAfterDelete

\* So does SafeInv.
LEMMA SafeNoUse ==
  ASSUME TypeOK, AnswerInv, SafeInv
  PROVE  NoUseAfterDelete
  <1>1. CASE mState # "CREATED"
    BY <1>1, AliveNoUse, Zenon DEF SafeInv
  <1>2. CASE mState = "CREATED" /\ told.open
    BY <1>2, FailedNoUse, Zenon DEF SafeInv
  <1>3. CASE ~told.open
    <2>1. agenda = <<>> /\ vdec.cb = "none"
      BY <1>3, Before, Zenon DEF AnswerInv
    <2>. QED
      BY <2>1, Zenon DEF NoUseAfterDelete
  <1>. QED
    BY <1>1, <1>2, <1>3

\* While the session runs its elements, their calls, messages and callbacks fit
\* together as SafeInv says.
THEOREM SafeInvariance ==
  ASSUME "Preempt" \notin Allowed, "StopAnytime" \notin Allowed, MaxErrors = 0,
         "Resync" \notin Allowed \/ (H264Sinks = {} /\ "SeekAnytime" \notin Allowed)
  PROVE  Spec => []SafeInv
  <1> DEFINE Counted == errors \in Nat
             Flushes == "Resync" \in Allowed => FlushInv
  <1>1. Tame
    BY Zenon DEF Tame
  <1>2. Init => SafeInv /\ Counted
    <2>1. Init => errors = 0
      BY Zenon DEF Init
    <2>. QED
      BY <2>1, InitSafe, SMT
  <1>3. Counted /\ [Next]_vars => Counted'
    BY ErrorsCounted
  <1>4. ASSUME PipelineInv, ChainInv, Counted, Flushes, PipelineInv', ChainInv', Counted', Flushes',
               SafeInv, [Next]_vars
        PROVE  SafeInv'
    <2>1. Known /\ Known'
      BY <1>4, Zenon DEF Known
    <2>. QED
      BY <1>1, <1>4, <2>1, SafeKept
  <1>5. Spec => []Flushes
    <2>1. CASE "Resync" \in Allowed
      <3>1. Spec => []FlushInv
        BY <2>1, FlushInvariance
      <3>2. FlushInv => Flushes
        OBVIOUS
      <3>. QED
        BY <3>1, <3>2, PTL
    <2>2. CASE "Resync" \notin Allowed
      <3>1. Flushes
        BY <2>2
      <3>. QED
        BY <3>1, PTL
    <2>. QED
      BY <2>1, <2>2
  <1> HIDE DEF Counted, Flushes
  <1>. QED
    BY <1>2, <1>3, <1>4, <1>5, PipelineInvariance, ChainInvariance, PTL DEF Spec

\* No function of a deleted element is called, by a message, an idle function,
\* another element or the decoding library.
THEOREM NothingDeletedIsCalled ==
  ASSUME "Preempt" \notin Allowed, "StopAnytime" \notin Allowed, MaxErrors = 0,
         "Resync" \notin Allowed \/ (H264Sinks = {} /\ "SeekAnytime" \notin Allowed)
  PROVE  Spec => []NoUseAfterDelete
  <1>1. PipelineInv /\ SafeInv => NoUseAfterDelete
    BY SafeNoUse, Zenon DEF PipelineInv
  <1>. QED
    BY <1>1, PipelineInvariance, SafeInvariance, PTL

===============================================================================
