--------------------- MODULE PdrawPipeline_flush_proofs ----------------------
(***************************************************************************)
(* Proofs about the flushes of PdrawPipeline, for any sinks.               *)
(*                                                                         *)
(* ChainInv holds of every session: what the calls in progress on the loop *)
(* thread may be, in which order they are made, and which channels they    *)
(* are about.  With it, FlushInv follows a flush from the demuxer through  *)
(* the decoder to the sinks and back, when one flush is made at a time.    *)
(* FlushedIsEmpty and PlaybackResumes are consequences.                    *)
(***************************************************************************)
EXTENDS PdrawPipeline_proofs

-----------------------------------------------------------------------------
(* The chain of calls.                                                     *)

\* A message of this kind is in the mailbox.
Mail(cmd) == \E i \in DOMAIN mMbox : mMbox[i].cmd = cmd
\* The next call is of f of e; one of the calls after it is; a loop of flush()
\* of the demuxer is at its channel i.
IsNext(f, e) == agenda # <<>> /\ agenda[1].f = f /\ agenda[1].e = e
Waits(f, e) == \E i \in DOMAIN agenda : i # 1 /\ agenda[i].f = f /\ agenda[i].e = e
LoopAt(k) == \E i \in DOMAIN agenda : agenda[i].f = "flushAt" /\ agenda[i].i = k

\* Calls that are made at once.
Immediate == {"stop", "resync", "removeInputMedia", "flush", "onChannelFlush",
              "completeFlush", "flushDone", "channel.flushDone", "onChannelFlushed",
              "onChannelUnlink"}
AtOnce(y) == y.f \in Immediate \/ (y.e = V /\ y.f \in {"channel.flush", "completeStop"})

\* The last call of a chain.
IsLast(x) == \/ x.f \in {"idle", "mboxCb", "stop"}
             \/ x.e = D /\ x.f \in {"flush", "flushAt", "flushed"}

\* Calls made while the outputs of the decoder are flushed.
DownCall(l, x) ==
    \/ /\ x.e \in Sinks /\ l[x.e] # D
       /\ x.f \in {"channel.flush", "onChannelFlush", "flush", "flushDone",
                   "channel.flushDone", "completeStop"}
    \/ x.f = "onElementStopped"
    \/ x.e = V /\ x.f = "onChannelFlushed"

\* y may be called after x, when channels are linked as l says.
MayFollow(l, x, y) ==
    /\ ~AtOnce(y) /\ ~IsLast(x)
    /\ y.f \in {"vdec_flush", "channel.flush"} => DownCall(l, x)
    /\ y.f = "channel.flush" => l[y.e] = V
    /\ y.f = "deleteChannel" => l[y.e] = None \/ (x.f = "onChannelUnlink" /\ x.c = y.e)
    /\ x.f = "completeStop" /\ x.e = V => y.f = "mboxCb"

\* Each call that waits may be made after those before it.
OrderInv == \A i, j \in DOMAIN agenda : i < j => MayFollow(link, agenda[i], agenda[j])

\* What is next is about a channel that is there.
Sound(l, x) ==
    /\ x.f = "channel.flush" => l[x.e] # None
    /\ x.f = "deleteChannel" => l[x.e] = None
    /\ x.f \in {"onChannelFlushed", "onChannelUnlink"} => l[x.c] = x.e
NextInv == agenda # <<>> => Sound(link, agenda[1])

\* The decoder is torn down once it is stopped.
Tearing(x) == \/ x.e = V /\ x.f \in {"removeInputMedia", "deleteChannel", "teardownOutputs",
                                      "vdec_stop", "completeStop"}
              \/ x.c = V /\ x.f = "onChannelUnlink"
TornCalls == \A i \in DOMAIN agenda : Tearing(agenda[i]) => est[V] # "STARTED"
TornState == \/ vdec.stopping \/ dec.mVdecStopPending \/ vdec.cb \in {"stop", "stopLoaded"}
             \/ Mail("COMPLETE_STOP")
             => est[V] # "STARTED"

\* A channel that is gone waits for nothing and is linked to nothing; a channel
\* is an output of what it is linked to, once, and of nothing else.
OnceIn(out) == \A i, j \in DOMAIN out : out[i] = out[j] => i = j
LinkInv ==
    /\ \A c \in SinkElements : ~port[c] => ~mFlushPending[c] /\ link[c] = None
    /\ \A s \in Sinks : est[s] = "none" => ~port[s] /\ sink[s].mIsFlushed
    /\ \A c \in SinkElements : /\ link[c] = D <=> Contains(dmxOut, c)
                               /\ link[c] = V <=> Contains(dec.out, c)
    /\ OnceIn(dmxOut) /\ OnceIn(dec.out)
CallInv == OrderInv /\ NextInv /\ TornCalls
ChainInv == CallInv /\ TornState /\ LinkInv

-----------------------------------------------------------------------------
(* A flush.                                                                *)

Playing == est[D] = "STARTED"
Decoding == est[V] = "STARTED"
Flushing == dec.mInputChannelFlushPending

\* Nobody asks for a resync: there are no errors.
NoResync == ~Mail("RESYNC") /\ ~IsNext("resync", V)

\* The demuxer has one output at most, the decoder; while it plays its output
\* is decoded, and nothing is in vdec when it has none.
OutputInv ==
    /\ dmxOut = <<>> \/ dmxOut = <<V>>
    /\ Playing => /\ mState # "CREATED" /\ dmxMedia
                  /\ dmxOut # <<>> => Decoding
                  /\ ~Calls("onChannelTeardown", V)
                  /\ vdec.busy => dmxOut # <<>>

\* A frame leaves vdec while nothing is flushed.
OutputCbInv == vdec.cb = "output" =>
    Decoding /\ vdec.busy /\ ~Flushing /\ ~dec.mVdecFlushPending

\* A decoder that is flushed is empty, and so are the sinks after it.
EmptyInv == Decoding /\ dec.mIsFlushed =>
    ~vdec.busy /\ \A s \in Sinks : link[s] = V => sink[s].mIsFlushed

\* Once flush() of the decoder was called each part it waits for is empty or
\* has still to answer.
OnItsWay == Decoding /\ Flushing /\ ~dec.mIsFlushed /\ ~IsNext("flush", V) =>
    /\ dec.mVdecFlushPending \/ ~vdec.busy
    /\ \A s \in Sinks : link[s] = V =>
          mFlushPending[s] \/ sink[s].mIsFlushed \/ Calls("channel.flush", s)

\* A sink answers once it is empty.
SinkAnswer == \A s \in Sinks :
    IsNext("channel.flushDone", s) /\ mFlushPending[s] /\ link[s] = V /\ Decoding =>
        sink[s].mIsFlushed

\* A part of the decoder has still to be flushed; they all are, and the loop
\* thread is told.
PartPending == \/ vdec.cb = "flush" \/ vdec.flushing \/ Calls("vdec_flush", V)
               \/ IsNext("onChannelFlushed", V)
               \/ \E s \in Sinks : \/ link[s] = V /\ mFlushPending[s]
                                   \/ Calls("channel.flush", s)
Told == Mail("COMPLETE_FLUSH") \/ IsNext("completeFlush", V)

\* Parts are flushed because a flush was asked for.
AskedInv == Decoding => /\ PartPending \/ Told => Flushing \/ dec.mIsFlushed
                        /\ IsNext("flush", V) => Flushing

\* When no flush was asked for none of the parts is in one: those of the last
\* one have all answered.
QuietInv == Playing /\ ~Flushing => /\ ~PartPending /\ ~dec.mVdecFlushPending
                                    /\ Told => Calls("mboxCb", None)

\* vdec is flushed once at a time, and the end of a flush is learned from a
\* message.
VdecInv == Playing =>
    /\ vdec.flushing \/ Calls("vdec_flush", V) => dec.mVdecFlushPending
    /\ ~(vdec.flushing /\ Calls("vdec_flush", V))
    /\ IsNext("completeFlush", V) \/ IsNext("channel.flushDone", V) => Calls("mboxCb", None)

\* A flush of the demuxer that has not reached the decoder; the request to the
\* decoder; its answer.
NotBegun == IsNext("flush", D) \/ IsNext("channel.flush", V) \/ LoopAt(1)
Asks == IsNext("onChannelFlush", V) \/ IsNext("flush", V)
\* A flush reaches a decoder that is not in one.
BeginInv == Playing =>
    /\ NotBegun \/ Asks => /\ dmxOut = <<V>> /\ ~dec.mIsFlushed /\ ~vdec.flushing
                           /\ ~dec.mVdecFlushPending /\ ~Calls("vdec_flush", V)
    /\ Asks => mFlushPending[V]
Answered == IsNext("onChannelFlushed", D) \/ IsNext("channelFlushed", D)
\* While its output is flushed the demuxer counts it and its timer is stopped;
\* the answer comes once, and the timer is armed then.
TimerInv == Playing =>
    /\ NotBegun => mRunning /\ ~mTimer /\ ~mFlushPending[V]
    /\ mFlushPending[V] => /\ mRunning /\ ~mTimer /\ dmxOut = <<V>>
                           /\ mChannelsFlushing = IF Calls("flushed", D) THEN 0 ELSE 1
    /\ Answered => /\ mRunning /\ mChannelsFlushing = 1 /\ ~mFlushPending[V] /\ ~mTimer
                   /\ ~Flushing /\ Calls("mboxCb", None)
    /\ ~mFlushPending[V] /\ ~Answered => mChannelsFlushing = 0
    /\ mTimer => mRunning
    /\ mRunning => mTimer \/ NotBegun \/ mFlushPending[V] \/ Answered
    /\ Flushing => mFlushPending[V]
    /\ IsNext("channel.flushDone", V) => ~Flushing
    /\ IsNext("channel.flush", V) => Calls("flushed", D)
    /\ ~Waits("channelFlushed", D)
\* flush() of the demuxer goes through one channel.
LoopInv == Playing => \A i \in DOMAIN agenda :
    /\ agenda[i].f \in {"flushAt", "flushed"} => agenda[i].n = 1 /\ agenda[i].i \in {1, 2}
    /\ agenda[i].f = "flushed" =>
           agenda[i].i = 1 /\ (mFlushPending[V] \/ IsNext("channel.flush", V))
    /\ agenda[i].f = "flushAt" /\ agenda[i].i # 1 => mFlushPending[V]

FlushInv == /\ OutputInv /\ NoResync /\ OutputCbInv /\ EmptyInv /\ OnItsWay /\ SinkAnswer
            /\ AskedInv /\ QuietInv /\ VdecInv /\ BeginInv /\ TimerInv /\ LoopInv

-----------------------------------------------------------------------------
(* The chain after a call.                                                 *)

LoopWaits(k) ==
    \E i \in DOMAIN agenda : i # 1 /\ agenda[i].f = "flushAt" /\ agenda[i].i = k

\* The next call and those that wait.
LEMMA Line ==
  ASSUME agenda \in Seq(CallType)
  PROVE  /\ \A f, e : Calls(f, e) <=> IsNext(f, e) \/ Waits(f, e)
         /\ \A k : LoopAt(k) <=> \/ agenda # <<>> /\ agenda[1].f = "flushAt" /\ agenda[1].i = k
                                 \/ LoopWaits(k)
         /\ agenda # <<>> <=> 1 \in DOMAIN agenda
         /\ agenda # <<>> => agenda[1] \in CallType
  <1>1. agenda # <<>> <=> 1 \in DOMAIN agenda
    BY SMT
  <1>2. agenda # <<>> => agenda[1] \in CallType
    BY SMT
  <1>. QED
    BY <1>1, <1>2, Zenon DEF Calls, IsNext, Waits, LoopAt, LoopWaits

\* Where the calls of a chain come from.
LEMMA Places ==
  ASSUME agenda \in Seq(CallType), agenda # <<>>, NEW calls \in Seq(CallType), Then(calls)
  PROVE  /\ agenda' \in Seq(CallType)
         /\ \A i \in DOMAIN calls : i \in DOMAIN agenda' /\ agenda'[i] = calls[i]
         /\ \A j \in DOMAIN agenda : j # 1 =>
               \E i \in DOMAIN agenda' : agenda'[i] = agenda[j] /\ (i = 1 => calls = <<>>)
         /\ \A i \in DOMAIN agenda' :
               \/ i \in DOMAIN calls /\ agenda'[i] = calls[i]
               \/ /\ i = 1 => calls = <<>>
                  /\ \E j \in DOMAIN agenda : j # 1 /\ agenda'[i] = agenda[j]
         /\ \A i, k \in DOMAIN agenda' : i < k =>
               \/ i \in DOMAIN calls /\ k \in DOMAIN calls
               \/ /\ i \in DOMAIN calls /\ agenda'[i] = calls[i]
                  /\ \E j \in DOMAIN agenda : 1 < j /\ agenda'[k] = agenda[j]
               \/ \E j, m \in DOMAIN agenda : /\ 1 < j /\ j < m /\ 1 < m
                                              /\ agenda'[i] = agenda[j] /\ agenda'[k] = agenda[m]
  <1> DEFINE t == Tail(agenda)
             n == Len(calls)
  <1>1. /\ t \in Seq(CallType) /\ agenda' = calls \o t
        /\ Len(t) = Len(agenda) - 1 /\ \A i \in 1..Len(t) : t[i] = agenda[i + 1]
    <2>1. t \in Seq(CallType) /\ agenda' = calls \o t
      BY TailOfSeq, Zenon DEF Then
    <2>2. Len(t) = Len(agenda) - 1 /\ \A i \in 1..Len(t) : t[i] = agenda[i + 1]
      BY SMT
    <2>. QED
      BY <2>1, <2>2
  <1> HIDE DEF t
  <1>2. /\ agenda' \in Seq(CallType) /\ Len(agenda') = n + Len(t)
        /\ \A i \in 1..(n + Len(t)) : agenda'[i] = IF i <= n THEN calls[i] ELSE t[i - n]
    BY <1>1, Concat, Zenon
  <1>3. /\ DOMAIN agenda = 1..Len(agenda) /\ Len(agenda) \in Nat
        /\ DOMAIN agenda' = 1..Len(agenda') /\ Len(agenda') \in Nat
        /\ DOMAIN calls = 1..n /\ n \in Nat /\ Len(t) \in Nat /\ Len(agenda) > 0
        /\ n = 0 => calls = <<>>
    BY <1>1, <1>2, SMT
  <1> HIDE DEF n
  <1>4. \A i \in DOMAIN calls : i \in DOMAIN agenda' /\ agenda'[i] = calls[i]
    BY <1>2, <1>3, SMT
  <1>5. ASSUME NEW j \in DOMAIN agenda, j # 1
        PROVE  \E i \in DOMAIN agenda' : agenda'[i] = agenda[j] /\ (i = 1 => calls = <<>>)
    <2>1. (n + (j - 1) \in DOMAIN agenda' /\ n + (j - 1) # 1) \/ n = 0
      BY <1>1, <1>2, <1>3, <1>5, SMT
    <2>2. n + (j - 1) \in DOMAIN agenda' /\ agenda'[n + (j - 1)] = t[j - 1]
      BY <1>1, <1>2, <1>3, <1>5, SMT
    <2>3. t[j - 1] = agenda[j]
      BY <1>1, <1>3, <1>5, SMT
    <2>. QED
      BY <1>3, <2>1, <2>2, <2>3
  <1>6. ASSUME NEW i \in DOMAIN agenda', i \notin DOMAIN calls
        PROVE  /\ i = 1 => n = 0
               /\ i - n + 1 \in DOMAIN agenda /\ i - n + 1 # 1 /\ 1 < i - n + 1
               /\ agenda'[i] = agenda[i - n + 1]
    <2>1. i - n \in 1..Len(t) /\ ~(i <= n) /\ i \in 1..(n + Len(t))
      BY <1>1, <1>2, <1>3, <1>6, SMT
    <2>2. agenda'[i] = t[i - n]
      BY <1>2, <2>1, Zenon
    <2>3. t[i - n] = agenda[i - n + 1]
      BY <1>1, <2>1, Zenon
    <2>. QED
      BY <1>1, <1>3, <2>1, <2>2, <2>3, SMTT(60)
  <1>7. ASSUME NEW i \in DOMAIN agenda', NEW k \in DOMAIN agenda', i < k
        PROVE  \/ i \in DOMAIN calls /\ k \in DOMAIN calls
               \/ /\ i \in DOMAIN calls /\ agenda'[i] = calls[i]
                  /\ \E j \in DOMAIN agenda : 1 < j /\ agenda'[k] = agenda[j]
               \/ \E j, m \in DOMAIN agenda : /\ 1 < j /\ j < m /\ 1 < m
                                              /\ agenda'[i] = agenda[j] /\ agenda'[k] = agenda[m]
    <2>1. CASE i \in DOMAIN calls
      BY <1>4, <1>6, <2>1, Zenon
    <2>2. CASE i \notin DOMAIN calls
      <3>1. k \notin DOMAIN calls
        BY <1>3, <1>7, <2>2, SMT
      <3>2. i - n + 1 < k - n + 1
        BY <1>3, <1>7, SMT
      <3>. QED
        BY <1>6, <2>2, <3>1, <3>2, Zenon
    <2>. QED
      BY <2>1, <2>2
  <1>8. ASSUME NEW i \in DOMAIN agenda'
        PROVE  \/ i \in DOMAIN calls /\ agenda'[i] = calls[i]
               \/ /\ i = 1 => calls = <<>>
                  /\ \E j \in DOMAIN agenda : j # 1 /\ agenda'[i] = agenda[j]
    BY <1>3, <1>4, <1>6, Zenon
  <1>. QED
    BY <1>2, <1>4, <1>5, <1>7, <1>8, Zenon

\* The chain after calls that made no call, one, or two.
LEMMA LineNone ==
  ASSUME agenda \in Seq(CallType), agenda # <<>>, Return
  PROVE  /\ agenda' \in Seq(CallType)
         /\ \A f, e : Calls(f, e)' <=> Waits(f, e)
         /\ \A f, e : Waits(f, e)' => Waits(f, e)
         /\ \A f, e : IsNext(f, e)' => Waits(f, e)
         /\ \A k : LoopAt(k)' <=> LoopWaits(k)
         /\ \A i \in DOMAIN agenda' : \E j \in DOMAIN agenda : j # 1 /\ agenda'[i] = agenda[j]
         /\ agenda' # <<>> => 1 \in DOMAIN agenda'
  <1>0. <<>> \in Seq(CallType) /\ DOMAIN <<>> = {} /\ Then(<<>>)
    BY Chains, Zenon DEF Return
  <1>1. /\ agenda' \in Seq(CallType)
        /\ \A j \in DOMAIN agenda : j # 1 => \E i \in DOMAIN agenda' : agenda'[i] = agenda[j]
        /\ \A i \in DOMAIN agenda' : \E j \in DOMAIN agenda : j # 1 /\ agenda'[i] = agenda[j]
    BY <1>0, Places, Zenon
  <1>2. agenda' # <<>> => 1 \in DOMAIN agenda'
    BY <1>1, SMT
  <1>3. \A f, e : Calls(f, e)' <=> Waits(f, e)
    BY <1>1, SMT DEF Calls, Waits
  <1>4. \A f, e : Waits(f, e)' => Waits(f, e)
    BY <1>1, SMT DEF Waits
  <1>5. \A f, e : IsNext(f, e)' => Waits(f, e)
    BY <1>1, <1>2, SMT DEF IsNext, Waits
  <1>6. \A k : LoopAt(k)' <=> LoopWaits(k)
    BY <1>1, SMT DEF LoopAt, LoopWaits
  <1>. QED
    BY <1>1, <1>2, <1>3, <1>4, <1>5, <1>6

\* ... makes one call.
LEMMA LineOne ==
  ASSUME agenda \in Seq(CallType), agenda # <<>>, NEW x \in CallType, Then(<<x>>)
  PROVE  /\ agenda' \in Seq(CallType) /\ agenda' # <<>> /\ agenda'[1] = x
         /\ \A f, e : Calls(f, e)' <=> (x.f = f /\ x.e = e) \/ Waits(f, e)
         /\ \A f, e : Waits(f, e)' <=> Waits(f, e)
         /\ \A f, e : IsNext(f, e)' <=> x.f = f /\ x.e = e
         /\ \A k : LoopAt(k)' <=> (x.f = "flushAt" /\ x.i = k) \/ LoopWaits(k)
         /\ \A i \in DOMAIN agenda' : \/ agenda'[i] = x
                                      \/ \E j \in DOMAIN agenda : j # 1 /\ agenda'[i] = agenda[j]
  <1>0. <<x>> \in Seq(CallType) /\ DOMAIN <<x>> = {1} /\ <<x>>[1] = x /\ <<x>> # <<>>
    BY Chains, SMT
  <1> DEFINE q == <<x>>
  <1> HIDE DEF q
  <1>1. /\ agenda' \in Seq(CallType)
        /\ \A i \in DOMAIN q : i \in DOMAIN agenda' /\ agenda'[i] = q[i]
        /\ \A j \in DOMAIN agenda : j # 1 =>
              \E i \in DOMAIN agenda' : agenda'[i] = agenda[j] /\ (i = 1 => q = <<>>)
        /\ \A i \in DOMAIN agenda' :
              \/ i \in DOMAIN q /\ agenda'[i] = q[i]
              \/ /\ i = 1 => q = <<>>
                 /\ \E j \in DOMAIN agenda : j # 1 /\ agenda'[i] = agenda[j]
    BY <1>0, Places, Zenon DEF q
  <1>2. /\ 1 \in DOMAIN agenda' /\ agenda'[1] = x
        /\ \A j \in DOMAIN agenda : j # 1 =>
              \E i \in DOMAIN agenda' : agenda'[i] = agenda[j] /\ i # 1
        /\ \A i \in DOMAIN agenda' :
              \/ i = 1 /\ agenda'[i] = x
              \/ i # 1 /\ \E j \in DOMAIN agenda : j # 1 /\ agenda'[i] = agenda[j]
    BY <1>0, <1>1, Zenon DEF q
  <1>3. agenda' # <<>>
    BY <1>2, SMT
  <1>4. \A f, e : Calls(f, e)' <=> (x.f = f /\ x.e = e) \/ Waits(f, e)
    BY <1>2, SMT DEF Calls, Waits
  <1>5. \A f, e : Waits(f, e)' <=> Waits(f, e)
    BY <1>2, SMT DEF Waits
  <1>6. \A f, e : IsNext(f, e)' <=> x.f = f /\ x.e = e
    BY <1>2, <1>3, SMT DEF IsNext
  <1>7. \A k : LoopAt(k)' <=> (x.f = "flushAt" /\ x.i = k) \/ LoopWaits(k)
    BY <1>2, SMT DEF LoopAt, LoopWaits
  <1>. QED
    BY <1>1, <1>2, <1>3, <1>4, <1>5, <1>6, <1>7

\* ... makes two.
LEMMA LineTwo ==
  ASSUME agenda \in Seq(CallType), agenda # <<>>, NEW x \in CallType, NEW y \in CallType,
         Then(<<x, y>>)
  PROVE  /\ agenda' \in Seq(CallType) /\ agenda' # <<>> /\ agenda'[1] = x
         /\ \A f, e : Calls(f, e)' <=> (x.f = f /\ x.e = e) \/ (y.f = f /\ y.e = e) \/ Waits(f, e)
         /\ \A f, e : Waits(f, e)' <=> (y.f = f /\ y.e = e) \/ Waits(f, e)
         /\ \A f, e : IsNext(f, e)' <=> x.f = f /\ x.e = e
         /\ \A k : LoopAt(k)' <=> \/ x.f = "flushAt" /\ x.i = k
                                  \/ y.f = "flushAt" /\ y.i = k
                                  \/ LoopWaits(k)
         /\ \A i \in DOMAIN agenda' : \/ agenda'[i] = x \/ agenda'[i] = y
                                      \/ \E j \in DOMAIN agenda : j # 1 /\ agenda'[i] = agenda[j]
  <1>0. /\ <<x, y>> \in Seq(CallType) /\ DOMAIN <<x, y>> = {1, 2} /\ <<x, y>>[1] = x
        /\ <<x, y>>[2] = y
    BY Chains
  <1> DEFINE q == <<x, y>>
  <1>01. q # <<>> /\ 1 # 2
    BY SMT
  <1> HIDE DEF q
  <1>1. /\ agenda' \in Seq(CallType)
        /\ \A i \in DOMAIN q : i \in DOMAIN agenda' /\ agenda'[i] = q[i]
        /\ \A j \in DOMAIN agenda : j # 1 =>
              \E i \in DOMAIN agenda' : agenda'[i] = agenda[j] /\ (i = 1 => q = <<>>)
        /\ \A i \in DOMAIN agenda' :
              \/ i \in DOMAIN q /\ agenda'[i] = q[i]
              \/ /\ i = 1 => q = <<>>
                 /\ \E j \in DOMAIN agenda : j # 1 /\ agenda'[i] = agenda[j]
    BY <1>0, Places, Zenon DEF q
  <1>2. /\ 1 \in DOMAIN agenda' /\ agenda'[1] = x /\ 2 \in DOMAIN agenda' /\ agenda'[2] = y
        /\ \A j \in DOMAIN agenda : j # 1 =>
              \E i \in DOMAIN agenda' : agenda'[i] = agenda[j] /\ i # 1
        /\ \A i \in DOMAIN agenda' :
              \/ i = 1 /\ agenda'[i] = x
              \/ i = 2 /\ agenda'[i] = y
              \/ i # 1 /\ \E j \in DOMAIN agenda : j # 1 /\ agenda'[i] = agenda[j]
    BY <1>0, <1>01, <1>1, Zenon DEF q
  <1>3. agenda' # <<>>
    BY <1>2, SMT
  <1>4. \A f, e : Calls(f, e)' <=> (x.f = f /\ x.e = e) \/ (y.f = f /\ y.e = e) \/ Waits(f, e)
    BY <1>2, SMT DEF Calls, Waits
  <1>5. \A f, e : Waits(f, e)' <=> (y.f = f /\ y.e = e) \/ Waits(f, e)
    BY <1>01, <1>2, SMT DEF Waits
  <1>6. \A f, e : IsNext(f, e)' <=> x.f = f /\ x.e = e
    BY <1>2, <1>3, SMT DEF IsNext
  <1>7. \A k : LoopAt(k)' <=> \/ x.f = "flushAt" /\ x.i = k
                              \/ y.f = "flushAt" /\ y.i = k
                              \/ LoopWaits(k)
    <2>1. ASSUME NEW k, LoopAt(k)'
          PROVE  (x.f = "flushAt" /\ x.i = k) \/ (y.f = "flushAt" /\ y.i = k) \/ LoopWaits(k)
      <3>1. PICK i \in DOMAIN agenda' : agenda'[i].f = "flushAt" /\ agenda'[i].i = k
        BY <2>1, Zenon DEF LoopAt
      <3>2. CASE i = 1 \/ i = 2
        BY <1>2, <3>1, <3>2, Zenon
      <3>3. CASE \E j \in DOMAIN agenda : j # 1 /\ agenda'[i] = agenda[j]
        BY <3>1, <3>3, SMT DEF LoopWaits
      <3>. QED
        BY <1>2, <3>2, <3>3, Zenon
    <2>2. ASSUME NEW k, LoopWaits(k)
          PROVE  LoopAt(k)'
      BY <1>2, <2>2, SMT DEF LoopAt, LoopWaits
    <2>3. ASSUME NEW k, (x.f = "flushAt" /\ x.i = k) \/ (y.f = "flushAt" /\ y.i = k)
          PROVE  LoopAt(k)'
      BY <1>2, <2>3, Zenon DEF LoopAt
    <2>. QED
      BY <2>1, <2>2, <2>3, Zenon
  <1>. QED
    BY <1>1, <1>2, <1>3, <1>4, <1>5, <1>6, <1>7

\* A chain that begins; an agenda left alone.
LEMMA LineEvent ==
  ASSUME agenda = <<>>, NEW x \in CallType, agenda' = <<x>>
  PROVE  /\ agenda' \in Seq(CallType) /\ agenda' # <<>> /\ agenda'[1] = x
         /\ \A f, e : Calls(f, e)' <=> x.f = f /\ x.e = e
         /\ \A f, e : ~Waits(f, e)'
         /\ \A f, e : IsNext(f, e)' <=> x.f = f /\ x.e = e
         /\ \A k : LoopAt(k)' <=> x.f = "flushAt" /\ x.i = k
         /\ \A f, e : ~Calls(f, e) /\ ~Waits(f, e) /\ ~IsNext(f, e)
         /\ \A k : ~LoopAt(k)
         /\ \A i \in DOMAIN agenda' : agenda'[i] = x /\ i = 1
  <1>1. /\ agenda' \in Seq(CallType) /\ DOMAIN agenda' = {1} /\ agenda'[1] = x /\ agenda' # <<>>
        /\ DOMAIN agenda = {}
    BY Chains, SMT
  <1>. QED
    BY <1>1, Zenon DEF Calls, IsNext, Waits, LoopAt

\* The loop is idle.
LEMMA LineNothing ==
  ASSUME agenda = <<>>
  PROVE  /\ \A f, e : ~Calls(f, e) /\ ~Waits(f, e) /\ ~IsNext(f, e)
         /\ \A k : ~LoopAt(k)
         /\ DOMAIN agenda = {}
  <1>1. DOMAIN agenda = {}
    BY SMT
  <1>. QED
    BY <1>1, Zenon DEF Calls, IsNext, Waits, LoopAt

\* A step that makes no call and returns from none.
LEMMA LineSame ==
  ASSUME UNCHANGED agenda
  PROVE  /\ \A f, e : Calls(f, e)' <=> Calls(f, e)
         /\ \A f, e : Waits(f, e)' <=> Waits(f, e)
         /\ \A f, e : IsNext(f, e)' <=> IsNext(f, e)
         /\ \A k : LoopAt(k)' <=> LoopAt(k)
  BY Zenon DEF Calls, IsNext, Waits, LoopAt

-----------------------------------------------------------------------------
(* The order of the calls, and CallInv, after a call.                      *)

\* The types of the variables, one by one.
LEMMA Types ==
  ASSUME TypeOK
  PROVE  /\ agenda \in Seq(CallType) /\ mMbox \in Seq(MessageType) /\ idle \in Seq(IdleType)
         /\ est \in [Elements -> ElementStates]
         /\ link \in [SinkElements -> {D, V, None}]
         /\ port \in [SinkElements -> BOOLEAN] /\ mFlushPending \in [SinkElements -> BOOLEAN]
         /\ dmxMedia \in BOOLEAN /\ dmxOut \in Seq(SinkElements)
         /\ mChannelsFlushing \in Nat /\ mRunning \in BOOLEAN /\ mTimer \in BOOLEAN
         /\ dec \in DecType /\ vdec \in VdecType /\ sink \in [Sinks -> SinkType]
  BY Zenon DEF TypeOK

\* The calls that wait may follow the next one.
LEMMA Behind ==
  ASSUME agenda \in Seq(CallType), OrderInv
  PROVE  /\ \A j \in DOMAIN agenda : j # 1 => MayFollow(link, agenda[1], agenda[j])
         /\ \A f, e : Waits(f, e) =>
               /\ f \notin Immediate /\ ~(e = V /\ f \in {"channel.flush", "completeStop"})
               /\ ~IsLast(agenda[1])
               /\ f \in {"vdec_flush", "channel.flush"} => DownCall(link, agenda[1])
               /\ f = "channel.flush" => link[e] = V
               /\ f = "deleteChannel" => \/ link[e] = None
                                         \/ agenda[1].f = "onChannelUnlink" /\ agenda[1].c = e
               /\ agenda[1].f = "completeStop" /\ agenda[1].e = V => f = "mboxCb"
         /\ \A k : LoopWaits(k) => ~IsLast(agenda[1])
                     /\ ~(agenda[1].f = "completeStop" /\ agenda[1].e = V)
  <1>1. ASSUME NEW j \in DOMAIN agenda, j # 1
        PROVE  MayFollow(link, agenda[1], agenda[j])
    <2>1. 1 \in DOMAIN agenda /\ 1 < j
      BY <1>1, SMT
    <2>. QED
      BY <2>1, Zenon DEF OrderInv
  <1>2. ASSUME NEW f, NEW e, Waits(f, e)
        PROVE  /\ f \notin Immediate /\ ~(e = V /\ f \in {"channel.flush", "completeStop"})
               /\ ~IsLast(agenda[1])
               /\ f \in {"vdec_flush", "channel.flush"} => DownCall(link, agenda[1])
               /\ f = "channel.flush" => link[e] = V
               /\ f = "deleteChannel" => \/ link[e] = None
                                         \/ agenda[1].f = "onChannelUnlink" /\ agenda[1].c = e
               /\ agenda[1].f = "completeStop" /\ agenda[1].e = V => f = "mboxCb"
    <2>1. PICK j \in DOMAIN agenda : j # 1 /\ agenda[j].f = f /\ agenda[j].e = e
      BY <1>2, Zenon DEF Waits
    <2>. QED
      BY <1>1, <2>1, SMT DEF MayFollow, AtOnce
  <1>3. ASSUME NEW k, LoopWaits(k)
        PROVE  ~IsLast(agenda[1]) /\ ~(agenda[1].f = "completeStop" /\ agenda[1].e = V)
    <2>1. PICK j \in DOMAIN agenda : j # 1 /\ agenda[j].f = "flushAt"
      BY <1>3, Zenon DEF LoopWaits
    <2>. QED
      BY <1>1, <2>1, SMT DEF MayFollow
  <1>. QED
    BY <1>1, <1>2, <1>3, Zenon

\* What may follow x may follow y.
Leads(x, y) ==
    \/ IsLast(x)
    \/ /\ ~IsLast(y) /\ (DownCall(link, x) => DownCall(link, y))
       /\ x.f # "onChannelUnlink" /\ ~(y.f = "completeStop" /\ y.e = V)

\* What may follow a call may follow the calls it makes.
LEMMA LeadsOn ==
  ASSUME NEW x, NEW y, Leads(x, y), NEW z, MayFollow(link, x, z)
  PROVE  MayFollow(link, y, z)
  BY SMT DEF Leads, MayFollow

\* The order of a chain whose next call made others.
LEMMA OrderThen ==
  ASSUME agenda \in Seq(CallType), agenda # <<>>, NEW calls \in Seq(CallType), Then(calls),
         OrderInv,
         \A i, j \in DOMAIN calls : i < j => MayFollow(link', calls[i], calls[j]),
         \A i \in DOMAIN calls : \A y \in CallType :
             MayFollow(link, agenda[1], y) => MayFollow(link', calls[i], y),
         \A x, y \in CallType :
             MayFollow(link, agenda[1], y) /\ MayFollow(link, x, y) => MayFollow(link', x, y)
  PROVE  OrderInv'
  <1> SUFFICES ASSUME NEW i \in DOMAIN agenda', NEW k \in DOMAIN agenda', i < k
               PROVE  MayFollow(link', agenda'[i], agenda'[k])
    BY Zenon DEF OrderInv
  <1>1. \A j \in DOMAIN agenda : agenda[j] \in CallType
    BY SMT
  <1>2. \A j \in DOMAIN agenda : 1 < j => MayFollow(link, agenda[1], agenda[j])
    <2>1. 1 \in DOMAIN agenda
      BY SMT
    <2>. QED
      BY <2>1, Zenon DEF OrderInv
  <1>3. CASE i \in DOMAIN calls /\ k \in DOMAIN calls
    BY <1>3, Places, ZenonT(60)
  <1>4. CASE /\ i \in DOMAIN calls /\ agenda'[i] = calls[i]
             /\ \E j \in DOMAIN agenda : 1 < j /\ agenda'[k] = agenda[j]
    BY <1>1, <1>2, <1>4, Zenon
  <1>5. CASE \E j, m \in DOMAIN agenda : /\ 1 < j /\ j < m /\ 1 < m
                                         /\ agenda'[i] = agenda[j] /\ agenda'[k] = agenda[m]
    BY <1>1, <1>2, <1>5, Zenon DEF OrderInv
  <1>6. \/ i \in DOMAIN calls /\ k \in DOMAIN calls
        \/ /\ i \in DOMAIN calls /\ agenda'[i] = calls[i]
           /\ \E j \in DOMAIN agenda : 1 < j /\ agenda'[k] = agenda[j]
        \/ \E j, m \in DOMAIN agenda : /\ 1 < j /\ j < m /\ 1 < m
                                       /\ agenda'[i] = agenda[j] /\ agenda'[k] = agenda[m]
    BY Places
  <1>. QED
    BY <1>3, <1>4, <1>5, <1>6

\* The order of the chain, when a call returns,
LEMMA OrderNone ==
  ASSUME agenda \in Seq(CallType), agenda # <<>>, Return, OrderInv, UNCHANGED link
  PROVE  OrderInv'
  <1>1. <<>> \in Seq(CallType) /\ DOMAIN <<>> = {} /\ Then(<<>>)
    BY Chains, Zenon DEF Return
  <1>. QED
    BY <1>1, OrderThen, Zenon

\* ... makes one call,
LEMMA OrderOne ==
  ASSUME agenda \in Seq(CallType), agenda # <<>>, NEW x \in CallType, Then(<<x>>), OrderInv,
         UNCHANGED link, Leads(agenda[1], x)
  PROVE  OrderInv'
  <1> DEFINE q == <<x>>
  <1>1. q \in Seq(CallType) /\ DOMAIN q = {1} /\ q[1] = x /\ ~(1 < 1)
    BY Chains, SMT
  <1>2. Then(q)
    OBVIOUS
  <1> HIDE DEF q
  <1>. QED
    BY <1>1, <1>2, OrderThen, LeadsOn, Zenon

\* ... or makes two.
LEMMA OrderTwo ==
  ASSUME agenda \in Seq(CallType), agenda # <<>>, NEW x \in CallType, NEW y \in CallType,
         Then(<<x, y>>), OrderInv,
         UNCHANGED link, Leads(agenda[1], x), Leads(agenda[1], y), MayFollow(link, x, y)
  PROVE  OrderInv'
  <1> DEFINE q == <<x, y>>
  <1>1. q \in Seq(CallType) /\ DOMAIN q = {1, 2} /\ q[1] = x /\ q[2] = y
    BY Chains
  <1>2. Then(q)
    OBVIOUS
  <1>3. ~(1 < 1) /\ ~(2 < 2) /\ ~(2 < 1)
    BY SMT
  <1> HIDE DEF q
  <1>4. \A i, j \in DOMAIN q : i < j => i = 1 /\ j = 2
    BY <1>1, <1>3, SMT
  <1>5. \A i \in DOMAIN q : q[i] = x \/ q[i] = y
    BY <1>1, Zenon
  <1>. QED
    BY <1>1, <1>2, <1>4, <1>5, OrderThen, LeadsOn, Zenon

-----------------------------------------------------------------------------
(* CallInv after a call.                                                   *)
MoreTorn == est'[V] = "STARTED" => est[V] = "STARTED"

\* CallInv, when a call returns,
LEMMA CallsNone ==
  ASSUME TypeOK, CallInv, agenda # <<>>, agenda[1].f # "onChannelUnlink", Return,
         UNCHANGED link, MoreTorn
  PROVE  CallInv'
  <1>0. agenda \in Seq(CallType) /\ OrderInv /\ NextInv /\ TornCalls
    BY Zenon DEF TypeOK, CallInv
  <1>1. OrderInv'
    BY <1>0, OrderNone, Zenon
  <1>2. /\ \A i \in DOMAIN agenda' : \E j \in DOMAIN agenda : j # 1 /\ agenda'[i] = agenda[j]
        /\ agenda' # <<>> => 1 \in DOMAIN agenda'
    BY <1>0, LineNone, Zenon
  <1>3. NextInv'
    <2> SUFFICES ASSUME agenda' # <<>> PROVE Sound(link', agenda'[1])
      BY Zenon DEF NextInv
    <2>1. MayFollow(link, agenda[1], agenda'[1])
      BY <1>0, <1>2, Behind, Zenon
    <2>2. MayFollow(link, agenda[1], agenda'[1]) => Sound(link', agenda'[1])
      <3> DEFINE y == agenda'[1]
      <3> HIDE DEF y
      <3>1. ASSUME MayFollow(link, agenda[1], y)
            PROVE  /\ y.f = "channel.flush" => link[y.e] = V
                   /\ y.f = "deleteChannel" => link[y.e] = None
                   /\ y.f \notin {"onChannelFlushed", "onChannelUnlink"}
        BY <3>1, SMT DEF MayFollow, AtOnce, Immediate
      <3>2. V # None
        BY Distinct
      <3>. QED
        BY <3>1, <3>2, Zenon DEF Sound, y
    <2>. QED
      BY <2>1, <2>2
  <1>4. TornCalls'
    BY <1>0, <1>2, Zenon DEF TornCalls, MoreTorn, Tearing
  <1>. QED
    BY <1>1, <1>3, <1>4, Zenon DEF CallInv

\* ... makes one call,
LEMMA CallsOne ==
  ASSUME TypeOK, CallInv, agenda # <<>>, NEW x \in CallType, Then(<<x>>), UNCHANGED link,
         MoreTorn, Leads(agenda[1], x), Sound(link, x), Tearing(x) => est'[V] # "STARTED"
  PROVE  CallInv'
  <1>0. agenda \in Seq(CallType) /\ OrderInv /\ NextInv /\ TornCalls
    BY Zenon DEF TypeOK, CallInv
  <1>1. OrderInv'
    BY <1>0, OrderOne, Zenon
  <1>2. /\ \A i \in DOMAIN agenda' : \/ agenda'[i] = x
                                     \/ \E j \in DOMAIN agenda : j # 1 /\ agenda'[i] = agenda[j]
        /\ agenda'[1] = x
    BY <1>0, LineOne, Zenon
  <1>3. NextInv'
    BY <1>2, Zenon DEF NextInv, Sound
  <1>4. TornCalls'
    BY <1>0, <1>2, Zenon DEF TornCalls, MoreTorn, Tearing
  <1>. QED
    BY <1>1, <1>3, <1>4, Zenon DEF CallInv

\* ... or makes two;
LEMMA CallsTwo ==
  ASSUME TypeOK, CallInv, agenda # <<>>, NEW x \in CallType, NEW y \in CallType,
         Then(<<x, y>>), UNCHANGED link, MoreTorn,
         Leads(agenda[1], x), Leads(agenda[1], y), MayFollow(link, x, y), Sound(link, x),
         Tearing(x) \/ Tearing(y) => est'[V] # "STARTED"
  PROVE  CallInv'
  <1>0. agenda \in Seq(CallType) /\ OrderInv /\ NextInv /\ TornCalls
    BY Zenon DEF TypeOK, CallInv
  <1>1. OrderInv'
    BY <1>0, OrderTwo, Zenon
  <1>2. /\ \A i \in DOMAIN agenda' : \/ agenda'[i] = x \/ agenda'[i] = y
                                     \/ \E j \in DOMAIN agenda : j # 1 /\ agenda'[i] = agenda[j]
        /\ agenda'[1] = x
    BY <1>0, LineTwo, ZenonT(60)
  <1>3. NextInv'
    BY <1>2, Zenon DEF NextInv, Sound
  <1>4. TornCalls'
    BY <1>0, <1>2, Zenon DEF TornCalls, MoreTorn, Tearing
  <1>. QED
    BY <1>1, <1>3, <1>4, Zenon DEF CallInv

\* ... when an event of the idle loop makes its first call;
LEMMA CallsEvent ==
  ASSUME agenda = <<>>, NEW x \in CallType, agenda' = <<x>>, Sound(link, x), UNCHANGED link,
         ~Tearing(x)
  PROVE  CallInv'
  <1>1. agenda'[1] = x /\ \A i \in DOMAIN agenda' : agenda'[i] = x /\ i = 1
    BY LineEvent, Zenon
  <1>2. \A i, j \in DOMAIN agenda' : ~(i < j)
    BY <1>1, SMT
  <1>. QED
    BY <1>1, <1>2, Zenon DEF CallInv, OrderInv, NextInv, TornCalls, Sound, Tearing

\* ... when the chain is left alone;
LEMMA CallsSame ==
  ASSUME CallInv, UNCHANGED agenda, UNCHANGED link, MoreTorn
  PROVE  CallInv'
  BY Zenon DEF CallInv, OrderInv, NextInv, TornCalls, Sound, Tearing, MoreTorn

\* ... while the loop is idle.
LEMMA CallsNothing ==
  ASSUME agenda = <<>>, UNCHANGED agenda
  PROVE  CallInv'
  <1>1. DOMAIN agenda' = {} /\ agenda' = <<>>
    BY SMT
  <1>. QED
    BY <1>1, Zenon DEF CallInv, OrderInv, NextInv, TornCalls

-----------------------------------------------------------------------------
(* CallInv: the steps, one by one.                                         *)

\* onElementStopped() is a call of the session.
LEMMA TypedStopped ==
  ASSUME NEW e
  PROVE  CallOn("onElementStopped", None, e).e = None
  BY Zenon DEF CallOn

\* The calls of the loops of flush() of the demuxer.
LEMMA TypedLoopD ==
  ASSUME NEW f, NEW i, NEW n
  PROVE  /\ CallLoop(f, D, i, n).e = D /\ CallLoop(f, D, i, n).i = i
         /\ CallLoop(f, D, i, n).n = n
  BY Zenon DEF CallLoop

\* Channel::flush().
LEMMA ChannelFlushCalls ==
  ASSUME TypeOK, ChainInv, NEW c \in SinkElements, ChannelFlush(c)
  PROVE  CallInv'
  <1>0. CallInv /\ TornState /\ LinkInv /\ OrderInv /\ NextInv /\ TornCalls
    BY Zenon DEF ChainInv, CallInv
  <1>1. /\ agenda # <<>> /\ 1 \in DOMAIN agenda /\ agenda[1].f = "channel.flush" /\ agenda[1].e = c
        /\ Subject = agenda[1].c /\ Head(agenda) = agenda[1] /\ agenda[1] \in CallType
    BY Types, Running, Zenon DEF ChannelFlush
  <1>2. UNCHANGED link /\ MoreTorn
    BY Zenon DEF MoreTorn, ChannelFlush, otherThanChannels, otherThanDmx, otherThanDec, otherThanSinks, chanVars, dmxVars, sessionVars, appVars, counters
  <1>3. CASE TRUE
    <2> DEFINE x == Call("onChannelFlush", c)
    <2>1. /\ x \in CallType /\ x.f = "onChannelFlush" /\ x.e = c
      <3>1. x \in CallType /\ x.f = "onChannelFlush" /\ x.e = c
        BY Distinct, TypedOfChannel, Zenon
      <3>. QED
        BY <3>1
    <2>2. Then(<<x>>)
      BY <1>1, <1>3, Zenon DEF ChannelFlush
    <2> HIDE DEF x
    <2>3. Leads(agenda[1], x)
      BY <1>1, <2>1, <1>3, Distinct, Types, SMT DEF Leads, IsLast, DownCall
    <2>4. Sound(link, x)
      BY <1>0, <1>1, <2>1, <1>3, SMT DEF Sound
    <2>5. Tearing(x) => est'[V] # "STARTED"
      BY <1>0, <1>1, <2>1, <1>3, Distinct, SMT DEF Tearing
    <2>. QED
      BY <1>0, <1>2, <1>1, <2>1, <2>2, <2>3, <2>4, <2>5, CallsOne, Zenon
  <1>. QED
    BY <1>3, Zenon DEF ChannelFlush

\* Channel::flushDone().
LEMMA ChannelFlushDoneCalls ==
  ASSUME TypeOK, ChainInv, NEW c \in SinkElements, ChannelFlushDone(c)
  PROVE  CallInv'
  <1>0. CallInv /\ TornState /\ LinkInv /\ OrderInv /\ NextInv /\ TornCalls
    BY Zenon DEF ChainInv, CallInv
  <1>1. /\ agenda # <<>> /\ 1 \in DOMAIN agenda /\ agenda[1].f = "channel.flushDone" /\ agenda[1].e = c
        /\ Subject = agenda[1].c /\ Head(agenda) = agenda[1] /\ agenda[1] \in CallType
    BY Types, Running, Zenon DEF ChannelFlushDone
  <1>2. UNCHANGED link /\ MoreTorn
    BY Zenon DEF MoreTorn, ChannelFlushDone, otherThanChannels, otherThanDmx, otherThanDec, otherThanSinks, chanVars, dmxVars, sessionVars, appVars, counters
  <1>3. link[c] # None => link[c] \in {D, V}
    BY Types, SMT
  <1>4. CASE ~(mFlushPending[c] /\ link[c] # None)
    <2>1. Return
      BY <1>3, <1>4, Zenon DEF ChannelFlushDone
    <2>2. agenda[1].f # "onChannelUnlink"
      BY <1>1
    <2>. QED
      BY <1>0, <1>1, <1>2, <2>1, <2>2, CallsNone, Zenon
  <1>5. CASE mFlushPending[c] /\ link[c] # None
    <2> DEFINE x == CallOn("onChannelFlushed", link[c], c)
    <2>1. /\ x \in CallType /\ x.f = "onChannelFlushed" /\ x.e = link[c] /\ x.c = c
      <3>1. x \in CallType /\ x.f = "onChannelFlushed" /\ x.e = link[c] /\ x.c = c
        BY <1>3, <1>5, Distinct, TypedUpstream, SMT
      <3>. QED
        BY <3>1
    <2>2. Then(<<x>>)
      BY <1>3, <1>1, <1>5, Zenon DEF ChannelFlushDone
    <2> HIDE DEF x
    <2>3. Leads(agenda[1], x)
      BY <1>1, <2>1, <1>5, <1>3, Distinct, Types, SMT DEF Leads, IsLast, DownCall
    <2>4. Sound(link, x)
      BY <1>0, <1>1, <2>1, <1>5, <1>3, SMT DEF Sound
    <2>5. Tearing(x) => est'[V] # "STARTED"
      BY <1>0, <1>1, <2>1, <1>5, <1>3, Distinct, SMT DEF Tearing
    <2>. QED
      BY <1>0, <1>2, <1>1, <2>1, <2>2, <2>3, <2>4, <2>5, CallsOne, Zenon
  <1>. QED
    BY <1>4, <1>5, <1>3, Zenon DEF ChannelFlushDone

\* removeInputMedia().
LEMMA RemoveInputMediaCalls ==
  ASSUME TypeOK, ChainInv, NEW c \in SinkElements, RemoveInputMedia(c)
  PROVE  CallInv'
  <1>0. CallInv /\ TornState /\ LinkInv /\ OrderInv /\ NextInv /\ TornCalls
    BY Zenon DEF ChainInv, CallInv
  <1>1. /\ agenda # <<>> /\ 1 \in DOMAIN agenda /\ agenda[1].f = "removeInputMedia" /\ agenda[1].e = c
        /\ Subject = agenda[1].c /\ Head(agenda) = agenda[1] /\ agenda[1] \in CallType
    BY Types, Running, Zenon DEF RemoveInputMedia
  <1>2. UNCHANGED link /\ MoreTorn
    BY Zenon DEF MoreTorn, RemoveInputMedia, otherThanChannels, otherThanDmx, otherThanDec, otherThanSinks, chanVars, dmxVars, sessionVars, appVars, counters
  <1>3. link[c] # None => link[c] \in {D, V}
    BY Types, SMT
  <1>4. CASE link[c] = None
    <2> DEFINE x == Call("deleteChannel", c)
    <2>1. /\ x \in CallType /\ x.f = "deleteChannel" /\ x.e = c
      <3>1. x \in CallType /\ x.f = "deleteChannel" /\ x.e = c
        BY <1>3, Distinct, TypedOfChannel, Zenon
      <3>. QED
        BY <3>1
    <2>2. Then(<<x>>)
      <3>1. Then((<<>>) \o <<x>>)
        BY <1>3, <1>1, <1>4, Zenon DEF RemoveInputMedia
      <3>. HIDE DEF x
      <3>2. <<x>> \in Seq(CallType)
        BY <2>1, Chains, Zenon
      <3>. QED
        BY <2>1, <3>1, <3>2, JoinNone, Zenon
    <2> HIDE DEF x
    <2>3. Leads(agenda[1], x)
      BY <1>1, <2>1, <1>4, <1>3, Distinct, Types, SMT DEF Leads, IsLast, DownCall
    <2>4. Sound(link, x)
      BY <1>0, <1>1, <2>1, <1>4, <1>3, SMT DEF Sound
    <2>5. Tearing(x) => est'[V] # "STARTED"
      BY <1>0, <1>1, <2>1, <1>4, <1>3, <1>2, Distinct, SMT DEF Tearing, TornCalls, MoreTorn
    <2>. QED
      BY <1>0, <1>2, <1>1, <2>1, <2>2, <2>3, <2>4, <2>5, CallsOne, Zenon
  <1>5. CASE link[c] # None
    <2> DEFINE x == CallOn("onChannelUnlink", link[c], c)
               y == Call("deleteChannel", c)
    <2>1. /\ x \in CallType /\ x.f = "onChannelUnlink" /\ x.e = link[c] /\ x.c = c
          /\ y \in CallType /\ y.f = "deleteChannel" /\ y.e = c
      <3>1. x \in CallType /\ x.f = "onChannelUnlink" /\ x.e = link[c] /\ x.c = c
        BY <1>3, <1>5, Distinct, TypedUpstream, SMT
      <3>2. y \in CallType /\ y.f = "deleteChannel" /\ y.e = c
        BY <1>3, Distinct, TypedOfChannel, SMT
      <3>. QED
        BY <3>1, <3>2
    <2>2. Then(<<x, y>>)
      <3>1. Then((<<x>>) \o <<y>>)
        BY <1>3, <1>1, <1>5, Zenon DEF RemoveInputMedia
      <3>. HIDE DEF x, y
      <3>2. <<y>> \in Seq(CallType)
        BY <2>1, Chains, Zenon
      <3>. QED
        BY <2>1, <3>1, <3>2, JoinOne, Zenon
    <2> HIDE DEF x, y
    <2>3. Leads(agenda[1], x) /\ Leads(agenda[1], y)
      BY <1>1, <2>1, <1>5, <1>3, Distinct, Types, SMT DEF Leads, IsLast, DownCall
    <2>4. Sound(link, x)
      BY <1>0, <1>1, <2>1, <1>5, <1>3, SMT DEF Sound
    <2>5. Tearing(x) \/ Tearing(y) => est'[V] # "STARTED"
      BY <1>0, <1>1, <2>1, <1>5, <1>3, <1>2, Distinct, SMT DEF Tearing, TornCalls, MoreTorn
    <2>6. MayFollow(link, x, y)
      BY <1>0, <1>1, <2>1, <1>5, <1>3, Distinct, SMT DEF MayFollow, AtOnce, Immediate, IsLast, DownCall
    <2>. QED
      BY <1>0, <1>2, <1>1, <2>1, <2>2, <2>3, <2>4, <2>5, <2>6, CallsTwo, Zenon
  <1>. QED
    BY <1>4, <1>5, <1>3, Zenon DEF RemoveInputMedia

\* The channel is deleted.
LEMMA DeleteChannelCalls ==
  ASSUME TypeOK, ChainInv, NEW c \in SinkElements, DeleteChannel(c)
  PROVE  CallInv'
  <1>0. CallInv /\ TornState /\ LinkInv /\ OrderInv /\ NextInv /\ TornCalls
    BY Zenon DEF ChainInv, CallInv
  <1>1. /\ agenda # <<>> /\ 1 \in DOMAIN agenda /\ agenda[1].f = "deleteChannel" /\ agenda[1].e = c
        /\ Subject = agenda[1].c /\ Head(agenda) = agenda[1] /\ agenda[1] \in CallType
    BY Types, Running, Zenon DEF DeleteChannel
  <1>2. UNCHANGED link /\ MoreTorn
    BY Zenon DEF MoreTorn, DeleteChannel, otherThanChannels, otherThanDmx, otherThanDec, otherThanSinks, chanVars, dmxVars, sessionVars, appVars, counters
  <1>3. CASE TRUE
    <2>1. Return
      BY <1>3, Zenon DEF DeleteChannel
    <2>2. agenda[1].f # "onChannelUnlink"
      BY <1>1
    <2>. QED
      BY <1>0, <1>1, <1>2, <2>1, <2>2, CallsNone, Zenon
  <1>. QED
    BY <1>3, Zenon DEF DeleteChannel

\* stop() of the demuxer.
LEMMA DmxStopCalls ==
  ASSUME TypeOK, ChainInv, DmxStop
  PROVE  CallInv'
  <1>0. CallInv /\ TornState /\ LinkInv /\ OrderInv /\ NextInv /\ TornCalls
    BY Zenon DEF ChainInv, CallInv
  <1>1. /\ agenda # <<>> /\ 1 \in DOMAIN agenda /\ agenda[1].f = "stop" /\ agenda[1].e = D
        /\ Subject = agenda[1].c /\ Head(agenda) = agenda[1] /\ agenda[1] \in CallType
    BY Types, Running, Zenon DEF DmxStop
  <1>2. UNCHANGED link /\ MoreTorn
    BY Distinct, Types, SMT DEF MoreTorn, DmxStop, otherThanChannels, otherThanDmx, otherThanDec, otherThanSinks, chanVars, dmxVars, sessionVars, appVars, counters
  <1>3. CASE TRUE
    <2> DEFINE x == Call("flush", D)
    <2>1. /\ x \in CallType /\ x.f = "flush" /\ x.e = D
      <3>1. x \in CallType /\ x.f = "flush" /\ x.e = D
        BY Distinct, TypedOfD, Zenon
      <3>. QED
        BY <3>1
    <2>2. Then(<<x>>)
      BY <1>1, <1>3, Zenon DEF DmxStop
    <2> HIDE DEF x
    <2>3. Leads(agenda[1], x)
      BY <1>1, <2>1, <1>3, Distinct, Types, SMT DEF Leads, IsLast, DownCall
    <2>4. Sound(link, x)
      BY <1>0, <1>1, <2>1, <1>3, SMT DEF Sound
    <2>5. Tearing(x) => est'[V] # "STARTED"
      BY <1>0, <1>1, <2>1, <1>3, Distinct, SMT DEF Tearing
    <2>. QED
      BY <1>0, <1>2, <1>1, <2>1, <2>2, <2>3, <2>4, <2>5, CallsOne, Zenon
  <1>. QED
    BY <1>3, Zenon DEF DmxStop

\* flush() of the demuxer.
LEMMA DmxFlushCalls ==
  ASSUME TypeOK, ChainInv, DmxFlush
  PROVE  CallInv'
  <1>0. CallInv /\ TornState /\ LinkInv /\ OrderInv /\ NextInv /\ TornCalls
    BY Zenon DEF ChainInv, CallInv
  <1>1. /\ agenda # <<>> /\ 1 \in DOMAIN agenda /\ agenda[1].f = "flush" /\ agenda[1].e = D
        /\ Subject = agenda[1].c /\ Head(agenda) = agenda[1] /\ agenda[1] \in CallType
    BY Types, Running, Zenon DEF DmxFlush
  <1>2. UNCHANGED link /\ MoreTorn
    BY Zenon DEF MoreTorn, DmxFlush, otherThanChannels, otherThanDmx, otherThanDec, otherThanSinks, chanVars, dmxVars, sessionVars, appVars, counters
  <1>3. CASE TRUE
    <2> DEFINE x == CallLoop("flushAt", D, 1, Len(dmxOut))
    <2>1. /\ x \in CallType /\ x.f = "flushAt" /\ x.e = D
      <3>1. x \in CallType /\ x.f = "flushAt" /\ x.e = D
        BY Distinct, TypedLoop, TypedLoopD, SMT
      <3>. QED
        BY <3>1
    <2>2. Then(<<x>>)
      BY <1>1, <1>3, Zenon DEF DmxFlush
    <2> HIDE DEF x
    <2>3. Leads(agenda[1], x)
      BY <1>1, <2>1, <1>3, Distinct, Types, SMT DEF Leads, IsLast, DownCall
    <2>4. Sound(link, x)
      BY <1>0, <1>1, <2>1, <1>3, SMT DEF Sound
    <2>5. Tearing(x) => est'[V] # "STARTED"
      BY <1>0, <1>1, <2>1, <1>3, Distinct, SMT DEF Tearing
    <2>. QED
      BY <1>0, <1>2, <1>1, <2>1, <2>2, <2>3, <2>4, <2>5, CallsOne, Zenon
  <1>. QED
    BY <1>3, Zenon DEF DmxFlush

\* A turn of its loop.
LEMMA DmxFlushAtCalls ==
  ASSUME TypeOK, ChainInv, DmxFlushAt
  PROVE  CallInv'
  <1> DEFINE i == Head(agenda).i
             n == Head(agenda).n
  <1>0. CallInv /\ TornState /\ LinkInv /\ OrderInv /\ NextInv /\ TornCalls
    BY Zenon DEF ChainInv, CallInv
  <1>1. /\ agenda # <<>> /\ 1 \in DOMAIN agenda /\ agenda[1].f = "flushAt" /\ agenda[1].e = D
        /\ Subject = agenda[1].c /\ Head(agenda) = agenda[1] /\ agenda[1] \in CallType
    BY Types, Running, Zenon DEF DmxFlushAt
  <1>2. UNCHANGED link /\ MoreTorn
    BY Zenon DEF MoreTorn, DmxFlushAt, otherThanChannels, otherThanDmx, otherThanDec, otherThanSinks, chanVars, dmxVars, sessionVars, appVars, counters
  <1>3. i \in Nat \ {0} /\ n \in Nat /\ Len(dmxOut) \in Nat
    BY <1>1, CallFields, Types, SMT
  <1>4. i <= Len(dmxOut) => dmxOut[i] \in SinkElements /\ link[dmxOut[i]] # None
    <2>1. ASSUME i <= Len(dmxOut)
          PROVE  dmxOut[i] \in SinkElements /\ Contains(dmxOut, dmxOut[i])
      <3>1. dmxOut \in Seq(SinkElements)
        BY Types
      <3>2. i \in DOMAIN dmxOut /\ i \in 1..Len(dmxOut)
        BY <1>3, <2>1, <3>1, SMT
      <3>3. dmxOut[i] \in SinkElements
        BY <3>1, <3>2, SMT
      <3>. QED
        BY <3>2, <3>3, Zenon DEF Contains
    <2>. QED
      BY <1>0, <2>1, Distinct, Zenon DEF LinkInv
  <1>5. CASE i <= n /\ i <= Len(dmxOut)
    <2> DEFINE x == Call("channel.flush", dmxOut[i])
               y == CallLoop("flushed", D, i, n)
    <2>1. /\ x \in CallType /\ x.f = "channel.flush" /\ x.e = dmxOut[i]
          /\ y \in CallType /\ y.f = "flushed" /\ y.e = D
      <3>1. x \in CallType /\ x.f = "channel.flush" /\ x.e = dmxOut[i]
        BY <1>3, <1>4, <1>5, Distinct, TypedOfChannel, SMT
      <3>2. y \in CallType /\ y.f = "flushed" /\ y.e = D
        BY <1>3, <1>4, <1>5, Distinct, TypedLoop, TypedLoopD, SMT
      <3>. QED
        BY <3>1, <3>2
    <2>2. Then(<<x, y>>)
      BY <1>3, <1>4, <1>1, <1>5, SMT DEF DmxFlushAt
    <2> HIDE DEF x, y
    <2>3. Leads(agenda[1], x) /\ Leads(agenda[1], y)
      BY <1>1, <2>1, <1>5, <1>3, <1>4, Distinct, Types, SMT DEF Leads, IsLast, DownCall
    <2>4. Sound(link, x)
      BY <1>0, <1>1, <2>1, <1>5, <1>3, <1>4, SMT DEF Sound
    <2>5. Tearing(x) \/ Tearing(y) => est'[V] # "STARTED"
      BY <1>0, <1>1, <2>1, <1>5, <1>3, <1>4, Distinct, SMT DEF Tearing
    <2>6. MayFollow(link, x, y)
      BY <1>0, <1>1, <2>1, <1>5, <1>3, <1>4, Distinct, SMT DEF MayFollow, AtOnce, Immediate, IsLast, DownCall
    <2>. QED
      BY <1>0, <1>2, <1>1, <2>1, <2>2, <2>3, <2>4, <2>5, <2>6, CallsTwo, Zenon
  <1>6. CASE i <= n /\ i > Len(dmxOut)
    <2> DEFINE x == CallLoop("flushAt", D, i + 1, n)
    <2>1. /\ x \in CallType /\ x.f = "flushAt" /\ x.e = D
      <3>1. x \in CallType /\ x.f = "flushAt" /\ x.e = D
        BY <1>3, <1>4, <1>6, Distinct, TypedLoop, TypedLoopD, SMT
      <3>. QED
        BY <3>1
    <2>2. Then(<<x>>)
      BY <1>3, <1>4, <1>1, <1>6, SMT DEF DmxFlushAt
    <2> HIDE DEF x
    <2>3. Leads(agenda[1], x)
      BY <1>1, <2>1, <1>6, <1>3, <1>4, Distinct, Types, SMT DEF Leads, IsLast, DownCall
    <2>4. Sound(link, x)
      BY <1>0, <1>1, <2>1, <1>6, <1>3, <1>4, SMT DEF Sound
    <2>5. Tearing(x) => est'[V] # "STARTED"
      BY <1>0, <1>1, <2>1, <1>6, <1>3, <1>4, Distinct, SMT DEF Tearing
    <2>. QED
      BY <1>0, <1>2, <1>1, <2>1, <2>2, <2>3, <2>4, <2>5, CallsOne, Zenon
  <1>7. CASE i > n
    <2>1. Return
      BY <1>3, <1>4, <1>7, SMT DEF DmxFlushAt
    <2>2. agenda[1].f # "onChannelUnlink"
      BY <1>1
    <2>. QED
      BY <1>0, <1>1, <1>2, <2>1, <2>2, CallsNone, Zenon
  <1>. QED
    BY <1>5, <1>6, <1>7, <1>3, <1>4, Zenon DEF DmxFlushAt

\* The channel is counted.
LEMMA DmxChannelCountedCalls ==
  ASSUME TypeOK, ChainInv, DmxChannelCounted
  PROVE  CallInv'
  <1>0. CallInv /\ TornState /\ LinkInv /\ OrderInv /\ NextInv /\ TornCalls
    BY Zenon DEF ChainInv, CallInv
  <1>1. /\ agenda # <<>> /\ 1 \in DOMAIN agenda /\ agenda[1].f = "flushed" /\ agenda[1].e = D
        /\ Subject = agenda[1].c /\ Head(agenda) = agenda[1] /\ agenda[1] \in CallType
    BY Types, Running, Zenon DEF DmxChannelCounted
  <1>2. UNCHANGED link /\ MoreTorn
    BY Zenon DEF MoreTorn, DmxChannelCounted, otherThanChannels, otherThanDmx, otherThanDec, otherThanSinks, chanVars, dmxVars, sessionVars, appVars, counters
  <1>3. Head(agenda).i \in Nat \ {0} /\ Head(agenda).n \in Nat
    BY <1>1, CallFields, Types, SMT
  <1>4. CASE TRUE
    <2> DEFINE x == CallLoop("flushAt", D, Head(agenda).i + 1, Head(agenda).n)
    <2>1. /\ x \in CallType /\ x.f = "flushAt" /\ x.e = D
      <3>1. x \in CallType /\ x.f = "flushAt" /\ x.e = D
        BY <1>3, <1>4, Distinct, TypedLoop, TypedLoopD, SMT
      <3>. QED
        BY <3>1
    <2>2. Then(<<x>>)
      BY <1>3, <1>1, <1>4, Zenon DEF DmxChannelCounted
    <2> HIDE DEF x
    <2>3. Leads(agenda[1], x)
      BY <1>1, <2>1, <1>4, <1>3, Distinct, Types, SMT DEF Leads, IsLast, DownCall
    <2>4. Sound(link, x)
      BY <1>0, <1>1, <2>1, <1>4, <1>3, SMT DEF Sound
    <2>5. Tearing(x) => est'[V] # "STARTED"
      BY <1>0, <1>1, <2>1, <1>4, <1>3, Distinct, SMT DEF Tearing
    <2>. QED
      BY <1>0, <1>2, <1>1, <2>1, <2>2, <2>3, <2>4, <2>5, CallsOne, Zenon
  <1>. QED
    BY <1>4, <1>3, Zenon DEF DmxChannelCounted

\* onChannelFlushed() of the demuxer.
LEMMA DmxOnChannelFlushedCalls ==
  ASSUME TypeOK, ChainInv, DmxOnChannelFlushed
  PROVE  CallInv'
  <1>0. CallInv /\ TornState /\ LinkInv /\ OrderInv /\ NextInv /\ TornCalls
    BY Zenon DEF ChainInv, CallInv
  <1>1. /\ agenda # <<>> /\ 1 \in DOMAIN agenda /\ agenda[1].f = "onChannelFlushed" /\ agenda[1].e = D
        /\ Subject = agenda[1].c /\ Head(agenda) = agenda[1] /\ agenda[1] \in CallType
    BY Types, Running, Zenon DEF DmxOnChannelFlushed
  <1>2. UNCHANGED link /\ MoreTorn
    BY Zenon DEF MoreTorn, DmxOnChannelFlushed, otherThanChannels, otherThanDmx, otherThanDec, otherThanSinks, chanVars, dmxVars, sessionVars, appVars, counters
  <1>3. Subject \in SinkElements
    BY <1>1, CallFields, SMT
  <1>4. CASE est[D] # "STOPPING"
    <2> DEFINE x == Call("channelFlushed", D)
    <2>1. /\ x \in CallType /\ x.f = "channelFlushed" /\ x.e = D
      <3>1. x \in CallType /\ x.f = "channelFlushed" /\ x.e = D
        BY <1>3, Distinct, TypedOfD, Zenon
      <3>. QED
        BY <3>1
    <2>2. Then(<<x>>)
      <3>1. Then((<<>>) \o <<x>>)
        BY <1>3, <1>1, <1>4, Zenon DEF DmxOnChannelFlushed
      <3>. HIDE DEF x
      <3>2. <<x>> \in Seq(CallType)
        BY <2>1, Chains, Zenon
      <3>. QED
        BY <2>1, <3>1, <3>2, JoinNone, Zenon
    <2> HIDE DEF x
    <2>3. Leads(agenda[1], x)
      BY <1>1, <2>1, <1>4, <1>3, Distinct, Types, SMT DEF Leads, IsLast, DownCall
    <2>4. Sound(link, x)
      BY <1>0, <1>1, <2>1, <1>4, <1>3, SMT DEF Sound
    <2>5. Tearing(x) => est'[V] # "STARTED"
      BY <1>0, <1>1, <2>1, <1>4, <1>3, Distinct, SMT DEF Tearing
    <2>. QED
      BY <1>0, <1>2, <1>1, <2>1, <2>2, <2>3, <2>4, <2>5, CallsOne, Zenon
  <1>5. CASE est[D] = "STOPPING"
    <2> DEFINE x == Call("onChannelTeardown", Subject)
               y == Call("channelFlushed", D)
    <2>1. /\ x \in CallType /\ x.f = "onChannelTeardown" /\ x.e = Subject
          /\ y \in CallType /\ y.f = "channelFlushed" /\ y.e = D
      <3>1. x \in CallType /\ x.f = "onChannelTeardown" /\ x.e = Subject
        BY <1>3, Distinct, TypedOfChannel, Zenon
      <3>2. y \in CallType /\ y.f = "channelFlushed" /\ y.e = D
        BY <1>3, Distinct, TypedOfD, Zenon
      <3>. QED
        BY <3>1, <3>2
    <2>2. Then(<<x, y>>)
      <3>1. Then((<<x>>) \o <<y>>)
        BY <1>3, <1>1, <1>5, Zenon DEF DmxOnChannelFlushed
      <3>. HIDE DEF x, y
      <3>2. <<y>> \in Seq(CallType)
        BY <2>1, Chains, Zenon
      <3>. QED
        BY <2>1, <3>1, <3>2, JoinOne, Zenon
    <2> HIDE DEF x, y
    <2>3. Leads(agenda[1], x) /\ Leads(agenda[1], y)
      BY <1>1, <2>1, <1>5, <1>3, Distinct, Types, SMT DEF Leads, IsLast, DownCall
    <2>4. Sound(link, x)
      BY <1>0, <1>1, <2>1, <1>5, <1>3, SMT DEF Sound
    <2>5. Tearing(x) \/ Tearing(y) => est'[V] # "STARTED"
      BY <1>0, <1>1, <2>1, <1>5, <1>3, Distinct, SMT DEF Tearing
    <2>6. MayFollow(link, x, y)
      BY <1>0, <1>1, <2>1, <1>5, <1>3, Distinct, SMT DEF MayFollow, AtOnce, Immediate, IsLast, DownCall
    <2>. QED
      BY <1>0, <1>2, <1>1, <2>1, <2>2, <2>3, <2>4, <2>5, <2>6, CallsTwo, Zenon
  <1>. QED
    BY <1>4, <1>5, <1>3, Zenon DEF DmxOnChannelFlushed

\* Its end.
LEMMA DmxChannelFlushedCalls ==
  ASSUME TypeOK, ChainInv, DmxChannelFlushed
  PROVE  CallInv'
  <1>0. CallInv /\ TornState /\ LinkInv /\ OrderInv /\ NextInv /\ TornCalls
    BY Zenon DEF ChainInv, CallInv
  <1>1. /\ agenda # <<>> /\ 1 \in DOMAIN agenda /\ agenda[1].f = "channelFlushed" /\ agenda[1].e = D
        /\ Subject = agenda[1].c /\ Head(agenda) = agenda[1] /\ agenda[1] \in CallType
    BY Types, Running, Zenon DEF DmxChannelFlushed
  <1>2. UNCHANGED link /\ MoreTorn
    BY Zenon DEF MoreTorn, DmxChannelFlushed, otherThanChannels, otherThanDmx, otherThanDec, otherThanSinks, chanVars, dmxVars, sessionVars, appVars, counters
  <1>3. CASE TRUE
    <2>1. Return
      BY <1>3, Zenon DEF DmxChannelFlushed
    <2>2. agenda[1].f # "onChannelUnlink"
      BY <1>1
    <2>. QED
      BY <1>0, <1>1, <1>2, <2>1, <2>2, CallsNone, Zenon
  <1>. QED
    BY <1>3, Zenon DEF DmxChannelFlushed

\* stop() of the decoder.
LEMMA DecStopCalls ==
  ASSUME TypeOK, ChainInv, DecStop
  PROVE  CallInv'
  <1>0. CallInv /\ TornState /\ LinkInv /\ OrderInv /\ NextInv /\ TornCalls
    BY Zenon DEF ChainInv, CallInv
  <1>1. /\ agenda # <<>> /\ 1 \in DOMAIN agenda /\ agenda[1].f = "onChannelTeardown" /\ agenda[1].e = V
        /\ Subject = agenda[1].c /\ Head(agenda) = agenda[1] /\ agenda[1] \in CallType
    BY Types, Running, Zenon DEF DecStop
  <1>2. UNCHANGED link /\ MoreTorn
    BY Distinct, Types, SMT DEF MoreTorn, DecStop, otherThanChannels, otherThanDmx, otherThanDec, otherThanSinks, chanVars, dmxVars, sessionVars, appVars, counters
  <1>3. CASE est[V] = "STARTED"
    <2> DEFINE x == Call("flush", V)
    <2>1. /\ x \in CallType /\ x.f = "flush" /\ x.e = V
      <3>1. x \in CallType /\ x.f = "flush" /\ x.e = V
        BY Distinct, TypedOfV, Zenon
      <3>. QED
        BY <3>1
    <2>2. Then(<<x>>)
      BY <1>1, <1>3, Zenon DEF DecStop
    <2> HIDE DEF x
    <2>3. Leads(agenda[1], x)
      BY <1>1, <2>1, <1>3, Distinct, Types, SMT DEF Leads, IsLast, DownCall
    <2>4. Sound(link, x)
      BY <1>0, <1>1, <2>1, <1>3, SMT DEF Sound
    <2>5. Tearing(x) => est'[V] # "STARTED"
      BY <1>0, <1>1, <2>1, <1>3, Distinct, SMT DEF Tearing
    <2>. QED
      BY <1>0, <1>2, <1>1, <2>1, <2>2, <2>3, <2>4, <2>5, CallsOne, Zenon
  <1>4. CASE est[V] # "STARTED"
    <2>1. Return
      BY <1>4, Zenon DEF DecStop
    <2>2. agenda[1].f # "onChannelUnlink"
      BY <1>1
    <2>. QED
      BY <1>0, <1>1, <1>2, <2>1, <2>2, CallsNone, Zenon
  <1>. QED
    BY <1>3, <1>4, Zenon DEF DecStop

\* onChannelFlush() of the decoder.
LEMMA DecOnChannelFlushCalls ==
  ASSUME TypeOK, ChainInv, DecOnChannelFlush
  PROVE  CallInv'
  <1>0. CallInv /\ TornState /\ LinkInv /\ OrderInv /\ NextInv /\ TornCalls
    BY Zenon DEF ChainInv, CallInv
  <1>1. /\ agenda # <<>> /\ 1 \in DOMAIN agenda /\ agenda[1].f = "onChannelFlush" /\ agenda[1].e = V
        /\ Subject = agenda[1].c /\ Head(agenda) = agenda[1] /\ agenda[1] \in CallType
    BY Types, Running, Zenon DEF DecOnChannelFlush
  <1>2. UNCHANGED link /\ MoreTorn
    BY Zenon DEF MoreTorn, DecOnChannelFlush, otherThanChannels, otherThanDmx, otherThanDec, otherThanSinks, chanVars, dmxVars, sessionVars, appVars, counters
  <1>3. CASE TRUE
    <2> DEFINE x == Call("flush", V)
    <2>1. /\ x \in CallType /\ x.f = "flush" /\ x.e = V
      <3>1. x \in CallType /\ x.f = "flush" /\ x.e = V
        BY Distinct, TypedOfV, Zenon
      <3>. QED
        BY <3>1
    <2>2. Then(<<x>>)
      BY <1>1, <1>3, Zenon DEF DecOnChannelFlush
    <2> HIDE DEF x
    <2>3. Leads(agenda[1], x)
      BY <1>1, <2>1, <1>3, Distinct, Types, SMT DEF Leads, IsLast, DownCall
    <2>4. Sound(link, x)
      BY <1>0, <1>1, <2>1, <1>3, SMT DEF Sound
    <2>5. Tearing(x) => est'[V] # "STARTED"
      BY <1>0, <1>1, <2>1, <1>3, Distinct, SMT DEF Tearing
    <2>. QED
      BY <1>0, <1>2, <1>1, <2>1, <2>2, <2>3, <2>4, <2>5, CallsOne, Zenon
  <1>. QED
    BY <1>3, Zenon DEF DecOnChannelFlush

\* vdec is asked to flush.
LEMMA VdecFlushCalls ==
  ASSUME TypeOK, ChainInv, VdecFlush
  PROVE  CallInv'
  <1>0. CallInv /\ TornState /\ LinkInv /\ OrderInv /\ NextInv /\ TornCalls
    BY Zenon DEF ChainInv, CallInv
  <1>1. /\ agenda # <<>> /\ 1 \in DOMAIN agenda /\ agenda[1].f = "vdec_flush" /\ agenda[1].e = V
        /\ Subject = agenda[1].c /\ Head(agenda) = agenda[1] /\ agenda[1] \in CallType
    BY Types, Running, Zenon DEF VdecFlush
  <1>2. UNCHANGED link /\ MoreTorn
    BY Zenon DEF MoreTorn, VdecFlush, otherThanChannels, otherThanDmx, otherThanDec, otherThanSinks, chanVars, dmxVars, sessionVars, appVars, counters
  <1>3. CASE TRUE
    <2>1. Return
      BY <1>3, Zenon DEF VdecFlush
    <2>2. agenda[1].f # "onChannelUnlink"
      BY <1>1
    <2>. QED
      BY <1>0, <1>1, <1>2, <2>1, <2>2, CallsNone, Zenon
  <1>. QED
    BY <1>3, Zenon DEF VdecFlush

\* completeFlush().
LEMMA DecCompleteFlushCalls ==
  ASSUME TypeOK, ChainInv, DecCompleteFlush
  PROVE  CallInv'
  <1>0. CallInv /\ TornState /\ LinkInv /\ OrderInv /\ NextInv /\ TornCalls
    BY Zenon DEF ChainInv, CallInv
  <1>1. /\ agenda # <<>> /\ 1 \in DOMAIN agenda /\ agenda[1].f = "completeFlush" /\ agenda[1].e = V
        /\ Subject = agenda[1].c /\ Head(agenda) = agenda[1] /\ agenda[1] \in CallType
    BY Types, Running, Zenon DEF DecCompleteFlush
  <1>2. UNCHANGED link /\ MoreTorn
    BY Zenon DEF MoreTorn, DecCompleteFlush, otherThanChannels, otherThanDmx, otherThanDec, otherThanSinks, chanVars, dmxVars, sessionVars, appVars, counters
  <1>3. CASE dec.mVdecFlushPending \/ DecOutputFlushPending
    <2>1. Return
      BY <1>3, Zenon DEF DecCompleteFlush
    <2>2. agenda[1].f # "onChannelUnlink"
      BY <1>1
    <2>. QED
      BY <1>0, <1>1, <1>2, <2>1, <2>2, CallsNone, Zenon
  <1>4. CASE ~(dec.mVdecFlushPending \/ DecOutputFlushPending) /\ ~dec.mInputMedia
    <2> DEFINE x == Call("afterFlush", V)
    <2>1. /\ x \in CallType /\ x.f = "afterFlush" /\ x.e = V
      <3>1. x \in CallType /\ x.f = "afterFlush" /\ x.e = V
        BY Distinct, TypedOfV, Zenon
      <3>. QED
        BY <3>1
    <2>2. Then(<<x>>)
      BY <1>1, <1>4, Zenon DEF DecCompleteFlush
    <2> HIDE DEF x
    <2>3. Leads(agenda[1], x)
      BY <1>1, <2>1, <1>4, Distinct, Types, SMT DEF Leads, IsLast, DownCall
    <2>4. Sound(link, x)
      BY <1>0, <1>1, <2>1, <1>4, SMT DEF Sound
    <2>5. Tearing(x) => est'[V] # "STARTED"
      BY <1>0, <1>1, <2>1, <1>4, Distinct, SMT DEF Tearing
    <2>. QED
      BY <1>0, <1>2, <1>1, <2>1, <2>2, <2>3, <2>4, <2>5, CallsOne, Zenon
  <1>5. CASE ~(dec.mVdecFlushPending \/ DecOutputFlushPending) /\ dec.mInputMedia /\ ~dec.mInputChannelFlushPending
    <2> DEFINE x == Call("afterFlush", V)
    <2>1. /\ x \in CallType /\ x.f = "afterFlush" /\ x.e = V
      <3>1. x \in CallType /\ x.f = "afterFlush" /\ x.e = V
        BY Distinct, TypedOfV, Zenon
      <3>. QED
        BY <3>1
    <2>2. Then(<<x>>)
      <3>1. Then((<<>>) \o <<x>>)
        BY <1>1, <1>5, Zenon DEF DecCompleteFlush
      <3>. HIDE DEF x
      <3>2. <<x>> \in Seq(CallType)
        BY <2>1, Chains, Zenon
      <3>. QED
        BY <2>1, <3>1, <3>2, JoinNone, Zenon
    <2> HIDE DEF x
    <2>3. Leads(agenda[1], x)
      BY <1>1, <2>1, <1>5, Distinct, Types, SMT DEF Leads, IsLast, DownCall
    <2>4. Sound(link, x)
      BY <1>0, <1>1, <2>1, <1>5, SMT DEF Sound
    <2>5. Tearing(x) => est'[V] # "STARTED"
      BY <1>0, <1>1, <2>1, <1>5, Distinct, SMT DEF Tearing
    <2>. QED
      BY <1>0, <1>2, <1>1, <2>1, <2>2, <2>3, <2>4, <2>5, CallsOne, Zenon
  <1>6. CASE ~(dec.mVdecFlushPending \/ DecOutputFlushPending) /\ dec.mInputMedia /\ dec.mInputChannelFlushPending
    <2> DEFINE x == Call("channel.flushDone", V)
               y == Call("afterFlush", V)
    <2>1. /\ x \in CallType /\ x.f = "channel.flushDone" /\ x.e = V
          /\ y \in CallType /\ y.f = "afterFlush" /\ y.e = V
      <3>1. x \in CallType /\ x.f = "channel.flushDone" /\ x.e = V
        BY Distinct, TypedOfChannel, Zenon
      <3>2. y \in CallType /\ y.f = "afterFlush" /\ y.e = V
        BY Distinct, TypedOfV, Zenon
      <3>. QED
        BY <3>1, <3>2
    <2>2. Then(<<x, y>>)
      <3>1. Then((<<x>>) \o <<y>>)
        BY <1>1, <1>6, Zenon DEF DecCompleteFlush
      <3>. HIDE DEF x, y
      <3>2. <<y>> \in Seq(CallType)
        BY <2>1, Chains, Zenon
      <3>. QED
        BY <2>1, <3>1, <3>2, JoinOne, Zenon
    <2> HIDE DEF x, y
    <2>3. Leads(agenda[1], x) /\ Leads(agenda[1], y)
      BY <1>1, <2>1, <1>6, Distinct, Types, SMT DEF Leads, IsLast, DownCall
    <2>4. Sound(link, x)
      BY <1>0, <1>1, <2>1, <1>6, SMT DEF Sound
    <2>5. Tearing(x) \/ Tearing(y) => est'[V] # "STARTED"
      BY <1>0, <1>1, <2>1, <1>6, Distinct, SMT DEF Tearing
    <2>6. MayFollow(link, x, y)
      BY <1>0, <1>1, <2>1, <1>6, Distinct, SMT DEF MayFollow, AtOnce, Immediate, IsLast, DownCall
    <2>. QED
      BY <1>0, <1>2, <1>1, <2>1, <2>2, <2>3, <2>4, <2>5, <2>6, CallsTwo, Zenon
  <1>. QED
    BY <1>3, <1>4, <1>5, <1>6, Zenon DEF DecCompleteFlush

\* completeResync() and tryStop().
LEMMA DecAfterFlushCalls ==
  ASSUME TypeOK, ChainInv, DecAfterFlush
  PROVE  CallInv'
  <1>0. CallInv /\ TornState /\ LinkInv /\ OrderInv /\ NextInv /\ TornCalls
    BY Zenon DEF ChainInv, CallInv
  <1>1. /\ agenda # <<>> /\ 1 \in DOMAIN agenda /\ agenda[1].f = "afterFlush" /\ agenda[1].e = V
        /\ Subject = agenda[1].c /\ Head(agenda) = agenda[1] /\ agenda[1] \in CallType
    BY Types, Running, Zenon DEF DecAfterFlush
  <1>2. UNCHANGED link /\ MoreTorn
    BY Zenon DEF MoreTorn, DecAfterFlush, otherThanChannels, otherThanDmx, otherThanDec, otherThanSinks, chanVars, dmxVars, sessionVars, appVars, counters
  <1>3. CASE est[V] # "STOPPING"
    <2>1. Return
      BY <1>3, Zenon DEF DecAfterFlush
    <2>2. agenda[1].f # "onChannelUnlink"
      BY <1>1
    <2>. QED
      BY <1>0, <1>1, <1>2, <2>1, <2>2, CallsNone, Zenon
  <1>4. CASE est[V] = "STOPPING" /\ ~dec.mInputMedia
    <2> DEFINE x == Call("teardownOutputs", V)
    <2>1. /\ x \in CallType /\ x.f = "teardownOutputs" /\ x.e = V
      <3>1. x \in CallType /\ x.f = "teardownOutputs" /\ x.e = V
        BY Distinct, TypedOfV, Zenon
      <3>. QED
        BY <3>1
    <2>2. Then(<<x>>)
      <3>1. Then((<<>>) \o <<x>>)
        BY <1>1, <1>4, Zenon DEF DecAfterFlush
      <3>. HIDE DEF x
      <3>2. <<x>> \in Seq(CallType)
        BY <2>1, Chains, Zenon
      <3>. QED
        BY <2>1, <3>1, <3>2, JoinNone, Zenon
    <2> HIDE DEF x
    <2>3. Leads(agenda[1], x)
      BY <1>1, <2>1, <1>4, Distinct, Types, SMT DEF Leads, IsLast, DownCall
    <2>4. Sound(link, x)
      BY <1>0, <1>1, <2>1, <1>4, SMT DEF Sound
    <2>5. Tearing(x) => est'[V] # "STARTED"
      BY <1>0, <1>1, <2>1, <1>4, <1>2, Distinct, SMT DEF Tearing, MoreTorn
    <2>. QED
      BY <1>0, <1>2, <1>1, <2>1, <2>2, <2>3, <2>4, <2>5, CallsOne, Zenon
  <1>5. CASE est[V] = "STOPPING" /\ dec.mInputMedia
    <2> DEFINE x == Call("removeInputMedia", V)
               y == Call("teardownOutputs", V)
    <2>1. /\ x \in CallType /\ x.f = "removeInputMedia" /\ x.e = V
          /\ y \in CallType /\ y.f = "teardownOutputs" /\ y.e = V
      <3>1. x \in CallType /\ x.f = "removeInputMedia" /\ x.e = V
        BY <1>5, Distinct, TypedOfChannel, Zenon
      <3>2. y \in CallType /\ y.f = "teardownOutputs" /\ y.e = V
        BY Distinct, TypedOfV, Zenon
      <3>. QED
        BY <3>1, <3>2
    <2>2. Then(<<x, y>>)
      <3>1. Then((<<x>>) \o <<y>>)
        BY <1>1, <1>5, Zenon DEF DecAfterFlush
      <3>. HIDE DEF x, y
      <3>2. <<y>> \in Seq(CallType)
        BY <2>1, Chains, Zenon
      <3>. QED
        BY <2>1, <3>1, <3>2, JoinOne, Zenon
    <2> HIDE DEF x, y
    <2>3. Leads(agenda[1], x) /\ Leads(agenda[1], y)
      BY <1>1, <2>1, <1>5, Distinct, Types, SMT DEF Leads, IsLast, DownCall
    <2>4. Sound(link, x)
      BY <1>0, <1>1, <2>1, <1>5, SMT DEF Sound
    <2>5. Tearing(x) \/ Tearing(y) => est'[V] # "STARTED"
      BY <1>0, <1>1, <2>1, <1>5, <1>2, Distinct, SMT DEF Tearing, MoreTorn
    <2>6. MayFollow(link, x, y)
      BY <1>0, <1>1, <2>1, <1>5, Distinct, SMT DEF MayFollow, AtOnce, Immediate, IsLast, DownCall
    <2>. QED
      BY <1>0, <1>2, <1>1, <2>1, <2>2, <2>3, <2>4, <2>5, <2>6, CallsTwo, Zenon
  <1>. QED
    BY <1>3, <1>4, <1>5, Zenon DEF DecAfterFlush

\* vdec is asked to stop.
LEMMA VdecStopCalls ==
  ASSUME TypeOK, ChainInv, VdecStop
  PROVE  CallInv'
  <1>0. CallInv /\ TornState /\ LinkInv /\ OrderInv /\ NextInv /\ TornCalls
    BY Zenon DEF ChainInv, CallInv
  <1>1. /\ agenda # <<>> /\ 1 \in DOMAIN agenda /\ agenda[1].f = "vdec_stop" /\ agenda[1].e = V
        /\ Subject = agenda[1].c /\ Head(agenda) = agenda[1] /\ agenda[1] \in CallType
    BY Types, Running, Zenon DEF VdecStop
  <1>2. UNCHANGED link /\ MoreTorn
    BY Zenon DEF MoreTorn, VdecStop, otherThanChannels, otherThanDmx, otherThanDec, otherThanSinks, chanVars, dmxVars, sessionVars, appVars, counters
  <1>3. CASE TRUE
    <2>1. Return
      BY <1>3, Zenon DEF VdecStop
    <2>2. agenda[1].f # "onChannelUnlink"
      BY <1>1
    <2>. QED
      BY <1>0, <1>1, <1>2, <2>1, <2>2, CallsNone, Zenon
  <1>. QED
    BY <1>3, Zenon DEF VdecStop

\* completeStop().
LEMMA DecCompleteStopCalls ==
  ASSUME TypeOK, ChainInv, DecCompleteStop
  PROVE  CallInv'
  <1>0. CallInv /\ TornState /\ LinkInv /\ OrderInv /\ NextInv /\ TornCalls
    BY Zenon DEF ChainInv, CallInv
  <1>1. /\ agenda # <<>> /\ 1 \in DOMAIN agenda /\ agenda[1].f = "completeStop" /\ agenda[1].e = V
        /\ Subject = agenda[1].c /\ Head(agenda) = agenda[1] /\ agenda[1] \in CallType
    BY Types, Running, Zenon DEF DecCompleteStop
  <1>2. UNCHANGED link /\ MoreTorn
    BY Distinct, Types, SMT DEF MoreTorn, DecCompleteStop, otherThanChannels, otherThanDmx, otherThanDec, otherThanSinks, chanVars, dmxVars, sessionVars, appVars, counters
  <1>3. CASE Then(<<CallOn("onElementStopped", None, V)>>)
    <2> DEFINE x == CallOn("onElementStopped", None, V)
    <2>1. /\ x \in CallType /\ x.f = "onElementStopped" /\ x.e = None
      <3>1. x \in CallType /\ x.f = "onElementStopped" /\ x.e = None
        BY Distinct, TypedStopped, TypedOfSession, Zenon
      <3>. QED
        BY <3>1
    <2>2. Then(<<x>>)
      BY <1>1, <1>3, Zenon DEF DecCompleteStop
    <2> HIDE DEF x
    <2>3. Leads(agenda[1], x)
      BY <1>1, <2>1, <1>3, Distinct, Types, SMT DEF Leads, IsLast, DownCall
    <2>4. Sound(link, x)
      BY <1>0, <1>1, <2>1, <1>3, SMT DEF Sound
    <2>5. Tearing(x) => est'[V] # "STARTED"
      BY <1>0, <1>1, <2>1, <1>3, Distinct, SMT DEF Tearing
    <2>. QED
      BY <1>0, <1>2, <1>1, <2>1, <2>2, <2>3, <2>4, <2>5, CallsOne, Zenon
  <1>4. CASE Return
    <2>1. Return
      BY <1>4, Zenon DEF DecCompleteStop
    <2>2. agenda[1].f # "onChannelUnlink"
      BY <1>1
    <2>. QED
      BY <1>0, <1>1, <1>2, <2>1, <2>2, CallsNone, Zenon
  <1>. QED
    BY <1>3, <1>4, Zenon DEF DecCompleteStop

\* onChannelFlushed() of the decoder.
LEMMA DecOnChannelFlushedCalls ==
  ASSUME TypeOK, ChainInv, DecOnChannelFlushed
  PROVE  CallInv'
  <1>0. CallInv /\ TornState /\ LinkInv /\ OrderInv /\ NextInv /\ TornCalls
    BY Zenon DEF ChainInv, CallInv
  <1>1. /\ agenda # <<>> /\ 1 \in DOMAIN agenda /\ agenda[1].f = "onChannelFlushed" /\ agenda[1].e = V
        /\ Subject = agenda[1].c /\ Head(agenda) = agenda[1] /\ agenda[1] \in CallType
    BY Types, Running, Zenon DEF DecOnChannelFlushed
  <1>2. UNCHANGED link /\ MoreTorn
    BY Zenon DEF MoreTorn, DecOnChannelFlushed, otherThanChannels, otherThanDmx, otherThanDec, otherThanSinks, chanVars, dmxVars, sessionVars, appVars, counters
  <1>3. CASE TRUE
    <2>1. Return
      BY <1>3, Zenon DEF DecOnChannelFlushed
    <2>2. agenda[1].f # "onChannelUnlink"
      BY <1>1
    <2>. QED
      BY <1>0, <1>1, <1>2, <2>1, <2>2, CallsNone, Zenon
  <1>. QED
    BY <1>3, Zenon DEF DecOnChannelFlushed

\* resync().
LEMMA DecResyncCalls ==
  ASSUME TypeOK, ChainInv, DecResync
  PROVE  CallInv'
  <1>0. CallInv /\ TornState /\ LinkInv /\ OrderInv /\ NextInv /\ TornCalls
    BY Zenon DEF ChainInv, CallInv
  <1>1. /\ agenda # <<>> /\ 1 \in DOMAIN agenda /\ agenda[1].f = "resync" /\ agenda[1].e = V
        /\ Subject = agenda[1].c /\ Head(agenda) = agenda[1] /\ agenda[1] \in CallType
    BY Types, Running, Zenon DEF DecResync
  <1>2. UNCHANGED link /\ MoreTorn
    BY Zenon DEF MoreTorn, DecResync, otherThanChannels, otherThanDmx, otherThanDec, otherThanSinks, chanVars, dmxVars, sessionVars, appVars, counters
  <1>3. CASE TRUE
    <2>1. Return
      BY <1>3, Zenon DEF DecResync
    <2>2. agenda[1].f # "onChannelUnlink"
      BY <1>1
    <2>. QED
      BY <1>0, <1>1, <1>2, <2>1, <2>2, CallsNone, Zenon
  <1>. QED
    BY <1>3, Zenon DEF DecResync

\* stop() of a sink.
LEMMA SinkStopCalls ==
  ASSUME TypeOK, ChainInv, NEW s \in Sinks, SinkStop(s)
  PROVE  CallInv'
  <1>0. CallInv /\ TornState /\ LinkInv /\ OrderInv /\ NextInv /\ TornCalls
    BY Zenon DEF ChainInv, CallInv
  <1>1. /\ agenda # <<>> /\ 1 \in DOMAIN agenda /\ agenda[1].f = "stop" /\ agenda[1].e = s
        /\ Subject = agenda[1].c /\ Head(agenda) = agenda[1] /\ agenda[1] \in CallType
    BY Types, Running, Zenon DEF SinkStop
  <1>2. UNCHANGED link /\ MoreTorn
    BY Distinct, Types, SMT DEF MoreTorn, SinkStop, otherThanChannels, otherThanDmx, otherThanDec, otherThanSinks, chanVars, dmxVars, sessionVars, appVars, counters
  <1>3. CASE sink[s].mInputMedia
    <2> DEFINE x == Call("onChannelTeardown", s)
    <2>1. /\ x \in CallType /\ x.f = "onChannelTeardown" /\ x.e = s
      <3>1. x \in CallType /\ x.f = "onChannelTeardown" /\ x.e = s
        BY Distinct, TypedOfChannel, Zenon
      <3>. QED
        BY <3>1
    <2>2. Then(<<x>>)
      BY <1>1, <1>3, Zenon DEF SinkStop
    <2> HIDE DEF x
    <2>3. Leads(agenda[1], x)
      BY <1>1, <2>1, <1>3, Distinct, Types, SMT DEF Leads, IsLast, DownCall
    <2>4. Sound(link, x)
      BY <1>0, <1>1, <2>1, <1>3, SMT DEF Sound
    <2>5. Tearing(x) => est'[V] # "STARTED"
      BY <1>0, <1>1, <2>1, <1>3, Distinct, SMT DEF Tearing
    <2>. QED
      BY <1>0, <1>2, <1>1, <2>1, <2>2, <2>3, <2>4, <2>5, CallsOne, Zenon
  <1>4. CASE ~sink[s].mInputMedia
    <2> DEFINE x == CallOn("onElementStopped", None, s)
    <2>1. /\ x \in CallType /\ x.f = "onElementStopped" /\ x.e = None
      <3>1. x \in CallType /\ x.f = "onElementStopped" /\ x.e = None
        BY Distinct, TypedStopped, TypedOfSession, Zenon
      <3>. QED
        BY <3>1
    <2>2. Then(<<x>>)
      BY <1>1, <1>4, Zenon DEF SinkStop
    <2> HIDE DEF x
    <2>3. Leads(agenda[1], x)
      BY <1>1, <2>1, <1>4, Distinct, Types, SMT DEF Leads, IsLast, DownCall
    <2>4. Sound(link, x)
      BY <1>0, <1>1, <2>1, <1>4, SMT DEF Sound
    <2>5. Tearing(x) => est'[V] # "STARTED"
      BY <1>0, <1>1, <2>1, <1>4, Distinct, SMT DEF Tearing
    <2>. QED
      BY <1>0, <1>2, <1>1, <2>1, <2>2, <2>3, <2>4, <2>5, CallsOne, Zenon
  <1>. QED
    BY <1>3, <1>4, Zenon DEF SinkStop

\* channelTeardown().
LEMMA SinkTeardownCalls ==
  ASSUME TypeOK, ChainInv, NEW s \in Sinks, SinkTeardown(s)
  PROVE  CallInv'
  <1>0. CallInv /\ TornState /\ LinkInv /\ OrderInv /\ NextInv /\ TornCalls
    BY Zenon DEF ChainInv, CallInv
  <1>1. /\ agenda # <<>> /\ 1 \in DOMAIN agenda /\ agenda[1].f = "onChannelTeardown" /\ agenda[1].e = s
        /\ Subject = agenda[1].c /\ Head(agenda) = agenda[1] /\ agenda[1] \in CallType
    BY Types, Running, Zenon DEF SinkTeardown
  <1>2. UNCHANGED link /\ MoreTorn
    BY Zenon DEF MoreTorn, SinkTeardown, otherThanChannels, otherThanDmx, otherThanDec, otherThanSinks, chanVars, dmxVars, sessionVars, appVars, counters
  <1>3. CASE sink[s].mInputMedia
    <2> DEFINE x == Call("removeInputMedia", s)
               y == Call("inputRemoved", s)
    <2>1. /\ x \in CallType /\ x.f = "removeInputMedia" /\ x.e = s
          /\ y \in CallType /\ y.f = "inputRemoved" /\ y.e = s
      <3>1. x \in CallType /\ x.f = "removeInputMedia" /\ x.e = s
        BY <1>3, Distinct, TypedOfChannel, Zenon
      <3>2. y \in CallType /\ y.f = "inputRemoved" /\ y.e = s
        BY <1>3, Distinct, TypedOfSink, Zenon
      <3>. QED
        BY <3>1, <3>2
    <2>2. Then(<<x, y>>)
      BY <1>1, <1>3, Zenon DEF SinkTeardown
    <2> HIDE DEF x, y
    <2>3. Leads(agenda[1], x) /\ Leads(agenda[1], y)
      BY <1>1, <2>1, <1>3, Distinct, Types, SMT DEF Leads, IsLast, DownCall
    <2>4. Sound(link, x)
      BY <1>0, <1>1, <2>1, <1>3, SMT DEF Sound
    <2>5. Tearing(x) \/ Tearing(y) => est'[V] # "STARTED"
      BY <1>0, <1>1, <2>1, <1>3, Distinct, SMT DEF Tearing
    <2>6. MayFollow(link, x, y)
      BY <1>0, <1>1, <2>1, <1>3, Distinct, SMT DEF MayFollow, AtOnce, Immediate, IsLast, DownCall
    <2>. QED
      BY <1>0, <1>2, <1>1, <2>1, <2>2, <2>3, <2>4, <2>5, <2>6, CallsTwo, Zenon
  <1>4. CASE ~sink[s].mInputMedia
    <2>1. Return
      BY <1>4, Zenon DEF SinkTeardown
    <2>2. agenda[1].f # "onChannelUnlink"
      BY <1>1
    <2>. QED
      BY <1>0, <1>1, <1>2, <2>1, <2>2, CallsNone, Zenon
  <1>. QED
    BY <1>3, <1>4, Zenon DEF SinkTeardown

\* The end of channelTeardown().
LEMMA SinkInputRemovedCalls ==
  ASSUME TypeOK, ChainInv, NEW s \in Sinks, SinkInputRemoved(s)
  PROVE  CallInv'
  <1>0. CallInv /\ TornState /\ LinkInv /\ OrderInv /\ NextInv /\ TornCalls
    BY Zenon DEF ChainInv, CallInv
  <1>1. /\ agenda # <<>> /\ 1 \in DOMAIN agenda /\ agenda[1].f = "inputRemoved" /\ agenda[1].e = s
        /\ Subject = agenda[1].c /\ Head(agenda) = agenda[1] /\ agenda[1] \in CallType
    BY Types, Running, Zenon DEF SinkInputRemoved
  <1>2. UNCHANGED link /\ MoreTorn
    BY Zenon DEF MoreTorn, SinkInputRemoved, otherThanChannels, otherThanDmx, otherThanDec, otherThanSinks, chanVars, dmxVars, sessionVars, appVars, counters
  <1>3. CASE TRUE
    <2> DEFINE x == Call("flush", s)
    <2>1. /\ x \in CallType /\ x.f = "flush" /\ x.e = s
      <3>1. x \in CallType /\ x.f = "flush" /\ x.e = s
        BY Distinct, TypedOfSink, Zenon
      <3>. QED
        BY <3>1
    <2>2. Then(<<x>>)
      BY <1>1, <1>3, Zenon DEF SinkInputRemoved
    <2> HIDE DEF x
    <2>3. Leads(agenda[1], x)
      BY <1>1, <2>1, <1>3, Distinct, Types, SMT DEF Leads, IsLast, DownCall
    <2>4. Sound(link, x)
      BY <1>0, <1>1, <2>1, <1>3, SMT DEF Sound
    <2>5. Tearing(x) => est'[V] # "STARTED"
      BY <1>0, <1>1, <2>1, <1>3, Distinct, SMT DEF Tearing
    <2>. QED
      BY <1>0, <1>2, <1>1, <2>1, <2>2, <2>3, <2>4, <2>5, CallsOne, Zenon
  <1>. QED
    BY <1>3, Zenon DEF SinkInputRemoved

\* onChannelFlush() of a sink.
LEMMA SinkOnChannelFlushCalls ==
  ASSUME TypeOK, ChainInv, NEW s \in Sinks, SinkOnChannelFlush(s)
  PROVE  CallInv'
  <1>0. CallInv /\ TornState /\ LinkInv /\ OrderInv /\ NextInv /\ TornCalls
    BY Zenon DEF ChainInv, CallInv
  <1>1. /\ agenda # <<>> /\ 1 \in DOMAIN agenda /\ agenda[1].f = "onChannelFlush" /\ agenda[1].e = s
        /\ Subject = agenda[1].c /\ Head(agenda) = agenda[1] /\ agenda[1] \in CallType
    BY Types, Running, Zenon DEF SinkOnChannelFlush
  <1>2. UNCHANGED link /\ MoreTorn
    BY Zenon DEF MoreTorn, SinkOnChannelFlush, otherThanChannels, otherThanDmx, otherThanDec, otherThanSinks, chanVars, dmxVars, sessionVars, appVars, counters
  <1>3. CASE TRUE
    <2> DEFINE x == Call("flush", s)
    <2>1. /\ x \in CallType /\ x.f = "flush" /\ x.e = s
      <3>1. x \in CallType /\ x.f = "flush" /\ x.e = s
        BY Distinct, TypedOfSink, Zenon
      <3>. QED
        BY <3>1
    <2>2. Then(<<x>>)
      BY <1>1, <1>3, Zenon DEF SinkOnChannelFlush
    <2> HIDE DEF x
    <2>3. Leads(agenda[1], x)
      BY <1>1, <2>1, <1>3, Distinct, Types, SMT DEF Leads, IsLast, DownCall
    <2>4. Sound(link, x)
      BY <1>0, <1>1, <2>1, <1>3, SMT DEF Sound
    <2>5. Tearing(x) => est'[V] # "STARTED"
      BY <1>0, <1>1, <2>1, <1>3, Distinct, SMT DEF Tearing
    <2>. QED
      BY <1>0, <1>2, <1>1, <2>1, <2>2, <2>3, <2>4, <2>5, CallsOne, Zenon
  <1>. QED
    BY <1>3, Zenon DEF SinkOnChannelFlush

\* flush() of a sink.
LEMMA SinkFlushCalls ==
  ASSUME TypeOK, ChainInv, NEW s \in Sinks, SinkFlush(s)
  PROVE  CallInv'
  <1>0. CallInv /\ TornState /\ LinkInv /\ OrderInv /\ NextInv /\ TornCalls
    BY Zenon DEF ChainInv, CallInv
  <1>1. /\ agenda # <<>> /\ 1 \in DOMAIN agenda /\ agenda[1].f = "flush" /\ agenda[1].e = s
        /\ Subject = agenda[1].c /\ Head(agenda) = agenda[1] /\ agenda[1] \in CallType
    BY Types, Running, Zenon DEF SinkFlush
  <1>2. UNCHANGED link /\ MoreTorn
    BY Zenon DEF MoreTorn, SinkFlush, otherThanChannels, otherThanDmx, otherThanDec, otherThanSinks, chanVars, dmxVars, sessionVars, appVars, counters
  <1>3. CASE sink[s].mIsFlushed
    <2> DEFINE x == Call("flushDone", s)
    <2>1. /\ x \in CallType /\ x.f = "flushDone" /\ x.e = s
      <3>1. x \in CallType /\ x.f = "flushDone" /\ x.e = s
        BY Distinct, TypedOfSink, Zenon
      <3>. QED
        BY <3>1
    <2>2. Then(<<x>>)
      BY <1>1, <1>3, Zenon DEF SinkFlush
    <2> HIDE DEF x
    <2>3. Leads(agenda[1], x)
      BY <1>1, <2>1, <1>3, Distinct, Types, SMT DEF Leads, IsLast, DownCall
    <2>4. Sound(link, x)
      BY <1>0, <1>1, <2>1, <1>3, SMT DEF Sound
    <2>5. Tearing(x) => est'[V] # "STARTED"
      BY <1>0, <1>1, <2>1, <1>3, Distinct, SMT DEF Tearing
    <2>. QED
      BY <1>0, <1>2, <1>1, <2>1, <2>2, <2>3, <2>4, <2>5, CallsOne, Zenon
  <1>4. CASE ~sink[s].mIsFlushed
    <2>1. Return
      BY <1>4, Zenon DEF SinkFlush
    <2>2. agenda[1].f # "onChannelUnlink"
      BY <1>1
    <2>. QED
      BY <1>0, <1>1, <1>2, <2>1, <2>2, CallsNone, Zenon
  <1>. QED
    BY <1>3, <1>4, Zenon DEF SinkFlush

\* flushDone().
LEMMA SinkFlushDoneCalls ==
  ASSUME TypeOK, ChainInv, NEW s \in Sinks, SinkFlushDone(s)
  PROVE  CallInv'
  <1>0. CallInv /\ TornState /\ LinkInv /\ OrderInv /\ NextInv /\ TornCalls
    BY Zenon DEF ChainInv, CallInv
  <1>1. /\ agenda # <<>> /\ 1 \in DOMAIN agenda /\ agenda[1].f = "flushDone" /\ agenda[1].e = s
        /\ Subject = agenda[1].c /\ Head(agenda) = agenda[1] /\ agenda[1] \in CallType
    BY Types, Running, Zenon DEF SinkFlushDone
  <1>2. UNCHANGED link /\ MoreTorn
    BY Zenon DEF MoreTorn, SinkFlushDone, otherThanChannels, otherThanDmx, otherThanDec, otherThanSinks, chanVars, dmxVars, sessionVars, appVars, counters
  <1>3. CASE sink[s].mInputMedia /\ sink[s].mInputChannelFlushPending
    <2> DEFINE x == Call("channel.flushDone", s)
               y == Call("completeStop", s)
    <2>1. /\ x \in CallType /\ x.f = "channel.flushDone" /\ x.e = s
          /\ y \in CallType /\ y.f = "completeStop" /\ y.e = s
      <3>1. x \in CallType /\ x.f = "channel.flushDone" /\ x.e = s
        BY Distinct, TypedOfChannel, Zenon
      <3>2. y \in CallType /\ y.f = "completeStop" /\ y.e = s
        BY Distinct, TypedOfSink, Zenon
      <3>. QED
        BY <3>1, <3>2
    <2>2. Then(<<x, y>>)
      BY <1>1, <1>3, Zenon DEF SinkFlushDone
    <2> HIDE DEF x, y
    <2>3. Leads(agenda[1], x) /\ Leads(agenda[1], y)
      BY <1>1, <2>1, <1>3, Distinct, Types, SMT DEF Leads, IsLast, DownCall
    <2>4. Sound(link, x)
      BY <1>0, <1>1, <2>1, <1>3, SMT DEF Sound
    <2>5. Tearing(x) \/ Tearing(y) => est'[V] # "STARTED"
      BY <1>0, <1>1, <2>1, <1>3, Distinct, SMT DEF Tearing
    <2>6. MayFollow(link, x, y)
      BY <1>0, <1>1, <2>1, <1>3, Distinct, SMT DEF MayFollow, AtOnce, Immediate, IsLast, DownCall
    <2>. QED
      BY <1>0, <1>2, <1>1, <2>1, <2>2, <2>3, <2>4, <2>5, <2>6, CallsTwo, Zenon
  <1>4. CASE ~(sink[s].mInputMedia /\ sink[s].mInputChannelFlushPending)
    <2> DEFINE x == Call("completeStop", s)
    <2>1. /\ x \in CallType /\ x.f = "completeStop" /\ x.e = s
      <3>1. x \in CallType /\ x.f = "completeStop" /\ x.e = s
        BY Distinct, TypedOfSink, Zenon
      <3>. QED
        BY <3>1
    <2>2. Then(<<x>>)
      BY <1>1, <1>4, Zenon DEF SinkFlushDone
    <2> HIDE DEF x
    <2>3. Leads(agenda[1], x)
      BY <1>1, <2>1, <1>4, Distinct, Types, SMT DEF Leads, IsLast, DownCall
    <2>4. Sound(link, x)
      BY <1>0, <1>1, <2>1, <1>4, SMT DEF Sound
    <2>5. Tearing(x) => est'[V] # "STARTED"
      BY <1>0, <1>1, <2>1, <1>4, Distinct, SMT DEF Tearing
    <2>. QED
      BY <1>0, <1>2, <1>1, <2>1, <2>2, <2>3, <2>4, <2>5, CallsOne, Zenon
  <1>. QED
    BY <1>3, <1>4, Zenon DEF SinkFlushDone

\* The end of flushDone().
LEMMA SinkCompleteStopCalls ==
  ASSUME TypeOK, ChainInv, NEW s \in Sinks, SinkCompleteStop(s)
  PROVE  CallInv'
  <1>0. CallInv /\ TornState /\ LinkInv /\ OrderInv /\ NextInv /\ TornCalls
    BY Zenon DEF ChainInv, CallInv
  <1>1. /\ agenda # <<>> /\ 1 \in DOMAIN agenda /\ agenda[1].f = "completeStop" /\ agenda[1].e = s
        /\ Subject = agenda[1].c /\ Head(agenda) = agenda[1] /\ agenda[1] \in CallType
    BY Types, Running, Zenon DEF SinkCompleteStop
  <1>2. UNCHANGED link /\ MoreTorn
    BY Distinct, Types, SMT DEF MoreTorn, SinkCompleteStop, otherThanChannels, otherThanDmx, otherThanDec, otherThanSinks, chanVars, dmxVars, sessionVars, appVars, counters
  <1>3. CASE est[s] = "STOPPING"
    <2> DEFINE x == CallOn("onElementStopped", None, s)
    <2>1. /\ x \in CallType /\ x.f = "onElementStopped" /\ x.e = None
      <3>1. x \in CallType /\ x.f = "onElementStopped" /\ x.e = None
        BY Distinct, TypedStopped, TypedOfSession, Zenon
      <3>. QED
        BY <3>1
    <2>2. Then(<<x>>)
      BY <1>1, <1>3, Zenon DEF SinkCompleteStop
    <2> HIDE DEF x
    <2>3. Leads(agenda[1], x)
      BY <1>1, <2>1, <1>3, Distinct, Types, SMT DEF Leads, IsLast, DownCall
    <2>4. Sound(link, x)
      BY <1>0, <1>1, <2>1, <1>3, SMT DEF Sound
    <2>5. Tearing(x) => est'[V] # "STARTED"
      BY <1>0, <1>1, <2>1, <1>3, Distinct, SMT DEF Tearing
    <2>. QED
      BY <1>0, <1>2, <1>1, <2>1, <2>2, <2>3, <2>4, <2>5, CallsOne, Zenon
  <1>4. CASE est[s] # "STOPPING"
    <2>1. Return
      BY <1>4, Zenon DEF SinkCompleteStop
    <2>2. agenda[1].f # "onChannelUnlink"
      BY <1>1
    <2>. QED
      BY <1>0, <1>1, <1>2, <2>1, <2>2, CallsNone, Zenon
  <1>. QED
    BY <1>3, <1>4, Zenon DEF SinkCompleteStop

\* onElementStateChanged(STOPPED).
LEMMA OnElementStoppedCalls ==
  ASSUME TypeOK, ChainInv, OnElementStopped
  PROVE  CallInv'
  <1>0. CallInv /\ TornState /\ LinkInv /\ OrderInv /\ NextInv /\ TornCalls
    BY Zenon DEF ChainInv, CallInv
  <1>1. /\ agenda # <<>> /\ 1 \in DOMAIN agenda /\ agenda[1].f = "onElementStopped" /\ agenda[1].e = None
        /\ Subject = agenda[1].c /\ Head(agenda) = agenda[1] /\ agenda[1] \in CallType
    BY Types, Running, Zenon DEF OnElementStopped
  <1>2. UNCHANGED link /\ MoreTorn
    BY Zenon DEF MoreTorn, OnElementStopped, otherThanChannels, otherThanDmx, otherThanDec, otherThanSinks, chanVars, dmxVars, sessionVars, appVars, counters
  <1>3. CASE TRUE
    <2>1. Return
      BY <1>3, Zenon DEF OnElementStopped
    <2>2. agenda[1].f # "onChannelUnlink"
      BY <1>1
    <2>. QED
      BY <1>0, <1>1, <1>2, <2>1, <2>2, CallsNone, Zenon
  <1>. QED
    BY <1>3, Zenon DEF OnElementStopped

\* The chain after a call that made calls.
LEMMA CallsMany ==
  ASSUME TypeOK, CallInv, agenda # <<>>, NEW q \in Seq(CallType), 1 \in DOMAIN q, Then(q),
         UNCHANGED link, MoreTorn, \A i \in DOMAIN q : Leads(agenda[1], q[i]),
         \A i, j \in DOMAIN q : i < j => MayFollow(link, q[i], q[j]), Sound(link, q[1]),
         \A i \in DOMAIN q : Tearing(q[i]) => est'[V] # "STARTED"
  PROVE  CallInv'
  <1>0. agenda \in Seq(CallType) /\ OrderInv /\ NextInv /\ TornCalls
    BY Zenon DEF TypeOK, CallInv
  <1>1. OrderInv'
    <2>1. \A i, j \in DOMAIN q : i < j => MayFollow(link', q[i], q[j])
      BY Zenon
    <2>2. \A i \in DOMAIN q : \A y \in CallType :
              MayFollow(link, agenda[1], y) => MayFollow(link', q[i], y)
      BY LeadsOn, Zenon
    <2>3. \A x, y \in CallType :
              MayFollow(link, agenda[1], y) /\ MayFollow(link, x, y) => MayFollow(link', x, y)
      BY Zenon
    <2>. QED
      BY <1>0, <2>1, <2>2, <2>3, OrderThen, Zenon
  <1>2. /\ \A i \in DOMAIN q : i \in DOMAIN agenda' /\ agenda'[i] = q[i]
        /\ \A i \in DOMAIN agenda' :
              \/ i \in DOMAIN q /\ agenda'[i] = q[i]
              \/ \E j \in DOMAIN agenda : j # 1 /\ agenda'[i] = agenda[j]
    BY <1>0, Places, Zenon
  <1>3. NextInv'
    BY <1>2, Zenon DEF NextInv, Sound
  <1>4. TornCalls'
    BY <1>0, <1>2, Zenon DEF TornCalls, MoreTorn, Tearing
  <1>. QED
    BY <1>1, <1>3, <1>4, Zenon DEF CallInv

\* The chain after the source of a channel gave it up.
LEMMA CallsUnlinked ==
  ASSUME TypeOK, CallInv, agenda # <<>>, agenda[1].f = "onChannelUnlink",
         link' = [link EXCEPT ![agenda[1].c] = None], MoreTorn,
         NEW q \in Seq(CallType), Then(q),
         \A i \in DOMAIN q : q[i].f = "onElementStopped" /\ q[i].e = None,
         \A i, j \in DOMAIN q : ~(i < j)
  PROVE  CallInv'
  <1>0. /\ agenda \in Seq(CallType) /\ OrderInv /\ NextInv /\ TornCalls
        /\ link \in [SinkElements -> {D, V, None}] /\ agenda[1] \in CallType
    BY Line, Zenon DEF TypeOK, CallInv
  <1>1. /\ agenda[1].c \in SinkElements /\ link'[agenda[1].c] = None
        /\ \A c \in SinkElements : c # agenda[1].c => link'[c] = link[c]
    BY <1>0, CallFields, SMT
  <1>2. None # D /\ None # V /\ \A s \in Sinks : s \in SinkElements
    BY Distinct
  <1>3. ASSUME NEW y \in CallType, MayFollow(link, agenda[1], y)
        PROVE  /\ y.f \notin {"vdec_flush", "channel.flush", "onChannelFlushed", "onChannelUnlink"}
               /\ ~AtOnce(y)
               /\ y.f = "deleteChannel" => link'[y.e] = None
    <2>1. ~DownCall(link, agenda[1])
      BY SMT DEF DownCall
    <2>2. y.f = "deleteChannel" => y.e \in SinkElements
      BY CallFields, Zenon
    <2>3. y.f = "deleteChannel" => link[y.e] = None \/ agenda[1].c = y.e
      BY <1>3, Zenon DEF MayFollow
    <2>4. /\ y.f \notin {"vdec_flush", "channel.flush", "onChannelFlushed", "onChannelUnlink"}
          /\ ~AtOnce(y)
      BY <1>3, <2>1, SMT DEF MayFollow, AtOnce, Immediate
    <2>. QED
      BY <1>1, <2>2, <2>3, <2>4, Zenon
  <1>4. ASSUME NEW x \in CallType, DownCall(link, x)
        PROVE  DownCall(link', x)
    <2>1. x.e \in Sinks /\ link[x.e] # D => link'[x.e] # D
      BY <1>1, <1>2, Zenon
    <2>. QED
      BY <1>4, <2>1, SMT DEF DownCall
  <1>5. OrderInv'
    <2>1. \A i, j \in DOMAIN q : i < j => MayFollow(link', q[i], q[j])
      OBVIOUS
    <2>2. ASSUME NEW i \in DOMAIN q, NEW y \in CallType, MayFollow(link, agenda[1], y)
          PROVE  MayFollow(link', q[i], y)
      BY <1>3, <2>2, Distinct, SMT DEF MayFollow, IsLast
    <2>3. ASSUME NEW x \in CallType, NEW y \in CallType,
                 MayFollow(link, agenda[1], y), MayFollow(link, x, y)
          PROVE  MayFollow(link', x, y)
      BY <1>3, <2>3, Zenon DEF MayFollow
    <2>. QED
      BY <1>0, <2>1, <2>2, <2>3, OrderThen, Zenon
  <1>6. /\ \A i \in DOMAIN q : i \in DOMAIN agenda' /\ agenda'[i] = q[i]
        /\ \A i \in DOMAIN agenda' :
              \/ i \in DOMAIN q /\ agenda'[i] = q[i]
              \/ \E j \in DOMAIN agenda : j # 1 /\ agenda'[i] = agenda[j]
        /\ agenda' \in Seq(CallType)
    BY <1>0, Places, ZenonT(60)
  <1>7. NextInv'
    <2> SUFFICES ASSUME agenda' # <<>> PROVE Sound(link', agenda'[1])
      BY Zenon DEF NextInv
    <2>1. 1 \in DOMAIN agenda'
      BY <1>6, SMT
    <2>2. CASE 1 \in DOMAIN q /\ agenda'[1] = q[1]
      BY <2>2, SMT DEF Sound
    <2>3. CASE \E j \in DOMAIN agenda : j # 1 /\ agenda'[1] = agenda[j]
      <3>1. PICK j \in DOMAIN agenda : j # 1 /\ agenda'[1] = agenda[j]
        BY <2>3
      <3>2. agenda[j] \in CallType /\ MayFollow(link, agenda[1], agenda[j])
        BY <1>0, <3>1, Behind, SMT
      <3>3. Sound(link', agenda[j])
        BY <1>3, <3>2, SMT DEF Sound
      <3>. QED
        BY <3>1, <3>3
    <2>. QED
      BY <1>6, <2>1, <2>2, <2>3
  <1>8. TornCalls'
    <2>1. \A i \in DOMAIN q : ~Tearing(q[i])
      BY Distinct, SMT DEF Tearing
    <2>. QED
      BY <1>0, <1>6, <2>1, Zenon DEF TornCalls, MoreTorn, Tearing
  <1>. QED
    BY <1>5, <1>7, <1>8, Zenon DEF CallInv

\* onChannelUnlink() of the demuxer.
LEMMA DmxOnChannelUnlinkCalls ==
  ASSUME TypeOK, ChainInv, DmxOnChannelUnlink
  PROVE  CallInv'
  <1>0. CallInv
    BY Zenon DEF ChainInv
  <1>1. /\ agenda # <<>> /\ agenda[1].f = "onChannelUnlink" /\ Subject = agenda[1].c
        /\ link' = [link EXCEPT ![Subject] = None]
    BY Types, Running, Zenon DEF DmxOnChannelUnlink
  <1>2. MoreTorn
    <2>1. UNCHANGED est \/ est' = [est EXCEPT ![D] = "STOPPED"]
      BY Zenon DEF DmxOnChannelUnlink
    <2>. QED
      BY <2>1, Types, Distinct, SMT DEF MoreTorn
  <1> DEFINE x == CallOn("onElementStopped", None, D)
  <1>3. Then(<<>>) \/ Then(<<x>>)
    BY Zenon DEF DmxOnChannelUnlink, Return
  <1>4. x \in CallType /\ x.f = "onElementStopped" /\ x.e = None
    BY TypedOfSession, TypedStopped, Distinct, Zenon
  <1> HIDE DEF x
  <1>5. /\ <<>> \in Seq(CallType) /\ DOMAIN <<>> = {}
        /\ <<x>> \in Seq(CallType) /\ DOMAIN <<x>> = {1} /\ <<x>>[1] = x /\ ~(1 < 1)
    BY <1>4, Chains, SMT
  <1>6. CASE Then(<<>>)
    BY <1>0, <1>1, <1>2, <1>5, <1>6, CallsUnlinked, Zenon
  <1>7. CASE Then(<<x>>)
    <2> DEFINE q == <<x>>
    <2>1. /\ q \in Seq(CallType) /\ Then(q)
          /\ \A i \in DOMAIN q : q[i].f = "onElementStopped" /\ q[i].e = None
          /\ \A i, j \in DOMAIN q : ~(i < j)
      BY <1>4, <1>5, <1>7, Zenon
    <2> HIDE DEF q
    <2>. QED
      BY <1>0, <1>1, <1>2, <2>1, CallsUnlinked, Zenon
  <1>. QED
    BY <1>3, <1>6, <1>7

\* onChannelUnlink() of the decoder.
LEMMA DecOnChannelUnlinkCalls ==
  ASSUME TypeOK, ChainInv, DecOnChannelUnlink
  PROVE  CallInv'
  <1>0. CallInv
    BY Zenon DEF ChainInv
  <1>1. /\ agenda # <<>> /\ agenda[1].f = "onChannelUnlink" /\ Subject = agenda[1].c
        /\ link' = [link EXCEPT ![Subject] = None] /\ UNCHANGED est /\ Then(<<>>)
    BY Types, Running, Zenon DEF DecOnChannelUnlink, Return
  <1>2. <<>> \in Seq(CallType) /\ DOMAIN <<>> = {}
    BY Chains
  <1>. QED
    BY <1>0, <1>1, <1>2, CallsUnlinked, Zenon DEF MoreTorn

\* The calls of flush() and of teardownOutputs() of the decoder.
LEMMA CallAllAnd ==
  ASSUME NEW out \in Seq(Sinks), NEW y \in CallType,
         NEW f \in {"channel.flush", "onChannelTeardown"}
  PROVE  LET q == [i \in DOMAIN out |-> Call(f, out[i])] \o <<y>>
             n == Len(out) + 1
         IN  /\ q \in Seq(CallType) /\ 1 \in DOMAIN q
             /\ n \in DOMAIN q /\ q[n] = y
             /\ \A i \in DOMAIN q : /\ i = n \/ i \in DOMAIN out
                                    /\ i \in Nat
             /\ \A i \in DOMAIN out : /\ i \in DOMAIN q /\ i \in Nat /\ i < n
                                      /\ q[i] = Call(f, out[i]) /\ q[i] \in CallType
                                      /\ q[i].f = f /\ q[i].e = out[i] /\ out[i] \in Sinks
  <1> DEFINE outs == [i \in DOMAIN out |-> Call(f, out[i])]
             q == outs \o <<y>>
             l == Len(out)
  <1>1. l \in Nat /\ DOMAIN out = 1..l /\ \A i \in 1..l : out[i] \in Sinks
    BY SMT
  <1>2. \A i \in 1..l : /\ Call(f, out[i]) \in CallType /\ Call(f, out[i]).f = f
                        /\ Call(f, out[i]).e = out[i]
    <2>1. f \in {"channel.flush", "channel.flushDone", "onChannelFlush",
                 "onChannelTeardown", "removeInputMedia", "deleteChannel"}
      BY Zenon
    <2>2. ASSUME NEW i \in 1..l
          PROVE  /\ Call(f, out[i]) \in CallType /\ Call(f, out[i]).f = f
                 /\ Call(f, out[i]).e = out[i]
      <3>1. out[i] \in SinkElements
        BY <1>1, Distinct, Zenon
      <3>. QED
        BY <2>1, <3>1, TypedOfChannel, ZenonT(60)
    <2>. QED
      BY <2>2
  <1>3. outs = [i \in 1..l |-> Call(f, out[i])]
    BY <1>1, Zenon
  <1> HIDE DEF outs, l
  <1>4. /\ outs \in Seq(CallType) /\ Len(outs) = l /\ DOMAIN outs = 1..l
        /\ \A i \in 1..l : outs[i] = Call(f, out[i])
    BY <1>1, <1>2, <1>3, SMT
  <1>5. <<y>> \in Seq(CallType) /\ Len(<<y>>) = 1 /\ <<y>>[1] = y
    BY Chains
  <1>6. /\ q \in Seq(CallType) /\ Len(q) = Len(outs) + Len(<<y>>)
        /\ \A i \in 1..(Len(outs) + Len(<<y>>)) :
              q[i] = IF i <= Len(outs) THEN outs[i] ELSE <<y>>[i - Len(outs)]
    BY <1>4, <1>5, Concat, Zenon
  <1> HIDE DEF q
  <1>7. DOMAIN q = 1..(l + 1)
    BY <1>1, <1>4, <1>5, <1>6, SMT
  <1>8. 1 \in DOMAIN q /\ l + 1 \in DOMAIN q /\ q[l + 1] = y
    BY <1>1, <1>4, <1>5, <1>6, <1>7, SMT
  <1>9. \A i \in DOMAIN q : (i = l + 1 \/ i \in DOMAIN out) /\ i \in Nat
    BY <1>1, <1>7, SMT
  <1>10. ASSUME NEW i \in DOMAIN out
         PROVE  /\ i \in DOMAIN q /\ i \in Nat /\ i < l + 1 /\ q[i] = outs[i]
                /\ outs[i] = Call(f, out[i])
    <2>1. i \in 1..l /\ i \in DOMAIN q /\ i \in Nat /\ i < l + 1 /\ i <= l
      BY <1>1, <1>7, <1>10, SMT
    <2>2. i \in 1..(Len(outs) + Len(<<y>>)) /\ i <= Len(outs)
      BY <1>1, <1>4, <1>5, <2>1, SMT
    <2>. QED
      BY <1>4, <1>6, <2>1, <2>2, Zenon
  <1>. QED
    BY <1>1, <1>2, <1>6, <1>8, <1>9, <1>10, Zenon DEF q, outs, l

\* flush() of the decoder.
LEMMA DecFlushCalls ==
  ASSUME TypeOK, ChainInv, DecFlush
  PROVE  CallInv'
  <1>0. CallInv /\ TornState /\ LinkInv /\ OrderInv /\ NextInv /\ TornCalls
    BY Zenon DEF ChainInv, CallInv
  <1>1. /\ agenda # <<>> /\ 1 \in DOMAIN agenda /\ agenda[1].f = "flush" /\ agenda[1].e = V
    BY Types, Running, Zenon DEF DecFlush
  <1>2. UNCHANGED link /\ MoreTorn
    BY Zenon DEF DecFlush, MoreTorn
  <1>3. CASE dec.mIsFlushed
    <2> DEFINE x == Call("completeFlush", V)
    <2>1. x \in CallType /\ x.f = "completeFlush" /\ x.e = V
      BY TypedOfV, Zenon
    <2>2. Then(<<x>>)
      BY <1>3, Zenon DEF DecFlush
    <2> HIDE DEF x
    <2>3. x.c = V => x.f # "onChannelUnlink"
      BY <2>1
    <2>4. Leads(agenda[1], x) /\ Sound(link, x) /\ ~Tearing(x)
      BY <1>1, <2>1, Distinct, SMT DEF Leads, IsLast, DownCall, Sound, Tearing
    <2>. QED
      BY <1>0, <1>1, <1>2, <2>1, <2>2, <2>4, CallsOne, Zenon
  <1>4. CASE ~dec.mIsFlushed
    <2> DEFINE y == Call("vdec_flush", V)
               q == [i \in DOMAIN dec.out |-> Call("channel.flush", dec.out[i])] \o <<y>>
               n == Len(dec.out) + 1
    <2>1. y \in CallType /\ y.f = "vdec_flush" /\ y.e = V
      BY TypedOfV, Zenon
    <2>2. Then(q)
      BY <1>4, Zenon DEF DecFlush
    <2>3. dec.out \in Seq(Sinks) /\ DOMAIN dec.out = 1..Len(dec.out) /\ n \in Nat
      BY Types, SMT DEF DecType
    <2>4. \A i \in DOMAIN dec.out : link[dec.out[i]] = V
      <3>1. \A i \in DOMAIN dec.out : dec.out[i] \in SinkElements
        BY <2>3, Distinct, SMT
      <3>. QED
        BY <1>0, <2>3, <3>1, Zenon DEF LinkInv, Contains
    <2> HIDE DEF y
    <2>5. /\ q \in Seq(CallType) /\ 1 \in DOMAIN q
          /\ n \in DOMAIN q /\ q[n] = y
          /\ \A i \in DOMAIN q : (i = n \/ i \in DOMAIN dec.out) /\ i \in Nat
          /\ \A i \in DOMAIN dec.out :
                i < n /\ q[i].f = "channel.flush" /\ q[i].e = dec.out[i] /\ dec.out[i] \in Sinks
      BY <2>1, <2>3, CallAllAnd, ZenonT(60)
    <2> HIDE DEF q, n
    <2>6. \A i \in DOMAIN q :
             \/ i = n /\ q[i].f = "vdec_flush" /\ q[i].e = V
             \/ /\ i < n /\ q[i].f = "channel.flush" /\ q[i].e \in Sinks /\ link[q[i].e] = V
      BY <2>1, <2>4, <2>5, ZenonT(60)
    <2>7. /\ \A i \in DOMAIN q : Leads(agenda[1], q[i]) /\ ~Tearing(q[i])
          /\ Sound(link, q[1])
      BY <1>1, <2>5, <2>6, Distinct, SMT DEF Leads, IsLast, DownCall, Sound, Tearing
    <2>8. ASSUME NEW i \in DOMAIN q, NEW j \in DOMAIN q, i < j
          PROVE  MayFollow(link, q[i], q[j])
      <3>1. i # n \/ j # n
        BY <2>3, <2>5, <2>8, SMT
      <3>2. i # n
        <4>1. CASE i = n
          <5>1. j < n /\ j \in Nat
            BY <2>5, <3>1, <4>1, SMT
          <5>. QED
            BY <2>3, <2>8, <4>1, <5>1, SMT
        <4>. QED
          BY <4>1
      <3>3. q[i].f = "channel.flush" /\ q[i].e \in Sinks /\ link[q[i].e] = V
        BY <2>6, <3>2
      <3>4. DownCall(link, q[i]) /\ ~IsLast(q[i])
        BY <3>3, Distinct, SMT DEF DownCall, IsLast
      <3>5. \/ q[j].f = "vdec_flush" /\ q[j].e = V
            \/ q[j].f = "channel.flush" /\ q[j].e \in Sinks /\ link[q[j].e] = V
        BY <2>6
      <3>. QED
        BY <3>3, <3>4, <3>5, Distinct, SMT DEF MayFollow, AtOnce, Immediate
    <2>. QED
      BY <1>0, <1>1, <1>2, <2>2, <2>5, <2>7, <2>8, CallsMany, Zenon
  <1>. QED
    BY <1>3, <1>4

\* The loop of stop() over the outputs of the decoder.
LEMMA DecTeardownOutputsCalls ==
  ASSUME TypeOK, ChainInv, DecTeardownOutputs
  PROVE  CallInv'
  <1>0. CallInv /\ TornState /\ LinkInv /\ OrderInv /\ NextInv /\ TornCalls
    BY Zenon DEF ChainInv, CallInv
  <1>1. /\ agenda # <<>> /\ 1 \in DOMAIN agenda
        /\ agenda[1].f = "teardownOutputs" /\ agenda[1].e = V
    BY Types, Running, Zenon DEF DecTeardownOutputs
  <1>2. UNCHANGED link /\ MoreTorn /\ est'[V] # "STARTED"
    <2>1. UNCHANGED link /\ UNCHANGED est
      BY Zenon DEF DecTeardownOutputs
    <2>2. Tearing(agenda[1])
      BY <1>1, Zenon DEF Tearing
    <2>. QED
      BY <1>0, <1>1, <2>1, <2>2, Zenon DEF TornCalls, MoreTorn
  <1> DEFINE y == Call("vdec_stop", V)
             rev == Reverse(dec.out)
             q == [i \in DOMAIN rev |-> Call("onChannelTeardown", rev[i])] \o <<y>>
             n == Len(rev) + 1
  <1>3. y \in CallType /\ y.f = "vdec_stop" /\ y.e = V
    BY TypedOfV, Zenon
  <1>4. rev \in Seq(Sinks) /\ DOMAIN rev = DOMAIN dec.out
    <2>1. dec.out \in Seq(Sinks)
      BY Types, SMT DEF DecType
    <2> DEFINE l == Len(dec.out)
    <2>2. l \in Nat /\ DOMAIN dec.out = 1..l /\ \A i \in 1..l : dec.out[i] \in Sinks
      BY <2>1, SMT
    <2>3. rev = [i \in 1..l |-> dec.out[(l - i) + 1]]
      BY Zenon DEF Reverse
    <2> HIDE DEF rev, l
    <2>4. \A i \in 1..l : dec.out[(l - i) + 1] \in Sinks
      <3>1. \A i \in 1..l : (l - i) + 1 \in 1..l
        BY <2>2, SMT
      <3>. QED
        BY <2>2, <3>1, Zenon
    <2>. QED
      BY <2>2, <2>3, <2>4, SMT
  <1>5. Then(q)
    BY <1>4, Zenon DEF DecTeardownOutputs
  <1>6. n \in Nat
    BY <1>4, SMT
  <1> HIDE DEF y, rev
  <1>7. /\ q \in Seq(CallType) /\ 1 \in DOMAIN q
        /\ n \in DOMAIN q /\ q[n] = y
        /\ \A i \in DOMAIN q : (i = n \/ i \in DOMAIN rev) /\ i \in Nat
        /\ \A i \in DOMAIN rev :
              i < n /\ q[i].f = "onChannelTeardown" /\ q[i].e = rev[i] /\ rev[i] \in Sinks
    BY <1>3, <1>4, CallAllAnd, ZenonT(60)
  <1> HIDE DEF q, n
  <1>8. \A i \in DOMAIN q : \/ i = n /\ q[i].f = "vdec_stop" /\ q[i].e = V
                            \/ i < n /\ q[i].f = "onChannelTeardown" /\ q[i].e \in Sinks
    BY <1>3, <1>7, Zenon
  <1>9. (\A i \in DOMAIN q : Leads(agenda[1], q[i])) /\ Sound(link, q[1])
    BY <1>1, <1>7, <1>8, Distinct, SMT DEF Leads, IsLast, DownCall, Sound
  <1>10. ASSUME NEW i \in DOMAIN q, NEW j \in DOMAIN q, i < j
         PROVE  MayFollow(link, q[i], q[j])
    <2>1. q[i].f = "onChannelTeardown" /\ q[i].e \in Sinks
      <3>1. CASE i = n
        <4>1. i \in Nat /\ j \in Nat /\ (j = n \/ j < n)
          BY <1>7, <1>8
        <4>. QED
          BY <1>6, <1>10, <3>1, <4>1, SMT
      <3>. QED
        BY <1>8, <3>1
    <2>2. \/ q[j].f = "vdec_stop" /\ q[j].e = V
          \/ q[j].f = "onChannelTeardown" /\ q[j].e \in Sinks
      BY <1>8
    <2>. QED
      BY <2>1, <2>2, Distinct, SMT DEF MayFollow, AtOnce, Immediate, IsLast
  <1>. QED
    BY <1>0, <1>1, <1>2, <1>5, <1>7, <1>9, <1>10, CallsMany, Zenon

\* A call made from an idle function, or from a message.
LEMMA CallsInFrontOf ==
  ASSUME TypeOK, CallInv, agenda # <<>>, NEW x \in CallType, agenda' = <<x>> \o agenda,
         IsLast(agenda[1]), MayFollow(link, x, agenda[1]), UNCHANGED link, MoreTorn, Sound(link, x),
         Tearing(x) \/ Tearing(agenda[1]) => est'[V] # "STARTED"
  PROVE  CallInv' /\ Then(<<x, agenda[1]>>) /\ agenda[1] \in CallType
  <1>1. agenda \in Seq(CallType) /\ agenda[1] \in CallType /\ Head(agenda) = agenda[1]
    BY Types, TailOfSeq, ZenonT(60)
  <1>2. Then(<<x, agenda[1]>>)
    BY <1>1, InFront, Zenon DEF Then
  <1>3. Leads(agenda[1], x) /\ Leads(agenda[1], agenda[1])
    BY Zenon DEF Leads
  <1>. QED
    BY <1>1, <1>2, <1>3, CallsTwo, Zenon

\* The idle functions.
LEMMA FlushIdleCalls ==
  ASSUME TypeOK, ChainInv, IdleFunction
  PROVE  CallInv'
  <1>0. CallInv /\ agenda \in Seq(CallType) /\ idle \in Seq(IdleType)
    BY Types, Zenon DEF ChainInv
  <1>1. /\ agenda # <<>> /\ agenda[1].f = "idle" /\ agenda[1].e = None
        /\ idle # <<>> /\ UNCHANGED est /\ UNCHANGED link
    BY <1>0, Running, Zenon DEF IdleFunction, chanVars
  <1>2. MoreTorn
    BY <1>1, Zenon DEF MoreTorn
  <1>3. CASE UNCHANGED agenda
    BY <1>0, <1>1, <1>2, <1>3, CallsSame, Zenon
  <1>4. CASE ~UNCHANGED agenda
    <2>1. /\ Head(idle).cb = "sinkFlush"
          /\ agenda' = <<Call("flushDone", Head(idle).e)>> \o agenda
      BY <1>4, Zenon DEF IdleFunction, CallVideoSinkFlush, CallListener
    <2>2. Head(idle).e \in Sinks
      BY <1>0, <1>1, <2>1, TailOfSeq, NoticeTypes, Zenon
    <2> DEFINE x == Call("flushDone", Head(idle).e)
    <2>3. x \in CallType /\ x.f = "flushDone" /\ x.e = Head(idle).e
      BY <2>2, TypedOfSink, Zenon
    <2>4. agenda' = <<x>> \o agenda
      BY <2>1
    <2> HIDE DEF x
    <2>5. IsLast(agenda[1]) /\ MayFollow(link, x, agenda[1]) /\ Sound(link, x)
      BY <1>1, <2>2, <2>3, Distinct, SMT DEF MayFollow, AtOnce, Immediate, IsLast, Sound
    <2>6. ~Tearing(x) /\ ~Tearing(agenda[1])
      BY <1>1, <2>2, <2>3, Distinct, SMT DEF Tearing
    <2>. QED
      BY <1>0, <1>1, <1>2, <2>3, <2>4, <2>5, <2>6, CallsInFrontOf, Zenon
  <1>. QED
    BY <1>3, <1>4

\* What a message makes happen.
LEMMA MessageCases ==
  ASSUME TypeOK, MboxMessage
  PROVE  /\ agenda # <<>> /\ agenda[1].f = "mboxCb" /\ agenda[1].e = None
         /\ mMbox # <<>> /\ mMbox' = Tail(mMbox) /\ Head(mMbox) = mMbox[1] /\ 1 \in DOMAIN mMbox
         /\ UNCHANGED <<idle, chanVars, dmxVars, dec, vdec, sink, appVars, counters>>
         /\ \/ /\ mMbox[1].cmd = "ELEMENT_DELETE" /\ UNCHANGED agenda
                 /\ mMbox[1].e \in Elements /\ est' = [est EXCEPT ![mMbox[1].e] = "deleted"]
                 /\ UNCHANGED mState
            \/ /\ UNCHANGED <<sessionVars, est>>
               /\ \/ /\ mMbox[1].cmd = "COMPLETE_FLUSH"
                     /\ agenda' = <<Call("completeFlush", V)>> \o agenda
                  \/ /\ mMbox[1].cmd = "COMPLETE_STOP"
                     /\ agenda' = <<Call("completeStop", V)>> \o agenda
                  \/ /\ mMbox[1].cmd = "RESYNC"
                     /\ agenda' = <<Call("resync", V)>> \o agenda
  <1>0. /\ agenda \in Seq(CallType) /\ mMbox \in Seq(MessageType)
        /\ est \in [Elements -> ElementStates]
    BY Types
  <1>1. /\ agenda # <<>> /\ agenda[1].f = "mboxCb" /\ agenda[1].e = None
    BY <1>0, Running, Zenon DEF MboxMessage
  <1>2. mMbox # <<>> /\ mMbox' = Tail(mMbox)
    BY Zenon DEF MboxMessage
  <1>3. Head(mMbox) \in MessageType /\ 1 \in DOMAIN mMbox /\ Head(mMbox) = mMbox[1]
    BY <1>0, <1>2, ShorterMbox
  <1>4. CASE Head(mMbox).cmd = "ELEMENT_DELETE"
    BY <1>1, <1>2, <1>3, <1>4, DeletedTypes, Zenon DEF DeleteMessage, MboxMessage
  <1>5. CASE Head(mMbox).cmd # "ELEMENT_DELETE"
    <2>1. Head(mMbox).e = V
      BY <1>3, <1>5, Messages, Zenon
    <2>2. /\ UNCHANGED <<sessionVars, est>>
          /\ \/ /\ Head(mMbox).cmd = "COMPLETE_FLUSH"
                /\ agenda' = <<Call("completeFlush", Head(mMbox).e)>> \o agenda
             \/ /\ Head(mMbox).cmd = "COMPLETE_STOP"
                /\ agenda' = <<Call("completeStop", Head(mMbox).e)>> \o agenda
             \/ /\ Head(mMbox).cmd = "RESYNC"
                /\ agenda' = <<Call("resync", Head(mMbox).e)>> \o agenda
      BY <1>5, Zenon DEF MboxMessage
    <2>3. UNCHANGED <<idle, chanVars, dmxVars, dec, vdec, sink, appVars, counters>>
      BY Zenon DEF MboxMessage
    <2>. QED
      BY <1>1, <1>2, <1>3, <2>1, <2>2, <2>3, Zenon
  <1>. QED
    BY <1>4, <1>5

\* The messages.
LEMMA MboxMessageCalls ==
  ASSUME TypeOK, ChainInv, MboxMessage
  PROVE  CallInv'
  <1>0. CallInv /\ TornState /\ agenda \in Seq(CallType) /\ est \in [Elements -> ElementStates]
    BY Types, Zenon DEF ChainInv
  <1>1. /\ agenda # <<>> /\ agenda[1].f = "mboxCb" /\ agenda[1].e = None
        /\ 1 \in DOMAIN mMbox /\ UNCHANGED link
    BY MessageCases, Zenon DEF chanVars
  <1>2. MoreTorn
    <2>1. UNCHANGED est \/ \E e \in Elements : est' = [est EXCEPT ![e] = "deleted"]
      BY MessageCases, Zenon
    <2>. QED
      BY <1>0, <2>1, Distinct, SMT DEF MoreTorn
  <1>3. CASE UNCHANGED agenda
    BY <1>0, <1>1, <1>2, <1>3, CallsSame, Zenon
  <1>4. ASSUME NEW f \in {"completeFlush", "completeStop", "resync"},
               agenda' = <<Call(f, V)>> \o agenda, UNCHANGED est,
               f = "completeStop" => mMbox[1].cmd = "COMPLETE_STOP"
        PROVE  CallInv'
    <2> DEFINE x == Call(f, V)
    <2>1. x \in CallType /\ x.f = f /\ x.e = V
      BY TypedOfV, Zenon
    <2>2. agenda' = <<x>> \o agenda
      BY <1>4
    <2> HIDE DEF x
    <2>3. IsLast(agenda[1]) /\ MayFollow(link, x, agenda[1]) /\ Sound(link, x)
      BY <1>1, <1>4, <2>1, Distinct, SMT DEF MayFollow, AtOnce, Immediate, IsLast, Sound
    <2>4. ~Tearing(agenda[1]) /\ (Tearing(x) => f = "completeStop")
      BY <1>1, <1>4, <2>1, Distinct, SMT DEF Tearing
    <2>5. f = "completeStop" => est'[V] # "STARTED"
      BY <1>0, <1>1, <1>4, Zenon DEF TornState, Mail
    <2>. QED
      BY <1>0, <1>1, <1>2, <2>1, <2>2, <2>3, <2>4, <2>5, CallsInFrontOf, Zenon
  <1>5. \/ UNCHANGED agenda
        \/ /\ UNCHANGED est
           /\ \E f \in {"completeFlush", "completeStop", "resync"} :
                 /\ agenda' = <<Call(f, V)>> \o agenda
                 /\ f = "completeStop" => mMbox[1].cmd = "COMPLETE_STOP"
    BY MessageCases, SMT
  <1>. QED
    BY <1>3, <1>4, <1>5, Zenon

\* The end of an event of the loop.
LEMMA EventDoneCalls ==
  ASSUME TypeOK, ChainInv, EventDone
  PROVE  CallInv'
  <1>1. agenda # <<>> /\ agenda[1].f # "onChannelUnlink"
    <2>1. \/ Runs("idle", None) \/ Runs("mboxCb", None)
      BY Zenon DEF EventDone
    <2>2. agenda # <<>> /\ (agenda[1].f = "idle" \/ agenda[1].f = "mboxCb")
      BY <2>1, Types, Running, Zenon
    <2>. QED
      BY <2>2, SMT
  <1>2. Return /\ UNCHANGED link /\ MoreTorn
    BY Zenon DEF EventDone, chanVars, MoreTorn
  <1>. QED
    BY <1>1, <1>2, CallsNone, Zenon DEF ChainInv

\* Events.
LEMMA CallbackCalls ==
  ASSUME TypeOK, ChainInv, VdecCallback
  PROVE  CallInv'
  <1>1. UNCHANGED agenda /\ UNCHANGED link /\ UNCHANGED est
    BY Zenon DEF VdecCallback, FlushCb, FlushCbPost, StopCb, StopCbCount, StopCbLoad, StopCbStore,
       OutputCb, OutputCbQueue, otherThanVdec, chanVars
  <1>. QED
    BY <1>1, CallsSame, Zenon DEF MoreTorn, ChainInv

\* What begins at an idle loop.
LEMMA EventCalls ==
  ASSUME TypeOK, ChainInv, AppEvent \/ TimerFrame \/ TimerNoBuffer \/ RunIdle \/ RunMbox
  PROVE  CallInv'
  <1>1. agenda = <<>>
    BY Zenon DEF AppEvent, TimerFrame, TimerNoBuffer, RunIdle, RunMbox, AtEvent, Open, Close,
       Play, StartVideoSink, StopVideoSink, VideoSinkQueueFlushed, ResyncVideoSink
  <1>2. CASE UNCHANGED agenda
    BY <1>1, <1>2, CallsNothing
  <1>3. ASSUME NEW x \in CallType, agenda' = <<x>>, x.f \in {"stop", "flush", "flushDone", "idle", "mboxCb"},
               UNCHANGED link
        PROVE  CallInv'
    <2>1. Sound(link, x) /\ ~Tearing(x)
      BY <1>3, SMT DEF Sound, Tearing
    <2>. QED
      BY <1>1, <1>3, <2>1, CallsEvent, Zenon
  <1>4. CASE \E s \in Sinks : StopVideoSink(s) \/ VideoSinkQueueFlushed(s) \/ ResyncVideoSink(s)
    <2>1. PICK s \in Sinks : StopVideoSink(s) \/ VideoSinkQueueFlushed(s) \/ ResyncVideoSink(s)
      BY <1>4
    <2>2. \E f \in {"stop", "flush", "flushDone"} : agenda' = <<Call(f, s)>> /\ UNCHANGED link
      BY <2>1, SMT DEF StopVideoSink, VideoSinkQueueFlushed, ResyncVideoSink, chanVars
    <2>3. PICK f \in {"stop", "flush", "flushDone"} : agenda' = <<Call(f, s)>> /\ UNCHANGED link
      BY <2>2
    <2>4. f \in {"stop", "inputRemoved", "flush", "flushDone", "completeStop"}
      OBVIOUS
    <2>5. Call(f, s) \in CallType /\ Call(f, s).f = f
      BY <2>4, TypedOfSink, Zenon
    <2>. QED
      BY <1>3, <2>3, <2>5, SMT
  <1>5. CASE Close \/ TimerNoBuffer
    <2>1. \/ UNCHANGED agenda
          \/ \E f \in {"stop", "flush"} : agenda' = <<Call(f, D)>> /\ UNCHANGED link
      BY <1>5, SMT DEF Close, TimerNoBuffer, chanVars
    <2>2. ASSUME NEW f \in {"stop", "flush"}, agenda' = <<Call(f, D)>>, UNCHANGED link
          PROVE  CallInv'
      <3>1. f \in {"stop", "flush", "channelFlushed"}
        OBVIOUS
      <3>2. Call(f, D) \in CallType /\ Call(f, D).f = f
        BY <3>1, TypedOfD, Zenon
      <3>. QED
        BY <1>3, <2>2, <3>2, SMT
    <2>. QED
      BY <1>2, <2>1, <2>2, Zenon
  <1>6. CASE RunIdle \/ RunMbox
    <2>1. \E f \in {"idle", "mboxCb"} : agenda' = <<Call(f, None)>> /\ UNCHANGED link
      BY <1>6, SMT DEF RunIdle, RunMbox, chanVars
    <2>2. PICK f \in {"idle", "mboxCb"} : agenda' = <<Call(f, None)>> /\ UNCHANGED link
      BY <2>1
    <2>3. Call(f, None) \in CallType /\ Call(f, None).f = f
      BY TypedOfSession, Zenon
    <2>. QED
      BY <1>3, <2>2, <2>3, SMT
  <1>7. CASE Open \/ Play \/ TimerFrame \/ \E s \in Sinks : StartVideoSink(s)
    <2>1. UNCHANGED agenda
      BY <1>7, Zenon DEF Open, OpenOk, OpenWithoutDecoder, OpenFails, Play, TimerFrame, StartVideoSink
    <2>. QED
      BY <1>2, <2>1
  <1>. QED
    BY <1>4, <1>5, <1>6, <1>7, Zenon DEF AppEvent

-----------------------------------------------------------------------------
(* The links: what changes them, and what does not.                        *)

\* A sequence in which each element is once, without one of them.
LEMMA WithoutDrops ==
  ASSUME NEW S, NEW out \in Seq(S), NEW c, OnceIn(out)
  PROVE  /\ OnceIn(Without(out, c))
         /\ \A x : Contains(Without(out, c), x) <=> Contains(out, x) /\ x # c
  <1>1. CASE ~Contains(out, c)
    BY <1>1, Zenon DEF Without
  <1>2. CASE Contains(out, c)
    <2> DEFINE k == CHOOSE j \in DOMAIN out : out[j] = c
               t == [j \in 1..(Len(out) - 1) |-> IF j < k THEN out[j] ELSE out[j + 1]]
               n == Len(out)
    <2>1. DOMAIN out = 1..n /\ n \in Nat
      BY SMT
    <2>2. \E j \in DOMAIN out : out[j] = c
      BY <1>2, <2>1, Zenon DEF Contains
    <2>3. k \in DOMAIN out /\ out[k] = c
      BY <2>2, Zenon
    <2>4. Without(out, c) = t
      BY <1>2, Zenon DEF Without
    <2>5. t \in Seq(S) /\ Len(t) = n - 1
      BY WithoutKeeps, <2>1, <2>3, <2>4, SMT
    <2> HIDE DEF k, n
    <2>6. ASSUME NEW i \in DOMAIN t
          PROVE  \E m \in DOMAIN out : /\ t[i] = out[m] /\ m # k
                                       /\ m = IF i < k THEN i ELSE i + 1
      <3>1. i \in 1..(n - 1)
        BY <2>6 DEF n
      <3>2. CASE i < k
        <4>1. i \in DOMAIN out /\ i # k /\ t[i] = out[i]
          BY <2>1, <2>3, <3>1, <3>2, SMT DEF n
        <4>. QED
          BY <3>2, <4>1, Zenon
      <3>3. CASE ~(i < k)
        <4>1. i + 1 \in DOMAIN out /\ i + 1 # k /\ t[i] = out[i + 1]
          BY <2>1, <2>3, <3>1, <3>3, SMT DEF n
        <4>. QED
          BY <3>3, <4>1, Zenon
      <3>. QED
        BY <3>2, <3>3
    <2>7. ASSUME NEW i \in DOMAIN t, NEW j \in DOMAIN t, t[i] = t[j]
          PROVE  i = j
      <3>1. PICK a \in DOMAIN out : t[i] = out[a] /\ a = IF i < k THEN i ELSE i + 1
        BY <2>6
      <3>2. PICK b \in DOMAIN out : t[j] = out[b] /\ b = IF j < k THEN j ELSE j + 1
        BY <2>6
      <3>3. a = b
        BY <2>7, <3>1, <3>2, Zenon DEF OnceIn
      <3>4. i \in Nat /\ j \in Nat /\ k \in Nat
        BY <2>1, <2>3, <2>7, SMT
      <3>. QED
        BY <3>1, <3>2, <3>3, <3>4, SMT
    <2>8. \A i \in DOMAIN t : t[i] # c
      BY <2>3, <2>6, Zenon DEF OnceIn
    <2> HIDE DEF t
    <2>9. DOMAIN t = 1..Len(t)
      BY <2>5, SMT
    <2>10. ASSUME NEW x, Contains(t, x)
           PROVE  Contains(out, x) /\ x # c
      <3>1. PICK i \in DOMAIN t : t[i] = x
        BY <2>9, <2>10, Zenon DEF Contains
      <3>2. \E m \in 1..Len(out) : out[m] = x
        BY <2>1, <2>6, <3>1, Zenon DEF n
      <3>. QED
        BY <2>8, <3>1, <3>2, Zenon DEF Contains
    <2>11. \A x : Contains(out, x) /\ x # c => Contains(t, x)
      BY <2>4, WithoutKeeps, Zenon
    <2>. QED
      BY <2>4, <2>7, <2>10, <2>11, Zenon DEF OnceIn
  <1>. QED
    BY <1>1, <1>2

\* One more.
LEMMA AppendOnce ==
  ASSUME NEW S, NEW q \in Seq(S), NEW n \in S, OnceIn(q), ~Contains(q, n)
  PROVE  /\ OnceIn(Append(q, n))
         /\ \A x : Contains(Append(q, n), x) <=> Contains(q, x) \/ x = n
  <1> DEFINE t == Append(q, n)
             l == Len(q) + 1
  <1>1. /\ t \in Seq(S) /\ \A x : Contains(q, x) => Contains(t, x)
        /\ Contains(t, n) /\ \A i \in DOMAIN q : t[i] = q[i]
        /\ \A i \in DOMAIN t : i \in DOMAIN q \/ i = l
        /\ t[l] = n
    BY AppendContains
  <1>2. DOMAIN t = 1..Len(t) /\ DOMAIN q = 1..Len(q)
    BY SMT
  <1> HIDE DEF t, l
  <1>3. \A i \in DOMAIN q : q[i] # n
    BY <1>2, Zenon DEF Contains
  <1>4. OnceIn(t)
    BY <1>1, <1>3, Zenon DEF OnceIn
  <1>5. \A x : Contains(t, x) => Contains(q, x) \/ x = n
    BY <1>1, <1>2, Zenon DEF Contains
  <1>. QED
    BY <1>1, <1>4, <1>5, Zenon DEF t

-----------------------------------------------------------------------------
(* TornState and LinkInv after a step that changes little of them.         *)
\* Nothing more of the decoder is stopped.
LEMMA TornFrame ==
  ASSUME TornState, MoreTorn,
         StopsVdec(vdec)' => StopsVdec(vdec) \/ dec.mVdecStopPending,
         dec'.mVdecStopPending => dec.mVdecStopPending \/ est'[V] # "STARTED",
         Mail("COMPLETE_STOP")' => \/ Mail("COMPLETE_STOP") \/ StopsVdec(vdec)
                                   \/ est'[V] # "STARTED"
  PROVE  TornState'
  BY Zenon DEF TornState, MoreTorn, StopsVdec

\* LinkInv says nothing of the rest.
LEMMA LinkFrame ==
  ASSUME LinkInv, UNCHANGED <<link, port, dmxOut>>, dec'.out = dec.out,
         \A c \in SinkElements : mFlushPending'[c] => mFlushPending[c] \/ link[c] # None,
         \A s \in Sinks : est'[s] = "none" =>
             est[s] = "none" /\ (sink[s].mIsFlushed => sink'[s].mIsFlushed)
  PROVE  LinkInv'
  BY Distinct, Zenon DEF LinkInv

\* Sinks that are not started have nothing queued.
LEMMA QueuedNone ==
  ASSUME sink \in [Sinks -> SinkType], NEW out, NEW s \in Sinks
  PROVE  /\ Queued(out)[s] \in SinkType
         /\ ~(Contains(out, s) /\ SinkAccepts(s)) => Queued(out)[s] = sink[s]
         /\ Contains(out, s) /\ SinkAccepts(s) => ~Queued(out)[s].mIsFlushed
         /\ Queued(out)[s].mInputChannelFlushPending = sink[s].mInputChannelFlushPending
         /\ Queued(out)[s].mInputMedia = sink[s].mInputMedia
         /\ Queued(out)[s].mIsFlushed => sink[s].mIsFlushed
  <1> DEFINE r == sink[s]
             p == [r EXCEPT !.mIsFlushed = FALSE]
  <1>1. r \in SinkType
    BY SMT
  <1> HIDE DEF r
  <1>2. /\ p \in SinkType /\ ~p.mIsFlushed /\ p.mInputMedia = r.mInputMedia
        /\ p.mInputChannelFlushPending = r.mInputChannelFlushPending
    BY <1>1, Zenon DEF SinkType
  <1>3. Queued(out)[s] = IF Contains(out, s) /\ SinkAccepts(s) THEN p ELSE r
    BY Zenon DEF Queued, r
  <1> HIDE DEF p
  <1>. QED
    BY <1>1, <1>2, <1>3, Zenon DEF r

\* The flags of a sink that change one by one.
LEMMA SinkFields ==
  ASSUME sink \in [Sinks -> SinkType], NEW s \in Sinks, NEW a \in BOOLEAN, NEW b \in BOOLEAN
  PROVE  /\ \A r \in Sinks : r # s =>
               /\ [sink EXCEPT ![s].mIsFlushed = a, ![s].mInputChannelFlushPending = b][r] = sink[r]
               /\ [sink EXCEPT ![s].mInputChannelFlushPending = b][r] = sink[r]
               /\ [sink EXCEPT ![s].mInputMedia = a][r] = sink[r]
               /\ [sink EXCEPT ![s].mVideoSinkListener = a][r] = sink[r]
               /\ [sink EXCEPT ![s].mInputMedia = a, ![s].mVideoSinkListener = b][r] = sink[r]
         /\ LET n == [sink EXCEPT ![s].mIsFlushed = a, ![s].mInputChannelFlushPending = b][s]
            IN  /\ n.mIsFlushed = a /\ n.mInputChannelFlushPending = b
                /\ n.mInputMedia = sink[s].mInputMedia
                /\ n.mVideoSinkListener = sink[s].mVideoSinkListener
         /\ LET n == [sink EXCEPT ![s].mInputChannelFlushPending = b][s]
            IN  /\ n.mIsFlushed = sink[s].mIsFlushed /\ n.mInputChannelFlushPending = b
                /\ n.mInputMedia = sink[s].mInputMedia
                /\ n.mVideoSinkListener = sink[s].mVideoSinkListener
         /\ LET n == [sink EXCEPT ![s].mInputMedia = a][s]
            IN  /\ n.mIsFlushed = sink[s].mIsFlushed
                /\ n.mInputChannelFlushPending = sink[s].mInputChannelFlushPending
                /\ n.mInputMedia = a
                /\ n.mVideoSinkListener = sink[s].mVideoSinkListener
         /\ LET n == [sink EXCEPT ![s].mVideoSinkListener = a][s]
            IN  /\ n.mIsFlushed = sink[s].mIsFlushed
                /\ n.mInputChannelFlushPending = sink[s].mInputChannelFlushPending
                /\ n.mInputMedia = sink[s].mInputMedia
                /\ n.mVideoSinkListener = a
         /\ LET n == [sink EXCEPT ![s].mInputMedia = a, ![s].mVideoSinkListener = b][s]
            IN  /\ n.mIsFlushed = sink[s].mIsFlushed
                /\ n.mInputChannelFlushPending = sink[s].mInputChannelFlushPending
                /\ n.mInputMedia = a
                /\ n.mVideoSinkListener = b
  <1>1. sink[s] \in SinkType
    BY SMT
  <1>2. \A r \in Sinks : r # s =>
               /\ [sink EXCEPT ![s].mIsFlushed = a, ![s].mInputChannelFlushPending = b][r] = sink[r]
               /\ [sink EXCEPT ![s].mInputChannelFlushPending = b][r] = sink[r]
               /\ [sink EXCEPT ![s].mInputMedia = a][r] = sink[r]
               /\ [sink EXCEPT ![s].mVideoSinkListener = a][r] = sink[r]
               /\ [sink EXCEPT ![s].mInputMedia = a, ![s].mVideoSinkListener = b][r] = sink[r]
    BY Zenon
  <1>3. LET n == [sink EXCEPT ![s].mIsFlushed = a, ![s].mInputChannelFlushPending = b][s]
        IN  /\ n.mIsFlushed = a /\ n.mInputChannelFlushPending = b
            /\ n.mInputMedia = sink[s].mInputMedia
            /\ n.mVideoSinkListener = sink[s].mVideoSinkListener
    BY <1>1, SMT DEF SinkType
  <1>4. LET n == [sink EXCEPT ![s].mInputChannelFlushPending = b][s]
        IN  /\ n.mIsFlushed = sink[s].mIsFlushed /\ n.mInputChannelFlushPending = b
            /\ n.mInputMedia = sink[s].mInputMedia
            /\ n.mVideoSinkListener = sink[s].mVideoSinkListener
    BY <1>1, SMT DEF SinkType
  <1>5. LET n == [sink EXCEPT ![s].mInputMedia = a][s]
        IN  /\ n.mIsFlushed = sink[s].mIsFlushed
            /\ n.mInputChannelFlushPending = sink[s].mInputChannelFlushPending
            /\ n.mInputMedia = a
            /\ n.mVideoSinkListener = sink[s].mVideoSinkListener
    BY <1>1, SMT DEF SinkType
  <1>6. LET n == [sink EXCEPT ![s].mVideoSinkListener = a][s]
        IN  /\ n.mIsFlushed = sink[s].mIsFlushed
            /\ n.mInputChannelFlushPending = sink[s].mInputChannelFlushPending
            /\ n.mInputMedia = sink[s].mInputMedia
            /\ n.mVideoSinkListener = a
    BY <1>1, SMT DEF SinkType
  <1>7. LET n == [sink EXCEPT ![s].mInputMedia = a, ![s].mVideoSinkListener = b][s]
        IN  /\ n.mIsFlushed = sink[s].mIsFlushed
            /\ n.mInputChannelFlushPending = sink[s].mInputChannelFlushPending
            /\ n.mInputMedia = a
            /\ n.mVideoSinkListener = b
    BY <1>1, SMT DEF SinkType
  <1>. QED
    BY <1>2, <1>3, <1>4, <1>5, <1>6, <1>7

-----------------------------------------------------------------------------
(* The links after the loud steps.                                         *)

\* What a loud step that is about no channel leaves alone.
LoudOther ==
    /\ UNCHANGED <<link, port, mFlushPending, dmxOut>> /\ dec'.out = dec.out
    /\ dec'.mVdecStopPending => dec.mVdecStopPending \/ est'[V] # "STARTED"
    /\ dec'.mIsFlushed = dec.mIsFlushed /\ dec'.mVdecFlushPending = dec.mVdecFlushPending
    /\ dec'.mInputChannelFlushPending = dec.mInputChannelFlushPending
    /\ StopsVdec(vdec)' => StopsVdec(vdec) \/ dec.mVdecStopPending
    /\ vdec'.flushing = vdec.flushing /\ (vdec'.busy => vdec.busy)
    /\ vdec'.cb # "output" \/ vdec'.cb = vdec.cb
    /\ vdec'.cb = "flush" <=> vdec.cb = "flush"
    /\ MoreTorn
    /\ \A s \in Sinks :
          /\ est'[s] = "none" => est[s] = "none"
          /\ sink'[s].mIsFlushed = sink[s].mIsFlushed
          /\ sink'[s].mInputChannelFlushPending = sink[s].mInputChannelFlushPending
    /\ Mail("COMPLETE_STOP")' => \/ Mail("COMPLETE_STOP") \/ StopsVdec(vdec)
                                 \/ est'[V] # "STARTED"
    /\ Mail("COMPLETE_FLUSH")' => Mail("COMPLETE_FLUSH")
    /\ Mail("RESYNC")' => Mail("RESYNC")

\* The messages after one was posted, or read.
LEMMA MailPosted ==
  ASSUME mMbox \in Seq(MessageType), NEW cmd, NEW e, Post(cmd, e),
         [cmd |-> cmd, e |-> e] \in MessageType
  PROVE  \A m : Mail(m)' <=> Mail(m) \/ m = cmd
  <1> DEFINE n == [cmd |-> cmd, e |-> e]
  <1>1. n \in MessageType /\ n.cmd = cmd /\ mMbox' = Append(mMbox, n)
    BY Zenon DEF Post
  <1> HIDE DEF n
  <1>2. /\ \A i \in DOMAIN mMbox : i \in DOMAIN mMbox' /\ mMbox'[i] = mMbox[i]
        /\ \A i \in DOMAIN mMbox' : i \in DOMAIN mMbox \/ i = Len(mMbox) + 1
        /\ mMbox' \in Seq(MessageType) /\ mMbox'[Len(mMbox) + 1] = n
        /\ Contains(mMbox', n)
    BY <1>1, AppendContains
  <1> SUFFICES ASSUME NEW m PROVE Mail(m)' <=> Mail(m) \/ m = cmd
    OBVIOUS
  <1>3. Mail(m)' => Mail(m) \/ m = cmd
    <2>1. ASSUME NEW i \in DOMAIN mMbox', mMbox'[i].cmd = m PROVE Mail(m) \/ m = cmd
      <3>1. CASE i \in DOMAIN mMbox
        BY <1>2, <2>1, <3>1, Zenon DEF Mail
      <3>2. CASE i = Len(mMbox) + 1
        BY <1>1, <1>2, <2>1, <3>2, Zenon
      <3>. QED
        BY <1>2, <2>1, <3>1, <3>2, Zenon
    <2>. QED
      BY <2>1, Zenon DEF Mail
  <1>4. Mail(m) => Mail(m)'
    BY <1>2, Zenon DEF Mail
  <1>5. Mail(cmd)'
    <2>1. DOMAIN mMbox' = 1..Len(mMbox')
      BY <1>2, SMT
    <2>. QED
      BY <1>1, <1>2, <2>1, Zenon DEF Mail, Contains
  <1>. QED
    BY <1>3, <1>4, <1>5

\* A message is taken from the mailbox.
LEMMA MailRead ==
  ASSUME mMbox \in Seq(MessageType), mMbox # <<>>, mMbox' = Tail(mMbox)
  PROVE  /\ \A m : Mail(m)' => Mail(m)
         /\ \A m : Mail(m) => Mail(m)' \/ m = mMbox[1].cmd
         /\ Mail(mMbox[1].cmd) /\ mMbox[1] \in MessageType
  <1>1. /\ 1 \in DOMAIN mMbox
        /\ \A i \in DOMAIN mMbox' : i + 1 \in DOMAIN mMbox /\ mMbox'[i] = mMbox[i + 1]
        /\ \A i \in DOMAIN mMbox :
              i = 1 \/ (i - 1 \in DOMAIN mMbox' /\ mMbox'[i - 1] = mMbox[i])
        /\ mMbox[1] \in MessageType
    BY TailOfSeq, Zenon
  <1>2. \A m : Mail(m)' => Mail(m)
    BY <1>1, ZenonT(60) DEF Mail
  <1>3. \A m : Mail(m) => Mail(m)' \/ m = mMbox[1].cmd
    BY <1>1, ZenonT(60) DEF Mail
  <1>. QED
    BY <1>1, <1>2, <1>3, Zenon DEF Mail

\* The mailbox is left alone.
LEMMA MailSame ==
  ASSUME UNCHANGED mMbox
  PROVE  \A m : Mail(m)' <=> Mail(m)
  BY Zenon DEF Mail

\* Fields of dec and vdec that a step sets.
LEMMA DecSets ==
  ASSUME dec \in DecType
  PROVE  LET Rest(n) == /\ n.out = dec.out /\ n.mIsFlushed = dec.mIsFlushed
                        /\ n.mVdecFlushPending = dec.mVdecFlushPending
                        /\ n.mInputChannelFlushPending = dec.mInputChannelFlushPending
         IN  /\ LET n == [dec EXCEPT !.mVdecStopPending = TRUE] IN Rest(n)
             /\ LET n == [dec EXCEPT !.mVdecStopPending = FALSE]
                IN  Rest(n) /\ n.mVdecStopPending = FALSE
             /\ LET n == [dec EXCEPT !.mInputMedia = FALSE]
                IN  Rest(n) /\ n.mVdecStopPending = dec.mVdecStopPending
             /\ LET n == [dec EXCEPT !.mResyncPending = FALSE, !.mIsSync = TRUE]
                IN  Rest(n) /\ n.mVdecStopPending = dec.mVdecStopPending
             /\ \A k : LET n == [dec EXCEPT !.mCompleteStopPendingCount = k]
                       IN  Rest(n) /\ n.mVdecStopPending = dec.mVdecStopPending
             /\ \A k, b : LET n == [dec EXCEPT !.mCompleteStopPendingCount = k, !.mOutputMedia = b]
                          IN  Rest(n) /\ n.mVdecStopPending = dec.mVdecStopPending
             /\ \A k, o : LET n == [dec EXCEPT !.out = o, !.mCompleteStopPendingCount = k]
                          IN  /\ n.out = o /\ n.mIsFlushed = dec.mIsFlushed
                              /\ n.mVdecFlushPending = dec.mVdecFlushPending
                              /\ n.mInputChannelFlushPending = dec.mInputChannelFlushPending
                              /\ n.mVdecStopPending = dec.mVdecStopPending
  BY Zenon DEF DecType

\* What each step sets in vdec.
LEMMA VdecSets ==
  ASSUME vdec \in VdecType
  PROVE  LET Rest(n) == n.flushing = vdec.flushing
         IN  /\ \A b : LET n == [vdec EXCEPT !.stopping = b]
                       IN  Rest(n) /\ n.stopping = b /\ n.busy = vdec.busy /\ n.cb = vdec.cb
             /\ LET n == [vdec EXCEPT !.stopping = FALSE, !.busy = FALSE, !.cb = "stop"]
                IN  Rest(n) /\ n.stopping = FALSE /\ n.busy = FALSE /\ n.cb = "stop"
             /\ LET n == [vdec EXCEPT !.cb = "none"]
                IN  Rest(n) /\ n.stopping = vdec.stopping /\ n.busy = vdec.busy /\ n.cb = "none"
             /\ LET n == [vdec EXCEPT !.cb = "none", !.count = 0]
                IN  Rest(n) /\ n.stopping = vdec.stopping /\ n.busy = vdec.busy /\ n.cb = "none"
  BY Zenon DEF VdecType

\* What the loud steps leave alone.
LEMMA LoudOtherQuiet ==
  ASSUME TypeOK,
         \/ \E c \in SinkElements : RemoveInputMedia(c)
         \/ \E s \in Sinks : SinkTeardown(s) \/ StopVideoSink(s)
         \/ ListenerIdle \/ FlushIdle \/ StopMessage \/ DeleteMessage \/ FlushMessage
         \/ OnElementStopped \/ Close \/ DmxStop
  PROVE  LoudOther
  <1>0. mMbox \in Seq(MessageType) /\ est \in [Elements -> ElementStates]
    BY Types
  <1>1. UNCHANGED <<link, port, mFlushPending, dmxOut, dec, vdec, sink>>
    BY Zenon DEF RemoveInputMedia, SinkTeardown, StopVideoSink, ListenerIdle, FlushIdle, StopMessage,
       DeleteMessage, FlushMessage, IdleFunction, MboxMessage, OnElementStopped, Close, DmxStop, chanVars, dmxVars, sessionVars, appVars, counters, otherThanChannels, otherThanDmx, otherThanDec, otherThanSinks, otherThanVdec
  <1>2. \A e \in Elements : est'[e] = est[e] \/ est'[e] \in {"deleted", "STOPPING"}
    <2>1. \/ UNCHANGED est \/ est' = [est EXCEPT ![D] = "STOPPING"]
          \/ \E e \in Elements : est' = [est EXCEPT ![e] = "deleted"]
      <3>1. CASE StopMessage \/ DeleteMessage \/ FlushMessage
        BY <3>1, MessageCases, Zenon DEF StopMessage, DeleteMessage, FlushMessage
      <3>2. CASE DmxStop
        BY <3>2, Zenon DEF DmxStop
      <3>3. CASE ~(StopMessage \/ DeleteMessage \/ FlushMessage) /\ ~DmxStop
        BY <3>3, Zenon DEF RemoveInputMedia, SinkTeardown, StopVideoSink, ListenerIdle, FlushIdle,
           IdleFunction, OnElementStopped, Close, chanVars, dmxVars, sessionVars, appVars, counters, otherThanChannels, otherThanDmx, otherThanDec, otherThanSinks, otherThanVdec
      <3>. QED
        BY <3>1, <3>2, <3>3
    <2>2. ASSUME NEW x \in Elements, NEW st \in {"deleted", "STOPPING"},
                 est' = [est EXCEPT ![x] = st], NEW e \in Elements
          PROVE  est'[e] = est[e] \/ est'[e] \in {"deleted", "STOPPING"}
      BY <1>0, <2>2, Zenon
    <2>. QED
      BY <2>1, <2>2, Distinct, Zenon
  <1>3. \A m : Mail(m)' => Mail(m) \/ m = "ELEMENT_DELETE"
    <2>1. CASE UNCHANGED mMbox
      BY <2>1, MailSame
    <2>2. CASE StopMessage \/ DeleteMessage \/ FlushMessage
      <3>1. mMbox # <<>> /\ mMbox' = Tail(mMbox)
        BY <2>2, Zenon DEF StopMessage, DeleteMessage, FlushMessage, MboxMessage
      <3>. QED
        BY <1>0, <3>1, MailRead, Zenon
    <2>3. CASE OnElementStopped
      <3>1. Runs("onElementStopped", None) /\ Post("ELEMENT_DELETE", Subject)
        BY <2>3, Zenon DEF OnElementStopped
      <3>2. Subject \in Elements
        BY <3>1, Types, Running, CallFields, ZenonT(60)
      <3>3. [cmd |-> "ELEMENT_DELETE", e |-> Subject] \in MessageType
        BY <3>2, Messages
      <3>. QED
        BY <1>0, <3>1, <3>3, MailPosted, Zenon
    <2>4. UNCHANGED mMbox \/ StopMessage \/ DeleteMessage \/ FlushMessage \/ OnElementStopped
      BY Zenon DEF RemoveInputMedia, SinkTeardown, StopVideoSink, ListenerIdle, FlushIdle, IdleFunction,
         Close, DmxStop, chanVars, dmxVars, sessionVars, appVars, counters, otherThanChannels, otherThanDmx, otherThanDec, otherThanSinks, otherThanVdec
    <2>. QED
      BY <2>1, <2>2, <2>3, <2>4
  <1>4. MoreTorn /\ \A s \in Sinks : est'[s] = "none" => est[s] = "none"
    BY <1>2, Distinct, SMT DEF MoreTorn
  <1>. QED
    BY <1>1, <1>3, <1>4, SMT DEF LoudOther, StopsVdec

\* Steps of the decoder that change no channel,
LEMMA LoudOtherDec ==
  ASSUME TypeOK, DecStop \/ DecAfterFlush \/ DecTeardownOutputs \/ VdecStop \/ DecCompleteStop
  PROVE  LoudOther
  <1>0. dec \in DecType /\ vdec \in VdecType /\ est \in [Elements -> ElementStates]
    BY Types
  <1>1. /\ UNCHANGED <<link, port, mFlushPending, dmxOut, sink, mMbox>>
    BY Zenon DEF DecStop, DecAfterFlush, DecTeardownOutputs, VdecStop, DecCompleteStop, chanVars, dmxVars, sessionVars, appVars, counters, otherThanChannels, otherThanDmx, otherThanDec, otherThanSinks, otherThanVdec
  <1>2. \A m : Mail(m)' <=> Mail(m)
    BY <1>1, MailSame
  <1>3. /\ \A e \in Elements : est'[e] = est[e] \/ est'[e] \in {"STOPPED", "STOPPING"}
        /\ UNCHANGED est \/ est'[V] \in {"STOPPED", "STOPPING"}
    <2>1. \/ UNCHANGED est \/ est' = [est EXCEPT ![V] = "STOPPING"]
          \/ est' = [est EXCEPT ![V] = "STOPPED"]
      BY Zenon DEF DecStop, DecAfterFlush, DecTeardownOutputs, VdecStop, DecCompleteStop
    <2>. QED
      BY <1>0, <2>1, Distinct, Zenon
  <1>4. MoreTorn /\ \A s \in Sinks : est'[s] = "none" => est[s] = "none"
    BY <1>3, Distinct, SMT DEF MoreTorn
  <1>5. \/ UNCHANGED dec
        \/ dec' = [dec EXCEPT !.mVdecStopPending = TRUE] /\ est'[V] # "STARTED"
        \/ dec' = [dec EXCEPT !.mInputMedia = FALSE]
        \/ dec' = [dec EXCEPT !.mResyncPending = FALSE, !.mIsSync = TRUE]
        \/ \E k, b : dec' = [dec EXCEPT !.mCompleteStopPendingCount = k, !.mOutputMedia = b]
    <2>1. CASE DecStop
      <3>1. \/ UNCHANGED dec
            \/ /\ dec' = [dec EXCEPT !.mVdecStopPending = TRUE]
               /\ est' = [est EXCEPT ![V] = "STOPPING"]
        BY <2>1, Zenon DEF DecStop
      <3>2. ASSUME est' = [est EXCEPT ![V] = "STOPPING"]
            PROVE  est'[V] # "STARTED"
        BY <1>0, <3>2, Distinct, SMT
      <3>. QED
        BY <3>1, <3>2, Zenon
    <2>2. CASE DecAfterFlush \/ DecTeardownOutputs \/ VdecStop
      BY <2>2, Zenon DEF DecAfterFlush, DecTeardownOutputs, VdecStop
    <2>3. CASE DecCompleteStop
      BY <2>3, Zenon DEF DecCompleteStop
    <2>. QED
      BY <2>1, <2>2, <2>3
  <1>6. /\ dec'.out = dec.out /\ dec'.mIsFlushed = dec.mIsFlushed
        /\ dec'.mVdecFlushPending = dec.mVdecFlushPending
        /\ dec'.mInputChannelFlushPending = dec.mInputChannelFlushPending
        /\ dec'.mVdecStopPending => dec.mVdecStopPending \/ est'[V] # "STARTED"
    <2>1. ASSUME NEW k, NEW b, dec' = [dec EXCEPT !.mCompleteStopPendingCount = k, !.mOutputMedia = b]
          PROVE  /\ dec'.out = dec.out /\ dec'.mIsFlushed = dec.mIsFlushed
                 /\ dec'.mVdecFlushPending = dec.mVdecFlushPending
                 /\ dec'.mInputChannelFlushPending = dec.mInputChannelFlushPending
                 /\ dec'.mVdecStopPending = dec.mVdecStopPending
      BY <1>0, <2>1, Zenon DEF DecType
    <2>2. ASSUME \/ dec' = [dec EXCEPT !.mInputMedia = FALSE]
                 \/ dec' = [dec EXCEPT !.mResyncPending = FALSE, !.mIsSync = TRUE]
          PROVE  /\ dec'.out = dec.out /\ dec'.mIsFlushed = dec.mIsFlushed
                 /\ dec'.mVdecFlushPending = dec.mVdecFlushPending
                 /\ dec'.mInputChannelFlushPending = dec.mInputChannelFlushPending
                 /\ dec'.mVdecStopPending = dec.mVdecStopPending
      BY <1>0, <2>2, Zenon DEF DecType
    <2>3. ASSUME dec' = [dec EXCEPT !.mVdecStopPending = TRUE]
          PROVE  /\ dec'.out = dec.out /\ dec'.mIsFlushed = dec.mIsFlushed
                 /\ dec'.mVdecFlushPending = dec.mVdecFlushPending
                 /\ dec'.mInputChannelFlushPending = dec.mInputChannelFlushPending
      BY <1>0, <2>3, Zenon DEF DecType
    <2>4. CASE UNCHANGED dec
      BY <2>4
    <2>5. CASE dec' = [dec EXCEPT !.mVdecStopPending = TRUE] /\ est'[V] # "STARTED"
      BY <2>3, <2>5
    <2>6. CASE \E k, b : dec' = [dec EXCEPT !.mCompleteStopPendingCount = k, !.mOutputMedia = b]
      BY <2>1, <2>6
    <2>. QED
      BY <1>5, <2>2, <2>4, <2>5, <2>6
  <1>7. /\ vdec'.flushing = vdec.flushing /\ vdec'.busy = vdec.busy /\ vdec'.cb = vdec.cb
        /\ vdec'.stopping => vdec.stopping \/ dec.mVdecStopPending
    <2>1. UNCHANGED vdec \/ vdec' = [vdec EXCEPT !.stopping = dec.mVdecStopPending]
      BY Zenon DEF DecStop, DecAfterFlush, DecTeardownOutputs, VdecStop, DecCompleteStop
    <2>. QED
      BY <1>0, <2>1, Zenon DEF VdecType
  <1>. QED
    BY <1>1, <1>2, <1>4, <1>6, <1>7, SMT DEF LoudOther, StopsVdec

\* ... of stopCb(),
LEMMA LoudOtherStop ==
  ASSUME TypeOK, StopCb \/ StopCbCount \/ StopCbLoad \/ StopCbStore
  PROVE  LoudOther
  <1>0. dec \in DecType /\ vdec \in VdecType /\ mMbox \in Seq(MessageType)
    BY Types
  <1>1. /\ UNCHANGED <<link, port, mFlushPending, dmxOut, sink, est>>
    BY Zenon DEF StopCb, StopCbCount, StopCbLoad, StopCbStore, chanVars, dmxVars, sessionVars, appVars, counters, otherThanChannels, otherThanDmx, otherThanDec, otherThanSinks, otherThanVdec
  <1>2. /\ \A m : Mail(m)' => Mail(m) \/ m = "COMPLETE_STOP"
        /\ Mail("COMPLETE_STOP")' => Mail("COMPLETE_STOP") \/ vdec.cb \in {"stop", "stopLoaded"}
    <2>1. CASE UNCHANGED mMbox
      BY <2>1, MailSame
    <2>2. CASE Post("COMPLETE_STOP", V) /\ vdec.cb \in {"stop", "stopLoaded"}
      <3>1. [cmd |-> "COMPLETE_STOP", e |-> V] \in MessageType
        BY Messages
      <3>. QED
        BY <1>0, <2>2, <3>1, MailPosted, Zenon
    <2>3. \/ UNCHANGED mMbox
          \/ Post("COMPLETE_STOP", V) /\ vdec.cb \in {"stop", "stopLoaded"}
      BY Zenon DEF StopCb, StopCbCount, StopCbLoad, StopCbStore
    <2>. QED
      BY <2>1, <2>2, <2>3
  <1>3. /\ dec'.out = dec.out /\ dec'.mIsFlushed = dec.mIsFlushed
        /\ dec'.mVdecFlushPending = dec.mVdecFlushPending
        /\ dec'.mInputChannelFlushPending = dec.mInputChannelFlushPending
        /\ dec'.mVdecStopPending => dec.mVdecStopPending
    <2>1. \/ UNCHANGED dec
          \/ dec' = [dec EXCEPT !.mVdecStopPending = FALSE]
          \/ \E k : dec' = [dec EXCEPT !.mCompleteStopPendingCount = k]
      BY Zenon DEF StopCb, StopCbCount, StopCbLoad, StopCbStore
    <2>. QED
      BY <1>0, <2>1, Zenon DEF DecType
  <1>4. /\ vdec'.flushing = vdec.flushing /\ (vdec'.busy => vdec.busy)
        /\ vdec'.stopping => vdec.stopping
        /\ vdec'.cb \in {"none", "stop", "stopLoaded"} /\ vdec.cb # "flush"
        /\ vdec'.cb \in {"stop", "stopLoaded"} => vdec.stopping \/ vdec.cb = "stop"
    <2>1. CASE StopCb
      <3>1. /\ vdec' = [vdec EXCEPT !.stopping = FALSE, !.busy = FALSE, !.cb = "stop"]
            /\ vdec.stopping /\ vdec.cb = "none"
        BY <2>1, Zenon DEF StopCb, VdecFree
      <3>. QED
        BY <1>0, <3>1, SMT DEF VdecType
    <2>2. CASE StopCbCount
      <3>1. vdec' = [vdec EXCEPT !.cb = "none"] /\ vdec.cb = "stop"
        BY <2>2, Zenon DEF StopCbCount
      <3>. QED
        BY <1>0, <3>1, SMT DEF VdecType
    <2>3. CASE StopCbLoad
      <3>1. /\ vdec' = [vdec EXCEPT !.cb = "stopLoaded", !.count = dec.mCompleteStopPendingCount]
            /\ vdec.cb = "stop"
        BY <2>3, Zenon DEF StopCbLoad
      <3>. QED
        BY <1>0, <3>1, SMT DEF VdecType
    <2>4. CASE StopCbStore
      <3>1. vdec' = [vdec EXCEPT !.cb = "none", !.count = 0] /\ vdec.cb = "stopLoaded"
        BY <2>4, Zenon DEF StopCbStore
      <3>. QED
        BY <1>0, <3>1, SMT DEF VdecType
    <2>. QED
      BY <2>1, <2>2, <2>3, <2>4
  <1>. QED
    BY <1>1, <1>2, <1>3, <1>4, SMT DEF LoudOther, StopsVdec, MoreTorn

\* One flag of a sink that is set.
LEMMA SinkOneField ==
  ASSUME sink \in [Sinks -> SinkType], NEW s \in Sinks, NEW r \in Sinks
  PROVE  /\ LET n == [sink EXCEPT ![s].mVideoSinkListener = FALSE][r]
            IN  /\ n.mIsFlushed = sink[r].mIsFlushed
                /\ n.mInputChannelFlushPending = sink[r].mInputChannelFlushPending
         /\ LET n == [sink EXCEPT ![s].mInputMedia = FALSE][r]
            IN  /\ n.mIsFlushed = sink[r].mIsFlushed
                /\ n.mInputChannelFlushPending = sink[r].mInputChannelFlushPending
  <1>1. FALSE \in BOOLEAN
    OBVIOUS
  <1>2. CASE r = s
    BY <1>1, <1>2, SinkFields, SMT
  <1>3. CASE r # s
    BY <1>1, <1>3, SinkFields, SMT
  <1>. QED
    BY <1>2, <1>3

\* ... of a sink;
LEMMA LoudOtherSink ==
  ASSUME TypeOK, NEW s \in Sinks, SinkStop(s) \/ SinkInputRemoved(s) \/ SinkCompleteStop(s)
  PROVE  LoudOther
  <1>0. sink \in [Sinks -> SinkType] /\ est \in [Elements -> ElementStates]
    BY Types
  <1>1. /\ UNCHANGED <<link, port, mFlushPending, dmxOut, dec, vdec, mMbox>>
    BY Zenon DEF SinkStop, SinkInputRemoved, SinkCompleteStop, chanVars, dmxVars, sessionVars, appVars, counters, otherThanChannels, otherThanDmx, otherThanDec, otherThanSinks, otherThanVdec
  <1>2. \A m : Mail(m)' <=> Mail(m)
    BY <1>1, MailSame
  <1>3. est'[V] = est[V] /\ \A r \in Sinks : est'[r] = "none" => est[r] = "none"
    <2>1. \/ UNCHANGED est \/ est' = [est EXCEPT ![s] = "STOPPING"]
          \/ est' = [est EXCEPT ![s] = "STOPPED"]
      BY Zenon DEF SinkStop, SinkInputRemoved, SinkCompleteStop
    <2>. QED
      BY <1>0, <2>1, Distinct, SMT
  <1>4. \A r \in Sinks : /\ sink'[r].mIsFlushed = sink[r].mIsFlushed
                         /\ sink'[r].mInputChannelFlushPending = sink[r].mInputChannelFlushPending
    <2>1. \/ UNCHANGED sink \/ sink' = [sink EXCEPT ![s].mVideoSinkListener = FALSE]
          \/ sink' = [sink EXCEPT ![s].mInputMedia = FALSE]
      BY Zenon DEF SinkStop, SinkInputRemoved, SinkCompleteStop
    <2>2. CASE UNCHANGED sink
      BY <2>2
    <2>3. CASE sink' = [sink EXCEPT ![s].mVideoSinkListener = FALSE]
      BY <1>0, <2>3, SinkOneField, Zenon
    <2>4. CASE sink' = [sink EXCEPT ![s].mInputMedia = FALSE]
      BY <1>0, <2>4, SinkOneField, Zenon
    <2>. QED
      BY <2>1, <2>2, <2>3, <2>4
  <1>. QED
    BY <1>1, <1>2, <1>3, <1>4, SMT DEF LoudOther, StopsVdec, MoreTorn

\* ... they keep the links, and a decoder that stops.
LEMMA LoudOtherKeeps ==
  ASSUME ChainInv, LoudOther
  PROVE  TornState' /\ LinkInv'
  <1>1. TornState'
    BY TornFrame, Zenon DEF ChainInv, LoudOther
  <1>2. LinkInv'
    BY LinkFrame, Zenon DEF ChainInv, LoudOther
  <1>. QED
    BY <1>1, <1>2

\* The flushes of the channels that a plain step begins.
LEMMA PlainFlushes ==
  ASSUME TypeOK, NextInv, PlainStep
  PROVE  \A c \in SinkElements : mFlushPending'[c] => mFlushPending[c] \/ link[c] # None
  <1>0. mFlushPending \in [SinkElements -> BOOLEAN] /\ agenda \in Seq(CallType)
    BY Types
  <1>1. CASE \E c \in SinkElements : ChannelFlush(c)
    <2>1. PICK c \in SinkElements : ChannelFlush(c)
      BY <1>1
    <2>2. agenda # <<>> /\ agenda[1].f = "channel.flush" /\ agenda[1].e = c
      BY <1>0, <2>1, Running, Zenon DEF ChannelFlush
    <2>3. link[c] # None
      BY <2>2, Zenon DEF NextInv, Sound
    <2>4. mFlushPending' = [mFlushPending EXCEPT ![c] = TRUE]
      BY <2>1, Zenon DEF ChannelFlush
    <2>. QED
      BY <1>0, <2>3, <2>4, Zenon
  <1>2. CASE \E c \in SinkElements : ChannelFlushDone(c)
    <2>1. PICK c \in SinkElements : ChannelFlushDone(c)
      BY <1>2
    <2>2. mFlushPending' = [mFlushPending EXCEPT ![c] = FALSE]
      BY <2>1, Zenon DEF ChannelFlushDone
    <2>. QED
      BY <1>0, <2>2, Zenon
  <1>3. CASE UNCHANGED mFlushPending
    BY <1>3
  <1>4. \/ \E c \in SinkElements : ChannelFlush(c) \/ ChannelFlushDone(c)
        \/ UNCHANGED mFlushPending
    BY ZenonT(60) DEF PlainStep, DmxFlush, DmxFlushAt, DmxChannelCounted, DmxOnChannelFlushed, DmxChannelFlushed,
       DecOnChannelFlush, DecFlush, VdecFlush, DecCompleteFlush, DecOnChannelFlushed, DecResync,
       FlushCb, FlushCbPost, StopCbLoad, OutputCb, OutputCbQueue, OutputError,
       SinkOnChannelFlush, SinkFlush, SinkFlushDone, Play, TimerFrame, TimerNoBuffer,
       RunIdle, RunMbox, VideoSinkQueueFlushed, ResyncVideoSink, EventDone, FlushMessage, FlushIdle,
       IdleFunction, MboxMessage, vars,
       chanVars, dmxVars, sessionVars, appVars, counters, otherThanChannels, otherThanDmx,
       otherThanDec, otherThanSinks, otherThanVdec
  <1>. QED
    BY <1>1, <1>2, <1>3, <1>4

\* A sink that is not started keeps its flag.
LEMMA PlainSinks ==
  ASSUME TypeOK, PlainStep, NEW s \in Sinks, est[s] = "none", sink[s].mIsFlushed
  PROVE  sink'[s].mIsFlushed
  <1>0. sink \in [Sinks -> SinkType]
    BY Types
  <1>1. \A out : Queued(out)[s] = sink[s]
    <2>1. ~SinkAccepts(s)
      BY Zenon DEF SinkAccepts
    <2>. QED
      BY <1>0, <2>1, QueuedNone, Zenon
  <1>2. CASE \E r \in Sinks : sink' = [sink EXCEPT ![r].mInputChannelFlushPending = TRUE]
    <2>1. PICK r \in Sinks : sink' = [sink EXCEPT ![r].mInputChannelFlushPending = TRUE]
      BY <1>2
    <2>. QED
      BY <1>0, <2>1, SMT DEF SinkType
  <1>3. CASE \E r \in Sinks : sink' = [sink EXCEPT ![r].mIsFlushed = TRUE,
                                                   ![r].mInputChannelFlushPending = FALSE]
    <2>1. PICK r \in Sinks : sink' = [sink EXCEPT ![r].mIsFlushed = TRUE,
                                                  ![r].mInputChannelFlushPending = FALSE]
      BY <1>3
    <2>. QED
      BY <1>0, <2>1, SMT DEF SinkType
  <1>4. CASE \E out : sink' = Queued(out)
    BY <1>1, <1>4
  <1>5. CASE UNCHANGED sink
    BY <1>5
  <1>6. \/ \E r \in Sinks : SinkOnChannelFlush(r) \/ SinkFlushDone(r)
        \/ TimerFrame \/ OutputCbQueue \/ UNCHANGED sink
    BY ZenonT(60) DEF PlainStep, ChannelFlush, ChannelFlushDone, DmxFlush, DmxFlushAt, DmxChannelCounted, DmxOnChannelFlushed, DmxChannelFlushed,
       DecOnChannelFlush, DecFlush, VdecFlush, DecCompleteFlush, DecOnChannelFlushed, DecResync,
       FlushCb, FlushCbPost, StopCbLoad, OutputCb, OutputError,
       SinkFlush, Play, TimerNoBuffer,
       RunIdle, RunMbox, VideoSinkQueueFlushed, ResyncVideoSink, EventDone, FlushMessage, FlushIdle,
       IdleFunction, MboxMessage, vars,
       chanVars, dmxVars, sessionVars, appVars, counters, otherThanChannels, otherThanDmx,
       otherThanDec, otherThanSinks, otherThanVdec
  <1>7. \/ \E r \in Sinks : \/ sink' = [sink EXCEPT ![r].mInputChannelFlushPending = TRUE]
                            \/ sink' = [sink EXCEPT ![r].mIsFlushed = TRUE,
                                                    ![r].mInputChannelFlushPending = FALSE]
        \/ \E out : sink' = Queued(out)
        \/ UNCHANGED sink
    BY <1>6, Zenon DEF SinkOnChannelFlush, SinkFlushDone, TimerFrame, OutputCbQueue
  <1>. QED
    BY <1>2, <1>3, <1>4, <1>5, <1>7

\* What plain steps do to TornState and LinkInv: nothing.
LEMMA PlainLinks ==
  ASSUME TypeOK, ChainInv, PlainStep
  PROVE  TornState' /\ LinkInv'
  <1>0. NextInv /\ TornState /\ LinkInv
    BY Zenon DEF ChainInv, CallInv
  <1>1. /\ UNCHANGED <<est, link, port, dmxOut>> /\ SameDec /\ SameVdec /\ SameMbox
    BY PlainSteps, Zenon DEF Plain, sameVars
  <1>2. TornState'
    <2>1. Mail("COMPLETE_STOP")' => Mail("COMPLETE_STOP")
      <3>1. ASSUME NEW i \in DOMAIN mMbox', mMbox'[i].cmd = "COMPLETE_STOP"
            PROVE  Mail("COMPLETE_STOP")
        BY <1>1, <3>1, Zenon DEF SameMbox, Mail
      <3>. QED
        BY <3>1, Zenon DEF Mail
    <2>2. StopsVdec(vdec)' => StopsVdec(vdec)
      BY <1>1, Zenon DEF SameVdec, StopsVdec
    <2>3. dec'.mVdecStopPending => dec.mVdecStopPending
      BY <1>1, Zenon DEF SameDec
    <2>4. MoreTorn
      BY <1>1, Zenon DEF MoreTorn
    <2>. QED
      BY <1>0, <2>1, <2>2, <2>3, <2>4, TornFrame, Zenon
  <1>3. LinkInv'
    <2>1. dec'.out = dec.out
      BY <1>1, Zenon DEF SameDec
    <2>2. UNCHANGED <<link, port, dmxOut>> /\ UNCHANGED est
      BY <1>1
    <2>3. \A c \in SinkElements : mFlushPending'[c] => mFlushPending[c] \/ link[c] # None
      BY <1>0, PlainFlushes, Zenon
    <2>4. \A s \in Sinks : est'[s] = "none" =>
              est[s] = "none" /\ (sink[s].mIsFlushed => sink'[s].mIsFlushed)
      BY <2>2, PlainSinks, Zenon
    <2>. QED
      BY <1>0, <2>1, <2>2, <2>3, <2>4, LinkFrame, Zenon
  <1>. QED
    BY <1>2, <1>3

\* A channel that is deleted has been unlinked.
LEMMA DeleteChannelLinks ==
  ASSUME TypeOK, ChainInv, NEW c \in SinkElements, DeleteChannel(c)
  PROVE  TornState' /\ LinkInv'
  <1>0. /\ NextInv /\ TornState /\ LinkInv /\ agenda \in Seq(CallType)
        /\ port \in [SinkElements -> BOOLEAN] /\ mFlushPending \in [SinkElements -> BOOLEAN]
    BY Types, Zenon DEF ChainInv, CallInv
  <1>1. agenda # <<>> /\ agenda[1].f = "deleteChannel" /\ agenda[1].e = c
    BY <1>0, Running, Zenon DEF DeleteChannel
  <1>2. link[c] = None
    BY <1>0, <1>1, Zenon DEF NextInv, Sound
  <1>3. /\ port' = [port EXCEPT ![c] = FALSE]
        /\ mFlushPending' = [mFlushPending EXCEPT ![c] = FALSE]
        /\ UNCHANGED <<link, est, mMbox, dmxOut, dec, vdec, sink>>
    BY Zenon DEF DeleteChannel, otherThanChannels, dmxVars
  <1>4. TornState'
    BY <1>0, <1>3, Zenon DEF TornState, Mail
  <1>5. \A x \in SinkElements : /\ ~port'[x] => ~mFlushPending'[x] /\ link'[x] = None
                                /\ port'[x] => port[x]
    BY <1>0, <1>2, <1>3, Zenon DEF LinkInv
  <1>6. LinkInv'
    BY <1>0, <1>3, <1>5, Distinct, Zenon DEF LinkInv
  <1>. QED
    BY <1>4, <1>6

\* A channel is unlinked from the one source that has it.
LEMMA DmxOnChannelUnlinkLinks ==
  ASSUME TypeOK, ChainInv, DmxOnChannelUnlink
  PROVE  TornState' /\ LinkInv'
  <1>0. /\ NextInv /\ TornState /\ LinkInv /\ agenda \in Seq(CallType)
        /\ link \in [SinkElements -> {D, V, None}] /\ dmxOut \in Seq(SinkElements)
        /\ est \in [Elements -> ElementStates]
    BY Types, Zenon DEF ChainInv, CallInv
  <1> DEFINE c == agenda[1].c
  <1>1. /\ agenda # <<>> /\ agenda[1].f = "onChannelUnlink" /\ agenda[1].e = D /\ Subject = c
        /\ agenda[1] \in CallType
    BY <1>0, Running, Zenon DEF DmxOnChannelUnlink
  <1>2. link[c] = D /\ c \in SinkElements
    BY <1>0, <1>1, CallFields, Zenon DEF NextInv, Sound
  <1> HIDE DEF c
  <1>3. /\ link' = [link EXCEPT ![c] = None] /\ dmxOut' = Without(dmxOut, c)
        /\ UNCHANGED <<port, mFlushPending, mMbox, dec, vdec, sink>>
        /\ UNCHANGED est \/ est' = [est EXCEPT ![D] = "STOPPED"]
    BY <1>1, Zenon DEF DmxOnChannelUnlink, otherThanDmx
  <1>4. est'[V] = est[V] /\ \A s \in Sinks : est'[s] = est[s]
    BY <1>0, <1>3, Distinct, Zenon
  <1>5. TornState'
    BY <1>0, <1>3, <1>4, Zenon DEF TornState, Mail
  <1>6. /\ OnceIn(dmxOut')
        /\ \A x : Contains(dmxOut', x) <=> Contains(dmxOut, x) /\ x # c
    BY <1>0, <1>3, WithoutDrops, Zenon DEF LinkInv
  <1>7. link'[c] = None /\ \A x \in SinkElements : x # c => link'[x] = link[x]
    BY <1>0, <1>2, <1>3, Zenon
  <1>8. \A x \in SinkElements : /\ ~port'[x] => ~mFlushPending'[x] /\ link'[x] = None
                                /\ link'[x] = D <=> Contains(dmxOut', x)
                                /\ link'[x] = V <=> Contains(dec'.out, x)
    <2> SUFFICES ASSUME NEW x \in SinkElements
                 PROVE  /\ ~port'[x] => ~mFlushPending'[x] /\ link'[x] = None
                        /\ link'[x] = D <=> Contains(dmxOut', x)
                        /\ link'[x] = V <=> Contains(dec'.out, x)
      OBVIOUS
    <2>1. /\ ~port[x] => ~mFlushPending[x] /\ link[x] = None
          /\ link[x] = D <=> Contains(dmxOut, x)
          /\ link[x] = V <=> Contains(dec.out, x)
      BY <1>0, Zenon DEF LinkInv
    <2>2. D # None /\ V # None /\ D # V
      BY Distinct, Zenon
    <2>3. CASE x = c
      BY <1>2, <1>3, <1>6, <1>7, <2>1, <2>2, <2>3, Zenon
    <2>4. CASE x # c
      BY <1>3, <1>6, <1>7, <2>1, <2>4, Zenon
    <2>. QED
      BY <2>3, <2>4
  <1>9. LinkInv'
    BY <1>0, <1>3, <1>4, <1>6, <1>8, Zenon DEF LinkInv
  <1>. QED
    BY <1>5, <1>9

\* onChannelUnlink() of the decoder: the channel is no output of it any more.
LEMMA DecOnChannelUnlinkLinks ==
  ASSUME TypeOK, ChainInv, DecOnChannelUnlink
  PROVE  TornState' /\ LinkInv'
  <1>0. /\ NextInv /\ TornState /\ LinkInv /\ agenda \in Seq(CallType)
        /\ link \in [SinkElements -> {D, V, None}] /\ dec \in DecType
        /\ mMbox \in Seq(MessageType)
    BY Types, Zenon DEF ChainInv, CallInv
  <1> DEFINE c == agenda[1].c
  <1>1. /\ agenda # <<>> /\ agenda[1].f = "onChannelUnlink" /\ agenda[1].e = V /\ Subject = c
        /\ agenda[1] \in CallType
    BY <1>0, Running, Zenon DEF DecOnChannelUnlink
  <1>2. link[c] = V /\ c \in SinkElements
    BY <1>0, <1>1, CallFields, Zenon DEF NextInv, Sound
  <1> HIDE DEF c
  <1>3. /\ link' = [link EXCEPT ![c] = None]
        /\ \E k : dec' = [dec EXCEPT !.out = Without(dec.out, c), !.mCompleteStopPendingCount = k]
        /\ UNCHANGED <<port, mFlushPending, vdec, sink, est, dmxOut>>
        /\ IF est[V] = "STOPPING" THEN Post("COMPLETE_STOP", V) ELSE UNCHANGED mMbox
    BY <1>1, Zenon DEF DecOnChannelUnlink, otherThanDec, dmxVars
  <1>4. dec'.out = Without(dec.out, c) /\ dec'.mVdecStopPending = dec.mVdecStopPending
    <2>1. PICK k : dec' = [dec EXCEPT !.out = Without(dec.out, c),
                                      !.mCompleteStopPendingCount = k]
      BY <1>3
    <2>. QED
      BY <1>0, <2>1, Zenon DEF DecType
  <1>5. TornState'
    <2>1. Mail("COMPLETE_STOP")' => Mail("COMPLETE_STOP") \/ est[V] = "STOPPING"
      BY <1>3, MailSame, Zenon
    <2>. QED
      BY <1>0, <1>3, <1>4, <2>1, SMT DEF TornState
  <1>6. /\ OnceIn(dec'.out)
        /\ \A x : Contains(dec'.out, x) <=> Contains(dec.out, x) /\ x # c
    <2>1. dec.out \in Seq(Sinks) /\ OnceIn(dec.out)
      BY <1>0, Zenon DEF DecType, LinkInv
    <2>2. /\ OnceIn(Without(dec.out, c))
          /\ \A x : Contains(Without(dec.out, c), x) <=> Contains(dec.out, x) /\ x # c
      BY <2>1, WithoutDrops
    <2>. QED
      BY <1>4, <2>2, Zenon
  <1>7. link'[c] = None /\ \A x \in SinkElements : x # c => link'[x] = link[x]
    BY <1>0, <1>2, <1>3, Zenon
  <1>8. \A x \in SinkElements : /\ ~port'[x] => ~mFlushPending'[x] /\ link'[x] = None
                                /\ link'[x] = D <=> Contains(dmxOut', x)
                                /\ link'[x] = V <=> Contains(dec'.out, x)
    <2> SUFFICES ASSUME NEW x \in SinkElements
                 PROVE  /\ ~port'[x] => ~mFlushPending'[x] /\ link'[x] = None
                        /\ link'[x] = D <=> Contains(dmxOut', x)
                        /\ link'[x] = V <=> Contains(dec'.out, x)
      OBVIOUS
    <2>1. /\ ~port[x] => ~mFlushPending[x] /\ link[x] = None
          /\ link[x] = D <=> Contains(dmxOut, x)
          /\ link[x] = V <=> Contains(dec.out, x)
      BY <1>0, Zenon DEF LinkInv
    <2>2. D # None /\ V # None /\ D # V
      BY Distinct, Zenon
    <2>3. CASE x = c
      BY <1>2, <1>3, <1>6, <1>7, <2>1, <2>2, <2>3, Zenon
    <2>4. CASE x # c
      BY <1>3, <1>6, <1>7, <2>1, <2>4, Zenon
    <2>. QED
      BY <2>3, <2>4
  <1>9. LinkInv'
    BY <1>0, <1>3, <1>6, <1>8, Zenon DEF LinkInv
  <1>. QED
    BY <1>5, <1>9

\* A sink that is started is linked to its source.
LEMMA StartVideoSinkLinks ==
  ASSUME TypeOK, ChainInv, NEW s \in Sinks, StartVideoSink(s)
  PROVE  TornState' /\ LinkInv'
  <1>0. /\ TornState /\ LinkInv
        /\ link \in [SinkElements -> {D, V, None}] /\ port \in [SinkElements -> BOOLEAN]
        /\ est \in [Elements -> ElementStates] /\ dec \in DecType
        /\ dmxOut \in Seq(SinkElements) /\ dec.out \in Seq(Sinks) /\ sink \in [Sinks -> SinkType]
    BY Types, Zenon DEF ChainInv, DecType
  <1>1. s \in SinkElements /\ s \in Elements /\ s # V /\ s # D /\ D # V /\ D # None /\ V # None
    BY Distinct, Zenon
  <1> DEFINE src == SourceOf(s)
  <1>2. src = D \/ src = V
    BY Zenon DEF SourceOf
  <1>3. /\ est[s] = "none"
        /\ est' = [est EXCEPT ![s] = "STARTED"] /\ port' = [port EXCEPT ![s] = TRUE]
        /\ link' = [link EXCEPT ![s] = src]
        /\ dmxOut' = IF src = D THEN Append(dmxOut, s) ELSE dmxOut
        /\ dec' = IF src = V THEN [dec EXCEPT !.out = Append(dec.out, s)] ELSE dec
        /\ sink' = [sink EXCEPT ![s].mInputMedia = TRUE, ![s].mVideoSinkListener = TRUE]
        /\ UNCHANGED <<mFlushPending, mMbox, vdec>>
    BY Zenon DEF StartVideoSink
  <1> HIDE DEF src
  <1>4. link[s] = None /\ ~Contains(dmxOut, s) /\ ~Contains(dec.out, s)
    BY <1>0, <1>1, <1>3, Zenon DEF LinkInv
  <1>5. /\ dec'.mVdecStopPending = dec.mVdecStopPending
        /\ dec'.out = IF src = V THEN Append(dec.out, s) ELSE dec.out
    <2>1. CASE src = V
      BY <1>0, <1>3, <2>1, Zenon DEF DecType
    <2>2. CASE src # V
      BY <1>3, <2>2
    <2>. QED
      BY <2>1, <2>2
  <1>6. /\ est'[V] = est[V] /\ est'[s] = "STARTED"
        /\ \A r \in Sinks : r # s => est'[r] = est[r] /\ sink'[r] = sink[r]
    BY <1>0, <1>1, <1>3, Distinct, Zenon
  <1>7. TornState'
    BY <1>0, <1>3, <1>5, <1>6, Zenon DEF TornState, Mail
  <1>8. /\ OnceIn(dmxOut') /\ OnceIn(dec'.out)
        /\ \A x : Contains(dmxOut', x) <=> Contains(dmxOut, x) \/ (x = s /\ src = D)
        /\ \A x : Contains(dec'.out, x) <=> Contains(dec.out, x) \/ (x = s /\ src = V)
    <2>1. OnceIn(dmxOut) /\ OnceIn(dec.out)
      BY <1>0, Zenon DEF LinkInv
    <2>2. /\ OnceIn(Append(dmxOut, s)) /\ OnceIn(Append(dec.out, s))
          /\ \A x : Contains(Append(dmxOut, s), x) <=> Contains(dmxOut, x) \/ x = s
          /\ \A x : Contains(Append(dec.out, s), x) <=> Contains(dec.out, x) \/ x = s
      <3>1. /\ OnceIn(Append(dmxOut, s))
            /\ \A x : Contains(Append(dmxOut, s), x) <=> Contains(dmxOut, x) \/ x = s
        BY <1>0, <1>1, <1>4, <2>1, AppendOnce
      <3>2. /\ OnceIn(Append(dec.out, s))
            /\ \A x : Contains(Append(dec.out, s), x) <=> Contains(dec.out, x) \/ x = s
        BY <1>0, <1>1, <1>4, <2>1, AppendOnce
      <3>. QED
        BY <3>1, <3>2
    <2>3. CASE src = D
      BY <1>1, <1>3, <1>5, <2>1, <2>2, <2>3, Zenon
    <2>4. CASE src = V
      BY <1>1, <1>3, <1>5, <2>1, <2>2, <2>4, Zenon
    <2>. QED
      BY <1>2, <2>3, <2>4
  <1>9. /\ link'[s] = src /\ port'[s]
        /\ \A x \in SinkElements : x # s => link'[x] = link[x] /\ port'[x] = port[x]
    BY <1>0, <1>1, <1>3, Zenon
  <1>10. \A x \in SinkElements : /\ ~port'[x] => ~mFlushPending'[x] /\ link'[x] = None
                                 /\ link'[x] = D <=> Contains(dmxOut', x)
                                 /\ link'[x] = V <=> Contains(dec'.out, x)
    <2> SUFFICES ASSUME NEW x \in SinkElements
                 PROVE  /\ ~port'[x] => ~mFlushPending'[x] /\ link'[x] = None
                        /\ link'[x] = D <=> Contains(dmxOut', x)
                        /\ link'[x] = V <=> Contains(dec'.out, x)
      OBVIOUS
    <2>1. /\ ~port[x] => ~mFlushPending[x] /\ link[x] = None
          /\ link[x] = D <=> Contains(dmxOut, x)
          /\ link[x] = V <=> Contains(dec.out, x)
      BY <1>0, Zenon DEF LinkInv
    <2>3. CASE x = s
      BY <1>2, <1>4, <1>8, <1>9, <2>3, Zenon
    <2>4. CASE x # s
      BY <1>3, <1>8, <1>9, <2>1, <2>4, Zenon
    <2>. QED
      BY <2>3, <2>4
  <1>11. \A r \in Sinks : est'[r] = "none" => ~port'[r] /\ sink'[r].mIsFlushed
    <2> SUFFICES ASSUME NEW r \in Sinks, est'[r] = "none"
                 PROVE  ~port'[r] /\ sink'[r].mIsFlushed
      OBVIOUS
    <2>1. r # s /\ r \in SinkElements
      BY <1>6, Distinct, SMT
    <2>. QED
      BY <1>0, <1>6, <1>9, <2>1, Zenon DEF LinkInv
  <1>12. LinkInv'
    BY <1>8, <1>10, <1>11, Zenon DEF LinkInv
  <1>. QED
    BY <1>7, <1>12

\* Before open().
LEMMA InitChains ==
  ASSUME Init
  PROVE  ChainInv
  <1>0. /\ agenda = <<>> /\ mMbox = <<>> /\ \A e \in Elements : est[e] = "none"
        /\ \A c \in SinkElements : link[c] = None /\ port[c] = FALSE
        /\ dmxOut = <<>> /\ dec.out = <<>> /\ dec.mVdecStopPending = FALSE
        /\ vdec.stopping = FALSE /\ vdec.cb = "none"
    BY Before
  <1>1. DOMAIN agenda = {} /\ DOMAIN mMbox = {} /\ DOMAIN <<>> = {}
    BY <1>0, SMT
  <1>2. CallInv
    BY <1>0, <1>1, Zenon DEF CallInv, OrderInv, NextInv, TornCalls
  <1>3. TornState
    BY <1>0, Distinct, SMT DEF TornState
  <1>4. \A x : ~Contains(<<>>, x)
    BY SMT DEF Contains
  <1>5. \A c \in SinkElements : ~mFlushPending[c]
    <2>1. mFlushPending = [c \in SinkElements |-> FALSE]
      BY Zenon DEF Init
    <2>. QED
      BY <2>1, Zenon
  <1>6. \A s \in Sinks : sink[s].mIsFlushed
    <2>1. sink = [s \in Sinks |-> NewSink]
      BY Zenon DEF Init
    <2>2. NewSink.mIsFlushed
      BY SMT DEF NewSink
    <2>. QED
      BY <2>1, <2>2, Zenon
  <1>7. D # None /\ V # None
    BY Distinct, Zenon
  <1>8. LinkInv
    BY <1>0, <1>1, <1>4, <1>5, <1>6, <1>7, Distinct, Zenon DEF LinkInv, OnceIn
  <1>. QED
    BY <1>2, <1>3, <1>8, Zenon DEF ChainInv

-----------------------------------------------------------------------------
(* ChainInv is an invariant.                                               *)

\* Every step keeps the order of the calls.
LEMMA CallInvKept ==
  ASSUME TypeOK, ChainInv, [Next]_vars
  PROVE  CallInv'
  <1>1. ASSUME ChannelStep PROVE CallInv'
    BY <1>1, ChannelFlushCalls, ChannelFlushDoneCalls, RemoveInputMediaCalls, DeleteChannelCalls,
       Zenon DEF ChannelStep
  <1>2. ASSUME DmxStep PROVE CallInv'
    BY <1>2, DmxStopCalls, DmxFlushCalls, DmxFlushAtCalls, DmxChannelCountedCalls,
       DmxOnChannelFlushedCalls, DmxChannelFlushedCalls, DmxOnChannelUnlinkCalls, Zenon DEF DmxStep
  <1>3. ASSUME DecStep PROVE CallInv'
    BY <1>3, DecStopCalls, DecOnChannelFlushCalls, DecFlushCalls, VdecFlushCalls,
       DecCompleteFlushCalls, DecAfterFlushCalls, DecTeardownOutputsCalls, VdecStopCalls,
       DecCompleteStopCalls, DecOnChannelFlushedCalls, DecOnChannelUnlinkCalls, DecResyncCalls,
       Zenon DEF DecStep
  <1>4. ASSUME SinkStep PROVE CallInv'
    BY <1>4, SinkStopCalls, SinkTeardownCalls, SinkInputRemovedCalls, SinkOnChannelFlushCalls,
       SinkFlushCalls, SinkFlushDoneCalls, SinkCompleteStopCalls, Zenon DEF SinkStep
  <1>5. ASSUME SessionStep PROVE CallInv'
    BY <1>5, FlushIdleCalls, MboxMessageCalls, EventDoneCalls, OnElementStoppedCalls,
       Zenon DEF SessionStep
  <1>6. ASSUME RunIdle \/ RunMbox \/ AppEvent \/ TimerFrame \/ TimerNoBuffer PROVE CallInv'
    BY <1>6, EventCalls
  <1>7. ASSUME VdecCallback PROVE CallInv'
    BY <1>7, CallbackCalls
  <1>8. ASSUME OutputError \/ UNCHANGED vars PROVE CallInv'
    <2>1. UNCHANGED <<agenda, link, est>>
      BY <1>8, Zenon DEF OutputError, vars, chanVars
    <2>. QED
      BY <2>1, CallsSame, Zenon DEF ChainInv, MoreTorn
  <1>9. \/ ChannelStep \/ DmxStep \/ DecStep \/ SinkStep \/ SessionStep
        \/ RunIdle \/ RunMbox \/ AppEvent \/ TimerFrame \/ TimerNoBuffer
        \/ VdecCallback \/ OutputError \/ UNCHANGED vars
    BY Zenon DEF Next, LoopStep, CallStep
  <1>. QED
    BY <1>1, <1>2, <1>3, <1>4, <1>5, <1>6, <1>7, <1>8, <1>9, Zenon

\* What open() links.
LEMMA OpenLinks ==
  ASSUME Init, Open
  PROVE  TornState' /\ LinkInv'
  <1>0. /\ mMbox = <<>> /\ est = [e \in Elements |-> "none"]
        /\ \A e \in Elements : est[e] = "none"
        /\ \A c \in SinkElements : link[c] = None /\ port[c] = FALSE
        /\ link = [c \in SinkElements |-> None] /\ port = [c \in SinkElements |-> FALSE]
        /\ dmxOut = <<>> /\ dec \in DecType /\ dec.out = <<>> /\ dec.mVdecStopPending = FALSE
        /\ vdec.stopping = FALSE /\ vdec.cb = "none"
    BY Before
  <1>1. /\ UNCHANGED <<mMbox, vdec, sink, mFlushPending>>
    BY Zenon DEF Open, OpenOk, OpenWithoutDecoder, OpenFails
  <1>2. /\ dec'.out = <<>> /\ dec'.mVdecStopPending = FALSE
    <2>1. \/ \E a, b : dec' = [dec EXCEPT !.mInputMedia = a, !.mOutputMedia = b]
          \/ dec' = [dec EXCEPT !.mInputMedia = TRUE]
      BY Zenon DEF Open, OpenOk, OpenWithoutDecoder, OpenFails
    <2>2. ASSUME NEW a, NEW b, dec' = [dec EXCEPT !.mInputMedia = a, !.mOutputMedia = b]
          PROVE  dec'.out = <<>> /\ dec'.mVdecStopPending = FALSE
      BY <1>0, <2>2, Zenon DEF DecType
    <2>3. CASE dec' = [dec EXCEPT !.mInputMedia = TRUE]
      BY <1>0, <2>3, Zenon DEF DecType
    <2>. QED
      BY <2>1, <2>2, <2>3
  <1>3. \A c \in SinkElements : ~mFlushPending'[c]
    <2>1. mFlushPending = [c \in SinkElements |-> FALSE]
      BY Zenon DEF Init
    <2>. QED
      BY <1>1, <2>1, Zenon
  <1>4. \A s \in Sinks : sink'[s].mIsFlushed
    <2>1. sink = [s \in Sinks |-> NewSink]
      BY Zenon DEF Init
    <2>2. NewSink.mIsFlushed
      BY SMT DEF NewSink
    <2>. QED
      BY <1>1, <2>1, <2>2, Zenon
  <1>5. /\ \A s \in Sinks : link'[s] = None /\ ~port'[s]
        /\ \/ link'[V] = None /\ dmxOut' = <<>>
           \/ link'[V] = D /\ dmxOut' = <<V>> /\ port'[V]
    <2>1. CASE OpenOk
      <3>1. /\ port' = [port EXCEPT ![V] = DecodeAll]
            /\ link' = [link EXCEPT ![V] = IF DecodeAll THEN D ELSE None]
            /\ dmxOut' = (IF DecodeAll THEN <<V>> ELSE <<>>)
        BY <2>1, Zenon DEF OpenOk
      <3>. QED
        BY <1>0, <3>1, Distinct, Zenon
    <2>2. CASE OpenWithoutDecoder
      <3>1. /\ port' = [port EXCEPT ![V] = TRUE] /\ UNCHANGED <<link, dmxOut>>
        BY <2>2, Zenon DEF OpenWithoutDecoder
      <3>. QED
        BY <1>0, <3>1, Distinct, Zenon
    <2>3. CASE OpenFails
      <3>1. /\ port' = [port EXCEPT ![V] = TRUE] /\ link' = [link EXCEPT ![V] = D]
            /\ dmxOut' = <<V>>
        BY <2>3, Zenon DEF OpenFails
      <3>. QED
        BY <1>0, <3>1, Distinct, Zenon
    <2>. QED
      BY <2>1, <2>2, <2>3, Zenon DEF Open
  <1>6. TornState'
    <2>1. ~Mail("COMPLETE_STOP")'
      <3>1. DOMAIN mMbox' = {}
        BY <1>0, <1>1, SMT
      <3>. QED
        BY <3>1, Zenon DEF Mail
    <2>. QED
      BY <1>0, <1>1, <1>2, <2>1, SMT DEF TornState
  <1>7. /\ \A x : ~Contains(<<>>, x)
        /\ \A x : Contains(<<V>>, x) <=> x = V
        /\ OnceIn(<<>>) /\ OnceIn(<<V>>)
    BY SMT DEF Contains, OnceIn
  <1>8. D # None /\ V # None /\ D # V
    BY Distinct, Zenon
  <1>9. \A c \in SinkElements : /\ ~port'[c] => ~mFlushPending'[c] /\ link'[c] = None
                                /\ link'[c] = D <=> Contains(dmxOut', c)
                                /\ link'[c] = V <=> Contains(dec'.out, c)
    <2> SUFFICES ASSUME NEW c \in SinkElements
                 PROVE  /\ ~port'[c] => ~mFlushPending'[c] /\ link'[c] = None
                        /\ link'[c] = D <=> Contains(dmxOut', c)
                        /\ link'[c] = V <=> Contains(dec'.out, c)
      OBVIOUS
    <2>1. CASE c = V
      BY <1>2, <1>3, <1>5, <1>7, <1>8, <2>1, Zenon
    <2>2. CASE c # V /\ c \in Sinks
      BY <1>2, <1>3, <1>5, <1>7, <1>8, <2>2, Zenon
    <2>. QED
      BY <2>1, <2>2, Distinct, Zenon
  <1>10. OnceIn(dmxOut') /\ OnceIn(dec'.out)
    BY <1>2, <1>5, <1>7, Zenon
  <1>. QED
    BY <1>4, <1>5, <1>6, <1>9, <1>10, Zenon DEF LinkInv

\* Every step keeps TornState and LinkInv.
LEMMA LinksKept ==
  ASSUME TypeOK, AnswerInv, ChainInv, [Next]_vars
  PROVE  TornState' /\ LinkInv'
  <1>1. ASSUME PlainStep PROVE TornState' /\ LinkInv'
    BY <1>1, PlainLinks
  <1>2. ASSUME Open PROVE TornState' /\ LinkInv'
    <2>1. Init
      BY <1>2, Zenon DEF AnswerInv, Open
    <2>. QED
      BY <1>2, <2>1, OpenLinks
  <1>3. ASSUME LoudStep \/ Close PROVE TornState' /\ LinkInv'
    <2>1. ASSUME \/ \E c \in SinkElements : RemoveInputMedia(c)
                 \/ \E s \in Sinks : SinkTeardown(s) \/ StopVideoSink(s)
                 \/ ListenerIdle \/ StopMessage \/ DeleteMessage
                 \/ OnElementStopped \/ Close \/ DmxStop
          PROVE  LoudOther
      BY <2>1, LoudOtherQuiet, Zenon
    <2>2. ASSUME \/ DecStop \/ DecAfterFlush \/ DecTeardownOutputs \/ VdecStop \/ DecCompleteStop
          PROVE  LoudOther
      BY <2>2, LoudOtherDec
    <2>3. ASSUME StopCb \/ StopCbCount \/ StopCbStore
          PROVE  LoudOther
      BY <2>3, LoudOtherStop
    <2>4. ASSUME \E s \in Sinks : SinkStop(s) \/ SinkInputRemoved(s) \/ SinkCompleteStop(s)
          PROVE  LoudOther
      BY <2>4, LoudOtherSink
    <2>5. ASSUME LoudOther PROVE TornState' /\ LinkInv'
      BY <2>5, LoudOtherKeeps
    <2>. QED
      BY <1>3, <2>1, <2>2, <2>3, <2>4, <2>5, DeleteChannelLinks, DmxOnChannelUnlinkLinks,
         DecOnChannelUnlinkLinks, StartVideoSinkLinks, Zenon DEF LoudStep
  <1>. QED
    BY <1>1, <1>2, <1>3, AllSteps

\* The calls of a chain, and the channels they are about, fit together.
THEOREM ChainInvariance == Spec => []ChainInv
  <1>1. Init => ChainInv
    BY InitChains
  <1>2. ASSUME PipelineInv, ChainInv, [Next]_vars PROVE ChainInv'
    <2>1. TypeOK /\ AnswerInv
      BY <1>2, Zenon DEF PipelineInv
    <2>2. CallInv' /\ TornState' /\ LinkInv'
      BY <1>2, <2>1, CallInvKept, LinksKept, Zenon
    <2>. QED
      BY <2>2, Zenon DEF ChainInv
  <1>. QED
    BY <1>1, <1>2, PipelineInvariance, PTL DEF Spec

-----------------------------------------------------------------------------
(* Steps FlushInv says little of.                                          *)

\* The calls FlushInv is about, of the decoder and the sinks and of the
\* demuxer: those that are made at once, and those that may wait.
DownNext(f, e) ==
    \/ e = V /\ f \in {"resync", "flush", "completeFlush", "onChannelFlushed"}
    \/ e \in Sinks /\ f = "channel.flushDone"
DownKey(f, e) == (e = V /\ f = "vdec_flush") \/ (e \in Sinks /\ f = "channel.flush")
UpNext(f, e) ==
    \/ e = V /\ f \in {"onChannelFlush", "channel.flush", "channel.flushDone"}
    \/ e = D /\ f \in {"flush", "onChannelFlushed"}
UpKey(f, e) == \/ e = V /\ f = "onChannelTeardown"
               \/ f = "mboxCb"
               \/ e = D /\ f = "flushed"

\* The other calls.
Quiet(x) == ~DownNext(x.f, x.e) /\ ~DownKey(x.f, x.e)
Low(x) == /\ ~UpNext(x.f, x.e) /\ ~UpKey(x.f, x.e)
          /\ x.f \notin {"flushAt", "flushed", "channelFlushed"}
Dull(x) == /\ Quiet(x) /\ ~UpNext(x.f, x.e) /\ ~UpKey(x.f, x.e)
           /\ x.f \notin {"flushAt", "flushed", "channelFlushed"}

\* The chain says the same of the calls FlushInv is about.
SameDown ==
    /\ \A f, e : DownNext(f, e) => (IsNext(f, e)' <=> IsNext(f, e))
    /\ \A f, e : DownKey(f, e) => (Calls(f, e)' <=> Calls(f, e))
SameUp ==
    /\ \A f, e : UpNext(f, e) => (IsNext(f, e)' <=> IsNext(f, e))
    /\ \A f, e : UpKey(f, e) => (Calls(f, e)' <=> Calls(f, e))
    /\ ~Waits("channelFlushed", D) =>
           /\ ~Waits("channelFlushed", D)'
           /\ IsNext("channelFlushed", D)' <=> IsNext("channelFlushed", D)
    /\ LoopAt(1)' <=> LoopAt(1)
    /\ \A i \in DOMAIN agenda' : agenda'[i].f \in {"flushAt", "flushed"} =>
           \E j \in DOMAIN agenda : agenda'[i] = agenda[j]

SameView == SameDown /\ SameUp

\* The calls of the chain that match a predicate which none of those that
\* were replaced, and none of those that replace them, does.
LEMMA SameMatch ==
  ASSUME agenda \in Seq(CallType), agenda # <<>>, OrderInv, NEW q \in Seq(CallType), Then(q),
         NEW f, NEW e, ~(agenda[1].f = f /\ agenda[1].e = e),
         \A i \in DOMAIN q : ~(q[i].f = f /\ q[i].e = e)
  PROVE  /\ Calls(f, e)' <=> Calls(f, e)
         /\ ~Waits(f, e) => ~IsNext(f, e)' /\ ~IsNext(f, e) /\ ~Waits(f, e)'
  <1>1. /\ agenda' \in Seq(CallType)
        /\ \A j \in DOMAIN agenda : j # 1 => \E i \in DOMAIN agenda' : agenda'[i] = agenda[j]
        /\ \A i \in DOMAIN agenda' :
              \/ i \in DOMAIN q /\ agenda'[i] = q[i]
              \/ \E j \in DOMAIN agenda : j # 1 /\ agenda'[i] = agenda[j]
    BY Places, Zenon
  <1>2. agenda' # <<>> <=> 1 \in DOMAIN agenda'
    BY <1>1, SMT
  <1>3. ASSUME NEW i \in DOMAIN agenda', agenda'[i].f = f, agenda'[i].e = e
        PROVE  Waits(f, e)
    <2>1. CASE i \in DOMAIN q /\ agenda'[i] = q[i]
      BY <1>3, <2>1, Zenon
    <2>2. CASE \E j \in DOMAIN agenda : j # 1 /\ agenda'[i] = agenda[j]
      BY <1>3, <2>2, SMT DEF Waits
    <2>. QED
      BY <1>1, <2>1, <2>2
  <1>4. Calls(f, e)' => Calls(f, e)
    BY <1>3, Zenon DEF Calls, Waits
  <1>5. ASSUME NEW j \in DOMAIN agenda, agenda[j].f = f, agenda[j].e = e
        PROVE  Calls(f, e)'
    <2>1. j # 1
      BY <1>5
    <2>2. PICK i \in DOMAIN agenda' : agenda'[i] = agenda[j]
      BY <1>1, <2>1
    <2>. QED
      BY <1>5, <2>2, Zenon DEF Calls
  <1>6. ASSUME ~Waits(f, e)
        PROVE  ~IsNext(f, e)' /\ ~IsNext(f, e) /\ ~Waits(f, e)'
    BY <1>2, <1>3, <1>6, Zenon DEF IsNext, Waits
  <1>. QED
    BY <1>4, <1>5, <1>6, Zenon DEF Calls

\* The calls that are made at once do not wait.
LEMMA NoKeyWaits ==
  ASSUME agenda \in Seq(CallType), OrderInv, NEW f, NEW e, DownNext(f, e) \/ UpNext(f, e)
  PROVE  ~Waits(f, e)
  <1>1. Waits(f, e) => f \notin Immediate /\ ~(e = V /\ f \in {"channel.flush", "completeStop"})
    BY Behind, Zenon
  <1>. QED
    BY <1>1, SMT DEF DownNext, UpNext, Immediate

\* Calls that are not about the decoder and the sinks.
LEMMA DownThen ==
  ASSUME agenda \in Seq(CallType), agenda # <<>>, OrderInv, NEW q \in Seq(CallType), Then(q),
         Quiet(agenda[1]), \A i \in DOMAIN q : Quiet(q[i])
  PROVE  SameDown
  <1>1. ASSUME NEW f, NEW e, DownNext(f, e)
        PROVE  IsNext(f, e)' <=> IsNext(f, e)
    <2>1. /\ ~(agenda[1].f = f /\ agenda[1].e = e)
          /\ \A i \in DOMAIN q : ~(q[i].f = f /\ q[i].e = e)
      BY <1>1, Zenon DEF Quiet
    <2>. QED
      BY <1>1, <2>1, NoKeyWaits, SameMatch, Zenon
  <1>2. ASSUME NEW f, NEW e, DownKey(f, e)
        PROVE  Calls(f, e)' <=> Calls(f, e)
    <2>1. /\ ~(agenda[1].f = f /\ agenda[1].e = e)
          /\ \A i \in DOMAIN q : ~(q[i].f = f /\ q[i].e = e)
      BY <1>2, Zenon DEF Quiet
    <2>. QED
      BY <2>1, SameMatch, Zenon
  <1>. QED
    BY <1>1, <1>2, Zenon DEF SameDown

\* Calls that are not about the demuxer.
LEMMA UpThen ==
  ASSUME agenda \in Seq(CallType), agenda # <<>>, OrderInv, NEW q \in Seq(CallType), Then(q),
         Low(agenda[1]), \A i \in DOMAIN q : Low(q[i])
  PROVE  SameUp
  <1>1. ASSUME NEW f, NEW e, UpNext(f, e)
        PROVE  IsNext(f, e)' <=> IsNext(f, e)
    <2>1. /\ ~(agenda[1].f = f /\ agenda[1].e = e)
          /\ \A i \in DOMAIN q : ~(q[i].f = f /\ q[i].e = e)
      BY <1>1, Zenon DEF Low
    <2>. QED
      BY <1>1, <2>1, NoKeyWaits, SameMatch, Zenon
  <1>2. ASSUME NEW f, NEW e, UpKey(f, e)
        PROVE  Calls(f, e)' <=> Calls(f, e)
    <2>1. /\ ~(agenda[1].f = f /\ agenda[1].e = e)
          /\ \A i \in DOMAIN q : ~(q[i].f = f /\ q[i].e = e)
      BY <1>2, Zenon DEF Low
    <2>. QED
      BY <2>1, SameMatch, Zenon
  <1>3. ASSUME ~Waits("channelFlushed", D)
        PROVE  /\ ~Waits("channelFlushed", D)'
               /\ IsNext("channelFlushed", D)' <=> IsNext("channelFlushed", D)
    <2>1. /\ ~(agenda[1].f = "channelFlushed" /\ agenda[1].e = D)
          /\ \A i \in DOMAIN q : ~(q[i].f = "channelFlushed" /\ q[i].e = D)
      BY Zenon DEF Low
    <2>. QED
      BY <1>3, <2>1, SameMatch, Zenon
  <1>4. /\ \A j \in DOMAIN agenda : j # 1 => \E i \in DOMAIN agenda' : agenda'[i] = agenda[j]
        /\ \A i \in DOMAIN agenda' :
              \/ i \in DOMAIN q /\ agenda'[i] = q[i]
              \/ \E j \in DOMAIN agenda : j # 1 /\ agenda'[i] = agenda[j]
    BY Places, Zenon
  <1>5. \A i \in DOMAIN agenda' : agenda'[i].f \in {"flushAt", "flushed"} =>
           \E j \in DOMAIN agenda : agenda'[i] = agenda[j]
    BY <1>4, Zenon DEF Low
  <1>6. LoopAt(1)' <=> LoopAt(1)
    <2>1. LoopAt(1)' => LoopAt(1)
      BY <1>5, SMT DEF LoopAt
    <2>2. ASSUME NEW j \in DOMAIN agenda, agenda[j].f = "flushAt", agenda[j].i = 1
          PROVE  LoopAt(1)'
      <3>1. j # 1
        BY <2>2, Zenon DEF Low
      <3>. QED
        BY <1>4, <2>2, <3>1, Zenon DEF LoopAt
    <2>. QED
      BY <2>1, <2>2, Zenon DEF LoopAt
  <1>. QED
    BY <1>1, <1>2, <1>3, <1>5, <1>6, Zenon DEF SameUp

\* A call FlushInv says nothing of, and that makes no other such call;
LEMMA SameThen ==
  ASSUME agenda \in Seq(CallType), agenda # <<>>, OrderInv, NEW q \in Seq(CallType), Then(q),
         Dull(agenda[1]), \A i \in DOMAIN q : Dull(q[i])
  PROVE  SameView
  BY DownThen, UpThen, Zenon DEF Dull, Low, SameView

\* ... one that returns,
LEMMA SameNone ==
  ASSUME agenda \in Seq(CallType), agenda # <<>>, OrderInv, Return, Dull(agenda[1])
  PROVE  SameView
  <1>1. <<>> \in Seq(CallType) /\ DOMAIN <<>> = {} /\ Then(<<>>)
    BY Chains, Zenon DEF Return
  <1>. QED
    BY <1>1, SameThen, Zenon

\* ... one that makes a call,
LEMMA SameOne ==
  ASSUME agenda \in Seq(CallType), agenda # <<>>, OrderInv, NEW x \in CallType, Then(<<x>>),
         Dull(agenda[1]), Dull(x)
  PROVE  SameView
  <1> DEFINE q == <<x>>
  <1>1. q \in Seq(CallType) /\ DOMAIN q = {1} /\ q[1] = x /\ Then(q)
    BY Chains, SMT
  <1> HIDE DEF q
  <1>. QED
    BY <1>1, SameThen, Zenon

\* ... one that makes two,
LEMMA SameTwo ==
  ASSUME agenda \in Seq(CallType), agenda # <<>>, OrderInv, NEW x \in CallType,
         NEW y \in CallType, Then(<<x, y>>), Dull(agenda[1]), Dull(x), Dull(y)
  PROVE  SameView
  <1> DEFINE q == <<x, y>>
  <1>1. q \in Seq(CallType) /\ DOMAIN q = {1, 2} /\ q[1] = x /\ q[2] = y /\ Then(q)
    BY Chains
  <1> HIDE DEF q
  <1>2. \A i \in DOMAIN q : Dull(q[i])
    BY <1>1, Zenon
  <1>. QED
    BY <1>1, <1>2, SameThen, Zenon

\* ... the first call of an event,
LEMMA SameEvent ==
  ASSUME agenda = <<>>, NEW x \in CallType, agenda' = <<x>>, Dull(x)
  PROVE  SameView
  <1>1. /\ \A f, e : Calls(f, e)' <=> x.f = f /\ x.e = e
        /\ \A f, e : ~Waits(f, e)'
        /\ \A f, e : IsNext(f, e)' <=> x.f = f /\ x.e = e
        /\ \A k : LoopAt(k)' <=> x.f = "flushAt" /\ x.i = k
        /\ \A f, e : ~Calls(f, e) /\ ~Waits(f, e) /\ ~IsNext(f, e)
        /\ \A k : ~LoopAt(k)
        /\ \A i \in DOMAIN agenda' : agenda'[i] = x /\ i = 1
    BY LineEvent, Zenon
  <1>2. \A f, e : DownNext(f, e) \/ DownKey(f, e) \/ UpNext(f, e) \/ UpKey(f, e) =>
              ~(x.f = f /\ x.e = e)
    BY Zenon DEF Dull, Quiet
  <1>3. x.f \notin {"flushAt", "flushed", "channelFlushed"}
    BY Zenon DEF Dull
  <1>. QED
    BY <1>1, <1>2, <1>3, Zenon DEF SameView, SameDown, SameUp

\* ... no call at all.
LEMMA SameAgenda ==
  ASSUME UNCHANGED agenda
  PROVE  SameView
  <1>1. /\ \A f, e : Calls(f, e)' <=> Calls(f, e)
        /\ \A f, e : Waits(f, e)' <=> Waits(f, e)
        /\ \A f, e : IsNext(f, e)' <=> IsNext(f, e)
        /\ \A k : LoopAt(k)' <=> LoopAt(k)
    BY LineSame
  <1>2. \A i \in DOMAIN agenda' : \E j \in DOMAIN agenda : agenda'[i] = agenda[j]
    BY Zenon
  <1>. QED
    BY <1>1, <1>2, Zenon DEF SameView, SameDown, SameUp

-----------------------------------------------------------------------------
(* FlushInv after a step that is not about flushes.                        *)

DownInv == NoResync /\ OutputCbInv /\ EmptyInv /\ OnItsWay /\ SinkAnswer /\ AskedInv
UpInv == OutputInv /\ QuietInv /\ VdecInv /\ BeginInv /\ TimerInv /\ LoopInv

\* FlushInv is of the decoder and what is after it, and of what is before it.
LEMMA FlushInvParts == FlushInv <=> DownInv /\ UpInv
  BY Zenon DEF FlushInv, DownInv, UpInv

\* What such a step leaves alone.
CalmDown ==
    /\ SameDown
    /\ \A s \in Sinks : link'[s] = V => link[s] = V /\ mFlushPending'[s] = mFlushPending[s]
    /\ dec'.mIsFlushed = dec.mIsFlushed /\ dec'.mVdecFlushPending = dec.mVdecFlushPending
    /\ dec'.mInputChannelFlushPending = dec.mInputChannelFlushPending
    /\ vdec'.flushing = vdec.flushing /\ (vdec'.busy => vdec.busy)
    /\ vdec'.cb # "output" \/ (UNCHANGED vdec /\ UNCHANGED est)
    /\ vdec'.cb = "flush" <=> vdec.cb = "flush"
    /\ est'[V] = "STARTED" => est[V] = "STARTED"
    /\ \A s \in Sinks : sink[s].mIsFlushed => sink'[s].mIsFlushed
    /\ Mail("COMPLETE_FLUSH")' => Mail("COMPLETE_FLUSH")
    /\ Mail("RESYNC")' => Mail("RESYNC")

CalmUp ==
    /\ dmxOut' = dmxOut \/ dmxOut' = <<>>
    /\ est'[D] = "STARTED" =>
          /\ SameUp
          /\ UNCHANGED <<dmxOut, mRunning, mTimer, mChannelsFlushing, dmxMedia>>
          /\ mFlushPending'[V] = mFlushPending[V]
          /\ est[D] = "STARTED"
          /\ est[V] = "STARTED" => est'[V] = "STARTED"
          /\ mState' = "CREATED" => mState = "CREATED"
Calm == CalmDown /\ CalmUp

\* What the chain says of each call FlushInv is about.
LEMMA SameDownCalls ==
  ASSUME SameDown
  PROVE  /\ IsNext("resync", V)' <=> IsNext("resync", V)
         /\ IsNext("flush", V)' <=> IsNext("flush", V)
         /\ IsNext("completeFlush", V)' <=> IsNext("completeFlush", V)
         /\ IsNext("onChannelFlushed", V)' <=> IsNext("onChannelFlushed", V)
         /\ \A s \in Sinks : /\ IsNext("channel.flushDone", s)' <=> IsNext("channel.flushDone", s)
                             /\ Calls("channel.flush", s)' <=> Calls("channel.flush", s)
         /\ Calls("vdec_flush", V)' <=> Calls("vdec_flush", V)
  <1>1. /\ DownNext("resync", V) /\ DownNext("flush", V) /\ DownNext("completeFlush", V)
        /\ DownNext("onChannelFlushed", V) /\ DownKey("vdec_flush", V)
        /\ \A s \in Sinks : DownNext("channel.flushDone", s) /\ DownKey("channel.flush", s)
    BY SMT DEF DownNext, DownKey
  <1>. QED
    BY <1>1, Zenon DEF SameDown

\* ... and of what is before the decoder.
LEMMA SameUpCalls ==
  ASSUME SameUp
  PROVE  /\ IsNext("onChannelFlush", V)' <=> IsNext("onChannelFlush", V)
         /\ IsNext("channel.flush", V)' <=> IsNext("channel.flush", V)
         /\ IsNext("channel.flushDone", V)' <=> IsNext("channel.flushDone", V)
         /\ IsNext("flush", D)' <=> IsNext("flush", D)
         /\ IsNext("onChannelFlushed", D)' <=> IsNext("onChannelFlushed", D)
         /\ Calls("onChannelTeardown", V)' <=> Calls("onChannelTeardown", V)
         /\ Calls("mboxCb", None)' <=> Calls("mboxCb", None)
         /\ Calls("flushed", D)' <=> Calls("flushed", D)
  <1>1. /\ UpNext("onChannelFlush", V) /\ UpNext("channel.flush", V)
        /\ UpNext("channel.flushDone", V) /\ UpNext("flush", D) /\ UpNext("onChannelFlushed", D)
        /\ UpKey("onChannelTeardown", V) /\ UpKey("mboxCb", None) /\ UpKey("flushed", D)
    BY SMT DEF UpNext, UpKey
  <1>. QED
    BY <1>1, Zenon DEF SameUp

\* A calm step keeps what FlushInv says of the decoder and the sinks,
LEMMA CalmDownKeeps ==
  ASSUME DownInv, CalmDown
  PROVE  DownInv' /\ (PartPending' => PartPending) /\ (Told' => Told)
  <1>0. NoResync /\ OutputCbInv /\ EmptyInv /\ OnItsWay /\ SinkAnswer /\ AskedInv
    BY Zenon DEF DownInv
  <1>1. /\ IsNext("resync", V)' <=> IsNext("resync", V)
        /\ IsNext("flush", V)' <=> IsNext("flush", V)
        /\ IsNext("completeFlush", V)' <=> IsNext("completeFlush", V)
        /\ IsNext("onChannelFlushed", V)' <=> IsNext("onChannelFlushed", V)
        /\ \A s \in Sinks : /\ IsNext("channel.flushDone", s)' <=> IsNext("channel.flushDone", s)
                            /\ Calls("channel.flush", s)' <=> Calls("channel.flush", s)
        /\ Calls("vdec_flush", V)' <=> Calls("vdec_flush", V)
    BY SameDownCalls, Zenon DEF CalmDown
  <1>2. /\ \A s \in Sinks : link'[s] = V => link[s] = V /\ mFlushPending'[s] = mFlushPending[s]
        /\ dec'.mIsFlushed = dec.mIsFlushed /\ dec'.mVdecFlushPending = dec.mVdecFlushPending
        /\ Flushing' = Flushing
        /\ vdec'.flushing = vdec.flushing /\ (vdec'.busy => vdec.busy)
        /\ vdec'.cb # "output" \/ (UNCHANGED vdec /\ UNCHANGED est)
        /\ vdec'.cb = "flush" <=> vdec.cb = "flush"
        /\ Decoding' => Decoding
        /\ \A s \in Sinks : sink[s].mIsFlushed => sink'[s].mIsFlushed
        /\ Mail("COMPLETE_FLUSH")' => Mail("COMPLETE_FLUSH")
        /\ Mail("RESYNC")' => Mail("RESYNC")
    BY Zenon DEF CalmDown, Decoding, Flushing
  <1>3. (PartPending' => PartPending) /\ (Told' => Told)
    BY <1>1, <1>2, Zenon DEF PartPending, Told
  <1>4. NoResync' /\ OutputCbInv'
    BY <1>0, <1>1, <1>2, Zenon DEF NoResync, OutputCbInv, Decoding
  <1>5. EmptyInv'
    BY <1>0, <1>2, Zenon DEF EmptyInv
  <1>6. OnItsWay'
    BY <1>0, <1>1, <1>2, Zenon DEF OnItsWay
  <1>7. SinkAnswer'
    BY <1>0, <1>1, <1>2, Zenon DEF SinkAnswer
  <1>8. AskedInv'
    BY <1>0, <1>1, <1>2, <1>3, Zenon DEF AskedInv
  <1>. QED
    BY <1>3, <1>4, <1>5, <1>6, <1>7, <1>8, Zenon DEF DownInv

\* Nothing is asked of a demuxer that does not play.
LEMMA UpStopped ==
  ASSUME est'[D] # "STARTED", dmxOut' = <<>> \/ dmxOut' = <<V>>
  PROVE  UpInv'
  BY Zenon DEF UpInv, OutputInv, QuietInv, VdecInv, BeginInv, TimerInv, LoopInv, Playing

\* ... and all of it.
LEMMA CalmFlush ==
  ASSUME FlushInv, Calm
  PROVE  FlushInv'
  <1>0. /\ DownInv /\ OutputInv /\ QuietInv /\ VdecInv /\ BeginInv /\ TimerInv /\ LoopInv
        /\ CalmDown /\ CalmUp
    BY FlushInvParts, Zenon DEF UpInv, Calm
  <1>1. DownInv' /\ (PartPending' => PartPending) /\ (Told' => Told)
    BY <1>0, CalmDownKeeps
  <1>2. CASE est'[D] # "STARTED"
    <2>1. dmxOut' = <<>> \/ dmxOut' = <<V>>
      BY <1>0, Zenon DEF CalmUp, OutputInv
    <2>. QED
      BY <1>1, <1>2, <2>1, UpStopped, FlushInvParts, Zenon DEF FlushInv, DownInv, UpInv
  <1>3. CASE est'[D] = "STARTED"
    <2>1. /\ IsNext("flush", V)' <=> IsNext("flush", V)
          /\ IsNext("completeFlush", V)' <=> IsNext("completeFlush", V)
          /\ IsNext("onChannelFlush", V)' <=> IsNext("onChannelFlush", V)
          /\ IsNext("channel.flush", V)' <=> IsNext("channel.flush", V)
          /\ IsNext("channel.flushDone", V)' <=> IsNext("channel.flushDone", V)
          /\ IsNext("flush", D)' <=> IsNext("flush", D)
          /\ IsNext("onChannelFlushed", D)' <=> IsNext("onChannelFlushed", D)
          /\ Calls("vdec_flush", V)' <=> Calls("vdec_flush", V)
          /\ Calls("onChannelTeardown", V)' <=> Calls("onChannelTeardown", V)
          /\ Calls("mboxCb", None)' <=> Calls("mboxCb", None)
          /\ Calls("flushed", D)' <=> Calls("flushed", D)
      BY <1>0, <1>3, SameDownCalls, SameUpCalls, Zenon DEF CalmDown, CalmUp
    <2>2. /\ UNCHANGED <<dmxOut, mRunning, mTimer, mChannelsFlushing, dmxMedia>>
          /\ mFlushPending'[V] = mFlushPending[V]
          /\ Playing /\ (Decoding => Decoding')
          /\ mState' = "CREATED" => mState = "CREATED"
          /\ dec'.mIsFlushed = dec.mIsFlushed /\ dec'.mVdecFlushPending = dec.mVdecFlushPending
          /\ Flushing' = Flushing
          /\ vdec'.flushing = vdec.flushing /\ (vdec'.busy => vdec.busy)
      BY <1>0, <1>3, Zenon DEF CalmDown, CalmUp, Playing, Decoding, Flushing
    <2>3. /\ ~Waits("channelFlushed", D) /\ ~Waits("channelFlushed", D)'
          /\ IsNext("channelFlushed", D)' <=> IsNext("channelFlushed", D)
          /\ LoopAt(1)' <=> LoopAt(1)
          /\ \A i \in DOMAIN agenda' : agenda'[i].f \in {"flushAt", "flushed"} =>
                 \E j \in DOMAIN agenda : agenda'[i] = agenda[j]
      BY <1>0, <1>3, <2>2, Zenon DEF CalmUp, SameUp, TimerInv
    <2>4. /\ NotBegun' <=> NotBegun
          /\ Asks' <=> Asks
          /\ Answered' <=> Answered
      BY <2>1, <2>2, <2>3, Zenon DEF NotBegun, Asks, Answered
    <2>5. OutputInv'
      BY <1>0, <2>1, <2>2, Zenon DEF OutputInv
    <2>6. QuietInv' /\ VdecInv'
      BY <1>0, <1>1, <2>1, <2>2, Zenon DEF QuietInv, VdecInv
    <2>7. BeginInv'
      BY <1>0, <2>1, <2>2, <2>4, Zenon DEF BeginInv
    <2>8. TimerInv'
      BY <1>0, <2>1, <2>2, <2>3, <2>4, Zenon DEF TimerInv
    <2>9. LoopInv'
      <3> DEFINE Turn(x) ==
              /\ x.f \in {"flushAt", "flushed"} => x.n = 1 /\ x.i \in {1, 2}
              /\ x.f = "flushed" =>
                     x.i = 1 /\ (mFlushPending[V] \/ IsNext("channel.flush", V))
              /\ x.f = "flushAt" /\ x.i # 1 => mFlushPending[V]
      <3>1. ASSUME NEW i \in DOMAIN agenda' PROVE Turn(agenda'[i])
        <4>1. CASE agenda'[i].f \in {"flushAt", "flushed"}
          <5>1. PICK j \in DOMAIN agenda : agenda'[i] = agenda[j]
            BY <2>3, <4>1
          <5>2. Turn(agenda[j])
            BY <1>0, <2>2, Zenon DEF LoopInv
          <5>. QED
            BY <5>1, <5>2
        <4>2. CASE ~(agenda'[i].f \in {"flushAt", "flushed"})
          BY <4>2, SMT
        <4>. QED
          BY <4>1, <4>2
      <3>2. \A x : Turn(x) => Turn(x)'
        BY <2>1, <2>2, Zenon
      <3>. QED
        BY <2>1, <2>2, <3>1, <3>2, Zenon DEF LoopInv
    <2>. QED
      BY <1>1, <2>5, <2>6, <2>7, <2>8, <2>9, Zenon DEF FlushInv, DownInv
  <1>. QED
    BY <1>2, <1>3

-----------------------------------------------------------------------------
(* Calls that FlushInv says nothing of.                                    *)

\* removeInputMedia().
LEMMA RemoveInputMediaSame ==
  ASSUME TypeOK, OrderInv, NEW c \in SinkElements, RemoveInputMedia(c)
  PROVE  SameView
  <1>1. /\ agenda # <<>> /\ 1 \in DOMAIN agenda /\ agenda[1].f = "removeInputMedia" /\ agenda[1].e = c
        /\ Subject = agenda[1].c /\ Head(agenda) = agenda[1] /\ agenda[1] \in CallType
        /\ agenda \in Seq(CallType)
    BY Types, Running, Zenon DEF RemoveInputMedia
  <1>2. Dull(agenda[1])
    BY <1>1, Distinct, SMT DEF Dull, Quiet, DownNext, DownKey, UpNext, UpKey
  <1>3. link[c] # None => link[c] \in {D, V}
    BY Types, SMT
  <1>4. CASE link[c] = None
    <2> DEFINE x == Call("deleteChannel", c)
    <2>1. /\ x \in CallType /\ x.f = "deleteChannel" /\ x.e = c
      <3>1. x \in CallType /\ x.f = "deleteChannel" /\ x.e = c
        BY <1>3, <1>4, <1>1, Distinct, TypedOfChannel, Zenon
      <3>. QED
        BY <3>1
    <2>2. Then(<<x>>)
      <3>1. Then((<<>>) \o <<x>>)
        BY <1>3, <1>1, <1>4, Zenon DEF RemoveInputMedia
      <3>. HIDE DEF x
      <3>2. <<x>> \in Seq(CallType)
        BY <2>1, Chains, Zenon
      <3>. QED
        BY <2>1, <3>1, <3>2, JoinNone, Zenon
    <2> HIDE DEF x
    <2>3. Dull(x)
      BY <2>1, <1>4, <1>3, Distinct, SMT DEF Dull, Quiet, DownNext, DownKey, UpNext, UpKey
    <2>. QED
      BY <1>1, <1>2, <2>1, <2>2, <2>3, SameOne, Zenon
  <1>5. CASE link[c] # None
    <2> DEFINE x == CallOn("onChannelUnlink", link[c], c)
               y == Call("deleteChannel", c)
    <2>1. /\ x \in CallType /\ x.f = "onChannelUnlink" /\ x.e = link[c] /\ x.c = c
          /\ y \in CallType /\ y.f = "deleteChannel" /\ y.e = c
      <3>1. x \in CallType /\ x.f = "onChannelUnlink" /\ x.e = link[c] /\ x.c = c
        BY <1>3, <1>5, <1>1, Distinct, TypedUpstream, SMT
      <3>2. y \in CallType /\ y.f = "deleteChannel" /\ y.e = c
        BY <1>3, <1>5, <1>1, Distinct, TypedOfChannel, SMT
      <3>. QED
        BY <3>1, <3>2
    <2>2. Then(<<x, y>>)
      <3>1. Then((<<x>>) \o <<y>>)
        BY <1>3, <1>1, <1>5, Zenon DEF RemoveInputMedia
      <3>. HIDE DEF x, y
      <3>2. <<y>> \in Seq(CallType)
        BY <2>1, Chains, Zenon
      <3>. QED
        BY <2>1, <3>1, <3>2, JoinOne, Zenon
    <2> HIDE DEF x, y
    <2>3. Dull(x) /\ Dull(y)
      BY <2>1, <1>5, <1>3, Distinct, SMT DEF Dull, Quiet, DownNext, DownKey, UpNext, UpKey
    <2>. QED
      BY <1>1, <1>2, <2>1, <2>2, <2>3, SameTwo, Zenon
  <1>. QED
    BY <1>4, <1>5, <1>3, Zenon DEF RemoveInputMedia

\* The channel is deleted.
LEMMA DeleteChannelSame ==
  ASSUME TypeOK, OrderInv, NEW c \in SinkElements, DeleteChannel(c)
  PROVE  SameView
  <1>1. /\ agenda # <<>> /\ 1 \in DOMAIN agenda /\ agenda[1].f = "deleteChannel" /\ agenda[1].e = c
        /\ Subject = agenda[1].c /\ Head(agenda) = agenda[1] /\ agenda[1] \in CallType
        /\ agenda \in Seq(CallType)
    BY Types, Running, Zenon DEF DeleteChannel
  <1>2. Dull(agenda[1])
    BY <1>1, Distinct, SMT DEF Dull, Quiet, DownNext, DownKey, UpNext, UpKey
  <1>3. CASE TRUE
    <2>1. Return
      BY <1>3, Zenon DEF DeleteChannel
    <2>. QED
      BY <1>1, <1>2, <2>1, SameNone, Zenon
  <1>. QED
    BY <1>3, Zenon DEF DeleteChannel

\* completeResync() and tryStop().
LEMMA DecAfterFlushSame ==
  ASSUME TypeOK, OrderInv, DecAfterFlush
  PROVE  SameView
  <1>1. /\ agenda # <<>> /\ 1 \in DOMAIN agenda /\ agenda[1].f = "afterFlush" /\ agenda[1].e = V
        /\ Subject = agenda[1].c /\ Head(agenda) = agenda[1] /\ agenda[1] \in CallType
        /\ agenda \in Seq(CallType)
    BY Types, Running, Zenon DEF DecAfterFlush
  <1>2. Dull(agenda[1])
    BY <1>1, Distinct, SMT DEF Dull, Quiet, DownNext, DownKey, UpNext, UpKey
  <1>3. CASE est[V] # "STOPPING"
    <2>1. Return
      BY <1>3, Zenon DEF DecAfterFlush
    <2>. QED
      BY <1>1, <1>2, <2>1, SameNone, Zenon
  <1>4. CASE est[V] = "STOPPING" /\ ~dec.mInputMedia
    <2> DEFINE x == Call("teardownOutputs", V)
    <2>1. /\ x \in CallType /\ x.f = "teardownOutputs" /\ x.e = V
      <3>1. x \in CallType /\ x.f = "teardownOutputs" /\ x.e = V
        BY <1>4, <1>1, Distinct, TypedOfV, Zenon
      <3>. QED
        BY <3>1
    <2>2. Then(<<x>>)
      <3>1. Then((<<>>) \o <<x>>)
        BY <1>1, <1>4, Zenon DEF DecAfterFlush
      <3>. HIDE DEF x
      <3>2. <<x>> \in Seq(CallType)
        BY <2>1, Chains, Zenon
      <3>. QED
        BY <2>1, <3>1, <3>2, JoinNone, Zenon
    <2> HIDE DEF x
    <2>3. Dull(x)
      BY <2>1, <1>4, Distinct, SMT DEF Dull, Quiet, DownNext, DownKey, UpNext, UpKey
    <2>. QED
      BY <1>1, <1>2, <2>1, <2>2, <2>3, SameOne, Zenon
  <1>5. CASE est[V] = "STOPPING" /\ dec.mInputMedia
    <2> DEFINE x == Call("removeInputMedia", V)
               y == Call("teardownOutputs", V)
    <2>1. /\ x \in CallType /\ x.f = "removeInputMedia" /\ x.e = V
          /\ y \in CallType /\ y.f = "teardownOutputs" /\ y.e = V
      <3>1. x \in CallType /\ x.f = "removeInputMedia" /\ x.e = V
        BY <1>5, <1>1, Distinct, TypedOfChannel, Zenon
      <3>2. y \in CallType /\ y.f = "teardownOutputs" /\ y.e = V
        BY <1>5, <1>1, Distinct, TypedOfV, Zenon
      <3>. QED
        BY <3>1, <3>2
    <2>2. Then(<<x, y>>)
      <3>1. Then((<<x>>) \o <<y>>)
        BY <1>1, <1>5, Zenon DEF DecAfterFlush
      <3>. HIDE DEF x, y
      <3>2. <<y>> \in Seq(CallType)
        BY <2>1, Chains, Zenon
      <3>. QED
        BY <2>1, <3>1, <3>2, JoinOne, Zenon
    <2> HIDE DEF x, y
    <2>3. Dull(x) /\ Dull(y)
      BY <2>1, <1>5, Distinct, SMT DEF Dull, Quiet, DownNext, DownKey, UpNext, UpKey
    <2>. QED
      BY <1>1, <1>2, <2>1, <2>2, <2>3, SameTwo, Zenon
  <1>. QED
    BY <1>3, <1>4, <1>5, Zenon DEF DecAfterFlush

\* vdec is asked to stop.
LEMMA VdecStopSame ==
  ASSUME TypeOK, OrderInv, VdecStop
  PROVE  SameView
  <1>1. /\ agenda # <<>> /\ 1 \in DOMAIN agenda /\ agenda[1].f = "vdec_stop" /\ agenda[1].e = V
        /\ Subject = agenda[1].c /\ Head(agenda) = agenda[1] /\ agenda[1] \in CallType
        /\ agenda \in Seq(CallType)
    BY Types, Running, Zenon DEF VdecStop
  <1>2. Dull(agenda[1])
    BY <1>1, Distinct, SMT DEF Dull, Quiet, DownNext, DownKey, UpNext, UpKey
  <1>3. CASE TRUE
    <2>1. Return
      BY <1>3, Zenon DEF VdecStop
    <2>. QED
      BY <1>1, <1>2, <2>1, SameNone, Zenon
  <1>. QED
    BY <1>3, Zenon DEF VdecStop

\* completeStop() of the decoder.
LEMMA DecCompleteStopSame ==
  ASSUME TypeOK, OrderInv, DecCompleteStop
  PROVE  SameView
  <1>1. /\ agenda # <<>> /\ 1 \in DOMAIN agenda /\ agenda[1].f = "completeStop" /\ agenda[1].e = V
        /\ Subject = agenda[1].c /\ Head(agenda) = agenda[1] /\ agenda[1] \in CallType
        /\ agenda \in Seq(CallType)
    BY Types, Running, Zenon DEF DecCompleteStop
  <1>2. Dull(agenda[1])
    BY <1>1, Distinct, SMT DEF Dull, Quiet, DownNext, DownKey, UpNext, UpKey
  <1>3. CASE Then(<<CallOn("onElementStopped", None, V)>>)
    <2> DEFINE x == CallOn("onElementStopped", None, V)
    <2>1. /\ x \in CallType /\ x.f = "onElementStopped" /\ x.e = None
      <3>1. x \in CallType /\ x.f = "onElementStopped" /\ x.e = None
        BY <1>3, <1>1, Distinct, TypedOfSession, TypedStopped, Zenon
      <3>. QED
        BY <3>1
    <2>2. Then(<<x>>)
      BY <1>1, <1>3, Zenon DEF DecCompleteStop
    <2> HIDE DEF x
    <2>3. Dull(x)
      BY <2>1, <1>3, Distinct, SMT DEF Dull, Quiet, DownNext, DownKey, UpNext, UpKey
    <2>. QED
      BY <1>1, <1>2, <2>1, <2>2, <2>3, SameOne, Zenon
  <1>4. CASE Return
    <2>1. Return
      BY <1>4, Zenon DEF DecCompleteStop
    <2>. QED
      BY <1>1, <1>2, <2>1, SameNone, Zenon
  <1>. QED
    BY <1>3, <1>4, Zenon DEF DecCompleteStop

\* stop() of a sink.
LEMMA SinkStopSame ==
  ASSUME TypeOK, OrderInv, NEW s \in Sinks, SinkStop(s)
  PROVE  SameView
  <1>1. /\ agenda # <<>> /\ 1 \in DOMAIN agenda /\ agenda[1].f = "stop" /\ agenda[1].e = s
        /\ Subject = agenda[1].c /\ Head(agenda) = agenda[1] /\ agenda[1] \in CallType
        /\ agenda \in Seq(CallType)
    BY Types, Running, Zenon DEF SinkStop
  <1>2. Dull(agenda[1])
    BY <1>1, Distinct, SMT DEF Dull, Quiet, DownNext, DownKey, UpNext, UpKey
  <1>3. CASE sink[s].mInputMedia
    <2> DEFINE x == Call("onChannelTeardown", s)
    <2>1. /\ x \in CallType /\ x.f = "onChannelTeardown" /\ x.e = s
      <3>1. x \in CallType /\ x.f = "onChannelTeardown" /\ x.e = s
        BY <1>3, <1>1, Distinct, TypedOfChannel, Zenon
      <3>. QED
        BY <3>1
    <2>2. Then(<<x>>)
      BY <1>1, <1>3, Zenon DEF SinkStop
    <2> HIDE DEF x
    <2>3. Dull(x)
      BY <2>1, <1>3, Distinct, SMT DEF Dull, Quiet, DownNext, DownKey, UpNext, UpKey
    <2>. QED
      BY <1>1, <1>2, <2>1, <2>2, <2>3, SameOne, Zenon
  <1>4. CASE ~sink[s].mInputMedia
    <2> DEFINE x == CallOn("onElementStopped", None, s)
    <2>1. /\ x \in CallType /\ x.f = "onElementStopped" /\ x.e = None
      <3>1. x \in CallType /\ x.f = "onElementStopped" /\ x.e = None
        BY <1>4, <1>1, Distinct, TypedOfSession, TypedStopped, Zenon
      <3>. QED
        BY <3>1
    <2>2. Then(<<x>>)
      BY <1>1, <1>4, Zenon DEF SinkStop
    <2> HIDE DEF x
    <2>3. Dull(x)
      BY <2>1, <1>4, Distinct, SMT DEF Dull, Quiet, DownNext, DownKey, UpNext, UpKey
    <2>. QED
      BY <1>1, <1>2, <2>1, <2>2, <2>3, SameOne, Zenon
  <1>. QED
    BY <1>3, <1>4, Zenon DEF SinkStop

\* channelTeardown().
LEMMA SinkTeardownSame ==
  ASSUME TypeOK, OrderInv, NEW s \in Sinks, SinkTeardown(s)
  PROVE  SameView
  <1>1. /\ agenda # <<>> /\ 1 \in DOMAIN agenda /\ agenda[1].f = "onChannelTeardown" /\ agenda[1].e = s
        /\ Subject = agenda[1].c /\ Head(agenda) = agenda[1] /\ agenda[1] \in CallType
        /\ agenda \in Seq(CallType)
    BY Types, Running, Zenon DEF SinkTeardown
  <1>2. Dull(agenda[1])
    BY <1>1, Distinct, SMT DEF Dull, Quiet, DownNext, DownKey, UpNext, UpKey
  <1>3. CASE sink[s].mInputMedia
    <2> DEFINE x == Call("removeInputMedia", s)
               y == Call("inputRemoved", s)
    <2>1. /\ x \in CallType /\ x.f = "removeInputMedia" /\ x.e = s
          /\ y \in CallType /\ y.f = "inputRemoved" /\ y.e = s
      <3>1. x \in CallType /\ x.f = "removeInputMedia" /\ x.e = s
        BY <1>3, <1>1, Distinct, TypedOfChannel, Zenon
      <3>2. y \in CallType /\ y.f = "inputRemoved" /\ y.e = s
        BY <1>3, <1>1, Distinct, TypedOfSink, ZenonT(60)
      <3>. QED
        BY <3>1, <3>2
    <2>2. Then(<<x, y>>)
      BY <1>1, <1>3, Zenon DEF SinkTeardown
    <2> HIDE DEF x, y
    <2>3. Dull(x) /\ Dull(y)
      BY <2>1, <1>3, Distinct, SMT DEF Dull, Quiet, DownNext, DownKey, UpNext, UpKey
    <2>. QED
      BY <1>1, <1>2, <2>1, <2>2, <2>3, SameTwo, Zenon
  <1>4. CASE ~sink[s].mInputMedia
    <2>1. Return
      BY <1>4, Zenon DEF SinkTeardown
    <2>. QED
      BY <1>1, <1>2, <2>1, SameNone, Zenon
  <1>. QED
    BY <1>3, <1>4, Zenon DEF SinkTeardown

\* The end of channelTeardown().
LEMMA SinkInputRemovedSame ==
  ASSUME TypeOK, OrderInv, NEW s \in Sinks, SinkInputRemoved(s)
  PROVE  SameView
  <1>1. /\ agenda # <<>> /\ 1 \in DOMAIN agenda /\ agenda[1].f = "inputRemoved" /\ agenda[1].e = s
        /\ Subject = agenda[1].c /\ Head(agenda) = agenda[1] /\ agenda[1] \in CallType
        /\ agenda \in Seq(CallType)
    BY Types, Running, Zenon DEF SinkInputRemoved
  <1>2. Dull(agenda[1])
    BY <1>1, Distinct, SMT DEF Dull, Quiet, DownNext, DownKey, UpNext, UpKey
  <1>3. CASE TRUE
    <2> DEFINE x == Call("flush", s)
    <2>1. /\ x \in CallType /\ x.f = "flush" /\ x.e = s
      <3>1. x \in CallType /\ x.f = "flush" /\ x.e = s
        BY <1>3, <1>1, Distinct, TypedOfSink, Zenon
      <3>. QED
        BY <3>1
    <2>2. Then(<<x>>)
      BY <1>1, <1>3, Zenon DEF SinkInputRemoved
    <2> HIDE DEF x
    <2>3. Dull(x)
      BY <2>1, <1>3, Distinct, SMT DEF Dull, Quiet, DownNext, DownKey, UpNext, UpKey
    <2>. QED
      BY <1>1, <1>2, <2>1, <2>2, <2>3, SameOne, Zenon
  <1>. QED
    BY <1>3, Zenon DEF SinkInputRemoved

\* onChannelFlush() of a sink.
LEMMA SinkOnChannelFlushSame ==
  ASSUME TypeOK, OrderInv, NEW s \in Sinks, SinkOnChannelFlush(s)
  PROVE  SameView
  <1>1. /\ agenda # <<>> /\ 1 \in DOMAIN agenda /\ agenda[1].f = "onChannelFlush" /\ agenda[1].e = s
        /\ Subject = agenda[1].c /\ Head(agenda) = agenda[1] /\ agenda[1] \in CallType
        /\ agenda \in Seq(CallType)
    BY Types, Running, Zenon DEF SinkOnChannelFlush
  <1>2. Dull(agenda[1])
    BY <1>1, Distinct, SMT DEF Dull, Quiet, DownNext, DownKey, UpNext, UpKey
  <1>3. CASE TRUE
    <2> DEFINE x == Call("flush", s)
    <2>1. /\ x \in CallType /\ x.f = "flush" /\ x.e = s
      <3>1. x \in CallType /\ x.f = "flush" /\ x.e = s
        BY <1>3, <1>1, Distinct, TypedOfSink, Zenon
      <3>. QED
        BY <3>1
    <2>2. Then(<<x>>)
      BY <1>1, <1>3, Zenon DEF SinkOnChannelFlush
    <2> HIDE DEF x
    <2>3. Dull(x)
      BY <2>1, <1>3, Distinct, SMT DEF Dull, Quiet, DownNext, DownKey, UpNext, UpKey
    <2>. QED
      BY <1>1, <1>2, <2>1, <2>2, <2>3, SameOne, Zenon
  <1>. QED
    BY <1>3, Zenon DEF SinkOnChannelFlush

\* flush() of a sink.
LEMMA SinkFlushSame ==
  ASSUME TypeOK, OrderInv, NEW s \in Sinks, SinkFlush(s)
  PROVE  SameView
  <1>1. /\ agenda # <<>> /\ 1 \in DOMAIN agenda /\ agenda[1].f = "flush" /\ agenda[1].e = s
        /\ Subject = agenda[1].c /\ Head(agenda) = agenda[1] /\ agenda[1] \in CallType
        /\ agenda \in Seq(CallType)
    BY Types, Running, Zenon DEF SinkFlush
  <1>2. Dull(agenda[1])
    BY <1>1, Distinct, SMT DEF Dull, Quiet, DownNext, DownKey, UpNext, UpKey
  <1>3. CASE sink[s].mIsFlushed
    <2> DEFINE x == Call("flushDone", s)
    <2>1. /\ x \in CallType /\ x.f = "flushDone" /\ x.e = s
      <3>1. x \in CallType /\ x.f = "flushDone" /\ x.e = s
        BY <1>3, <1>1, Distinct, TypedOfSink, Zenon
      <3>. QED
        BY <3>1
    <2>2. Then(<<x>>)
      BY <1>1, <1>3, Zenon DEF SinkFlush
    <2> HIDE DEF x
    <2>3. Dull(x)
      BY <2>1, <1>3, Distinct, SMT DEF Dull, Quiet, DownNext, DownKey, UpNext, UpKey
    <2>. QED
      BY <1>1, <1>2, <2>1, <2>2, <2>3, SameOne, Zenon
  <1>4. CASE ~sink[s].mIsFlushed
    <2>1. Return
      BY <1>4, Zenon DEF SinkFlush
    <2>. QED
      BY <1>1, <1>2, <2>1, SameNone, Zenon
  <1>. QED
    BY <1>3, <1>4, Zenon DEF SinkFlush

\* The end of flushDone().
LEMMA SinkCompleteStopSame ==
  ASSUME TypeOK, OrderInv, NEW s \in Sinks, SinkCompleteStop(s)
  PROVE  SameView
  <1>1. /\ agenda # <<>> /\ 1 \in DOMAIN agenda /\ agenda[1].f = "completeStop" /\ agenda[1].e = s
        /\ Subject = agenda[1].c /\ Head(agenda) = agenda[1] /\ agenda[1] \in CallType
        /\ agenda \in Seq(CallType)
    BY Types, Running, Zenon DEF SinkCompleteStop
  <1>2. Dull(agenda[1])
    BY <1>1, Distinct, SMT DEF Dull, Quiet, DownNext, DownKey, UpNext, UpKey
  <1>3. CASE est[s] = "STOPPING"
    <2> DEFINE x == CallOn("onElementStopped", None, s)
    <2>1. /\ x \in CallType /\ x.f = "onElementStopped" /\ x.e = None
      <3>1. x \in CallType /\ x.f = "onElementStopped" /\ x.e = None
        BY <1>3, <1>1, Distinct, TypedOfSession, TypedStopped, Zenon
      <3>. QED
        BY <3>1
    <2>2. Then(<<x>>)
      BY <1>1, <1>3, Zenon DEF SinkCompleteStop
    <2> HIDE DEF x
    <2>3. Dull(x)
      BY <2>1, <1>3, Distinct, SMT DEF Dull, Quiet, DownNext, DownKey, UpNext, UpKey
    <2>. QED
      BY <1>1, <1>2, <2>1, <2>2, <2>3, SameOne, Zenon
  <1>4. CASE est[s] # "STOPPING"
    <2>1. Return
      BY <1>4, Zenon DEF SinkCompleteStop
    <2>. QED
      BY <1>1, <1>2, <2>1, SameNone, Zenon
  <1>. QED
    BY <1>3, <1>4, Zenon DEF SinkCompleteStop

\* onElementStateChanged(STOPPED).
LEMMA OnElementStoppedSame ==
  ASSUME TypeOK, OrderInv, OnElementStopped
  PROVE  SameView
  <1>1. /\ agenda # <<>> /\ 1 \in DOMAIN agenda /\ agenda[1].f = "onElementStopped" /\ agenda[1].e = None
        /\ Subject = agenda[1].c /\ Head(agenda) = agenda[1] /\ agenda[1] \in CallType
        /\ agenda \in Seq(CallType)
    BY Types, Running, Zenon DEF OnElementStopped
  <1>2. Dull(agenda[1])
    BY <1>1, Distinct, SMT DEF Dull, Quiet, DownNext, DownKey, UpNext, UpKey
  <1>3. CASE TRUE
    <2>1. Return
      BY <1>3, Zenon DEF OnElementStopped
    <2>. QED
      BY <1>1, <1>2, <2>1, SameNone, Zenon
  <1>. QED
    BY <1>3, Zenon DEF OnElementStopped

\* onChannelUnlink() of the demuxer.
LEMMA DmxOnChannelUnlinkSame ==
  ASSUME TypeOK, OrderInv, DmxOnChannelUnlink
  PROVE  SameView
  <1>1. /\ agenda # <<>> /\ 1 \in DOMAIN agenda /\ agenda[1].f = "onChannelUnlink" /\ agenda[1].e = D
        /\ Subject = agenda[1].c /\ Head(agenda) = agenda[1] /\ agenda[1] \in CallType
        /\ agenda \in Seq(CallType)
    BY Types, Running, Zenon DEF DmxOnChannelUnlink
  <1>2. Dull(agenda[1])
    BY <1>1, Distinct, SMT DEF Dull, Quiet, DownNext, DownKey, UpNext, UpKey
  <1>3. CASE Then(<<CallOn("onElementStopped", None, D)>>)
    <2> DEFINE x == CallOn("onElementStopped", None, D)
    <2>1. /\ x \in CallType /\ x.f = "onElementStopped" /\ x.e = None
      <3>1. x \in CallType /\ x.f = "onElementStopped" /\ x.e = None
        BY <1>3, <1>1, Distinct, TypedOfSession, TypedStopped, Zenon
      <3>. QED
        BY <3>1
    <2>2. Then(<<x>>)
      BY <1>1, <1>3, Zenon DEF DmxOnChannelUnlink
    <2> HIDE DEF x
    <2>3. Dull(x)
      BY <2>1, <1>3, Distinct, SMT DEF Dull, Quiet, DownNext, DownKey, UpNext, UpKey
    <2>. QED
      BY <1>1, <1>2, <2>1, <2>2, <2>3, SameOne, Zenon
  <1>4. CASE Return
    <2>1. Return
      BY <1>4, Zenon DEF DmxOnChannelUnlink
    <2>. QED
      BY <1>1, <1>2, <2>1, SameNone, Zenon
  <1>. QED
    BY <1>3, <1>4, Zenon DEF DmxOnChannelUnlink

\* onChannelUnlink() of the decoder.
LEMMA DecOnChannelUnlinkSame ==
  ASSUME TypeOK, OrderInv, DecOnChannelUnlink
  PROVE  SameView
  <1>1. /\ agenda # <<>> /\ 1 \in DOMAIN agenda /\ agenda[1].f = "onChannelUnlink" /\ agenda[1].e = V
        /\ Subject = agenda[1].c /\ Head(agenda) = agenda[1] /\ agenda[1] \in CallType
        /\ agenda \in Seq(CallType)
    BY Types, Running, Zenon DEF DecOnChannelUnlink
  <1>2. Dull(agenda[1])
    BY <1>1, Distinct, SMT DEF Dull, Quiet, DownNext, DownKey, UpNext, UpKey
  <1>3. CASE TRUE
    <2>1. Return
      BY <1>3, Zenon DEF DecOnChannelUnlink
    <2>. QED
      BY <1>1, <1>2, <2>1, SameNone, Zenon
  <1>. QED
    BY <1>3, Zenon DEF DecOnChannelUnlink

\* teardownOutputs() of the decoder.
LEMMA DecTeardownOutputsSame ==
  ASSUME TypeOK, OrderInv, DecTeardownOutputs
  PROVE  SameView
  <1>1. /\ agenda # <<>> /\ 1 \in DOMAIN agenda /\ agenda \in Seq(CallType)
        /\ agenda[1].f = "teardownOutputs" /\ agenda[1].e = V
    BY Types, Running, Zenon DEF DecTeardownOutputs
  <1>2. Dull(agenda[1])
    BY <1>1, Distinct, SMT DEF Dull, Quiet, DownNext, DownKey, UpNext, UpKey
  <1> DEFINE y == Call("vdec_stop", V)
             rev == Reverse(dec.out)
             q == [i \in DOMAIN rev |-> Call("onChannelTeardown", rev[i])] \o <<y>>
             n == Len(rev) + 1
  <1>3. y \in CallType /\ y.f = "vdec_stop" /\ y.e = V
    BY TypedOfV, Zenon
  <1>4. rev \in Seq(Sinks) /\ DOMAIN rev = DOMAIN dec.out
    <2>1. dec.out \in Seq(Sinks)
      BY Types, SMT DEF DecType
    <2> DEFINE l == Len(dec.out)
    <2>2. l \in Nat /\ DOMAIN dec.out = 1..l /\ \A i \in 1..l : dec.out[i] \in Sinks
      BY <2>1, SMT
    <2>3. rev = [i \in 1..l |-> dec.out[(l - i) + 1]]
      BY Zenon DEF Reverse
    <2> HIDE DEF rev, l
    <2>4. \A i \in 1..l : dec.out[(l - i) + 1] \in Sinks
      <3>1. \A i \in 1..l : (l - i) + 1 \in 1..l
        BY <2>2, SMT
      <3>. QED
        BY <2>2, <3>1, Zenon
    <2>. QED
      BY <2>2, <2>3, <2>4, SMT
  <1>5. Then(q)
    BY <1>4, Zenon DEF DecTeardownOutputs
  <1> HIDE DEF y, rev
  <1>6. /\ q \in Seq(CallType) /\ q[n] = y
        /\ \A i \in DOMAIN q : (i = n \/ i \in DOMAIN rev)
        /\ \A i \in DOMAIN rev :
              q[i].f = "onChannelTeardown" /\ q[i].e = rev[i] /\ rev[i] \in Sinks
    BY <1>3, <1>4, CallAllAnd, ZenonT(60)
  <1> HIDE DEF q, n
  <1>7. \A i \in DOMAIN q : \/ q[i].f = "vdec_stop" /\ q[i].e = V
                            \/ q[i].f = "onChannelTeardown" /\ q[i].e \in Sinks
    BY <1>3, <1>6, Zenon
  <1>8. \A i \in DOMAIN q : Dull(q[i])
    BY <1>7, Distinct, SMT DEF Dull, Quiet, DownNext, DownKey, UpNext, UpKey
  <1>. QED
    BY <1>1, <1>2, <1>5, <1>6, <1>8, SameThen, Zenon

\* An idle function.
LEMMA IdleFunctionSame ==
  ASSUME TypeOK, OrderInv, IdleFunction
  PROVE  SameView
  <1>0. agenda \in Seq(CallType) /\ idle \in Seq(IdleType)
    BY Types
  <1>1. /\ agenda # <<>> /\ agenda[1].f = "idle" /\ agenda[1].e = None
        /\ idle # <<>> /\ agenda[1] \in CallType /\ Head(agenda) = agenda[1]
    BY <1>0, Running, Zenon DEF IdleFunction
  <1>2. Dull(agenda[1])
    BY <1>1, Distinct, SMT DEF Dull, Quiet, DownNext, DownKey, UpNext, UpKey
  <1>3. CASE UNCHANGED agenda
    BY <1>3, SameAgenda
  <1>4. CASE ~UNCHANGED agenda
    <2>1. /\ Head(idle).cb = "sinkFlush"
          /\ agenda' = <<Call("flushDone", Head(idle).e)>> \o agenda
      BY <1>4, Zenon DEF IdleFunction, CallVideoSinkFlush, CallListener
    <2>2. Head(idle).e \in Sinks
      BY <1>0, <1>1, <2>1, TailOfSeq, NoticeTypes, Zenon
    <2> DEFINE x == Call("flushDone", Head(idle).e)
    <2>3. x \in CallType /\ x.f = "flushDone" /\ x.e = Head(idle).e
      BY <2>2, TypedOfSink, Zenon
    <2>4. agenda' = <<x>> \o agenda
      BY <2>1
    <2> HIDE DEF x
    <2>5. Then(<<x, agenda[1]>>)
      BY <1>0, <1>1, <2>3, <2>4, InFront, Zenon DEF Then
    <2>6. Dull(x)
      BY <2>2, <2>3, Distinct, SMT DEF Dull, Quiet, DownNext, DownKey, UpNext, UpKey
    <2>. QED
      BY <1>0, <1>1, <1>2, <2>3, <2>5, <2>6, SameTwo, Zenon
  <1>. QED
    BY <1>3, <1>4

\* A chain that is not about a flush of the demuxer begins.
LEMMA EventSame ==
  ASSUME TypeOK,
         \/ \E s \in Sinks : StopVideoSink(s) \/ VideoSinkQueueFlushed(s) \/ ResyncVideoSink(s)
         \/ Close \/ RunIdle
  PROVE  SameView
  <1>1. agenda = <<>>
    BY Zenon DEF RunIdle, AtEvent, Close, StopVideoSink, VideoSinkQueueFlushed, ResyncVideoSink
  <1>2. CASE UNCHANGED agenda
    BY <1>2, SameAgenda
  <1>3. CASE \E s \in Sinks : StopVideoSink(s) \/ VideoSinkQueueFlushed(s) \/ ResyncVideoSink(s)
    <2>1. PICK s \in Sinks : StopVideoSink(s) \/ VideoSinkQueueFlushed(s) \/ ResyncVideoSink(s)
      BY <1>3
    <2>2. PICK f \in {"stop", "flush", "flushDone"} : agenda' = <<Call(f, s)>>
      BY <2>1, SMT DEF StopVideoSink, VideoSinkQueueFlushed, ResyncVideoSink
    <2>3. f \in {"stop", "inputRemoved", "flush", "flushDone", "completeStop"}
      OBVIOUS
    <2> DEFINE x == Call(f, s)
    <2>4. x \in CallType /\ x.f = f /\ x.e = s /\ agenda' = <<x>>
      BY <2>2, <2>3, TypedOfSink, ZenonT(60)
    <2> HIDE DEF x
    <2>5. Dull(x)
      BY <2>4, Distinct, SMT DEF Dull, Quiet, DownNext, DownKey, UpNext, UpKey
    <2>. QED
      BY <1>1, <2>4, <2>5, SameEvent, Zenon
  <1>4. CASE Close /\ ~UNCHANGED agenda
    <2> DEFINE x == Call("stop", D)
    <2>1. x \in CallType /\ x.f = "stop" /\ x.e = D /\ agenda' = <<x>>
      BY <1>4, TypedOfD, Zenon DEF Close
    <2> HIDE DEF x
    <2>2. Dull(x)
      BY <2>1, Distinct, SMT DEF Dull, Quiet, DownNext, DownKey, UpNext, UpKey
    <2>. QED
      BY <1>1, <2>1, <2>2, SameEvent, Zenon
  <1>5. CASE RunIdle
    <2> DEFINE x == Call("idle", None)
    <2>1. x \in CallType /\ x.f = "idle" /\ x.e = None /\ agenda' = <<x>>
      BY <1>5, TypedOfSession, Zenon DEF RunIdle
    <2> HIDE DEF x
    <2>2. Dull(x)
      BY <2>1, Distinct, SMT DEF Dull, Quiet, DownNext, DownKey, UpNext, UpKey
    <2>. QED
      BY <1>1, <2>1, <2>2, SameEvent, Zenon
  <1>. QED
    BY <1>2, <1>3, <1>4, <1>5

-----------------------------------------------------------------------------
(* Calm steps.                                                             *)

\* Steps that have nothing to do with flushes: what they may change.
Aside ==
    /\ UNCHANGED <<mRunning, mTimer, mChannelsFlushing, dmxMedia>>
    /\ vdec.cb # "output"
    /\ est'[D] = "STARTED" => est[D] = "STARTED" /\ (est[V] = "STARTED" => est'[V] = "STARTED")
    /\ mState' = "CREATED" => mState = "CREATED"

\* A loud step that is aside of what is flushed is calm:
LEMMA AsideCalm ==
  ASSUME LoudOther, Aside, SameView
  PROVE  Calm
  <1>1. SameDown /\ SameUp
    BY Zenon DEF SameView
  <1>2. CalmDown
    <2>1. /\ UNCHANGED <<link, mFlushPending>>
          /\ dec'.mIsFlushed = dec.mIsFlushed /\ dec'.mVdecFlushPending = dec.mVdecFlushPending
          /\ dec'.mInputChannelFlushPending = dec.mInputChannelFlushPending
          /\ vdec'.flushing = vdec.flushing /\ (vdec'.busy => vdec.busy)
          /\ vdec'.cb = "flush" <=> vdec.cb = "flush"
          /\ Mail("COMPLETE_FLUSH")' => Mail("COMPLETE_FLUSH")
          /\ Mail("RESYNC")' => Mail("RESYNC")
          /\ est'[V] = "STARTED" => est[V] = "STARTED"
      BY Zenon DEF LoudOther, MoreTorn
    <2>2. vdec'.cb # "output"
      BY Zenon DEF LoudOther, Aside
    <2>3. \A s \in Sinks : sink[s].mIsFlushed => sink'[s].mIsFlushed
      BY Zenon DEF LoudOther
    <2>. QED
      BY <1>1, <2>1, <2>2, <2>3, Zenon DEF CalmDown
  <1>3. CalmUp
    BY <1>1, Zenon DEF LoudOther, Aside, CalmUp
  <1>. QED
    BY <1>2, <1>3, Zenon DEF Calm

\* Steps that change nothing but the calls, the flags of the sinks and what
\* the application knows.
LEMMA FrozenCalm ==
  ASSUME UNCHANGED <<est, mState, mMbox, dec, vdec, dmxVars, chanVars>>, SameView,
         \A s \in Sinks : sink'[s].mIsFlushed = sink[s].mIsFlushed
  PROVE  Calm
  <1>1. SameDown /\ SameUp
    BY Zenon DEF SameView
  <1>2. UNCHANGED <<dmxMedia, dmxOut, mChannelsFlushing, mRunning, mTimer, link, mFlushPending>>
    BY Zenon DEF dmxVars, chanVars
  <1>3. \A m : Mail(m)' <=> Mail(m)
    BY MailSame
  <1>4. CalmDown
    BY <1>1, <1>2, <1>3, Zenon DEF CalmDown
  <1>5. CalmUp
    BY <1>1, <1>2, Zenon DEF CalmUp
  <1>. QED
    BY <1>4, <1>5, Zenon DEF Calm

\* A call the loop makes while no callback of vdec can be interrupted.
LEMMA NoCallback ==
  ASSUME "Preempt" \notin Allowed, LoopRuns
  PROVE  vdec.cb = "none"
  BY Zenon DEF LoopRuns

\* removeInputMedia(), channelTeardown() and the end of a stop of a sink; what
\* the application and the session do.
LEMMA QuietCalm ==
  ASSUME TypeOK, CallInv, "Preempt" \notin Allowed,
         \/ \E c \in SinkElements : RemoveInputMedia(c)
         \/ \E s \in Sinks : SinkTeardown(s) \/ StopVideoSink(s)
         \/ ListenerIdle \/ FlushIdle \/ OnElementStopped \/ Close
  PROVE  Calm
  <1>0. OrderInv /\ LoopRuns
    BY Zenon DEF CallInv, RemoveInputMedia, SinkTeardown, StopVideoSink, ListenerIdle, FlushIdle,
       OnElementStopped, Close, IdleFunction, Runs, AtEvent
  <1>1. LoudOther
    BY LoudOtherQuiet, Zenon
  <1>2. SameView
    <2>1. ASSUME NEW c \in SinkElements, RemoveInputMedia(c) PROVE SameView
      BY <1>0, <2>1, RemoveInputMediaSame
    <2>2. ASSUME NEW s \in Sinks, SinkTeardown(s) PROVE SameView
      BY <1>0, <2>2, SinkTeardownSame
    <2>3. ASSUME (\E s \in Sinks : StopVideoSink(s)) \/ Close PROVE SameView
      BY <2>3, EventSame, Zenon
    <2>4. ASSUME ListenerIdle \/ FlushIdle PROVE SameView
      BY <1>0, <2>4, IdleFunctionSame, Zenon DEF ListenerIdle, FlushIdle
    <2>5. ASSUME OnElementStopped PROVE SameView
      BY <1>0, <2>5, OnElementStoppedSame
    <2>. QED
      BY <2>1, <2>2, <2>3, <2>4, <2>5, Zenon
  <1>3. vdec.cb = "none"
    BY <1>0, NoCallback
  <1>4. UNCHANGED <<mRunning, mTimer, mChannelsFlushing, dmxMedia, est>>
    BY Zenon DEF RemoveInputMedia, SinkTeardown, StopVideoSink, ListenerIdle, FlushIdle, IdleFunction,
       OnElementStopped, Close, chanVars, dmxVars, sessionVars, appVars, counters, otherThanChannels, otherThanSinks
  <1>5. UNCHANGED mState \/ mState' = "CLOSING" \/ mState' = "CLOSED"
    BY Zenon DEF RemoveInputMedia, SinkTeardown, StopVideoSink, ListenerIdle, FlushIdle, IdleFunction,
       OnElementStopped, Close, chanVars, dmxVars, sessionVars, appVars, counters, otherThanChannels, otherThanSinks
  <1>6. Aside
    BY <1>3, <1>4, <1>5, SMT DEF Aside
  <1>. QED
    BY <1>1, <1>2, <1>6, AsideCalm

\* ... the stop of the decoder, in its parts;
LEMMA DecCalm ==
  ASSUME TypeOK, CallInv, "Preempt" \notin Allowed,
         DecAfterFlush \/ DecTeardownOutputs \/ VdecStop \/ DecCompleteStop
  PROVE  Calm
  <1>0. OrderInv /\ TornCalls /\ LoopRuns /\ est \in [Elements -> ElementStates] /\ agenda \in Seq(CallType)
    BY Types, Zenon DEF CallInv, DecAfterFlush, DecTeardownOutputs, VdecStop, DecCompleteStop, Runs
  <1>1. LoudOther
    BY LoudOtherDec, Zenon
  <1>2. SameView
    BY <1>0, DecAfterFlushSame, DecTeardownOutputsSame, VdecStopSame, DecCompleteStopSame, Zenon
  <1>3. vdec.cb = "none"
    BY <1>0, NoCallback
  <1>4. UNCHANGED <<mRunning, mTimer, mChannelsFlushing, dmxMedia, mState>>
    BY Zenon DEF DecAfterFlush, DecTeardownOutputs, VdecStop, DecCompleteStop,
       otherThanDec, dmxVars, sessionVars
  <1>5. est'[D] = est[D] /\ (est[V] = "STARTED" => est'[V] = "STARTED")
    <2>1. CASE DecAfterFlush \/ DecTeardownOutputs \/ VdecStop
      BY <2>1, Zenon DEF DecAfterFlush, DecTeardownOutputs, VdecStop
    <2>2. CASE DecCompleteStop
      <3>1. agenda # <<>> /\ 1 \in DOMAIN agenda /\ agenda[1].f = "completeStop" /\ agenda[1].e = V
        BY <1>0, <2>2, Running, Zenon DEF DecCompleteStop
      <3>2. Tearing(agenda[1])
        BY <3>1, SMT DEF Tearing
      <3>3. est[V] # "STARTED"
        BY <1>0, <3>1, <3>2, Zenon DEF TornCalls
      <3>4. UNCHANGED est \/ est' = [est EXCEPT ![V] = "STOPPED"]
        BY <2>2, Zenon DEF DecCompleteStop
      <3>. QED
        BY <1>0, <3>3, <3>4, Distinct, Zenon
    <2>. QED
      BY <2>1, <2>2
  <1>6. Aside
    BY <1>3, <1>4, <1>5, SMT DEF Aside
  <1>. QED
    BY <1>1, <1>2, <1>6, AsideCalm

\* ... stopCb();
LEMMA StopCbCalm ==
  ASSUME TypeOK, StopCb \/ StopCbCount \/ StopCbLoad \/ StopCbStore
  PROVE  Calm
  <1>1. LoudOther
    BY LoudOtherStop, Zenon
  <1>2. UNCHANGED <<agenda, est, mState>> /\ vdec.cb # "output"
        /\ UNCHANGED <<mRunning, mTimer, mChannelsFlushing, dmxMedia>>
    BY SMT DEF StopCb, StopCbCount, StopCbLoad, StopCbStore, VdecFree, otherThanVdec,
       otherThanDec, dmxVars, sessionVars
  <1>3. SameView
    BY <1>2, SameAgenda
  <1>4. Aside
    BY <1>2, SMT DEF Aside
  <1>. QED
    BY <1>1, <1>3, <1>4, AsideCalm

\* ... the stop of a sink;
LEMMA SinkCalm ==
  ASSUME TypeOK, CallInv, "Preempt" \notin Allowed, NEW s \in Sinks,
         SinkStop(s) \/ SinkInputRemoved(s) \/ SinkCompleteStop(s)
  PROVE  Calm
  <1>0. OrderInv /\ LoopRuns /\ est \in [Elements -> ElementStates]
    BY Types, Zenon DEF CallInv, SinkStop, SinkInputRemoved, SinkCompleteStop, Runs
  <1>1. LoudOther
    BY LoudOtherSink, Zenon
  <1>2. SameView
    BY <1>0, SinkStopSame, SinkInputRemovedSame, SinkCompleteStopSame, Zenon
  <1>3. vdec.cb = "none"
    BY <1>0, NoCallback
  <1>4. UNCHANGED <<mRunning, mTimer, mChannelsFlushing, dmxMedia, mState>>
    BY Zenon DEF SinkStop, SinkInputRemoved, SinkCompleteStop, otherThanSinks, dmxVars, sessionVars
  <1>5. est'[D] = est[D] /\ est'[V] = est[V]
    <2>1. \/ UNCHANGED est \/ est' = [est EXCEPT ![s] = "STOPPING"]
          \/ est' = [est EXCEPT ![s] = "STOPPED"]
      BY Zenon DEF SinkStop, SinkInputRemoved, SinkCompleteStop
    <2>. QED
      BY <1>0, <2>1, Distinct, Zenon
  <1>6. Aside
    BY <1>3, <1>4, <1>5, SMT DEF Aside
  <1>. QED
    BY <1>1, <1>2, <1>6, AsideCalm

\* ... what changes a sink only.
LEMMA SinkFrozenCalm ==
  ASSUME TypeOK, CallInv,
         \/ \E s \in Sinks : \/ SinkOnChannelFlush(s) \/ SinkFlush(s)
                             \/ VideoSinkQueueFlushed(s) \/ ResyncVideoSink(s)
         \/ RunIdle \/ UNCHANGED vars
  PROVE  Calm
  <1>0. OrderInv /\ sink \in [Sinks -> SinkType]
    BY Types, Zenon DEF CallInv
  <1>1. UNCHANGED <<est, mState, mMbox, dec, vdec, dmxVars, chanVars>>
    BY Zenon DEF SinkOnChannelFlush, SinkFlush, VideoSinkQueueFlushed, ResyncVideoSink, RunIdle,
       vars, otherThanSinks, sessionVars
  <1>2. SameView
    <2>1. ASSUME NEW s \in Sinks, SinkOnChannelFlush(s) \/ SinkFlush(s) PROVE SameView
      BY <1>0, <2>1, SinkOnChannelFlushSame, SinkFlushSame
    <2>2. ASSUME (\E s \in Sinks : VideoSinkQueueFlushed(s) \/ ResyncVideoSink(s)) \/ RunIdle
          PROVE  SameView
      BY <2>2, EventSame, Zenon
    <2>3. ASSUME UNCHANGED vars PROVE SameView
      BY <2>3, SameAgenda, Zenon DEF vars
    <2>. QED
      BY <2>1, <2>2, <2>3, Zenon
  <1>3. \A r \in Sinks : sink'[r].mIsFlushed = sink[r].mIsFlushed
    <2>1. \/ UNCHANGED sink
          \/ \E s \in Sinks : sink' = [sink EXCEPT ![s].mInputChannelFlushPending = TRUE]
      BY Zenon DEF SinkOnChannelFlush, SinkFlush, VideoSinkQueueFlushed, ResyncVideoSink, RunIdle, vars
    <2>. QED
      BY <1>0, <2>1, SMT DEF SinkType
  <1>. QED
    BY <1>1, <1>2, <1>3, FrozenCalm

\* A call is made from mboxCb().
LEMMA MessageLine ==
  ASSUME agenda \in Seq(CallType), agenda # <<>>, agenda[1].f = "mboxCb", OrderInv,
         NEW x \in CallType, agenda' = <<x>> \o agenda
  PROVE  /\ agenda' \in Seq(CallType) /\ agenda' # <<>> /\ agenda'[1] = x
         /\ \A f, e : Calls(f, e)' <=> (x.f = f /\ x.e = e) \/ Calls(f, e)
         /\ \A f, e : Waits(f, e)' => Calls(f, e)
         /\ \A f, e : ~Waits(f, e)
         /\ \A f, e : f # "mboxCb" => ~Calls(f, e) /\ ~IsNext(f, e)
         /\ Calls("mboxCb", agenda[1].e)
         /\ \A f, e : IsNext(f, e)' <=> x.f = f /\ x.e = e
         /\ \A k : LoopAt(k)' <=> x.f = "flushAt" /\ x.i = k
         /\ \A k : ~LoopAt(k)
         /\ \A i \in DOMAIN agenda' : agenda'[i] = x \/ agenda'[i] = agenda[1]
  <1> DEFINE h == agenda[1]
  <1>1. h \in CallType /\ IsLast(h) /\ h = Head(agenda)
    BY Line, SMT DEF IsLast
  <1> HIDE DEF h
  <1>2. Then(<<x, h>>)
    BY <1>1, InFront, Zenon DEF Then
  <1>3. /\ \A f, e : ~Waits(f, e)
        /\ \A k : ~LoopWaits(k)
        /\ \A j \in DOMAIN agenda : j = 1
    BY <1>1, Behind, Zenon DEF MayFollow, h
  <1>4. /\ \A f, e : Calls(f, e) <=> IsNext(f, e) \/ Waits(f, e)
        /\ \A k : LoopAt(k) <=> \/ agenda # <<>> /\ agenda[1].f = "flushAt" /\ agenda[1].i = k
                                \/ LoopWaits(k)
    BY Line
  <1>5. /\ agenda' \in Seq(CallType) /\ agenda' # <<>> /\ agenda'[1] = x
        /\ \A f, e : Calls(f, e)' <=> (x.f = f /\ x.e = e) \/ (h.f = f /\ h.e = e) \/ Waits(f, e)
        /\ \A f, e : Waits(f, e)' <=> (h.f = f /\ h.e = e) \/ Waits(f, e)
        /\ \A f, e : IsNext(f, e)' <=> x.f = f /\ x.e = e
        /\ \A k : LoopAt(k)' <=> \/ x.f = "flushAt" /\ x.i = k
                                 \/ h.f = "flushAt" /\ h.i = k
                                 \/ LoopWaits(k)
        /\ \A i \in DOMAIN agenda' : \/ agenda'[i] = x \/ agenda'[i] = h
                                     \/ \E j \in DOMAIN agenda : j # 1 /\ agenda'[i] = agenda[j]
    BY <1>1, <1>2, LineTwo
  <1>6. \A f, e : IsNext(f, e) <=> agenda[1].f = f /\ agenda[1].e = e
    BY Zenon DEF IsNext
  <1>. QED
    BY <1>3, <1>4, <1>5, <1>6, SMT DEF h

\* A message that the decoder has stopped.
LEMMA StopMessageCalm ==
  ASSUME TypeOK, CallInv, "Preempt" \notin Allowed, StopMessage
  PROVE  Calm
  <1>0. OrderInv /\ LoopRuns /\ agenda \in Seq(CallType)
    BY Types, Zenon DEF CallInv, StopMessage, MboxMessage, Runs
  <1> DEFINE x == Call("completeStop", V)
  <1>1. /\ agenda # <<>> /\ agenda[1].f = "mboxCb" /\ agenda' = <<x>> \o agenda
        /\ UNCHANGED <<dmxVars, est, sessionVars>>
    BY MessageCases, SMT DEF StopMessage
  <1>2. x \in CallType /\ x.f = "completeStop" /\ x.e = V
    BY TypedOfV, Zenon
  <1> HIDE DEF x
  <1>3. LoudOther
    BY LoudOtherQuiet, Zenon
  <1>4. SameView
    <2>1. /\ \A f, e : Calls(f, e)' <=> (x.f = f /\ x.e = e) \/ Calls(f, e)
          /\ \A f, e : Waits(f, e)' => Calls(f, e)
          /\ \A f, e : f # "mboxCb" => ~Calls(f, e) /\ ~IsNext(f, e)
          /\ \A f, e : IsNext(f, e)' <=> x.f = f /\ x.e = e
          /\ \A k : LoopAt(k)' <=> x.f = "flushAt" /\ x.i = k
          /\ \A k : ~LoopAt(k)
          /\ \A i \in DOMAIN agenda' : agenda'[i] = x \/ agenda'[i] = agenda[1]
      BY <1>0, <1>1, <1>2, MessageLine, Zenon
    <2>2. Dull(x)
      BY <1>2, Distinct, SMT DEF Dull, Quiet, DownNext, DownKey, UpNext, UpKey
    <2>3. \A f, e : DownNext(f, e) \/ UpNext(f, e) => f # "mboxCb"
      BY SMT DEF DownNext, UpNext
    <2>4. \A f, e : DownNext(f, e) \/ UpNext(f, e) => (IsNext(f, e)' <=> IsNext(f, e))
      BY <2>1, <2>2, <2>3, Zenon DEF Dull, Quiet
    <2>5. \A f, e : DownKey(f, e) \/ UpKey(f, e) => (Calls(f, e)' <=> Calls(f, e))
      BY <2>1, <2>2, Zenon DEF Dull, Quiet
    <2>6. /\ ~Waits("channelFlushed", D)'
          /\ ~IsNext("channelFlushed", D)' /\ ~IsNext("channelFlushed", D)
          /\ ~LoopAt(1)'
      BY <1>2, <2>1, SMT
    <2>7. \A i \in DOMAIN agenda' : agenda'[i].f \notin {"flushAt", "flushed"}
      BY <1>1, <1>2, <2>1, SMT
    <2>. QED
      BY <2>1, <2>4, <2>5, <2>6, <2>7, Zenon DEF SameView, SameDown, SameUp
  <1>5. vdec.cb = "none"
    BY <1>0, NoCallback
  <1>6. Aside
    BY <1>1, <1>5, SMT DEF Aside, dmxVars, sessionVars
  <1>. QED
    BY <1>3, <1>4, <1>6, AsideCalm

\* An element is deleted.
LEMMA DeleteMessageCalm ==
  ASSUME PipelineInv, CallInv, OutputInv, "Preempt" \notin Allowed, DeleteMessage
  PROVE  Calm
  <1>0. /\ TypeOK /\ OrderInv /\ LoopRuns /\ est \in [Elements -> ElementStates]
        /\ mState # "CREATED" => StoppedCall
    BY Types, Zenon DEF CallInv, DeleteMessage, MboxMessage, Runs, PipelineInv, OpenedInv
  <1>1. /\ UNCHANGED <<agenda, mState, dmxVars>> /\ mMbox # <<>> /\ 1 \in DOMAIN mMbox
        /\ mMbox[1].cmd = "ELEMENT_DELETE"
        /\ mMbox[1].e \in Elements /\ est' = [est EXCEPT ![mMbox[1].e] = "deleted"]
    BY <1>0, MessageCases, SMT DEF DeleteMessage
  <1>2. LoudOther
    BY <1>0, LoudOtherQuiet, Zenon
  <1>3. SameView
    BY <1>1, SameAgenda
  <1>4. vdec.cb = "none"
    BY <1>0, NoCallback
  <1>5. ASSUME est'[D] = "STARTED"
        PROVE  est[D] = "STARTED" /\ (est[V] = "STARTED" => est'[V] = "STARTED")
    <2>1. est[D] = "STARTED"
      BY <1>0, <1>1, <1>5, Distinct, SMT
    <2>2. StoppedCall
      BY <1>0, <2>1, Zenon DEF OutputInv, Playing
    <2>3. est[mMbox[1].e] \in {"STOPPED", "deleted"}
      BY <1>1, <2>2, Zenon DEF StoppedCall
    <2>4. est[V] = "STARTED" => mMbox[1].e # V
      BY <2>3, SMT
    <2>. QED
      BY <1>0, <1>1, <2>1, <2>4, Distinct, Zenon
  <1>6. Aside
    BY <1>1, <1>4, <1>5, Zenon DEF Aside, dmxVars
  <1>. QED
    BY <1>2, <1>3, <1>6, AsideCalm

\* A channel is deleted after it was unlinked, and not while it is flushed.
LEMMA DeleteChannelCalm ==
  ASSUME TypeOK, ChainInv, FlushInv, NEW c \in SinkElements, DeleteChannel(c)
  PROVE  Calm
  <1>0. /\ OrderInv /\ NextInv /\ LinkInv /\ OutputInv /\ TimerInv
        /\ agenda \in Seq(CallType)
        /\ mFlushPending \in [SinkElements -> BOOLEAN]
    BY Types, Zenon DEF ChainInv, CallInv, FlushInv
  <1>1. agenda # <<>> /\ agenda[1].f = "deleteChannel" /\ agenda[1].e = c
    BY <1>0, Running, Zenon DEF DeleteChannel
  <1>2. link[c] = None
    BY <1>0, <1>1, Zenon DEF NextInv, Sound
  <1>3. /\ mFlushPending' = [mFlushPending EXCEPT ![c] = FALSE]
        /\ UNCHANGED <<link, est, mState, mMbox, dmxVars, dec, vdec, sink>>
    BY Zenon DEF DeleteChannel, otherThanChannels, sessionVars
  <1>4. SameDown /\ SameUp
    BY <1>0, DeleteChannelSame, Zenon DEF SameView
  <1>5. \A m : Mail(m)' <=> Mail(m)
    BY <1>3, MailSame
  <1>6. \A s \in Sinks : link'[s] = V => link[s] = V /\ mFlushPending'[s] = mFlushPending[s]
    <2>1. ASSUME NEW s \in Sinks, link[s] = V PROVE s # c
      BY <1>2, <2>1, Distinct, Zenon
    <2>2. ASSUME NEW s \in Sinks, s # c PROVE mFlushPending'[s] = mFlushPending[s]
      BY <1>0, <1>3, <2>2, Distinct, Zenon
    <2>. QED
      BY <1>3, <2>1, <2>2, Zenon
  <1>7. CalmDown
    BY <1>3, <1>4, <1>5, <1>6, Zenon DEF CalmDown
  <1>8. est[D] = "STARTED" => mFlushPending'[V] = mFlushPending[V]
    <2>1. CASE c # V
      BY <1>0, <1>3, <2>1, Distinct, Zenon
    <2>2. CASE c = V /\ est[D] = "STARTED"
      <3>1. link[V] = D <=> Contains(dmxOut, V)
        BY <1>0, Distinct, Zenon DEF LinkInv
      <3>2. dmxOut # <<V>>
        BY <1>2, <2>2, <3>1, Distinct, SMT DEF Contains
      <3>3. ~mFlushPending[V]
        BY <1>0, <2>2, <3>2, Zenon DEF TimerInv, Playing
      <3>. QED
        BY <1>0, <1>3, <2>2, <3>3, Zenon
    <2>. QED
      BY <2>1, <2>2
  <1>9. UNCHANGED <<dmxMedia, dmxOut, mChannelsFlushing, mRunning, mTimer>>
    BY <1>3, Zenon DEF dmxVars
  <1>10. CalmUp
    BY <1>3, <1>4, <1>8, <1>9, Zenon DEF CalmUp
  <1>. QED
    BY <1>7, <1>10, Zenon DEF Calm

\* The demuxer loses the channel to the decoder once it does not play.
LEMMA DmxOnChannelUnlinkCalm ==
  ASSUME TypeOK, ChainInv, FlushInv, "Preempt" \notin Allowed, DmxOnChannelUnlink
  PROVE  Calm
  <1>0. /\ OrderInv /\ NextInv /\ TornCalls /\ LinkInv /\ OutputInv
        /\ agenda \in Seq(CallType) /\ link \in [SinkElements -> {D, V, None}]
        /\ est \in [Elements -> ElementStates]
    BY Types, Zenon DEF ChainInv, CallInv, FlushInv
  <1>1. /\ agenda # <<>> /\ 1 \in DOMAIN agenda /\ agenda[1] \in CallType
        /\ agenda[1].f = "onChannelUnlink" /\ agenda[1].e = D /\ Subject = agenda[1].c
    BY <1>0, Running, Zenon DEF DmxOnChannelUnlink
  <1>2. link[Subject] = D /\ Subject \in SinkElements
    BY <1>0, <1>1, CallFields, SMT DEF NextInv, Sound
  <1>3. Contains(dmxOut, Subject)
    BY <1>0, <1>2, Zenon DEF LinkInv
  <1>4. dmxOut = <<V>> /\ Subject = V
    BY <1>0, <1>3, SMT DEF OutputInv, Contains
  <1>5. est[V] # "STARTED"
    <2>1. Tearing(agenda[1])
      BY <1>1, <1>4, SMT DEF Tearing
    <2>. QED
      BY <1>0, <1>1, <2>1, Zenon DEF TornCalls
  <1>6. est[D] # "STARTED"
    <2>1. dmxOut # <<>>
      BY <1>4, SMT
    <2>. QED
      BY <1>0, <1>5, <2>1, Zenon DEF OutputInv, Playing, Decoding
  <1>7. /\ link' = [link EXCEPT ![V] = None] /\ dmxOut' = Without(dmxOut, V)
        /\ UNCHANGED est \/ est' = [est EXCEPT ![D] = "STOPPED"]
        /\ UNCHANGED <<mMbox, mFlushPending, dec, vdec, sink>>
    BY <1>4, Zenon DEF DmxOnChannelUnlink, otherThanDmx
  <1>8. dmxOut' = <<>>
    <2>1. OnceIn(<<V>>) /\ <<V>> \in Seq(SinkElements) /\ \A x : Contains(<<V>>, x) <=> x = V
      BY Distinct, SMT DEF OnceIn, Contains
    <2>2. \A x : ~Contains(dmxOut', x)
      BY <1>4, <1>7, <2>1, WithoutDrops, Zenon
    <2>3. dmxOut' \in Seq(SinkElements)
      BY <1>4, <1>7, <2>1, WithoutKeeps, Zenon
    <2>. QED
      BY <2>2, <2>3, SMT DEF Contains
  <1>9. est'[D] # "STARTED" /\ est'[V] = est[V]
    <2>1. CASE UNCHANGED est
      BY <1>6, <2>1
    <2>2. CASE est' = [est EXCEPT ![D] = "STOPPED"]
      BY <1>0, <2>2, Distinct, SMT
    <2>. QED
      BY <1>7, <2>1, <2>2
  <1>10. SameDown
    BY <1>0, DmxOnChannelUnlinkSame, Zenon DEF SameView
  <1>11. vdec.cb = "none"
    BY NoCallback, Zenon DEF DmxOnChannelUnlink, Runs
  <1>12. \A m : Mail(m)' <=> Mail(m)
    BY <1>7, MailSame
  <1>13. \A s \in Sinks : link'[s] = V => link[s] = V /\ mFlushPending'[s] = mFlushPending[s]
    BY <1>0, <1>7, Distinct, SMT
  <1>14. vdec'.cb # "output"
    BY <1>7, <1>11, SMT
  <1>15. CalmDown
    BY <1>7, <1>9, <1>10, <1>12, <1>13, <1>14, Zenon DEF CalmDown
  <1>. QED
    BY <1>8, <1>9, <1>15, Zenon DEF Calm, CalmUp

\* The decoder loses a channel to a sink.
LEMMA DecOnChannelUnlinkCalm ==
  ASSUME TypeOK, CallInv, "Preempt" \notin Allowed, DecOnChannelUnlink
  PROVE  Calm
  <1>0. /\ OrderInv /\ NextInv /\ agenda \in Seq(CallType) /\ link \in [SinkElements -> {D, V, None}]
        /\ dec \in DecType /\ mMbox \in Seq(MessageType)
    BY Types, Zenon DEF CallInv
  <1>1. /\ agenda # <<>> /\ 1 \in DOMAIN agenda /\ agenda[1] \in CallType
        /\ agenda[1].f = "onChannelUnlink" /\ agenda[1].e = V /\ Subject = agenda[1].c
    BY <1>0, Running, Zenon DEF DecOnChannelUnlink
  <1>2. /\ link' = [link EXCEPT ![Subject] = None]
        /\ UNCHANGED <<est, vdec, mState, dmxVars, mFlushPending, sink>>
        /\ \E k, o : dec' = [dec EXCEPT !.out = o, !.mCompleteStopPendingCount = k]
        /\ Post("COMPLETE_STOP", V) \/ UNCHANGED mMbox
    BY Zenon DEF DecOnChannelUnlink, otherThanDec, sessionVars
  <1>3. /\ dec'.mIsFlushed = dec.mIsFlushed
        /\ dec'.mVdecFlushPending = dec.mVdecFlushPending
        /\ dec'.mInputChannelFlushPending = dec.mInputChannelFlushPending
    <2>1. PICK k, o : dec' = [dec EXCEPT !.out = o, !.mCompleteStopPendingCount = k]
      BY <1>2
    <2>. QED
      BY <1>0, <2>1, SMT DEF DecType
  <1>4. \A m : Mail(m)' => Mail(m) \/ m = "COMPLETE_STOP"
    <2>1. CASE UNCHANGED mMbox
      BY <2>1, MailSame
    <2>2. CASE Post("COMPLETE_STOP", V)
      <3>1. [cmd |-> "COMPLETE_STOP", e |-> V] \in MessageType
        BY Messages
      <3>. QED
        BY <1>0, <2>2, <3>1, MailPosted, Zenon
    <2>. QED
      BY <1>2, <2>1, <2>2
  <1>5. /\ Mail("COMPLETE_FLUSH")' => Mail("COMPLETE_FLUSH")
        /\ Mail("RESYNC")' => Mail("RESYNC")
    BY <1>4, SMT
  <1>6. SameDown /\ SameUp
    BY <1>0, DecOnChannelUnlinkSame, Zenon DEF SameView
  <1>7. \A s \in Sinks : link'[s] = V => link[s] = V /\ mFlushPending'[s] = mFlushPending[s]
    BY <1>0, <1>2, Distinct, SMT
  <1>8. UNCHANGED <<dmxMedia, dmxOut, mChannelsFlushing, mRunning, mTimer>>
    BY <1>2, Zenon DEF dmxVars
  <1>9. CalmDown
    BY <1>2, <1>3, <1>5, <1>6, <1>7, Zenon DEF CalmDown
  <1>10. CalmUp
    BY <1>2, <1>6, <1>8, Zenon DEF CalmUp
  <1>. QED
    BY <1>9, <1>10, Zenon DEF Calm

-----------------------------------------------------------------------------
(* FlushInv after a step of one side of the decoder.                       *)

\* The calls of one side of the chain, after a call that makes none, one or
\* two others.
LEMMA SideNone ==
  ASSUME agenda \in Seq(CallType), agenda # <<>>, OrderInv, Return
  PROVE  /\ Quiet(agenda[1]) => SameDown
         /\ Low(agenda[1]) => SameUp
  <1>1. <<>> \in Seq(CallType) /\ DOMAIN <<>> = {} /\ Then(<<>>)
    BY Chains, Zenon DEF Return
  <1>2. Quiet(agenda[1]) => SameDown
    BY <1>1, DownThen, Zenon
  <1>3. Low(agenda[1]) => SameUp
    BY <1>1, UpThen, Zenon
  <1>. QED
    BY <1>2, <1>3

\* ... makes one call,
LEMMA SideOne ==
  ASSUME agenda \in Seq(CallType), agenda # <<>>, OrderInv, NEW x \in CallType, Then(<<x>>)
  PROVE  /\ Quiet(agenda[1]) /\ Quiet(x) => SameDown
         /\ Low(agenda[1]) /\ Low(x) => SameUp
  <1> DEFINE q == <<x>>
  <1>1. q \in Seq(CallType) /\ DOMAIN q = {1} /\ q[1] = x /\ Then(q)
    BY Chains, SMT
  <1> HIDE DEF q
  <1>2. Quiet(agenda[1]) /\ Quiet(x) => SameDown
    BY <1>1, DownThen, Zenon
  <1>3. Low(agenda[1]) /\ Low(x) => SameUp
    BY <1>1, UpThen, Zenon
  <1>. QED
    BY <1>2, <1>3

\* ... makes two,
LEMMA SideTwo ==
  ASSUME agenda \in Seq(CallType), agenda # <<>>, OrderInv, NEW x \in CallType,
         NEW y \in CallType, Then(<<x, y>>)
  PROVE  /\ Quiet(agenda[1]) /\ Quiet(x) /\ Quiet(y) => SameDown
         /\ Low(agenda[1]) /\ Low(x) /\ Low(y) => SameUp
  <1> DEFINE q == <<x, y>>
  <1>1. q \in Seq(CallType) /\ DOMAIN q = {1, 2} /\ q[1] = x /\ q[2] = y /\ Then(q)
    BY Chains
  <1> HIDE DEF q
  <1>2. ASSUME Quiet(agenda[1]), Quiet(x), Quiet(y) PROVE SameDown
    <2>1. \A i \in DOMAIN q : Quiet(q[i])
      BY <1>1, <1>2, Zenon
    <2>. QED
      BY <1>1, <1>2, <2>1, DownThen, Zenon
  <1>3. ASSUME Low(agenda[1]), Low(x), Low(y) PROVE SameUp
    <2>1. \A i \in DOMAIN q : Low(q[i])
      BY <1>1, <1>3, Zenon
    <2>. QED
      BY <1>1, <1>3, <2>1, UpThen, Zenon
  <1>. QED
    BY <1>2, <1>3

\* ... or begins an event.
LEMMA DownEvent ==
  ASSUME agenda = <<>>, NEW x \in CallType, agenda' = <<x>>, Quiet(x)
  PROVE  SameDown
  <1>1. /\ \A f, e : Calls(f, e)' <=> x.f = f /\ x.e = e
        /\ \A f, e : IsNext(f, e)' <=> x.f = f /\ x.e = e
        /\ \A f, e : ~Calls(f, e) /\ ~Waits(f, e) /\ ~IsNext(f, e)
    BY LineEvent, Zenon
  <1>2. \A f, e : DownNext(f, e) \/ DownKey(f, e) => ~(x.f = f /\ x.e = e)
    BY Zenon DEF Quiet
  <1>. QED
    BY <1>1, <1>2, Zenon DEF SameDown

\* Nothing is called after the last call of a chain.
LEMMA Alone ==
  ASSUME agenda \in Seq(CallType), agenda # <<>>, OrderInv, IsLast(agenda[1])
  PROVE  /\ \A f, e : ~Waits(f, e)
         /\ \A k : ~LoopWaits(k)
         /\ \A j \in DOMAIN agenda : j = 1
         /\ \A f, e : Calls(f, e) => agenda[1].f = f /\ agenda[1].e = e
         /\ \A k : LoopAt(k) => agenda[1].f = "flushAt" /\ agenda[1].i = k
  <1>1. /\ \A f, e : ~Waits(f, e)
        /\ \A k : ~LoopWaits(k)
        /\ \A j \in DOMAIN agenda : j = 1
    BY Behind, Zenon DEF MayFollow
  <1>2. /\ \A f, e : Calls(f, e) <=> IsNext(f, e) \/ Waits(f, e)
        /\ \A k : LoopAt(k) <=> \/ agenda # <<>> /\ agenda[1].f = "flushAt" /\ agenda[1].i = k
                                \/ LoopWaits(k)
    BY Line
  <1>. QED
    BY <1>1, <1>2, Zenon DEF IsNext

\* A chain has one last call.
LEMMA OneLast ==
  ASSUME agenda \in Seq(CallType), OrderInv, NEW i \in DOMAIN agenda, NEW j \in DOMAIN agenda,
         IsLast(agenda[i]), IsLast(agenda[j])
  PROVE  i = j
  <1>1. ~(i < j) /\ ~(j < i)
    BY Zenon DEF OrderInv, MayFollow
  <1>2. i \in Nat /\ j \in Nat
    BY SMT
  <1>. QED
    BY <1>1, <1>2, SMT

\* A loop is of the demuxer.
LEMMA LoopOfD ==
  ASSUME NEW x \in CallType, x.f \in {"flushAt", "flushed"}
  PROVE  x.e = D /\ IsLast(x)
  <1>1. x \in [f : {"flushAt", "flushed"}, e : {D}, c : {D}, i : Nat \ {0}, n : Nat]
    BY SMT DEF CallType, Upstream, CallsOf
  <1>. QED
    BY <1>1, SMT DEF IsLast

\* The loops of flush() and the messages exclude each other.
LEMMA Exclusive ==
  ASSUME agenda \in Seq(CallType), OrderInv
  PROVE  /\ Calls("mboxCb", None) =>
              /\ ~Calls("flushed", D) /\ \A k : ~LoopAt(k)
              /\ \A i \in DOMAIN agenda : agenda[i].f \notin {"flushAt", "flushed"}
         /\ Calls("flushed", D) => \A k : ~LoopAt(k)
  <1>0. \A i \in DOMAIN agenda : agenda[i] \in CallType
    BY SMT
  <1>1. \A i \in DOMAIN agenda : agenda[i].f \in {"flushAt", "flushed"} => IsLast(agenda[i])
    BY <1>0, LoopOfD, Zenon
  <1>2. ASSUME Calls("mboxCb", None), NEW i \in DOMAIN agenda
        PROVE  agenda[i].f \notin {"flushAt", "flushed"}
    <2>1. PICK j \in DOMAIN agenda : agenda[j].f = "mboxCb"
      BY <1>2, Zenon DEF Calls
    <2>2. IsLast(agenda[j])
      BY <2>1, SMT DEF IsLast
    <2>. SUFFICES ASSUME agenda[i].f \in {"flushAt", "flushed"} PROVE FALSE
      OBVIOUS
    <2>3. i = j
      BY <1>1, <1>2, <2>2, OneLast, Zenon
    <2>. QED
      BY <2>1, <2>3, SMT
  <1>3. ASSUME Calls("flushed", D), NEW k PROVE ~LoopAt(k)
    <2>. SUFFICES ASSUME LoopAt(k) PROVE FALSE
      OBVIOUS
    <2>1. PICK j \in DOMAIN agenda : agenda[j].f = "flushed"
      BY <1>3, Zenon DEF Calls
    <2>2. PICK i \in DOMAIN agenda : agenda[i].f = "flushAt"
      BY Zenon DEF LoopAt
    <2>3. i = j
      BY <1>1, <2>1, <2>2, OneLast, Zenon
    <2>. QED
      BY <2>1, <2>2, <2>3, SMT
  <1>. QED
    BY <1>2, <1>3, SMT DEF Calls, LoopAt

\* What a step of a playing session that is not about the demuxer leaves alone.
UpCalm ==
    /\ SameUp
    /\ UNCHANGED <<dmxMedia, dmxOut, mChannelsFlushing, mRunning, mTimer>>
    /\ mFlushPending'[V] = mFlushPending[V]
    /\ est'[D] = "STARTED" /\ est[D] = "STARTED"
    /\ est[V] = "STARTED" => est'[V] = "STARTED"
    /\ mState' = "CREATED" => mState = "CREATED"
    /\ vdec'.busy => vdec.busy
    /\ Flushing' => Flushing

\* What is before the decoder stays when nothing of it changes.
LEMMA UpKeeps ==
  ASSUME UpInv, UpCalm
  PROVE  /\ OutputInv' /\ TimerInv' /\ LoopInv'
         /\ NotBegun' <=> NotBegun
         /\ Calls("mboxCb", None)' <=> Calls("mboxCb", None)
         /\ IsNext("onChannelFlush", V)' <=> IsNext("onChannelFlush", V)
         /\ IsNext("channel.flushDone", V)' <=> IsNext("channel.flushDone", V)
  <1>1. /\ IsNext("onChannelFlush", V)' <=> IsNext("onChannelFlush", V)
        /\ IsNext("channel.flush", V)' <=> IsNext("channel.flush", V)
        /\ IsNext("channel.flushDone", V)' <=> IsNext("channel.flushDone", V)
        /\ IsNext("flush", D)' <=> IsNext("flush", D)
        /\ IsNext("onChannelFlushed", D)' <=> IsNext("onChannelFlushed", D)
        /\ Calls("onChannelTeardown", V)' <=> Calls("onChannelTeardown", V)
        /\ Calls("mboxCb", None)' <=> Calls("mboxCb", None)
        /\ Calls("flushed", D)' <=> Calls("flushed", D)
    BY SameUpCalls, Zenon DEF UpCalm
  <1>0. OutputInv /\ TimerInv /\ LoopInv
    BY Zenon DEF UpInv
  <1>2. /\ UNCHANGED <<dmxOut, mRunning, mTimer, mChannelsFlushing, dmxMedia>>
        /\ mFlushPending'[V] = mFlushPending[V]
        /\ Playing /\ Playing' /\ (Decoding => Decoding')
        /\ mState' = "CREATED" => mState = "CREATED"
        /\ Flushing' => Flushing
        /\ vdec'.busy => vdec.busy
    BY Zenon DEF Playing, Decoding, UpCalm
  <1>3. /\ ~Waits("channelFlushed", D) /\ ~Waits("channelFlushed", D)'
        /\ IsNext("channelFlushed", D)' <=> IsNext("channelFlushed", D)
        /\ LoopAt(1)' <=> LoopAt(1)
        /\ \A i \in DOMAIN agenda' : agenda'[i].f \in {"flushAt", "flushed"} =>
               \E j \in DOMAIN agenda : agenda'[i] = agenda[j]
    BY <1>0, <1>2, Zenon DEF SameUp, TimerInv, UpCalm
  <1>4. (NotBegun' <=> NotBegun) /\ (Answered' <=> Answered)
    BY <1>1, <1>3, Zenon DEF NotBegun, Answered
  <1>5. OutputInv'
    BY <1>0, <1>1, <1>2, Zenon DEF OutputInv
  <1>6. TimerInv'
    BY <1>0, <1>1, <1>2, <1>3, <1>4, Zenon DEF TimerInv
  <1>7. LoopInv'
    <2> DEFINE Turn(x) ==
            /\ x.f \in {"flushAt", "flushed"} => x.n = 1 /\ x.i \in {1, 2}
            /\ x.f = "flushed" =>
                   x.i = 1 /\ (mFlushPending[V] \/ IsNext("channel.flush", V))
            /\ x.f = "flushAt" /\ x.i # 1 => mFlushPending[V]
    <2>1. ASSUME NEW i \in DOMAIN agenda' PROVE Turn(agenda'[i])
      <3>1. CASE agenda'[i].f \in {"flushAt", "flushed"}
        <4>1. PICK j \in DOMAIN agenda : agenda'[i] = agenda[j]
          BY <1>3, <3>1
        <4>2. Turn(agenda[j])
          BY <1>0, <1>2, Zenon DEF LoopInv
        <4>. QED
          BY <4>1, <4>2
      <3>2. CASE ~(agenda'[i].f \in {"flushAt", "flushed"})
        BY <3>2, SMT
      <3>. QED
        BY <3>1, <3>2
    <2>2. \A x : Turn(x) => Turn(x)'
      BY <1>1, <1>2, Zenon
    <2>. QED
      BY <1>1, <1>2, <2>1, <2>2, Zenon DEF LoopInv
  <1>. QED
    BY <1>1, <1>4, <1>5, <1>6, <1>7

\* A step that is about the demuxer only.
LEMMA CalmDownFrozen ==
  ASSUME SameDown, UNCHANGED <<link, dec, vdec, mMbox, sink>>, est'[V] = est[V],
         \A s \in Sinks : mFlushPending'[s] = mFlushPending[s],
         vdec.cb # "output" \/ UNCHANGED est
  PROVE  CalmDown
  <1>1. \A m : Mail(m)' <=> Mail(m)
    BY MailSame
  <1>. QED
    BY <1>1, Zenon DEF CalmDown

\* ... of a demuxer that does not play.
LEMMA StoppedKeeps ==
  ASSUME FlushInv, CalmDown, est'[D] # "STARTED", UNCHANGED dmxOut
  PROVE  FlushInv'
  <1>1. DownInv'
    BY CalmDownKeeps, FlushInvParts, Zenon
  <1>2. dmxOut' = <<>> \/ dmxOut' = <<V>>
    BY Zenon DEF FlushInv, OutputInv
  <1>3. UpInv'
    BY <1>2, UpStopped, Zenon
  <1>. QED
    BY <1>1, <1>3, Zenon DEF FlushInv, DownInv, UpInv

\* ... and of one that does.
LEMMA PlayingKeeps ==
  ASSUME FlushInv, CalmDown, Playing, Playing', UNCHANGED <<dmxMedia, dmxOut, mState, vdec, dec>>,
         est'[V] = est[V], Calls("mboxCb", None)' <=> Calls("mboxCb", None),
         Calls("onChannelTeardown", V)' => Calls("onChannelTeardown", V),
         ~IsNext("channel.flushDone", V)', BeginInv', TimerInv', LoopInv'
  PROVE  FlushInv'
  <1>1. DownInv' /\ (PartPending' => PartPending) /\ (Told' => Told)
    BY CalmDownKeeps, FlushInvParts, Zenon
  <1>2. OutputInv /\ QuietInv /\ VdecInv
    BY Zenon DEF FlushInv
  <1>3. OutputInv'
    BY <1>2, Zenon DEF OutputInv, Decoding
  <1>4. QuietInv'
    BY <1>1, <1>2, Zenon DEF QuietInv, Flushing
  <1>5. VdecInv'
    <2>1. /\ IsNext("completeFlush", V)' <=> IsNext("completeFlush", V)
          /\ Calls("vdec_flush", V)' <=> Calls("vdec_flush", V)
      BY SameDownCalls, Zenon DEF CalmDown
    <2>. QED
      BY <1>2, <2>1, Zenon DEF VdecInv
  <1>. QED
    BY <1>1, <1>3, <1>4, <1>5, Zenon DEF FlushInv, DownInv

-----------------------------------------------------------------------------
(* The flush of the demuxer.                                               *)

\* What FlushInv takes of what may happen: no sink on the media of the demuxer,
\* no seek while playing, no error of vdec, and a loop thread that does not run
\* between the statements of a callback of vdec.
Orderly == /\ H264Sinks = {} /\ MaxErrors = 0
           /\ "SeekAnytime" \notin Allowed /\ "Preempt" \notin Allowed

InOrder == Orderly /\ PipelineInv /\ ChainInv /\ FlushInv

\* The parts of InOrder.
LEMMA InOrderParts ==
  ASSUME InOrder
  PROVE  /\ TypeOK /\ OrderInv /\ NextInv /\ TornCalls /\ TornState /\ LinkInv
         /\ FlushInv /\ DownInv /\ UpInv
         /\ agenda \in Seq(CallType) /\ (LoopRuns => vdec.cb = "none")
  BY FlushInvParts, Types, NoCallback,
     Zenon DEF InOrder, PipelineInv, ChainInv, CallInv, Orderly

\* The demuxer leaves what is after it alone.
LEMMA DmxFrame ==
  ASSUME DmxFlush \/ DmxFlushAt \/ DmxChannelCounted \/ DmxOnChannelFlushed \/ DmxChannelFlushed
  PROVE  /\ UNCHANGED <<link, dec, vdec, mMbox, sink, est, dmxOut, dmxMedia, mRunning, mState,
                        mFlushPending>>
         /\ LoopRuns
  BY Zenon DEF DmxFlush, DmxFlushAt, DmxChannelCounted, DmxOnChannelFlushed, DmxChannelFlushed,
     otherThanDmx, dmxVars, Runs

\* stop() of the demuxer.
LEMMA DmxStopFlush ==
  ASSUME InOrder, DmxStop
  PROVE  FlushInv'
  <1>0. TypeOK /\ OrderInv /\ FlushInv /\ agenda \in Seq(CallType) /\ est \in [Elements -> ElementStates]
    BY InOrderParts, Types, Zenon
  <1>1. agenda # <<>> /\ 1 \in DOMAIN agenda /\ agenda[1].f = "stop" /\ agenda[1].e = D
    BY <1>0, Running, Zenon DEF DmxStop
  <1> DEFINE x == Call("flush", D)
  <1>2. x \in CallType /\ x.f = "flush" /\ x.e = D /\ Then(<<x>>)
    BY TypedOfD, Zenon DEF DmxStop
  <1> HIDE DEF x
  <1>3. Quiet(agenda[1]) /\ Quiet(x)
    BY <1>1, <1>2, Distinct, SMT DEF Quiet, DownNext, DownKey
  <1>4. SameDown
    BY <1>0, <1>1, <1>2, <1>3, SideOne, Zenon
  <1>5. /\ UNCHANGED <<link, dec, vdec, mMbox, sink, dmxOut, mFlushPending>>
        /\ est' = [est EXCEPT ![D] = "STOPPING"] /\ LoopRuns
    BY Zenon DEF DmxStop, otherThanDmx, Runs
  <1>6. est'[V] = est[V] /\ est'[D] # "STARTED"
    BY <1>0, <1>5, Distinct, SMT
  <1>7. vdec.cb # "output"
    BY <1>5, InOrderParts, SMT
  <1>8. CalmDown
    BY <1>4, <1>5, <1>6, <1>7, CalmDownFrozen, Zenon
  <1>. QED
    BY <1>0, <1>5, <1>6, <1>8, StoppedKeeps, Zenon

\* flush() of the demuxer begins its loop.
LEMMA DmxFlushFlush ==
  ASSUME InOrder, DmxFlush
  PROVE  FlushInv'
  <1>0. TypeOK /\ OrderInv /\ FlushInv /\ agenda \in Seq(CallType)
    BY InOrderParts, Zenon
  <1>1. agenda # <<>> /\ 1 \in DOMAIN agenda /\ agenda[1].f = "flush" /\ agenda[1].e = D
    BY <1>0, Running, Zenon DEF DmxFlush
  <1>2. /\ UNCHANGED <<link, dec, vdec, mMbox, sink, est, dmxOut, dmxMedia, mRunning, mState,
                       mFlushPending>>
        /\ UNCHANGED <<mTimer, mChannelsFlushing>> /\ LoopRuns
    BY DmxFrame, Zenon DEF DmxFlush, dmxVars
  <1> DEFINE x == CallLoop("flushAt", D, 1, Len(dmxOut))
  <1>3. /\ x \in CallType /\ x.f = "flushAt" /\ x.e = D /\ x.i = 1 /\ x.n = Len(dmxOut)
        /\ Then(<<x>>)
    <2>1. dmxOut \in Seq(SinkElements)
      BY <1>0, Types, Zenon
    <2>2. Len(dmxOut) \in Nat /\ 1 \in Nat \ {0}
      BY <2>1, SMT
    <2>3. x \in CallType /\ x.f = "flushAt"
      BY <2>2, TypedLoop, SMT
    <2>4. x.e = D /\ x.i = 1 /\ x.n = Len(dmxOut)
      BY Zenon DEF CallLoop
    <2>5. Then(<<x>>)
      BY Zenon DEF DmxFlush
    <2>. QED
      BY <2>3, <2>4, <2>5
  <1> HIDE DEF x
  <1>4. Quiet(agenda[1]) /\ Quiet(x)
    BY <1>1, <1>3, Distinct, SMT DEF Quiet, DownNext, DownKey
  <1>5. CalmDown
    BY <1>0, <1>1, <1>2, <1>3, <1>4, SideOne, CalmDownFrozen, Zenon
  <1>6. CASE ~Playing
    BY <1>0, <1>2, <1>5, <1>6, StoppedKeeps, Zenon DEF Playing
  <1>7. CASE Playing
    <2>1. /\ \A f, e : ~Waits(f, e)
          /\ \A k : ~LoopWaits(k)
          /\ \A j \in DOMAIN agenda : j = 1
          /\ \A f, e : Calls(f, e) => f = "flush" /\ e = D
      BY <1>0, <1>1, Alone, Zenon DEF IsLast
    <2>2. /\ \A f, e : Calls(f, e)' <=> (x.f = f /\ x.e = e) \/ Waits(f, e)
          /\ \A f, e : Waits(f, e)' <=> Waits(f, e)
          /\ \A f, e : IsNext(f, e)' <=> x.f = f /\ x.e = e
          /\ \A k : LoopAt(k)' <=> (x.f = "flushAt" /\ x.i = k) \/ LoopWaits(k)
          /\ \A i \in DOMAIN agenda' : \/ agenda'[i] = x
                                       \/ \E j \in DOMAIN agenda : j # 1 /\ agenda'[i] = agenda[j]
      BY <1>0, <1>1, <1>3, LineOne
    <2>3. /\ IsNext("flush", D) /\ NotBegun
          /\ ~IsNext("onChannelFlushed", D) /\ ~IsNext("channelFlushed", D)
      BY <1>1, Distinct, SMT DEF IsNext, NotBegun
    <2>4. /\ dmxOut = <<V>> /\ ~dec.mIsFlushed /\ ~vdec.flushing /\ ~dec.mVdecFlushPending
          /\ mRunning /\ ~mTimer /\ ~mFlushPending[V] /\ mChannelsFlushing = 0 /\ ~Flushing
      BY <1>0, <1>7, <2>3, Zenon DEF FlushInv, BeginInv, TimerInv, Answered
    <2>5. /\ dmxOut' = <<V>> /\ ~dec'.mIsFlushed /\ ~vdec'.flushing /\ ~dec'.mVdecFlushPending
          /\ mRunning' /\ ~mTimer' /\ ~mFlushPending'[V] /\ mChannelsFlushing' = 0 /\ ~Flushing'
      BY <1>2, <2>4, Zenon DEF Flushing
    <2>6. /\ \A f, e : f # "flushAt" => ~Calls(f, e)' /\ ~IsNext(f, e)' /\ ~Waits(f, e)'
          /\ \A f, e : f # "flush" => ~Calls(f, e)
          /\ LoopAt(1)'
      BY <1>3, <2>1, <2>2, SMT
    <2>7. \A i \in DOMAIN agenda' : agenda'[i].f = "flushAt" /\ agenda'[i].n = 1 /\ agenda'[i].i = 1
      <3>1. x.n = 1
        BY <1>3, <2>4, SMT
      <3>. QED
        BY <1>3, <2>1, <2>2, <3>1, Zenon
    <2>8. NotBegun' /\ ~Asks' /\ ~Answered'
      BY <2>6, SMT DEF NotBegun, Asks, Answered
    <2>9. BeginInv'
      BY <2>5, <2>6, <2>8, SMT DEF BeginInv
    <2>10. TimerInv'
      BY <2>5, <2>6, <2>8, SMT DEF TimerInv
    <2>11. LoopInv'
      BY <2>7, SMT DEF LoopInv
    <2>12. /\ Calls("mboxCb", None)' <=> Calls("mboxCb", None)
           /\ ~Calls("onChannelTeardown", V)' /\ ~IsNext("channel.flushDone", V)'
      BY <2>6, SMT
    <2>. QED
      BY <1>0, <1>2, <1>5, <1>7, <2>9, <2>10, <2>11, <2>12, PlayingKeeps, Zenon DEF Playing
  <1>. QED
    BY <1>6, <1>7

\* The chain before and after a last call that makes no call, one, or two.
LEMMA LastNow ==
  ASSUME agenda \in Seq(CallType), agenda # <<>>, OrderInv, IsLast(agenda[1])
  PROVE  /\ \A f, e : Calls(f, e) <=> agenda[1].f = f /\ agenda[1].e = e
         /\ \A f, e : IsNext(f, e) <=> agenda[1].f = f /\ agenda[1].e = e
         /\ \A k : LoopAt(k) <=> agenda[1].f = "flushAt" /\ agenda[1].i = k
  <1>1. /\ \A f, e : ~Waits(f, e)
        /\ \A k : ~LoopWaits(k)
    BY Alone, Zenon
  <1>2. /\ \A f, e : Calls(f, e) <=> IsNext(f, e) \/ Waits(f, e)
        /\ \A k : LoopAt(k) <=> \/ agenda # <<>> /\ agenda[1].f = "flushAt" /\ agenda[1].i = k
                                \/ LoopWaits(k)
    BY Line
  <1>3. \A f, e : IsNext(f, e) <=> agenda[1].f = f /\ agenda[1].e = e
    BY Zenon DEF IsNext
  <1>. QED
    BY <1>1, <1>2, <1>3, Zenon

\* The last call of a chain returns,
LEMMA LastNone ==
  ASSUME agenda \in Seq(CallType), agenda # <<>>, OrderInv, IsLast(agenda[1]), Return
  PROVE  /\ \A f, e : ~Calls(f, e)' /\ ~Waits(f, e)' /\ ~IsNext(f, e)'
         /\ \A k : ~LoopAt(k)'
         /\ DOMAIN agenda' = {}
  <1>1. /\ \A f, e : ~Waits(f, e)
        /\ \A k : ~LoopWaits(k)
        /\ \A j \in DOMAIN agenda : j = 1
    BY Alone, Zenon
  <1>2. /\ \A f, e : Calls(f, e)' <=> Waits(f, e)
        /\ \A f, e : Waits(f, e)' => Waits(f, e)
        /\ \A f, e : IsNext(f, e)' => Waits(f, e)
        /\ \A k : LoopAt(k)' <=> LoopWaits(k)
        /\ \A i \in DOMAIN agenda' : \E j \in DOMAIN agenda : j # 1 /\ agenda'[i] = agenda[j]
    BY LineNone, Zenon
  <1>3. DOMAIN agenda' = {}
    BY <1>1, <1>2, Zenon
  <1>. QED
    BY <1>1, <1>2, <1>3, Zenon

\* ... makes one call,
LEMMA LastOne ==
  ASSUME agenda \in Seq(CallType), agenda # <<>>, OrderInv, IsLast(agenda[1]),
         NEW x \in CallType, Then(<<x>>)
  PROVE  /\ \A f, e : Calls(f, e)' <=> x.f = f /\ x.e = e
         /\ \A f, e : ~Waits(f, e)'
         /\ \A f, e : IsNext(f, e)' <=> x.f = f /\ x.e = e
         /\ \A k : LoopAt(k)' <=> x.f = "flushAt" /\ x.i = k
         /\ \A i \in DOMAIN agenda' : agenda'[i] = x
  <1>1. /\ \A f, e : ~Waits(f, e)
        /\ \A k : ~LoopWaits(k)
        /\ \A j \in DOMAIN agenda : j = 1
    BY Alone, Zenon
  <1>2. /\ \A f, e : Calls(f, e)' <=> (x.f = f /\ x.e = e) \/ Waits(f, e)
        /\ \A f, e : Waits(f, e)' <=> Waits(f, e)
        /\ \A f, e : IsNext(f, e)' <=> x.f = f /\ x.e = e
        /\ \A k : LoopAt(k)' <=> (x.f = "flushAt" /\ x.i = k) \/ LoopWaits(k)
        /\ \A i \in DOMAIN agenda' : \/ agenda'[i] = x
                                     \/ \E j \in DOMAIN agenda : j # 1 /\ agenda'[i] = agenda[j]
    BY LineOne
  <1>. QED
    BY <1>1, <1>2, Zenon

\* ... or makes two.
LEMMA LastTwo ==
  ASSUME agenda \in Seq(CallType), agenda # <<>>, OrderInv, IsLast(agenda[1]),
         NEW x \in CallType, NEW y \in CallType, Then(<<x, y>>)
  PROVE  /\ \A f, e : Calls(f, e)' <=> (x.f = f /\ x.e = e) \/ (y.f = f /\ y.e = e)
         /\ \A f, e : Waits(f, e)' <=> y.f = f /\ y.e = e
         /\ \A f, e : IsNext(f, e)' <=> x.f = f /\ x.e = e
         /\ \A k : LoopAt(k)' <=> (x.f = "flushAt" /\ x.i = k) \/ (y.f = "flushAt" /\ y.i = k)
         /\ \A i \in DOMAIN agenda' : agenda'[i] = x \/ agenda'[i] = y
  <1>1. /\ \A f, e : ~Waits(f, e)
        /\ \A k : ~LoopWaits(k)
        /\ \A j \in DOMAIN agenda : j = 1
    BY Alone, Zenon
  <1>2. /\ \A f, e : Calls(f, e)' <=> (x.f = f /\ x.e = e) \/ (y.f = f /\ y.e = e) \/ Waits(f, e)
        /\ \A f, e : Waits(f, e)' <=> (y.f = f /\ y.e = e) \/ Waits(f, e)
        /\ \A f, e : IsNext(f, e)' <=> x.f = f /\ x.e = e
        /\ \A k : LoopAt(k)' <=> \/ x.f = "flushAt" /\ x.i = k
                                 \/ y.f = "flushAt" /\ y.i = k
                                 \/ LoopWaits(k)
        /\ \A i \in DOMAIN agenda' : \/ agenda'[i] = x \/ agenda'[i] = y
                                     \/ \E j \in DOMAIN agenda : j # 1 /\ agenda'[i] = agenda[j]
    BY LineTwo
  <1>. QED
    BY <1>1, <1>2, Zenon

-----------------------------------------------------------------------------
\* A step of the loop of flush() of the demuxer leaves the decoder alone.
LEMMA DmxLoopDown ==
  ASSUME InOrder, DmxFlushAt \/ DmxChannelCounted \/ DmxOnChannelFlushed \/ DmxChannelFlushed,
         SameDown
  PROVE  CalmDown /\ (~Playing => FlushInv')
  <1>1. /\ UNCHANGED <<link, dec, vdec, mMbox, sink, est, dmxOut, dmxMedia, mRunning, mState,
                       mFlushPending>>
    BY DmxFrame, Zenon
  <1>2. CalmDown
    BY <1>1, CalmDownFrozen, Zenon
  <1>3. ASSUME ~Playing PROVE FlushInv'
    BY <1>1, <1>2, <1>3, StoppedKeeps, InOrderParts, Zenon DEF Playing
  <1>. QED
    BY <1>2, <1>3

\* A channel is flushed.
LEMMA DmxFlushAtFlush ==
  ASSUME InOrder, DmxFlushAt
  PROVE  FlushInv'
  <1> DEFINE i == agenda[1].i
             n == agenda[1].n
  <1>0. TypeOK /\ OrderInv /\ FlushInv /\ agenda \in Seq(CallType) /\ OutputInv
    BY InOrderParts, Zenon DEF FlushInv
  <1>1. /\ agenda # <<>> /\ 1 \in DOMAIN agenda /\ agenda[1].f = "flushAt" /\ agenda[1].e = D
        /\ Head(agenda) = agenda[1] /\ agenda[1] \in CallType
    BY <1>0, Running, Zenon DEF DmxFlushAt
  <1>2. /\ UNCHANGED <<link, dec, vdec, mMbox, sink, est, dmxOut, dmxMedia, mRunning, mState,
                       mFlushPending>>
        /\ UNCHANGED mChannelsFlushing
    BY DmxFrame, Zenon DEF DmxFlushAt
  <1>3. i \in Nat \ {0} /\ n \in Nat
    BY <1>1, CallFields, Types, SMT
  <1>4. dmxOut = <<>> \/ dmxOut = <<V>>
    BY <1>0, Zenon DEF OutputInv
  <1>5. IsLast(agenda[1]) /\ Quiet(agenda[1])
    BY <1>1, Distinct, SMT DEF IsLast, Quiet, DownNext, DownKey
  <1>6. /\ \A f, e : Calls(f, e) <=> agenda[1].f = f /\ agenda[1].e = e
        /\ \A f, e : IsNext(f, e) <=> agenda[1].f = f /\ agenda[1].e = e
        /\ \A k : LoopAt(k) <=> agenda[1].f = "flushAt" /\ agenda[1].i = k
    BY <1>0, <1>1, <1>5, LastNow
  <1>7. /\ ~Calls("flushed", D) /\ ~Answered /\ ~Calls("mboxCb", None)
        /\ ~Calls("onChannelTeardown", V) /\ (i = 1 => NotBegun)
    BY <1>1, <1>6, SMT DEF Answered, NotBegun
  <1>8. Playing => n = 1 /\ i \in {1, 2} /\ (i # 1 => mFlushPending[V])
    BY <1>0, <1>1, SMT DEF FlushInv, LoopInv
  <1>9. Playing /\ NotBegun =>
          /\ dmxOut = <<V>> /\ ~dec.mIsFlushed /\ ~vdec.flushing /\ ~dec.mVdecFlushPending
          /\ mRunning /\ ~mTimer /\ ~mFlushPending[V] /\ mChannelsFlushing = 0 /\ ~Flushing
    BY <1>0, <1>7, Zenon DEF FlushInv, BeginInv, TimerInv
  <1>10. Playing /\ mFlushPending[V] =>
            mRunning /\ ~mTimer /\ dmxOut = <<V>> /\ mChannelsFlushing = 1
    BY <1>0, <1>7, Zenon DEF FlushInv, TimerInv
  <1>11. CASE i <= n /\ i <= Len(dmxOut)
    <2>1. i = 1 /\ dmxOut = <<V>> /\ dmxOut[i] = V
      <3>1. Len(<<>>) = 0 /\ Len(<<V>>) = 1 /\ <<V>>[1] = V
        BY SMT
      <3>2. dmxOut = <<V>> /\ i <= 1
        <4>1. dmxOut = <<>> => Len(dmxOut) = 0
          BY <3>1
        <4>2. dmxOut = <<V>> => Len(dmxOut) = 1
          BY <3>1
        <4> HIDE DEF i, n
        <4>3. Len(dmxOut) # 0 /\ (Len(dmxOut) = 1 => i <= 1)
          <5> DEFINE m == Len(dmxOut)
          <5>1. m = 0 \/ m = 1
            BY <1>4, <4>1, <4>2
          <5>2. i <= m
            BY <1>11
          <5> HIDE DEF m
          <5>3. m # 0 /\ (m = 1 => i <= 1)
            BY <1>3, <5>1, <5>2, SMT
          <5>. QED
            BY <5>3 DEF m
        <4>. QED
          BY <1>4, <4>1, <4>2, <4>3
      <3>3. i = 1
        BY <1>3, <3>2, SMT
      <3>. QED
        BY <3>1, <3>2, <3>3
    <2> DEFINE x == Call("channel.flush", V)
               y == CallLoop("flushed", D, i, n)
    <2>2. Then(<<x, y>>) /\ UNCHANGED mTimer
      BY <1>1, <1>3, <1>11, <2>1, SMT DEF DmxFlushAt
    <2>3. x \in CallType /\ x.f = "channel.flush" /\ x.e = V
      BY Distinct, TypedOfChannel, SMT
    <2>4. y \in CallType /\ y.f = "flushed"
      BY <1>3, TypedLoop, SMT
    <2>5. y.e = D /\ y.i = i /\ y.n = n
      BY Zenon DEF CallLoop
    <2> HIDE DEF x, y
    <2>6. Quiet(x) /\ Quiet(y)
      BY <2>3, <2>4, <2>5, Distinct, SMT DEF Quiet, DownNext, DownKey
    <2>7. SameDown
      BY <1>0, <1>1, <1>5, <2>2, <2>3, <2>4, <2>6, SideTwo, Zenon
    <2>8. CalmDown /\ (~Playing => FlushInv')
      BY <2>7, DmxLoopDown, Zenon
    <2>9. CASE Playing
      <3>1. /\ \A f, e : Calls(f, e)' <=> (x.f = f /\ x.e = e) \/ (y.f = f /\ y.e = e)
            /\ \A f, e : Waits(f, e)' <=> y.f = f /\ y.e = e
            /\ \A f, e : IsNext(f, e)' <=> x.f = f /\ x.e = e
            /\ \A k : LoopAt(k)' <=> (x.f = "flushAt" /\ x.i = k) \/ (y.f = "flushAt" /\ y.i = k)
            /\ \A j \in DOMAIN agenda' : agenda'[j] = x \/ agenda'[j] = y
        BY <1>0, <1>1, <1>5, <2>2, <2>3, <2>4, LastTwo
      <3>2. /\ dmxOut' = <<V>> /\ ~dec'.mIsFlushed /\ ~vdec'.flushing /\ ~dec'.mVdecFlushPending
            /\ mRunning' /\ ~mTimer' /\ ~mFlushPending'[V] /\ mChannelsFlushing' = 0 /\ ~Flushing'
        BY <1>2, <1>7, <1>9, <2>1, <2>2, <2>9, Zenon DEF Flushing
      <3>3. /\ IsNext("channel.flush", V)' /\ Calls("flushed", D)' /\ ~Calls("vdec_flush", V)'
            /\ ~Waits("channelFlushed", D)' /\ ~IsNext("channel.flushDone", V)'
            /\ ~IsNext("onChannelFlush", V)' /\ ~IsNext("flush", V)'
            /\ ~IsNext("onChannelFlushed", D)' /\ ~IsNext("channelFlushed", D)'
            /\ ~Calls("mboxCb", None)' /\ ~Calls("onChannelTeardown", V)'
        BY <2>3, <2>4, <2>5, <3>1, SMT
      <3>4. NotBegun' /\ ~Asks' /\ ~Answered'
        BY <3>3, Zenon DEF NotBegun, Asks, Answered
      <3>5. BeginInv' /\ TimerInv'
        BY <3>2, <3>3, <3>4, Zenon DEF BeginInv, TimerInv
      <3>6. LoopInv'
        <4>1. ASSUME NEW j \in DOMAIN agenda'
              PROVE  /\ agenda'[j].f \in {"flushAt", "flushed"} =>
                            agenda'[j].n = 1 /\ agenda'[j].i \in {1, 2}
                     /\ agenda'[j].f = "flushed" => agenda'[j].i = 1
                     /\ agenda'[j].f # "flushAt"
          <5>1. CASE agenda'[j] = x
            BY <2>3, <5>1, SMT
          <5>2. CASE agenda'[j] = y
            BY <1>8, <2>1, <2>4, <2>5, <2>9, <5>2, SMT
          <5>. QED
            BY <3>1, <4>1, <5>1, <5>2
        <4>. QED
          BY <3>3, <4>1, Zenon DEF LoopInv
      <3>7. Playing' /\ (Calls("mboxCb", None)' <=> Calls("mboxCb", None))
        BY <1>2, <1>7, <2>9, <3>3, Zenon DEF Playing
      <3>. QED
        BY <1>0, <1>2, <2>8, <2>9, <3>3, <3>5, <3>6, <3>7, PlayingKeeps, Zenon
    <2>. QED
      BY <2>8, <2>9
  <1>12. CASE i <= n /\ i > Len(dmxOut)
    <2> DEFINE x == CallLoop("flushAt", D, i + 1, n)
    <2>1. Then(<<x>>)
      BY <1>1, <1>3, <1>4, <1>12, SMT DEF DmxFlushAt
    <2>2. i + 1 \in Nat \ {0}
      BY <1>3, SMT
    <2>3. x \in CallType /\ x.f = "flushAt"
      BY <1>3, <2>2, TypedLoop, SMT
    <2>4. x.e = D
      BY Zenon DEF CallLoop
    <2> HIDE DEF x
    <2>5. Quiet(x)
      BY <2>3, <2>4, Distinct, SMT DEF Quiet, DownNext, DownKey
    <2>6. SameDown
      BY <1>0, <1>1, <1>5, <2>1, <2>3, <2>5, SideOne, Zenon
    <2>7. ~Playing
      <3>1. SUFFICES ASSUME Playing PROVE FALSE
        OBVIOUS
      <3>2. i = 1
        BY <1>3, <1>8, <1>12, <3>1, SMT
      <3>3. dmxOut = <<V>>
        BY <1>7, <1>9, <3>1, <3>2, Zenon
      <3>. QED
        BY <1>12, <3>2, <3>3, SMT
    <2>. QED
      BY <2>6, <2>7, DmxLoopDown, Zenon
  <1>13. CASE i > n
    <2>1. Return /\ mTimer' = IF mChannelsFlushing = 0 THEN TimerAfterFlush ELSE mTimer
      BY <1>1, <1>3, <1>13, SMT DEF DmxFlushAt
    <2>2. SameDown
      BY <1>0, <1>1, <1>5, <2>1, SideNone, Zenon
    <2>3. CalmDown /\ (~Playing => FlushInv')
      BY <2>2, DmxLoopDown, Zenon
    <2>4. CASE Playing
      <3>1. /\ \A f, e : ~Calls(f, e)' /\ ~Waits(f, e)' /\ ~IsNext(f, e)'
            /\ \A k : ~LoopAt(k)'
            /\ DOMAIN agenda' = {}
        BY <1>0, <1>1, <1>5, <2>1, LastNone
      <3>2. mFlushPending[V]
        BY <1>8, <1>13, <2>4, SMT
      <3>3. mRunning /\ ~mTimer /\ dmxOut = <<V>> /\ mChannelsFlushing = 1
        BY <1>10, <2>4, <3>2, Zenon
      <3>4. /\ mRunning' /\ ~mTimer' /\ dmxOut' = <<V>> /\ mChannelsFlushing' = 1
            /\ mFlushPending'[V]
        BY <1>2, <2>1, <3>2, <3>3, SMT
      <3>5. ~NotBegun' /\ ~Asks' /\ ~Answered'
        BY <3>1, Zenon DEF NotBegun, Asks, Answered
      <3>6. BeginInv' /\ TimerInv' /\ LoopInv'
        BY <3>1, <3>4, <3>5, SMT DEF BeginInv, TimerInv, LoopInv
      <3>7. /\ Playing' /\ (Calls("mboxCb", None)' <=> Calls("mboxCb", None))
            /\ ~Calls("onChannelTeardown", V)' /\ ~IsNext("channel.flushDone", V)'
        BY <1>2, <1>7, <2>4, <3>1, Zenon DEF Playing
      <3>. QED
        BY <1>0, <1>2, <2>3, <2>4, <3>6, <3>7, PlayingKeeps, Zenon
    <2>. QED
      BY <2>3, <2>4
  <1>. QED
    BY <1>3, <1>4, <1>11, <1>12, <1>13, SMT

\* The channel that was flushed is counted.
LEMMA DmxChannelCountedFlush ==
  ASSUME InOrder, DmxChannelCounted
  PROVE  FlushInv'
  <1> DEFINE i == agenda[1].i
             n == agenda[1].n
  <1>0. TypeOK /\ OrderInv /\ FlushInv /\ agenda \in Seq(CallType)
    BY InOrderParts, Zenon
  <1>1. /\ agenda # <<>> /\ 1 \in DOMAIN agenda /\ agenda[1].f = "flushed" /\ agenda[1].e = D
        /\ Head(agenda) = agenda[1] /\ agenda[1] \in CallType
    BY <1>0, Running, Zenon DEF DmxChannelCounted
  <1>2. /\ UNCHANGED <<link, dec, vdec, mMbox, sink, est, dmxOut, dmxMedia, mRunning, mState,
                       mFlushPending>>
        /\ UNCHANGED mTimer /\ mChannelsFlushing' = mChannelsFlushing + 1
    BY DmxFrame, Zenon DEF DmxChannelCounted
  <1>3. i \in Nat \ {0} /\ n \in Nat /\ i + 1 \in Nat \ {0}
    BY <1>1, CallFields, Types, SMT
  <1> DEFINE x == CallLoop("flushAt", D, i + 1, n)
  <1>4. Then(<<x>>)
    BY <1>1, Zenon DEF DmxChannelCounted
  <1>5. x \in CallType /\ x.f = "flushAt"
    BY <1>3, TypedLoop, SMT
  <1>6. x.e = D /\ x.i = i + 1 /\ x.n = n
    BY Zenon DEF CallLoop
  <1> HIDE DEF x, i, n
  <1>7. IsLast(agenda[1]) /\ Quiet(agenda[1]) /\ Quiet(x)
    BY <1>1, <1>5, <1>6, Distinct, SMT DEF IsLast, Quiet, DownNext, DownKey
  <1>8. SameDown
    BY <1>0, <1>1, <1>4, <1>5, <1>7, SideOne, Zenon
  <1>9. CalmDown /\ (~Playing => FlushInv')
    BY <1>8, DmxLoopDown, Zenon
  <1>10. CASE Playing
    <2>1. /\ \A f, e : Calls(f, e) <=> agenda[1].f = f /\ agenda[1].e = e
          /\ \A f, e : IsNext(f, e) <=> agenda[1].f = f /\ agenda[1].e = e
      BY <1>0, <1>1, <1>7, LastNow
    <2>2. /\ \A f, e : Calls(f, e)' <=> x.f = f /\ x.e = e
          /\ \A f, e : ~Waits(f, e)'
          /\ \A f, e : IsNext(f, e)' <=> x.f = f /\ x.e = e
          /\ \A k : LoopAt(k)' <=> x.f = "flushAt" /\ x.i = k
          /\ \A j \in DOMAIN agenda' : agenda'[j] = x
      BY <1>0, <1>1, <1>4, <1>5, <1>7, LastOne
    <2>3. Calls("flushed", D) /\ ~IsNext("channel.flush", V) /\ ~Calls("mboxCb", None)
      BY <1>1, <2>1, SMT
    <2>4. n = 1 /\ i = 1 /\ mFlushPending[V]
      BY <1>0, <1>1, <1>10, <2>3, SMT DEF FlushInv, LoopInv, i, n
    <2>5. mRunning /\ ~mTimer /\ dmxOut = <<V>> /\ mChannelsFlushing = 0
      BY <1>0, <1>10, <2>3, <2>4, Zenon DEF FlushInv, TimerInv
    <2>6. x.i = 2 /\ x.n = 1
      BY <1>6, <2>4, SMT
    <2>7. /\ mRunning' /\ ~mTimer' /\ dmxOut' = <<V>> /\ mChannelsFlushing' = 1
          /\ mFlushPending'[V]
      BY <1>2, <2>4, <2>5, SMT
    <2>8. /\ \A f, e : f # "flushAt" => ~Calls(f, e)' /\ ~Waits(f, e)' /\ ~IsNext(f, e)'
          /\ ~LoopAt(1)'
      BY <1>5, <2>2, <2>6, SMT
    <2>9. ~NotBegun' /\ ~Asks' /\ ~Answered'
      BY <2>8, SMT DEF NotBegun, Asks, Answered
    <2>10. BeginInv' /\ TimerInv'
      BY <2>7, <2>8, <2>9, SMT DEF BeginInv, TimerInv
    <2>11. LoopInv'
      <3>1. \A j \in DOMAIN agenda' : agenda'[j].n = 1 /\ agenda'[j].i = 2 /\ agenda'[j].f = "flushAt"
        BY <1>5, <2>2, <2>6, Zenon
      <3>. QED
        BY <2>7, <3>1, SMT DEF LoopInv
    <2>12. /\ Playing' /\ (Calls("mboxCb", None)' <=> Calls("mboxCb", None))
           /\ ~Calls("onChannelTeardown", V)' /\ ~IsNext("channel.flushDone", V)'
      BY <1>2, <1>10, <2>3, <2>8, SMT DEF Playing
    <2>. QED
      BY <1>0, <1>2, <1>9, <1>10, <2>10, <2>11, <2>12, PlayingKeeps, Zenon
  <1>. QED
    BY <1>9, <1>10

\* The demuxer is told that a channel is flushed.
LEMMA DmxOnChannelFlushedFlush ==
  ASSUME InOrder, DmxOnChannelFlushed
  PROVE  FlushInv'
  <1>0. TypeOK /\ OrderInv /\ FlushInv /\ agenda \in Seq(CallType)
    BY InOrderParts, Zenon
  <1>1. /\ agenda # <<>> /\ 1 \in DOMAIN agenda /\ agenda[1].f = "onChannelFlushed"
        /\ agenda[1].e = D /\ Subject = agenda[1].c /\ agenda[1] \in CallType
    BY <1>0, Running, Zenon DEF DmxOnChannelFlushed
  <1>2. /\ UNCHANGED <<link, dec, vdec, mMbox, sink, est, dmxOut, dmxMedia, mRunning, mState,
                       mFlushPending>>
        /\ UNCHANGED <<mTimer, mChannelsFlushing>>
    BY DmxFrame, Zenon DEF DmxOnChannelFlushed, dmxVars
  <1>3. Subject \in SinkElements
    BY <1>1, CallFields, SMT
  <1> DEFINE x == Call("channelFlushed", D)
             y == Call("onChannelTeardown", Subject)
  <1>4. Then((IF est[D] = "STOPPING" THEN <<y>> ELSE <<>>) \o <<x>>)
    BY Zenon DEF DmxOnChannelFlushed
  <1>5. x \in CallType /\ x.f = "channelFlushed" /\ x.e = D
    BY TypedOfD, Zenon
  <1>6. y \in CallType /\ y.f = "onChannelTeardown" /\ y.e = Subject
    BY <1>3, TypedOfChannel, SMT
  <1> HIDE DEF x, y
  <1>7. Quiet(agenda[1]) /\ Quiet(x) /\ Quiet(y)
    BY <1>1, <1>5, <1>6, Distinct, SMT DEF Quiet, DownNext, DownKey
  <1>8. CASE est[D] = "STOPPING"
    <2>1. Then(<<y>> \o <<x>>)
      BY <1>4, <1>8
    <2>2. Then(<<y, x>>)
      BY <1>5, <1>6, <2>1, JoinOne, Zenon
    <2>3. SameDown
      BY <1>0, <1>1, <1>5, <1>6, <1>7, <2>2, SideTwo, Zenon
    <2>4. ~Playing
      BY <1>8, SMT DEF Playing
    <2>. QED
      BY <2>3, <2>4, DmxLoopDown, Zenon
  <1>9. CASE est[D] # "STOPPING"
    <2>1. Then(<<>> \o <<x>>)
      BY <1>4, <1>9
    <2>2. <<x>> \in Seq(CallType)
      BY <1>5, Chains, Zenon
    <2>3. Then(<<x>>)
      BY <2>1, <2>2, JoinNone, Zenon
    <2>4. SameDown
      BY <1>0, <1>1, <1>5, <1>7, <2>3, SideOne, Zenon
    <2>5. CalmDown /\ (~Playing => FlushInv')
      BY <2>4, DmxLoopDown, Zenon
    <2>6. CASE Playing
      <3>1. IsNext("onChannelFlushed", D)
        BY <1>1, Zenon DEF IsNext
      <3>2. Answered
        BY <3>1, Zenon DEF Answered
      <3>3. /\ mRunning /\ mChannelsFlushing = 1 /\ ~mFlushPending[V] /\ ~mTimer
            /\ ~Flushing /\ Calls("mboxCb", None) /\ ~Waits("channelFlushed", D)
        BY <1>0, <2>6, <3>2, Zenon DEF FlushInv, TimerInv
      <3>4. /\ ~Calls("flushed", D) /\ \A k : ~LoopAt(k)
            /\ \A i \in DOMAIN agenda : agenda[i].f \notin {"flushAt", "flushed"}
        BY <1>0, <3>3, Exclusive, Zenon
      <3>5. /\ \A f, e : Calls(f, e)' <=> (x.f = f /\ x.e = e) \/ Waits(f, e)
            /\ \A f, e : Waits(f, e)' <=> Waits(f, e)
            /\ \A f, e : IsNext(f, e)' <=> x.f = f /\ x.e = e
            /\ \A k : LoopAt(k)' <=> (x.f = "flushAt" /\ x.i = k) \/ LoopWaits(k)
            /\ \A i \in DOMAIN agenda' : \/ agenda'[i] = x
                                         \/ \E j \in DOMAIN agenda : j # 1 /\ agenda'[i] = agenda[j]
        BY <1>0, <1>1, <1>5, <2>3, LineOne
      <3>6. /\ \A f, e : Calls(f, e) <=> IsNext(f, e) \/ Waits(f, e)
            /\ \A k : LoopWaits(k) => LoopAt(k)
        BY <1>0, Line, Zenon
      <3>7. ~IsNext("mboxCb", None) /\ ~IsNext("onChannelTeardown", V)
        BY <1>1, SMT DEF IsNext
      <3>8. /\ Calls("mboxCb", None)' /\ ~Waits("channelFlushed", D)'
            /\ Calls("onChannelTeardown", V)' => Calls("onChannelTeardown", V)
            /\ ~LoopAt(1)' /\ IsNext("channelFlushed", D)'
            /\ \A f, e : f # "channelFlushed" => ~IsNext(f, e)'
        BY <1>5, <3>3, <3>4, <3>5, <3>6, <3>7, SMT
      <3>9. /\ mRunning' /\ mChannelsFlushing' = 1 /\ ~mFlushPending'[V] /\ ~mTimer'
            /\ ~Flushing'
        BY <1>2, <3>3, Zenon DEF Flushing
      <3>10. ~NotBegun' /\ ~Asks' /\ Answered'
        BY <3>8, SMT DEF NotBegun, Asks, Answered
      <3>11. BeginInv'
        BY <3>10, SMT DEF BeginInv
      <3>12. TimerInv'
        BY <3>8, <3>9, <3>10, SMT DEF TimerInv
      <3>13. LoopInv'
        <4>1. \A i \in DOMAIN agenda' : agenda'[i].f \notin {"flushAt", "flushed"}
          BY <1>5, <3>4, <3>5, SMT
        <4>. QED
          BY <4>1, SMT DEF LoopInv
      <3>14. Playing' /\ (Calls("mboxCb", None)' <=> Calls("mboxCb", None))
             /\ ~IsNext("channel.flushDone", V)'
        BY <1>2, <2>6, <3>3, <3>8, SMT DEF Playing
      <3>. QED
        BY <1>0, <1>2, <2>5, <2>6, <3>8, <3>11, <3>12, <3>13, <3>14, PlayingKeeps, Zenon
    <2>. QED
      BY <2>5, <2>6
  <1>. QED
    BY <1>8, <1>9

\* The demuxer plays on.
LEMMA DmxChannelFlushedFlush ==
  ASSUME InOrder, DmxChannelFlushed
  PROVE  FlushInv'
  <1>0. TypeOK /\ OrderInv /\ FlushInv /\ agenda \in Seq(CallType)
    BY InOrderParts, Zenon
  <1>1. /\ agenda # <<>> /\ 1 \in DOMAIN agenda /\ agenda[1].f = "channelFlushed"
        /\ agenda[1].e = D
    BY <1>0, Running, Zenon DEF DmxChannelFlushed
  <1>2. /\ UNCHANGED <<link, dec, vdec, mMbox, sink, est, dmxOut, dmxMedia, mRunning, mState,
                       mFlushPending>>
        /\ Return
        /\ mChannelsFlushing' = IF mChannelsFlushing <= 1 THEN 0 ELSE mChannelsFlushing - 1
        /\ mTimer' = IF mChannelsFlushing <= 1 THEN TimerAfterFlush ELSE mTimer
    BY DmxFrame, Zenon DEF DmxChannelFlushed
  <1>3. Quiet(agenda[1])
    BY <1>1, Distinct, SMT DEF Quiet, DownNext, DownKey
  <1>4. SameDown
    BY <1>0, <1>1, <1>2, <1>3, SideNone, Zenon
  <1>5. CalmDown /\ (~Playing => FlushInv')
    BY <1>4, DmxLoopDown, Zenon
  <1>6. CASE Playing
    <2>1. IsNext("channelFlushed", D)
      BY <1>1, Zenon DEF IsNext
    <2>2. Answered
      BY <2>1, Zenon DEF Answered
    <2>3. /\ mRunning /\ mChannelsFlushing = 1 /\ ~mFlushPending[V] /\ ~mTimer
          /\ ~Flushing /\ Calls("mboxCb", None) /\ ~Waits("channelFlushed", D)
      BY <1>0, <1>6, <2>2, Zenon DEF FlushInv, TimerInv
    <2>4. /\ ~Calls("flushed", D) /\ \A k : ~LoopAt(k)
          /\ \A i \in DOMAIN agenda : agenda[i].f \notin {"flushAt", "flushed"}
      BY <1>0, <2>3, Exclusive, Zenon
    <2>5. /\ \A f, e : Calls(f, e)' <=> Waits(f, e)
          /\ \A f, e : Waits(f, e)' => Waits(f, e)
          /\ \A f, e : IsNext(f, e)' => Waits(f, e)
          /\ \A k : LoopAt(k)' <=> LoopWaits(k)
          /\ \A i \in DOMAIN agenda' : \E j \in DOMAIN agenda : j # 1 /\ agenda'[i] = agenda[j]
      BY <1>0, <1>1, <1>2, LineNone, Zenon
    <2>6. /\ \A f, e : Calls(f, e) <=> IsNext(f, e) \/ Waits(f, e)
          /\ \A k : LoopWaits(k) => LoopAt(k)
      BY <1>0, Line, Zenon
    <2>7. \A f, e : Waits(f, e) => f \notin Immediate /\ ~(e = V /\ f \in {"channel.flush", "completeStop"})
      BY <1>0, Behind, Zenon
    <2>8. ~IsNext("mboxCb", None)
      BY <1>1, SMT DEF IsNext
    <2>9. /\ ~Waits("onChannelFlush", V) /\ ~Waits("flush", V) /\ ~Waits("flush", D)
          /\ ~Waits("channel.flush", V) /\ ~Waits("onChannelFlushed", D)
          /\ ~Waits("channel.flushDone", V)
      BY <2>7, SMT DEF Immediate
    <2>10. ~NotBegun' /\ ~Asks' /\ ~Answered'
      BY <2>3, <2>4, <2>5, <2>6, <2>9, Zenon DEF NotBegun, Asks, Answered
    <2>11. /\ mRunning' /\ mChannelsFlushing' = 0 /\ ~mFlushPending'[V] /\ mTimer'
           /\ ~Flushing'
      <3>1. mChannelsFlushing <= 1
        BY <2>3, SMT
      <3>2. mTimer' = TimerAfterFlush /\ mChannelsFlushing' = 0
        BY <1>2, <3>1, Zenon
      <3>3. mTimer'
        BY <2>3, <3>2, Zenon DEF TimerAfterFlush
      <3>. QED
        BY <1>2, <2>3, <3>2, <3>3, Zenon DEF Flushing
    <2>12. /\ Calls("mboxCb", None)' /\ ~Waits("channelFlushed", D)'
           /\ Calls("onChannelTeardown", V)' => Calls("onChannelTeardown", V)
           /\ ~IsNext("channel.flushDone", V)' /\ ~IsNext("channel.flush", V)'
      BY <2>3, <2>5, <2>6, <2>8, <2>9, Zenon
    <2>13. BeginInv'
      BY <2>10, SMT DEF BeginInv
    <2>14. TimerInv'
      BY <2>10, <2>11, <2>12, SMT DEF TimerInv
    <2>15. LoopInv'
      <3>1. \A i \in DOMAIN agenda' : agenda'[i].f \notin {"flushAt", "flushed"}
        BY <2>4, <2>5, SMT
      <3>. QED
        BY <3>1, SMT DEF LoopInv
    <2>16. Playing' /\ (Calls("mboxCb", None)' <=> Calls("mboxCb", None))
      BY <1>2, <1>6, <2>3, <2>12, SMT DEF Playing
    <2>. QED
      BY <1>0, <1>2, <1>5, <1>6, <2>12, <2>13, <2>14, <2>15, <2>16, PlayingKeeps, Zenon
  <1>. QED
    BY <1>5, <1>6

-----------------------------------------------------------------------------
(* The flush of the channels.                                              *)

\* What is left to show of a step that leaves the demuxer alone.
LEMMA UpRest ==
  ASSUME UpInv, UpCalm, QuietInv', VdecInv', BeginInv'
  PROVE  UpInv'
  BY UpKeeps, Zenon DEF UpInv

\* The demuxer has one output at most, the decoder.
LEMMA UpOutputs ==
  ASSUME FlushInv, UNCHANGED dmxOut
  PROVE  dmxOut' = <<>> \/ dmxOut' = <<V>>
  BY Zenon DEF FlushInv, OutputInv

\* The other channels are left alone.
LEMMA OtherChannels ==
  ASSUME mFlushPending \in [SinkElements -> BOOLEAN], NEW c \in SinkElements, NEW b,
         mFlushPending' = [mFlushPending EXCEPT ![c] = b]
  PROVE  /\ mFlushPending'[c] = b
         /\ c # V => mFlushPending'[V] = mFlushPending[V]
         /\ \A t \in Sinks : t # c => mFlushPending'[t] = mFlushPending[t]
  <1>1. mFlushPending'[c] = b /\ \A t \in SinkElements : t # c => mFlushPending'[t] = mFlushPending[t]
    BY Zenon
  <1>. QED
    BY <1>1, Distinct, Zenon

\* A linked sink is linked to the decoder.
LEMMA SinkLinked ==
  ASSUME InOrder, NEW s \in Sinks, link[s] # None
  PROVE  link[s] = V
  <1>1. dmxOut = <<>> \/ dmxOut = <<V>>
    BY InOrderParts, Zenon DEF FlushInv, OutputInv
  <1>2. link[s] \in {D, V, None} /\ (link[s] = D <=> Contains(dmxOut, s))
    BY InOrderParts, Types, Distinct, SMT DEF LinkInv
  <1>3. ~Contains(dmxOut, s)
    <2>1. CASE dmxOut = <<>>
      BY <2>1, SMT DEF Contains
    <2>2. CASE dmxOut = <<V>>
      <3>1. DOMAIN <<V>> = {1} /\ <<V>>[1] = V /\ Len(<<V>>) = 1
        BY SMT
      <3>2. 1..1 = {1}
        BY SMT
      <3>. QED
        BY <2>2, <3>1, <3>2, Distinct, Zenon DEF Contains
    <2>. QED
      BY <1>1, <2>1, <2>2
  <1>. QED
    BY <1>2, <1>3, SMT

\* The decoder is linked to the demuxer when the demuxer outputs to it.
LEMMA DecoderLinked ==
  ASSUME InOrder
  PROVE  /\ dmxOut = <<V>> => link[V] = D
         /\ link[V] # None => link[V] = D
  <1>1. LinkInv /\ link[V] \in {D, V, None} /\ dec \in DecType
    BY InOrderParts, Types, Distinct, SMT
  <1>2. /\ link[V] = D <=> Contains(dmxOut, V)
        /\ link[V] = V <=> Contains(dec.out, V)
    BY <1>1, Distinct, Zenon DEF LinkInv
  <1>3. ~Contains(dec.out, V)
    <2>1. dec.out \in Seq(Sinks)
      BY <1>1, SMT DEF DecType
    <2>2. \A i \in 1..Len(dec.out) : dec.out[i] \in Sinks
      BY <2>1, SMT
    <2>. QED
      BY <2>2, Distinct, Zenon DEF Contains
  <1>4. dmxOut = <<V>> => Contains(dmxOut, V)
    <2>1. 1 \in 1..Len(<<V>>) /\ <<V>>[1] = V
      BY SMT
    <2>. QED
      BY <2>1, Zenon DEF Contains
  <1>. QED
    BY <1>1, <1>2, <1>3, <1>4, SMT

-----------------------------------------------------------------------------
\* The channel of a sink is flushed.
LEMMA SinkChannelFlushFlush ==
  ASSUME InOrder, NEW s \in Sinks, ChannelFlush(s)
  PROVE  FlushInv'
  <1>0. /\ TypeOK /\ OrderInv /\ NextInv /\ FlushInv /\ DownInv /\ UpInv /\ agenda \in Seq(CallType)
        /\ s \in SinkElements /\ s # V /\ s # D
    BY InOrderParts, Distinct, Zenon
  <1>1. /\ agenda # <<>> /\ 1 \in DOMAIN agenda /\ agenda[1].f = "channel.flush" /\ agenda[1].e = s
        /\ LoopRuns
    BY <1>0, Running, Zenon DEF ChannelFlush, Runs
  <1>2. /\ UNCHANGED <<link, dec, vdec, mMbox, sink, est, dmxMedia, dmxOut, mChannelsFlushing,
                       mRunning, mTimer, mState>>
        /\ mFlushPending' = [mFlushPending EXCEPT ![s] = TRUE]
    BY Zenon DEF ChannelFlush, otherThanChannels, dmxVars, sessionVars
  <1>3. mFlushPending \in [SinkElements -> BOOLEAN]
    BY <1>0, Types
  <1>4. /\ mFlushPending'[s] /\ mFlushPending'[V] = mFlushPending[V]
        /\ \A t \in Sinks : t # s => mFlushPending'[t] = mFlushPending[t]
    BY <1>0, <1>2, <1>3, OtherChannels, Distinct, Zenon
  <1> DEFINE x == Call("onChannelFlush", s)
  <1>5. x \in CallType /\ x.f = "onChannelFlush" /\ x.e = s /\ Then(<<x>>)
    BY <1>0, TypedOfChannel, SMT DEF ChannelFlush
  <1> HIDE DEF x
  <1>6. link[s] = V
    <2>1. link[s] # None
      BY <1>0, <1>1, Zenon DEF NextInv, Sound
    <2>. QED
      BY <2>1, SinkLinked
  <1>7. SameUp
    <2>1. Low(agenda[1]) /\ Low(x)
      BY <1>0, <1>1, <1>5, SMT DEF Low, UpNext, UpKey
    <2>. QED
      BY <1>0, <1>1, <1>5, <2>1, SideOne, Zenon
  <1>8. /\ \A f, e : Calls(f, e)' <=> (x.f = f /\ x.e = e) \/ Waits(f, e)
        /\ \A f, e : IsNext(f, e)' <=> x.f = f /\ x.e = e
    BY <1>0, <1>1, <1>5, LineOne
  <1>9. \A f, e : Calls(f, e) <=> IsNext(f, e) \/ Waits(f, e)
    BY <1>0, Line
  <1>10. \A f, e : IsNext(f, e) <=> f = "channel.flush" /\ e = s
    BY <1>1, Zenon DEF IsNext
  <1>11. /\ ~IsNext("resync", V)' /\ ~IsNext("flush", V)' /\ ~IsNext("flush", V)
         /\ ~IsNext("completeFlush", V)' /\ ~IsNext("onChannelFlushed", V)'
         /\ ~IsNext("channel.flushDone", V)'
         /\ \A t \in Sinks : ~IsNext("channel.flushDone", t)'
         /\ \A t \in Sinks : Calls("channel.flush", t)' => Calls("channel.flush", t)
         /\ \A t \in Sinks : Calls("channel.flush", t) => Calls("channel.flush", t)' \/ t = s
         /\ Calls("channel.flush", s)
         /\ Calls("vdec_flush", V)' <=> Calls("vdec_flush", V)
    BY <1>5, <1>8, <1>9, <1>10, SMT
  <1>12. \A m : Mail(m)' <=> Mail(m)
    BY <1>2, MailSame
  <1>13. PartPending /\ (Told' => Told)
    BY <1>11, <1>12, Zenon DEF PartPending, Told
  <1>14. DownInv'
    <2>0. NoResync /\ OutputCbInv /\ EmptyInv /\ OnItsWay /\ SinkAnswer /\ AskedInv
      BY <1>0, Zenon DEF DownInv
    <2>1. NoResync' /\ SinkAnswer'
      BY <2>0, <1>11, <1>12, Zenon DEF NoResync, SinkAnswer
    <2>2. OutputCbInv'
      BY <2>0, <1>2, Zenon DEF OutputCbInv, Decoding, Flushing
    <2>3. EmptyInv'
      BY <2>0, <1>2, Zenon DEF EmptyInv, Decoding
    <2>4. OnItsWay'
      BY <2>0, <1>2, <1>4, <1>11, Zenon DEF OnItsWay, Decoding, Flushing
    <2>5. AskedInv'
      BY <2>0, <1>2, <1>11, <1>13, Zenon DEF AskedInv, Decoding, Flushing
    <2>. QED
      BY <2>1, <2>2, <2>3, <2>4, <2>5, Zenon DEF DownInv
  <1>15. CASE est[D] # "STARTED"
    BY <1>0, <1>2, <1>14, <1>15, UpStopped, UpOutputs, FlushInvParts, Zenon
         DEF FlushInv, DownInv, UpInv
  <1>16. CASE est[D] = "STARTED"
    <2>0. QuietInv /\ VdecInv /\ BeginInv /\ Playing /\ Playing'
      BY <1>0, <1>2, <1>16, Zenon DEF UpInv, Playing
    <2>1. UpCalm
      BY <1>2, <1>4, <1>7, <1>16, Zenon DEF UpCalm, Flushing
    <2>2. QuietInv'
      BY <2>0, <1>2, <1>13, Zenon DEF QuietInv, Flushing
    <2>3. VdecInv'
      BY <2>0, <1>2, <1>11, Zenon DEF VdecInv
    <2>4. BeginInv'
      <3>1. (NotBegun' <=> NotBegun) /\ (Asks' => Asks)
        BY <1>0, <1>11, <2>1, UpKeeps, Zenon DEF Asks
      <3>. QED
        BY <2>0, <3>1, <1>2, <1>4, <1>11, Zenon DEF BeginInv
    <2>. QED
      BY <1>0, <1>14, <2>1, <2>2, <2>3, <2>4, UpRest, Zenon DEF FlushInv, DownInv, UpInv
  <1>. QED
    BY <1>15, <1>16

\* The channel of the decoder is flushed.
LEMMA DecChannelFlushFlush ==
  ASSUME InOrder, ChannelFlush(V)
  PROVE  FlushInv'
  <1>0. /\ TypeOK /\ OrderInv /\ FlushInv /\ agenda \in Seq(CallType) /\ V \in SinkElements
    BY InOrderParts, Distinct, Zenon
  <1>1. /\ agenda # <<>> /\ 1 \in DOMAIN agenda /\ agenda[1].f = "channel.flush" /\ agenda[1].e = V
        /\ LoopRuns
    BY <1>0, Running, Zenon DEF ChannelFlush, Runs
  <1>2. /\ UNCHANGED <<link, dec, vdec, mMbox, sink, est, dmxMedia, dmxOut, mChannelsFlushing,
                       mRunning, mTimer, mState>>
        /\ mFlushPending' = [mFlushPending EXCEPT ![V] = TRUE]
    BY Zenon DEF ChannelFlush, otherThanChannels, dmxVars, sessionVars
  <1>3. mFlushPending \in [SinkElements -> BOOLEAN]
    BY <1>0, Types
  <1>4. /\ mFlushPending'[V]
        /\ \A t \in Sinks : mFlushPending'[t] = mFlushPending[t]
    BY <1>0, <1>2, <1>3, OtherChannels, Distinct, Zenon
  <1> DEFINE x == Call("onChannelFlush", V)
  <1>5. x \in CallType /\ x.f = "onChannelFlush" /\ x.e = V /\ Then(<<x>>)
    BY <1>0, TypedOfChannel, SMT DEF ChannelFlush
  <1> HIDE DEF x
  <1>6. SameDown
    <2>1. Quiet(agenda[1]) /\ Quiet(x)
      BY <1>1, <1>5, Distinct, SMT DEF Quiet, DownNext, DownKey
    <2>. QED
      BY <1>0, <1>1, <1>5, <2>1, SideOne, Zenon
  <1>7. CalmDown
    BY <1>2, <1>4, <1>6, CalmDownFrozen, Zenon
  <1>8. CASE est[D] # "STARTED"
    BY <1>0, <1>2, <1>7, <1>8, StoppedKeeps, Zenon
  <1>9. CASE est[D] = "STARTED"
    <2>1. /\ \A f, e : Calls(f, e)' <=> (x.f = f /\ x.e = e) \/ Waits(f, e)
          /\ \A f, e : Waits(f, e)' <=> Waits(f, e)
          /\ \A f, e : IsNext(f, e)' <=> x.f = f /\ x.e = e
          /\ \A k : LoopAt(k)' <=> (x.f = "flushAt" /\ x.i = k) \/ LoopWaits(k)
          /\ \A i \in DOMAIN agenda' : \/ agenda'[i] = x
                                       \/ \E j \in DOMAIN agenda : j # 1 /\ agenda'[i] = agenda[j]
      BY <1>0, <1>1, <1>5, LineOne
    <2>2. /\ \A f, e : Calls(f, e) <=> IsNext(f, e) \/ Waits(f, e)
          /\ \A k : LoopWaits(k) => LoopAt(k)
      BY <1>0, Line, Zenon
    <2>3. \A f, e : IsNext(f, e) <=> f = "channel.flush" /\ e = V
      BY <1>1, Zenon DEF IsNext
    <2>4. Playing /\ NotBegun /\ ~Answered /\ IsNext("channel.flush", V)
      BY <1>9, <2>3, SMT DEF Playing, NotBegun, Answered
    <2>5. /\ dmxOut = <<V>> /\ ~dec.mIsFlushed /\ ~vdec.flushing /\ ~dec.mVdecFlushPending
          /\ mRunning /\ ~mTimer /\ ~mFlushPending[V] /\ mChannelsFlushing = 0 /\ ~Flushing
          /\ ~Calls("vdec_flush", V) /\ Calls("flushed", D) /\ ~Waits("channelFlushed", D)
      BY <1>0, <2>4, Zenon DEF FlushInv, BeginInv, TimerInv
    <2>6. \A k : ~LoopAt(k)
      BY <1>0, <2>5, Exclusive, Zenon
    <2>7. /\ dmxOut' = <<V>> /\ ~dec'.mIsFlushed /\ ~vdec'.flushing /\ ~dec'.mVdecFlushPending
          /\ mRunning' /\ ~mTimer' /\ mChannelsFlushing' = 0 /\ ~Flushing'
      BY <1>2, <2>5, Zenon DEF Flushing
    <2>8. /\ Calls("flushed", D)' /\ ~Calls("vdec_flush", V)' /\ ~Waits("channelFlushed", D)'
          /\ ~LoopAt(1)'
          /\ \A f, e : f # "onChannelFlush" => ~IsNext(f, e)'
          /\ Calls("mboxCb", None)' <=> Calls("mboxCb", None)
          /\ Calls("onChannelTeardown", V)' => Calls("onChannelTeardown", V)
      BY <1>5, <2>1, <2>2, <2>3, <2>5, <2>6, SMT
    <2>9. ~NotBegun' /\ ~Answered'
      BY <2>8, SMT DEF NotBegun, Answered
    <2>10. BeginInv'
      BY <1>4, <2>7, <2>8, SMT DEF BeginInv
    <2>11. TimerInv'
      BY <1>4, <2>7, <2>8, <2>9, SMT DEF TimerInv
    <2>12. LoopInv'
      <3>1. ASSUME NEW i \in DOMAIN agenda'
            PROVE  /\ agenda'[i].f \in {"flushAt", "flushed"} =>
                          agenda'[i].n = 1 /\ agenda'[i].i \in {1, 2}
                   /\ agenda'[i].f = "flushed" => agenda'[i].i = 1
                   /\ agenda'[i].f # "flushAt"
        <4>1. CASE agenda'[i] = x
          BY <1>5, <4>1, SMT
        <4>2. ASSUME NEW j \in DOMAIN agenda, agenda'[i] = agenda[j]
              PROVE  /\ agenda'[i].f \in {"flushAt", "flushed"} =>
                            agenda'[i].n = 1 /\ agenda'[i].i \in {1, 2}
                     /\ agenda'[i].f = "flushed" => agenda'[i].i = 1
                     /\ agenda'[i].f # "flushAt"
          <5>1. agenda[j].f # "flushAt"
            BY <2>6, Zenon DEF LoopAt
          <5>. QED
            BY <1>0, <2>4, <4>2, <5>1, Zenon DEF FlushInv, LoopInv
        <4>. QED
          BY <2>1, <3>1, <4>1, <4>2, Zenon
      <3>. QED
        BY <1>4, <3>1, Zenon DEF LoopInv
    <2>13. Playing' /\ ~IsNext("channel.flushDone", V)'
      BY <1>2, <1>9, <2>8, SMT DEF Playing
    <2>. QED
      BY <1>0, <1>2, <1>7, <2>4, <2>8, <2>10, <2>11, <2>12, <2>13, PlayingKeeps, Zenon
  <1>. QED
    BY <1>8, <1>9

\* A sink has answered a flush.
LEMMA SinkChannelDoneFlush ==
  ASSUME InOrder, NEW s \in Sinks, ChannelFlushDone(s)
  PROVE  FlushInv'
  <1>0. /\ TypeOK /\ OrderInv /\ FlushInv /\ DownInv /\ UpInv /\ agenda \in Seq(CallType)
        /\ s \in SinkElements /\ s # V /\ s # D
    BY InOrderParts, Distinct, Zenon
  <1>1. /\ agenda # <<>> /\ 1 \in DOMAIN agenda /\ agenda[1].f = "channel.flushDone"
        /\ agenda[1].e = s
    BY <1>0, Running, Zenon DEF ChannelFlushDone
  <1>2. /\ UNCHANGED <<link, dec, vdec, mMbox, sink, est, dmxMedia, dmxOut, mChannelsFlushing,
                       mRunning, mTimer, mState>>
        /\ mFlushPending' = [mFlushPending EXCEPT ![s] = FALSE]
        /\ IF mFlushPending[s] /\ link[s] # None
           THEN Then(<<CallOn("onChannelFlushed", link[s], s)>>) ELSE Return
    BY Zenon DEF ChannelFlushDone, otherThanChannels, dmxVars, sessionVars
  <1>3. mFlushPending \in [SinkElements -> BOOLEAN]
    BY <1>0, Types
  <1>4. /\ ~mFlushPending'[s] /\ mFlushPending'[V] = mFlushPending[V]
        /\ \A t \in Sinks : t # s => mFlushPending'[t] = mFlushPending[t]
    BY <1>0, <1>2, <1>3, OtherChannels, Zenon
  <1> DEFINE x == CallOn("onChannelFlushed", V, s)
  <1>5. x \in CallType /\ x.f = "onChannelFlushed" /\ x.e = V
    BY <1>0, TypedUpstream, SMT
  <1>6. \/ Then(<<x>>) /\ mFlushPending[s] /\ link[s] = V
        \/ Return
    BY <1>2, SinkLinked, Zenon
  <1> HIDE DEF x
  <1>7. SameUp
    <2>1. Low(agenda[1]) /\ Low(x)
      BY <1>0, <1>1, <1>5, Distinct, SMT DEF Low, UpNext, UpKey
    <2>. QED
      BY <1>0, <1>1, <1>5, <1>6, <2>1, SideOne, SideNone, Zenon
  <1>8. /\ \A f, e : Calls(f, e)' => Waits(f, e) \/ (Then(<<x>>) /\ x.f = f /\ x.e = e)
        /\ \A f, e : Waits(f, e) => Calls(f, e)'
        /\ \A f, e : IsNext(f, e)' => Waits(f, e) \/ (~Return /\ x.f = f /\ x.e = e)
    <2>1. CASE Return
      <3>1. /\ \A f, e : Calls(f, e)' <=> Waits(f, e)
            /\ \A f, e : IsNext(f, e)' => Waits(f, e)
        BY <1>0, <1>1, <2>1, LineNone, Zenon
      <3>. QED
        BY <3>1, Zenon
    <2>2. CASE ~Return
      <3>0. Then(<<x>>)
        BY <1>6, <2>2
      <3>1. /\ \A f, e : Calls(f, e)' <=> (x.f = f /\ x.e = e) \/ Waits(f, e)
            /\ \A f, e : IsNext(f, e)' <=> x.f = f /\ x.e = e
        BY <1>0, <1>1, <1>5, <3>0, LineOne, Zenon
      <3>. QED
        BY <2>2, <3>0, <3>1, Zenon
    <2>. QED
      BY <2>1, <2>2
  <1>9. \A f, e : Calls(f, e) <=> IsNext(f, e) \/ Waits(f, e)
    BY <1>0, Line
  <1>10. \A f, e : IsNext(f, e) <=> f = "channel.flushDone" /\ e = s
    BY <1>1, Zenon DEF IsNext
  <1>11. \A f, e : Waits(f, e) => f \notin Immediate /\ ~(e = V /\ f \in {"channel.flush", "completeStop"})
    BY <1>0, Behind, Zenon
  <1>12. /\ ~IsNext("resync", V)' /\ ~IsNext("flush", V)' /\ ~IsNext("flush", V)
         /\ ~IsNext("completeFlush", V)' /\ ~IsNext("channel.flushDone", V)'
         /\ \A t \in Sinks : ~IsNext("channel.flushDone", t)'
    <2>1. \A f, e : f \in Immediate /\ f # "onChannelFlushed" => ~IsNext(f, e)'
      BY <1>5, <1>8, <1>11, Zenon
    <2>2. /\ {"resync", "flush", "completeFlush", "channel.flushDone"} \subseteq Immediate
          /\ "onChannelFlushed" \notin {"resync", "flush", "completeFlush", "channel.flushDone"}
      BY SMT DEF Immediate
    <2>3. ~IsNext("flush", V)
      BY <1>10, SMT
    <2>. QED
      BY <2>1, <2>2, <2>3, SMT
  <1>13. /\ \A t \in Sinks : Calls("channel.flush", t)' <=> Calls("channel.flush", t)
         /\ Calls("vdec_flush", V)' <=> Calls("vdec_flush", V)
    BY <1>5, <1>8, <1>9, <1>10, SMT
  <1>14. \A m : Mail(m)' <=> Mail(m)
    BY <1>2, MailSame
  <1>15. Told' => Told
    BY <1>12, <1>14, Zenon DEF Told
  <1>16. PartPending' => PartPending
    <2>1. IsNext("onChannelFlushed", V)' => mFlushPending[s] /\ link[s] = V
      BY <1>6, <1>8, <1>11, SMT DEF Immediate
    <2>2. \A t \in Sinks : mFlushPending'[t] => mFlushPending[t]
      BY <1>4, Zenon
    <2>. QED
      BY <1>0, <1>2, <1>13, <2>1, <2>2, Zenon DEF PartPending
  <1>17. DownInv'
    <2>0. NoResync /\ OutputCbInv /\ EmptyInv /\ OnItsWay /\ SinkAnswer /\ AskedInv
      BY <1>0, Zenon DEF DownInv
    <2>1. NoResync' /\ SinkAnswer'
      BY <2>0, <1>12, <1>14, Zenon DEF NoResync, SinkAnswer
    <2>2. OutputCbInv'
      BY <2>0, <1>2, Zenon DEF OutputCbInv, Decoding, Flushing
    <2>3. EmptyInv'
      BY <2>0, <1>2, Zenon DEF EmptyInv, Decoding
    <2>4. OnItsWay'
      <3>1. IsNext("channel.flushDone", s)
        BY <1>10, Zenon
      <3>2. Decoding /\ link[s] = V /\ mFlushPending[s] => sink[s].mIsFlushed
        BY <2>0, <3>1, Zenon DEF SinkAnswer
      <3>. QED
        BY <2>0, <3>2, <1>2, <1>4, <1>12, <1>13, Zenon DEF OnItsWay, Decoding, Flushing
    <2>5. AskedInv'
      BY <2>0, <1>2, <1>12, <1>15, <1>16, Zenon DEF AskedInv, Decoding, Flushing
    <2>. QED
      BY <2>1, <2>2, <2>3, <2>4, <2>5, Zenon DEF DownInv
  <1>18. CASE est[D] # "STARTED"
    BY <1>0, <1>2, <1>17, <1>18, UpStopped, UpOutputs, FlushInvParts, Zenon
         DEF FlushInv, DownInv, UpInv
  <1>19. CASE est[D] = "STARTED"
    <2>0. QuietInv /\ VdecInv /\ BeginInv /\ Playing /\ Playing'
      BY <1>0, <1>2, <1>19, Zenon DEF UpInv, Playing
    <2>1. UpCalm
      BY <1>2, <1>4, <1>7, <1>19, Zenon DEF UpCalm, Flushing
    <2>2. /\ NotBegun' <=> NotBegun
          /\ Asks' => Asks
          /\ Calls("mboxCb", None)' <=> Calls("mboxCb", None)
      BY <1>0, <1>12, <2>1, UpKeeps, Zenon DEF Asks
    <2>3. QuietInv'
      BY <2>0, <2>2, <1>2, <1>15, <1>16, Zenon DEF QuietInv, Flushing
    <2>4. VdecInv'
      BY <2>0, <1>2, <1>12, <1>13, Zenon DEF VdecInv
    <2>5. BeginInv'
      BY <2>0, <2>2, <1>2, <1>4, <1>13, Zenon DEF BeginInv
    <2>. QED
      BY <1>0, <1>17, <2>1, <2>3, <2>4, <2>5, UpRest, Zenon DEF FlushInv, DownInv, UpInv
  <1>. QED
    BY <1>18, <1>19

\* The decoder has answered a flush.
LEMMA DecChannelDoneFlush ==
  ASSUME InOrder, ChannelFlushDone(V)
  PROVE  FlushInv'
  <1>0. /\ TypeOK /\ OrderInv /\ FlushInv /\ agenda \in Seq(CallType) /\ V \in SinkElements
    BY InOrderParts, Distinct, Zenon
  <1>1. /\ agenda # <<>> /\ 1 \in DOMAIN agenda /\ agenda[1].f = "channel.flushDone"
        /\ agenda[1].e = V
    BY <1>0, Running, Zenon DEF ChannelFlushDone
  <1>2. /\ UNCHANGED <<link, dec, vdec, mMbox, sink, est, dmxMedia, dmxOut, mChannelsFlushing,
                       mRunning, mTimer, mState>>
        /\ mFlushPending' = [mFlushPending EXCEPT ![V] = FALSE]
        /\ IF mFlushPending[V] /\ link[V] # None
           THEN Then(<<CallOn("onChannelFlushed", link[V], V)>>) ELSE Return
    BY Zenon DEF ChannelFlushDone, otherThanChannels, dmxVars, sessionVars
  <1>3. mFlushPending \in [SinkElements -> BOOLEAN]
    BY <1>0, Types
  <1>4. /\ ~mFlushPending'[V]
        /\ \A t \in Sinks : mFlushPending'[t] = mFlushPending[t]
    BY <1>0, <1>2, <1>3, OtherChannels, Distinct, Zenon
  <1> DEFINE x == CallOn("onChannelFlushed", D, V)
  <1>5. x \in CallType /\ x.f = "onChannelFlushed" /\ x.e = D
    BY <1>0, TypedUpstream, SMT
  <1>6. IF mFlushPending[V] /\ link[V] # None THEN Then(<<x>>) ELSE Return
    BY <1>2, DecoderLinked, Zenon
  <1> HIDE DEF x
  <1>7. SameDown
    <2>1. Quiet(agenda[1]) /\ Quiet(x)
      BY <1>1, <1>5, Distinct, SMT DEF Quiet, DownNext, DownKey
    <2>. QED
      BY <1>0, <1>1, <1>5, <1>6, <2>1, SideOne, SideNone, Zenon
  <1>8. CalmDown
    BY <1>2, <1>4, <1>7, CalmDownFrozen, Zenon
  <1>9. CASE est[D] # "STARTED"
    BY <1>0, <1>2, <1>8, <1>9, StoppedKeeps, Zenon
  <1>10. CASE est[D] = "STARTED"
    <2>1. \A f, e : IsNext(f, e) <=> f = "channel.flushDone" /\ e = V
      BY <1>1, Zenon DEF IsNext
    <2>2. IsNext("channel.flushDone", V) /\ Playing /\ ~Answered
      BY <1>10, <2>1, SMT DEF Playing, Answered
    <2>3. /\ Calls("mboxCb", None) /\ ~Flushing /\ ~Waits("channelFlushed", D)
      BY <1>0, <2>2, Zenon DEF FlushInv, VdecInv, TimerInv
    <2>4. /\ ~Calls("flushed", D) /\ \A k : ~LoopAt(k)
          /\ \A i \in DOMAIN agenda : agenda[i].f \notin {"flushAt", "flushed"}
      BY <1>0, <2>3, Exclusive, Zenon
    <2>5. /\ \A f, e : Calls(f, e) <=> IsNext(f, e) \/ Waits(f, e)
          /\ \A k : LoopWaits(k) => LoopAt(k)
      BY <1>0, Line, Zenon
    <2>6. \A f, e : Waits(f, e) => f \notin Immediate /\ ~(e = V /\ f \in {"channel.flush", "completeStop"})
      BY <1>0, Behind, Zenon
    <2>7. ~NotBegun
      BY <2>1, <2>4, SMT DEF NotBegun
    <2>8. /\ mFlushPending[V] => mRunning /\ ~mTimer /\ dmxOut = <<V>> /\ mChannelsFlushing = 1
          /\ ~mFlushPending[V] => mChannelsFlushing = 0 /\ (mTimer <=> mRunning)
      BY <1>0, <2>2, <2>4, <2>7, SMT DEF FlushInv, TimerInv
    <2>9. CASE mFlushPending[V]
      <3>1. Then(<<x>>)
        <4>1. link[V] = D /\ D # None
          BY <2>8, <2>9, DecoderLinked, Distinct, Zenon
        <4>. QED
          BY <1>6, <2>9, <4>1, Zenon
      <3>2. /\ \A f, e : Calls(f, e)' <=> (x.f = f /\ x.e = e) \/ Waits(f, e)
            /\ \A f, e : Waits(f, e)' <=> Waits(f, e)
            /\ \A f, e : IsNext(f, e)' <=> x.f = f /\ x.e = e
            /\ \A k : LoopAt(k)' <=> (x.f = "flushAt" /\ x.i = k) \/ LoopWaits(k)
            /\ \A i \in DOMAIN agenda' : \/ agenda'[i] = x
                                         \/ \E j \in DOMAIN agenda : j # 1 /\ agenda'[i] = agenda[j]
        BY <1>0, <1>1, <1>5, <3>1, LineOne
      <3>3. /\ Calls("mboxCb", None)' /\ ~Waits("channelFlushed", D)' /\ ~LoopAt(1)'
            /\ \A f, e : f # "onChannelFlushed" => ~IsNext(f, e)'
            /\ IsNext("onChannelFlushed", D)'
            /\ Calls("onChannelTeardown", V)' => Calls("onChannelTeardown", V)
        BY <1>5, <2>1, <2>3, <2>4, <2>5, <3>2, SMT
      <3>4. ~NotBegun' /\ ~Asks' /\ Answered'
        BY <3>3, SMT DEF NotBegun, Asks, Answered
      <3>5. mRunning' /\ ~mTimer' /\ mChannelsFlushing' = 1 /\ ~mFlushPending'[V] /\ ~Flushing'
        BY <1>2, <1>4, <2>3, <2>8, <2>9, Zenon DEF Flushing
      <3>6. BeginInv' /\ TimerInv'
        BY <3>3, <3>4, <3>5, SMT DEF BeginInv, TimerInv
      <3>7. LoopInv'
        <4>1. \A i \in DOMAIN agenda' : agenda'[i].f \notin {"flushAt", "flushed"}
          BY <1>5, <2>4, <3>2, SMT
        <4>. QED
          BY <4>1, SMT DEF LoopInv
      <3>8. Playing' /\ ~IsNext("channel.flushDone", V)'
        BY <1>2, <1>10, <3>3, SMT DEF Playing
      <3>. QED
        BY <1>0, <1>2, <1>8, <2>2, <2>3, <3>3, <3>6, <3>7, <3>8, PlayingKeeps, Zenon
    <2>10. CASE ~mFlushPending[V]
      <3>1. Return
        BY <1>6, <2>10
      <3>2. /\ \A f, e : Calls(f, e)' <=> Waits(f, e)
            /\ \A f, e : Waits(f, e)' => Waits(f, e)
            /\ \A f, e : IsNext(f, e)' => Waits(f, e)
            /\ \A k : LoopAt(k)' <=> LoopWaits(k)
            /\ \A i \in DOMAIN agenda' : \E j \in DOMAIN agenda : j # 1 /\ agenda'[i] = agenda[j]
        BY <1>0, <1>1, <3>1, LineNone, Zenon
      <3>3. /\ ~Waits("onChannelFlush", V) /\ ~Waits("flush", V) /\ ~Waits("flush", D)
            /\ ~Waits("channel.flush", V) /\ ~Waits("onChannelFlushed", D)
            /\ ~Waits("channel.flushDone", V)
        BY <2>6, SMT DEF Immediate
      <3>4. ~NotBegun' /\ ~Asks' /\ ~Answered'
        BY <2>3, <2>4, <2>5, <3>2, <3>3, Zenon DEF NotBegun, Asks, Answered
      <3>5. /\ mChannelsFlushing' = 0 /\ ~mFlushPending'[V] /\ (mTimer' <=> mRunning')
            /\ ~Flushing'
        BY <1>2, <1>4, <2>3, <2>8, <2>10, Zenon DEF Flushing
      <3>6. /\ Calls("mboxCb", None)' /\ ~Waits("channelFlushed", D)'
            /\ Calls("onChannelTeardown", V)' => Calls("onChannelTeardown", V)
            /\ ~IsNext("channel.flushDone", V)' /\ ~IsNext("channel.flush", V)'
        <4>1. ~IsNext("mboxCb", None)
          BY <2>1, SMT
        <4>. QED
          BY <2>3, <2>5, <3>2, <3>3, <4>1, Zenon
      <3>7. BeginInv' /\ TimerInv'
        BY <3>4, <3>5, <3>6, SMT DEF BeginInv, TimerInv
      <3>8. LoopInv'
        <4>1. \A i \in DOMAIN agenda' : agenda'[i].f \notin {"flushAt", "flushed"}
          BY <2>4, <3>2, SMT
        <4>. QED
          BY <4>1, SMT DEF LoopInv
      <3>9. Playing'
        BY <1>2, <1>10, SMT DEF Playing
      <3>. QED
        BY <1>0, <1>2, <1>8, <2>2, <2>3, <3>6, <3>7, <3>8, <3>9, PlayingKeeps, Zenon
    <2>. QED
      BY <2>9, <2>10
  <1>. QED
    BY <1>9, <1>10

\* A sink is flushed.
LEMMA SinkFlushDoneFlush ==
  ASSUME InOrder, NEW s \in Sinks, SinkFlushDone(s)
  PROVE  FlushInv'
  <1>0. /\ TypeOK /\ OrderInv /\ FlushInv /\ DownInv /\ UpInv /\ agenda \in Seq(CallType)
        /\ s \in SinkElements /\ s # V /\ s # D
    BY InOrderParts, Distinct, Zenon
  <1>1. /\ agenda # <<>> /\ 1 \in DOMAIN agenda /\ agenda[1].f = "flushDone" /\ agenda[1].e = s
    BY <1>0, Running, Zenon DEF SinkFlushDone
  <1>2. UNCHANGED <<link, dec, vdec, mMbox, est, dmxMedia, dmxOut, mChannelsFlushing,
                    mRunning, mTimer, mState, mFlushPending>>
    BY Zenon DEF SinkFlushDone, otherThanSinks, dmxVars, sessionVars, chanVars
  <1>3. sink \in [Sinks -> SinkType]
    BY <1>0, Types
  <1> DEFINE x == Call("channel.flushDone", s)
             y == Call("completeStop", s)
  <1>4. x \in CallType /\ x.f = "channel.flushDone" /\ x.e = s
    BY <1>0, TypedOfChannel, SMT
  <1>5. y \in CallType /\ y.f = "completeStop" /\ y.e = s
    BY TypedOfSink, SMT
  <1>6. \/ /\ Then(<<x, y>>)
           /\ sink' = [sink EXCEPT ![s].mIsFlushed = TRUE, ![s].mInputChannelFlushPending = FALSE]
        \/ Then(<<y>>) /\ UNCHANGED sink
    BY Zenon DEF SinkFlushDone
  <1> HIDE DEF x, y
  <1>7. \A t \in Sinks : sink[t].mIsFlushed => sink'[t].mIsFlushed
    <2>1. CASE UNCHANGED sink
      BY <2>1
    <2>2. CASE sink' = [sink EXCEPT ![s].mIsFlushed = TRUE, ![s].mInputChannelFlushPending = FALSE]
      BY <1>3, <2>2, SMT DEF SinkType
    <2>. QED
      BY <1>6, <2>1, <2>2
  <1>8. SameUp
    <2>1. Low(agenda[1]) /\ Low(x) /\ Low(y)
      BY <1>0, <1>1, <1>4, <1>5, Distinct, SMT DEF Low, UpNext, UpKey
    <2>. QED
      BY <1>0, <1>1, <1>4, <1>5, <1>6, <2>1, SideOne, SideTwo, Zenon
  <1>9. \A f, e : Calls(f, e) <=> IsNext(f, e) \/ Waits(f, e)
    BY <1>0, Line
  <1>10. \A f, e : IsNext(f, e) <=> f = "flushDone" /\ e = s
    BY <1>1, Zenon DEF IsNext
  <1>11. /\ \A f, e : (IsNext(f, e)' => \/ f = "completeStop" /\ e = s
                                        \/ /\ f = "channel.flushDone" /\ e = s
                                           /\ sink'[s].mIsFlushed)
         /\ \A f, e : f \in {"channel.flush", "vdec_flush"} => (Calls(f, e)' <=> Calls(f, e))
    <2>1. CASE Then(<<y>>)
      <3>1. /\ \A f, e : Calls(f, e)' <=> (y.f = f /\ y.e = e) \/ Waits(f, e)
            /\ \A f, e : IsNext(f, e)' <=> y.f = f /\ y.e = e
        BY <1>0, <1>1, <1>5, <2>1, LineOne, Zenon
      <3>. QED
        BY <1>5, <1>9, <1>10, <3>1, SMT
    <2>2. CASE ~Then(<<y>>)
      <3>0. Then(<<x, y>>) /\ sink' = [sink EXCEPT ![s].mIsFlushed = TRUE, ![s].mInputChannelFlushPending = FALSE]
        BY <1>6, <2>2
      <3>1. /\ \A f, e : Calls(f, e)' <=> (x.f = f /\ x.e = e) \/ (y.f = f /\ y.e = e) \/ Waits(f, e)
            /\ \A f, e : Waits(f, e)' <=> (y.f = f /\ y.e = e) \/ Waits(f, e)
            /\ \A f, e : IsNext(f, e)' <=> x.f = f /\ x.e = e
            /\ \A k : LoopAt(k)' <=> \/ x.f = "flushAt" /\ x.i = k
                                     \/ y.f = "flushAt" /\ y.i = k
                                     \/ LoopWaits(k)
        BY <1>0, <1>1, <1>4, <1>5, <3>0, LineTwo
      <3>2. sink'[s].mIsFlushed
        BY <1>3, <3>0, SMT DEF SinkType
      <3>3. \A f, e : IsNext(f, e)' => f = "channel.flushDone" /\ e = s
        BY <1>4, <3>1, Zenon
      <3>4. \A f, e : f \in {"channel.flush", "vdec_flush"} => (Calls(f, e)' <=> Calls(f, e))
        BY <1>4, <1>5, <1>9, <1>10, <3>1, SMT
      <3>. QED
        BY <3>2, <3>3, <3>4, Zenon
    <2>. QED
      BY <2>1, <2>2
  <1>12. /\ ~IsNext("resync", V)' /\ ~IsNext("flush", V)' /\ ~IsNext("flush", V)
         /\ ~IsNext("completeFlush", V)' /\ ~IsNext("onChannelFlushed", V)'
         /\ ~IsNext("channel.flushDone", V)'
         /\ \A t \in Sinks : IsNext("channel.flushDone", t)' => sink'[t].mIsFlushed
         /\ \A t \in Sinks : Calls("channel.flush", t)' <=> Calls("channel.flush", t)
         /\ Calls("vdec_flush", V)' <=> Calls("vdec_flush", V)
    BY <1>0, <1>10, <1>11, SMT
  <1>13. \A m : Mail(m)' <=> Mail(m)
    BY <1>2, MailSame
  <1>14. (PartPending' => PartPending) /\ (Told' => Told)
    BY <1>2, <1>12, <1>13, Zenon DEF PartPending, Told
  <1>15. DownInv'
    <2>0. NoResync /\ OutputCbInv /\ EmptyInv /\ OnItsWay /\ SinkAnswer /\ AskedInv
      BY <1>0, Zenon DEF DownInv
    <2>1. NoResync' /\ SinkAnswer'
      BY <2>0, <1>12, <1>13, Zenon DEF NoResync, SinkAnswer
    <2>2. OutputCbInv'
      BY <2>0, <1>2, Zenon DEF OutputCbInv, Decoding, Flushing
    <2>3. EmptyInv'
      BY <2>0, <1>2, <1>7, Zenon DEF EmptyInv, Decoding
    <2>4. OnItsWay'
      BY <2>0, <1>2, <1>7, <1>12, Zenon DEF OnItsWay, Decoding, Flushing
    <2>5. AskedInv'
      BY <2>0, <1>2, <1>12, <1>14, Zenon DEF AskedInv, Decoding, Flushing
    <2>. QED
      BY <2>1, <2>2, <2>3, <2>4, <2>5, Zenon DEF DownInv
  <1>16. CASE est[D] # "STARTED"
    BY <1>0, <1>2, <1>15, <1>16, UpStopped, UpOutputs, FlushInvParts, Zenon
         DEF FlushInv, DownInv, UpInv
  <1>17. CASE est[D] = "STARTED"
    <2>0. QuietInv /\ VdecInv /\ BeginInv /\ Playing /\ Playing'
      BY <1>0, <1>2, <1>17, Zenon DEF UpInv, Playing
    <2>1. UpCalm
      BY <1>2, <1>8, <1>17, Zenon DEF UpCalm, Flushing
    <2>2. /\ NotBegun' <=> NotBegun
          /\ Asks' => Asks
          /\ Calls("mboxCb", None)' <=> Calls("mboxCb", None)
      BY <1>0, <1>12, <2>1, UpKeeps, Zenon DEF Asks
    <2>3. QuietInv'
      BY <2>0, <2>2, <1>2, <1>14, Zenon DEF QuietInv, Flushing
    <2>4. VdecInv'
      BY <2>0, <1>2, <1>12, Zenon DEF VdecInv
    <2>5. BeginInv'
      BY <2>0, <2>2, <1>2, <1>12, Zenon DEF BeginInv
    <2>. QED
      BY <1>0, <1>15, <2>1, <2>3, <2>4, <2>5, UpRest, Zenon DEF FlushInv, DownInv, UpInv
  <1>. QED
    BY <1>16, <1>17

-----------------------------------------------------------------------------
(* The flush of the decoder.                                               *)

\* After a call that makes none what is next has waited; after one that makes
\* another that one is next.
LEMMA NextNone ==
  ASSUME agenda \in Seq(CallType), agenda # <<>>, OrderInv, Return
  PROVE  /\ \A f, e : f \in Immediate => ~IsNext(f, e)'
         /\ \A f, e : ~(agenda[1].f = f /\ agenda[1].e = e) =>
               ~IsNext(f, e) /\ (Calls(f, e)' <=> Calls(f, e))
         /\ \A f, e : Calls(f, e)' => Waits(f, e)
  <1>1. /\ \A f, e : Calls(f, e)' <=> Waits(f, e)
        /\ \A f, e : IsNext(f, e)' => Waits(f, e)
    BY LineNone, Zenon
  <1>2. \A f, e : Calls(f, e) <=> IsNext(f, e) \/ Waits(f, e)
    BY Line
  <1>3. \A f, e : IsNext(f, e) <=> agenda[1].f = f /\ agenda[1].e = e
    BY Zenon DEF IsNext
  <1>4. \A f, e : Waits(f, e) => f \notin Immediate
    BY Behind, Zenon
  <1>. QED
    BY <1>1, <1>2, <1>3, <1>4, Zenon

\* A call that makes one: the only call at once is the one it makes.
LEMMA NextOne ==
  ASSUME agenda \in Seq(CallType), agenda # <<>>, OrderInv, NEW x \in CallType, Then(<<x>>)
  PROVE  /\ \A f, e : IsNext(f, e)' <=> x.f = f /\ x.e = e
         /\ \A f, e : ~(agenda[1].f = f /\ agenda[1].e = e) /\ ~(x.f = f /\ x.e = e) =>
               ~IsNext(f, e) /\ (Calls(f, e)' <=> Calls(f, e))
         /\ \A f, e : Calls(f, e)' => Waits(f, e) \/ (x.f = f /\ x.e = e)
  <1>1. /\ \A f, e : Calls(f, e)' <=> (x.f = f /\ x.e = e) \/ Waits(f, e)
        /\ \A f, e : IsNext(f, e)' <=> x.f = f /\ x.e = e
    BY LineOne, Zenon
  <1>2. \A f, e : Calls(f, e) <=> IsNext(f, e) \/ Waits(f, e)
    BY Line
  <1>3. \A f, e : IsNext(f, e) <=> agenda[1].f = f /\ agenda[1].e = e
    BY Zenon DEF IsNext
  <1>. QED
    BY <1>1, <1>2, <1>3, Zenon

\* Nothing is asked of a decoder that does not run.
LEMMA DownStopped ==
  ASSUME ~Decoding', NoResync', vdec'.cb # "output"
  PROVE  DownInv'
  BY Zenon DEF DownInv, OutputCbInv, EmptyInv, OnItsWay, SinkAnswer, AskedInv

\* A step that leaves the demuxer alone, whether it plays or not.
LEMMA UpEither ==
  ASSUME FlushInv, UNCHANGED dmxOut, DownInv', est'[D] = est[D],
         Playing => UpCalm /\ QuietInv' /\ VdecInv' /\ BeginInv'
  PROVE  FlushInv'
  <1>1. CASE est[D] # "STARTED"
    <2>1. UpInv'
      BY <1>1, UpOutputs, UpStopped, Zenon
    <2>. QED
      BY <2>1, Zenon DEF FlushInv, DownInv, UpInv
  <1>2. CASE est[D] = "STARTED"
    <2>1. UpInv /\ Playing
      BY <1>2, FlushInvParts, Zenon DEF Playing
    <2>2. UpInv'
      BY <2>1, UpRest, Zenon
    <2>. QED
      BY <2>2, Zenon DEF FlushInv, DownInv, UpInv
  <1>. QED
    BY <1>1, <1>2

-----------------------------------------------------------------------------
\* The decoder is told to stop.
LEMMA DecStopFlush ==
  ASSUME InOrder, DecStop
  PROVE  FlushInv'
  <1>0. /\ TypeOK /\ OrderInv /\ FlushInv /\ DownInv /\ UpInv /\ agenda \in Seq(CallType)
        /\ (LoopRuns => vdec.cb = "none")
    BY InOrderParts, Zenon
  <1>1. /\ agenda # <<>> /\ 1 \in DOMAIN agenda /\ agenda[1].f = "onChannelTeardown"
        /\ agenda[1].e = V /\ LoopRuns
    BY <1>0, Running, Zenon DEF DecStop, Runs
  <1>2. UNCHANGED <<vdec, mMbox, dmxOut>> /\ est \in [Elements -> ElementStates]
    BY <1>0, Types, Zenon DEF DecStop, otherThanDec, dmxVars
  <1> DEFINE x == Call("flush", V)
  <1>3. x \in CallType /\ x.f = "flush" /\ x.e = V
    BY TypedOfV, Zenon
  <1>4. \/ Then(<<x>>) /\ est' = [est EXCEPT ![V] = "STOPPING"]
        \/ Return /\ est' = est /\ est[V] # "STARTED"
    BY Zenon DEF DecStop
  <1> HIDE DEF x
  <1>5. est'[D] = est[D] /\ est'[V] # "STARTED"
    <2>1. CASE est' = est /\ est[V] # "STARTED"
      BY <2>1
    <2>2. CASE est' = [est EXCEPT ![V] = "STOPPING"]
      BY <1>2, <2>2, Distinct, SMT
    <2>. QED
      BY <1>4, <2>1, <2>2
  <1>6. ~Playing
    <2>1. Calls("onChannelTeardown", V)
      BY <1>1, SMT DEF Calls
    <2>. QED
      BY <1>0, <2>1, Zenon DEF FlushInv, OutputInv
  <1>7. ~IsNext("resync", V)'
    <2>1. CASE Return
      BY <1>0, <1>1, <2>1, NextNone, SMT DEF Immediate
    <2>2. CASE Then(<<x>>)
      <3>1. \A f, e : IsNext(f, e)' <=> x.f = f /\ x.e = e
        BY <1>0, <1>1, <1>3, <2>2, NextOne, Zenon
      <3>. QED
        BY <1>3, <3>1, SMT
    <2>. QED
      BY <1>4, <2>1, <2>2
  <1>8. NoResync'
    BY <1>0, <1>2, <1>7, MailSame, Zenon DEF FlushInv, NoResync
  <1>9. vdec'.cb # "output"
    BY <1>0, <1>1, <1>2, SMT
  <1>10. DownInv'
    BY <1>5, <1>8, <1>9, DownStopped, Zenon DEF Decoding
  <1>. QED
    BY <1>0, <1>2, <1>5, <1>6, <1>10, UpEither, Zenon

\* vdec is told to flush.
LEMMA VdecFlushFlush ==
  ASSUME InOrder, VdecFlush
  PROVE  FlushInv'
  <1>0. /\ TypeOK /\ OrderInv /\ FlushInv /\ DownInv /\ UpInv /\ agenda \in Seq(CallType)
        /\ (LoopRuns => vdec.cb = "none")
    BY InOrderParts, Zenon
  <1>1. /\ agenda # <<>> /\ 1 \in DOMAIN agenda /\ agenda[1].f = "vdec_flush"
        /\ agenda[1].e = V /\ LoopRuns /\ Return
    BY <1>0, Running, Zenon DEF VdecFlush, Runs
  <1>2. /\ UNCHANGED <<link, dec, mMbox, sink, est, dmxMedia, dmxOut, mChannelsFlushing,
                       mRunning, mTimer, mState, mFlushPending>>
        /\ vdec' = [vdec EXCEPT !.flushing = TRUE]
    BY Zenon DEF VdecFlush, otherThanDec, dmxVars, sessionVars
  <1>3. vdec'.flushing /\ vdec'.busy = vdec.busy /\ vdec'.cb = "none" /\ vdec.cb = "none"
    BY <1>0, <1>1, <1>2, Types, SMT DEF VdecType
  <1>4. SameUp
    <2>1. Low(agenda[1])
      BY <1>1, Distinct, SMT DEF Low, UpNext, UpKey
    <2>. QED
      BY <1>0, <1>1, <2>1, SideNone, Zenon
  <1>5. /\ \A f, e : f \in Immediate => ~IsNext(f, e)'
        /\ \A f, e : ~(agenda[1].f = f /\ agenda[1].e = e) =>
               ~IsNext(f, e) /\ (Calls(f, e)' <=> Calls(f, e))
        /\ \A f, e : Calls(f, e)' => Waits(f, e)
    BY <1>0, <1>1, NextNone
  <1>6. /\ ~IsNext("resync", V)' /\ ~IsNext("flush", V)' /\ ~IsNext("flush", V)
        /\ ~IsNext("completeFlush", V)' /\ ~IsNext("onChannelFlushed", V)'
        /\ ~IsNext("channel.flushDone", V)'
        /\ \A t \in Sinks : ~IsNext("channel.flushDone", t)'
        /\ \A t \in Sinks : Calls("channel.flush", t)' <=> Calls("channel.flush", t)
    BY <1>1, <1>5, SMT DEF Immediate
  <1>7. ~Calls("vdec_flush", V)'
    <2>1. ~Waits("vdec_flush", V)
      BY <1>0, <1>1, Behind, SMT DEF DownCall
    <2>. QED
      BY <1>5, <2>1, Zenon
  <1>8. Calls("vdec_flush", V)
    BY <1>1, SMT DEF Calls
  <1>9. \A m : Mail(m)' <=> Mail(m)
    BY <1>2, MailSame
  <1>10. PartPending /\ (Told' => Told)
    BY <1>6, <1>8, <1>9, Zenon DEF PartPending, Told
  <1>11. DownInv'
    <2>0. NoResync /\ OutputCbInv /\ EmptyInv /\ OnItsWay /\ SinkAnswer /\ AskedInv
      BY <1>0, Zenon DEF DownInv
    <2>1. NoResync' /\ SinkAnswer'
      BY <2>0, <1>6, <1>9, Zenon DEF NoResync, SinkAnswer
    <2>2. OutputCbInv'
      BY <1>3, SMT DEF OutputCbInv
    <2>3. EmptyInv'
      BY <2>0, <1>2, <1>3, Zenon DEF EmptyInv, Decoding
    <2>4. OnItsWay'
      BY <2>0, <1>2, <1>3, <1>6, Zenon DEF OnItsWay, Decoding, Flushing
    <2>5. AskedInv'
      BY <2>0, <1>2, <1>6, <1>10, Zenon DEF AskedInv, Decoding, Flushing
    <2>. QED
      BY <2>1, <2>2, <2>3, <2>4, <2>5, Zenon DEF DownInv
  <1>12. ASSUME Playing PROVE UpCalm /\ QuietInv' /\ VdecInv' /\ BeginInv'
    <2>0. QuietInv /\ VdecInv /\ BeginInv
      BY <1>0, Zenon DEF UpInv
    <2>1. UpCalm
      BY <1>2, <1>3, <1>4, <1>12, Zenon DEF UpCalm, Flushing, Playing
    <2>2. Flushing /\ dec.mVdecFlushPending /\ ~NotBegun
      BY <2>0, <1>8, <1>10, <1>12, Zenon DEF QuietInv, VdecInv, BeginInv
    <2>3. QuietInv'
      BY <2>2, <1>2, Zenon DEF QuietInv, Flushing
    <2>4. VdecInv'
      BY <2>2, <1>2, <1>6, <1>7, Zenon DEF VdecInv
    <2>5. BeginInv'
      <3>1. ~NotBegun'
        BY <1>0, <2>1, <2>2, UpKeeps, Zenon
      <3>2. ~IsNext("onChannelFlush", V)'
        BY <1>5, SMT DEF Immediate
      <3>3. ~Asks'
        BY <1>6, <3>2, Zenon DEF Asks
      <3>. QED
        BY <3>1, <3>3, Zenon DEF BeginInv
    <2>. QED
      BY <2>1, <2>3, <2>4, <2>5
  <1>. QED
    BY <1>0, <1>2, <1>11, <1>12, UpEither, Zenon

\* An output channel of the decoder is flushed.
LEMMA DecOnChannelFlushedFlush ==
  ASSUME InOrder, DecOnChannelFlushed
  PROVE  FlushInv'
  <1>0. /\ TypeOK /\ OrderInv /\ FlushInv /\ DownInv /\ UpInv /\ agenda \in Seq(CallType)
        /\ (LoopRuns => vdec.cb = "none") /\ mMbox \in Seq(MessageType)
    BY InOrderParts, Types, Zenon
  <1>1. /\ agenda # <<>> /\ 1 \in DOMAIN agenda /\ agenda[1].f = "onChannelFlushed"
        /\ agenda[1].e = V /\ LoopRuns /\ Return /\ vdec.cb = "none"
    BY <1>0, Running, Zenon DEF DecOnChannelFlushed, Runs
  <1>2. /\ UNCHANGED <<link, dec, vdec, sink, est, dmxMedia, dmxOut, mChannelsFlushing,
                       mRunning, mTimer, mState, mFlushPending>>
        /\ Post("COMPLETE_FLUSH", V)
    BY Zenon DEF DecOnChannelFlushed, otherThanDec, dmxVars, sessionVars
  <1>3. \A m : Mail(m)' <=> Mail(m) \/ m = "COMPLETE_FLUSH"
    <2>1. [cmd |-> "COMPLETE_FLUSH", e |-> V] \in MessageType
      BY SMT DEF MessageType
    <2>. QED
      BY <1>0, <1>2, <2>1, MailPosted
  <1>4. SameUp
    <2>1. Low(agenda[1])
      BY <1>1, Distinct, SMT DEF Low, UpNext, UpKey
    <2>. QED
      BY <1>0, <1>1, <2>1, SideNone, Zenon
  <1>5. /\ \A f, e : f \in Immediate => ~IsNext(f, e)'
        /\ \A f, e : ~(agenda[1].f = f /\ agenda[1].e = e) =>
               ~IsNext(f, e) /\ (Calls(f, e)' <=> Calls(f, e))
    BY <1>0, <1>1, NextNone
  <1>6. /\ ~IsNext("resync", V)' /\ ~IsNext("flush", V)' /\ ~IsNext("flush", V)
        /\ ~IsNext("completeFlush", V)' /\ ~IsNext("onChannelFlushed", V)'
        /\ ~IsNext("channel.flushDone", V)' /\ ~IsNext("onChannelFlush", V)'
        /\ \A t \in Sinks : ~IsNext("channel.flushDone", t)'
        /\ \A t \in Sinks : Calls("channel.flush", t)' <=> Calls("channel.flush", t)
        /\ Calls("vdec_flush", V)' <=> Calls("vdec_flush", V)
    BY <1>1, <1>5, SMT DEF Immediate
  <1>7. IsNext("onChannelFlushed", V)
    BY <1>1, SMT DEF IsNext
  <1>8. PartPending
    BY <1>7, Zenon DEF PartPending
  <1>9. DownInv'
    <2>0. NoResync /\ OutputCbInv /\ EmptyInv /\ OnItsWay /\ SinkAnswer /\ AskedInv
      BY <1>0, Zenon DEF DownInv
    <2>1. NoResync' /\ SinkAnswer'
      BY <2>0, <1>3, <1>6, SMT DEF NoResync, SinkAnswer
    <2>2. OutputCbInv'
      BY <1>1, <1>2, SMT DEF OutputCbInv
    <2>3. EmptyInv'
      BY <2>0, <1>2, Zenon DEF EmptyInv, Decoding
    <2>4. OnItsWay'
      BY <2>0, <1>2, <1>6, Zenon DEF OnItsWay, Decoding, Flushing
    <2>5. AskedInv'
      BY <2>0, <1>2, <1>6, <1>8, Zenon DEF AskedInv, Decoding, Flushing
    <2>. QED
      BY <2>1, <2>2, <2>3, <2>4, <2>5, Zenon DEF DownInv
  <1>10. ASSUME Playing PROVE UpCalm /\ QuietInv' /\ VdecInv' /\ BeginInv'
    <2>0. QuietInv /\ VdecInv /\ BeginInv
      BY <1>0, Zenon DEF UpInv
    <2>1. UpCalm
      BY <1>2, <1>4, <1>10, Zenon DEF UpCalm, Flushing, Playing
    <2>2. Flushing
      BY <2>0, <1>8, <1>10, Zenon DEF QuietInv
    <2>3. QuietInv'
      BY <2>2, <1>2, Zenon DEF QuietInv, Flushing
    <2>4. VdecInv'
      BY <2>0, <1>2, <1>6, <1>10, Zenon DEF VdecInv
    <2>5. BeginInv'
      <3>1. (NotBegun' <=> NotBegun) /\ ~Asks'
        BY <1>0, <1>6, <2>1, UpKeeps, Zenon DEF Asks
      <3>. QED
        BY <2>0, <3>1, <1>2, <1>6, <1>10, Zenon DEF BeginInv
    <2>. QED
      BY <2>1, <2>3, <2>4, <2>5
  <1>. QED
    BY <1>0, <1>2, <1>9, <1>10, UpEither, Zenon

\* A resync does not happen.
LEMMA DecResyncFlush ==
  ASSUME InOrder, DecResync
  PROVE  FlushInv'
  <1>1. IsNext("resync", V)
    BY InOrderParts, Running, Zenon DEF DecResync, IsNext
  <1>. QED
    BY <1>1, InOrderParts, Zenon DEF FlushInv, NoResync

\* The decoder is asked to flush.
LEMMA DecOnChannelFlushFlush ==
  ASSUME InOrder, DecOnChannelFlush
  PROVE  FlushInv'
  <1>0. /\ TypeOK /\ OrderInv /\ FlushInv /\ DownInv /\ UpInv /\ agenda \in Seq(CallType)
        /\ (LoopRuns => vdec.cb = "none")
    BY InOrderParts, Zenon
  <1>1. /\ agenda # <<>> /\ 1 \in DOMAIN agenda /\ agenda[1].f = "onChannelFlush"
        /\ agenda[1].e = V /\ LoopRuns /\ vdec.cb = "none"
    BY <1>0, Running, Zenon DEF DecOnChannelFlush, Runs
  <1>2. /\ UNCHANGED <<link, vdec, mMbox, sink, est, dmxMedia, dmxOut, mChannelsFlushing,
                       mRunning, mTimer, mState, mFlushPending>>
        /\ dec' = [dec EXCEPT !.mInputChannelFlushPending = TRUE]
    BY Zenon DEF DecOnChannelFlush, otherThanDec, dmxVars, sessionVars
  <1>3. /\ dec'.mIsFlushed = dec.mIsFlushed /\ dec'.mVdecFlushPending = dec.mVdecFlushPending
        /\ Flushing'
    BY <1>0, <1>2, Types, SMT DEF DecType, Flushing
  <1> DEFINE x == Call("flush", V)
  <1>4. x \in CallType /\ x.f = "flush" /\ x.e = V /\ Then(<<x>>)
    BY TypedOfV, Zenon DEF DecOnChannelFlush
  <1> HIDE DEF x
  <1>5. /\ \A f, e : IsNext(f, e)' <=> x.f = f /\ x.e = e
        /\ \A f, e : ~(agenda[1].f = f /\ agenda[1].e = e) /\ ~(x.f = f /\ x.e = e) =>
               ~IsNext(f, e) /\ (Calls(f, e)' <=> Calls(f, e))
    BY <1>0, <1>1, <1>4, NextOne
  <1>6. IsNext("flush", V)' /\ \A f, e : IsNext(f, e)' => f = "flush" /\ e = V
    BY <1>4, <1>5, SMT
  <1>7. \A m : Mail(m)' <=> Mail(m)
    BY <1>2, MailSame
  <1>8. DownInv'
    <2>0. NoResync /\ OutputCbInv /\ EmptyInv /\ OnItsWay /\ SinkAnswer /\ AskedInv
      BY <1>0, Zenon DEF DownInv
    <2>1. NoResync' /\ SinkAnswer'
      BY <2>0, <1>6, <1>7, SMT DEF NoResync, SinkAnswer
    <2>2. OutputCbInv'
      BY <1>1, <1>2, SMT DEF OutputCbInv
    <2>3. EmptyInv'
      BY <2>0, <1>2, <1>3, Zenon DEF EmptyInv, Decoding
    <2>4. OnItsWay' /\ AskedInv'
      BY <1>3, <1>6, Zenon DEF OnItsWay, AskedInv
    <2>. QED
      BY <2>1, <2>2, <2>3, <2>4, Zenon DEF DownInv
  <1>9. CASE est[D] # "STARTED"
    BY <1>0, <1>2, <1>8, <1>9, UpStopped, UpOutputs, FlushInvParts, Zenon
         DEF FlushInv, DownInv, UpInv
  <1>10. CASE est[D] = "STARTED"
    <2>1. \A f, e : IsNext(f, e) <=> f = "onChannelFlush" /\ e = V
      BY <1>1, Zenon DEF IsNext
    <2>2. Asks /\ Playing /\ Playing' /\ ~Answered
      BY <1>2, <1>10, <2>1, SMT DEF Asks, Playing, Answered
    <2>3. /\ dmxOut = <<V>> /\ ~dec.mIsFlushed /\ ~vdec.flushing /\ ~dec.mVdecFlushPending
          /\ ~Calls("vdec_flush", V) /\ mFlushPending[V]
      BY <1>0, <2>2, Zenon DEF FlushInv, BeginInv
    <2>4. /\ mRunning /\ ~mTimer /\ ~NotBegun /\ ~Waits("channelFlushed", D)
          /\ mChannelsFlushing = IF Calls("flushed", D) THEN 0 ELSE 1
      BY <1>0, <2>2, <2>3, Zenon DEF FlushInv, TimerInv
    <2>5. /\ \A f, e : Waits(f, e)' <=> Waits(f, e)
          /\ \A k : LoopAt(k)' <=> (x.f = "flushAt" /\ x.i = k) \/ LoopWaits(k)
          /\ \A i \in DOMAIN agenda' : \/ agenda'[i] = x
                                       \/ \E j \in DOMAIN agenda : j # 1 /\ agenda'[i] = agenda[j]
      BY <1>0, <1>1, <1>4, LineOne, Zenon
    <2>6. \A k : LoopWaits(k) => LoopAt(k)
      BY <1>0, Line, Zenon
    <2>7. /\ ~LoopAt(1)' /\ ~Waits("channelFlushed", D)'
          /\ Calls("vdec_flush", V)' <=> Calls("vdec_flush", V)
          /\ Calls("flushed", D)' <=> Calls("flushed", D)
          /\ Calls("mboxCb", None)' <=> Calls("mboxCb", None)
          /\ Calls("onChannelTeardown", V)' <=> Calls("onChannelTeardown", V)
      BY <1>1, <1>4, <1>5, <2>4, <2>5, <2>6, SMT DEF NotBegun
    <2>8. ~NotBegun' /\ ~Answered'
      BY <1>6, <2>7, Distinct, SMT DEF NotBegun, Answered
    <2>9. OutputInv'
      BY <1>0, <1>2, <2>2, <2>7, Zenon DEF FlushInv, OutputInv, Decoding
    <2>10. QuietInv'
      BY <1>3, Zenon DEF QuietInv
    <2>11. VdecInv'
      BY <1>2, <1>6, <2>3, <2>7, SMT DEF VdecInv
    <2>12. BeginInv'
      BY <1>2, <1>3, <2>3, <2>7, Zenon DEF BeginInv
    <2>13. TimerInv'
      BY <1>2, <1>6, <2>3, <2>4, <2>7, <2>8, SMT DEF TimerInv
    <2>14. LoopInv'
      <3>1. ASSUME NEW i \in DOMAIN agenda'
            PROVE  /\ agenda'[i].f \in {"flushAt", "flushed"} =>
                          agenda'[i].n = 1 /\ agenda'[i].i \in {1, 2}
                   /\ agenda'[i].f = "flushed" => agenda'[i].i = 1
        <4>1. CASE agenda'[i] = x
          BY <1>4, <4>1, SMT
        <4>2. CASE \E j \in DOMAIN agenda : agenda'[i] = agenda[j]
          BY <1>0, <2>2, <4>2, Zenon DEF FlushInv, LoopInv
        <4>. QED
          BY <2>5, <3>1, <4>1, <4>2, Zenon
      <3>. QED
        BY <1>2, <2>3, <3>1, Zenon DEF LoopInv
    <2>. QED
      BY <1>8, <2>9, <2>10, <2>11, <2>12, <2>13, <2>14, Zenon DEF FlushInv, DownInv
  <1>. QED
    BY <1>9, <1>10

\* The decoder flushes: itself and its output channels, unless it is flushed.
LEMMA DecFlushFlush ==
  ASSUME InOrder, DecFlush
  PROVE  FlushInv'
  <1>0. /\ TypeOK /\ OrderInv /\ FlushInv /\ DownInv /\ UpInv /\ agenda \in Seq(CallType)
        /\ (LoopRuns => vdec.cb = "none") /\ LinkInv
    BY InOrderParts, Zenon
  <1>1. /\ agenda # <<>> /\ 1 \in DOMAIN agenda /\ agenda[1].f = "flush"
        /\ agenda[1].e = V /\ LoopRuns /\ vdec.cb = "none"
    BY <1>0, Running, Zenon DEF DecFlush, Runs
  <1>2. UNCHANGED <<link, vdec, mMbox, sink, est, dmxMedia, dmxOut, mChannelsFlushing,
                    mRunning, mTimer, mState, mFlushPending>>
    BY Zenon DEF DecFlush, otherThanDec, dmxVars, sessionVars
  <1>3. IsNext("flush", V) /\ Asks
    BY <1>1, Zenon DEF IsNext, Asks
  <1>4. NoResync /\ OutputCbInv /\ EmptyInv /\ OnItsWay /\ SinkAnswer /\ AskedInv
    BY <1>0, Zenon DEF DownInv
  <1>5. OutputInv /\ QuietInv /\ VdecInv /\ BeginInv /\ TimerInv
    BY <1>0, Zenon DEF UpInv
  <1>6. \A m : Mail(m)' <=> Mail(m)
    BY <1>2, MailSame
  <1>7. CASE dec.mIsFlushed
    <2> DEFINE x == Call("completeFlush", V)
    <2>1. x \in CallType /\ x.f = "completeFlush" /\ x.e = V
      BY TypedOfV, Zenon
    <2>2. Then(<<x>>) /\ UNCHANGED dec
      BY <1>7, Zenon DEF DecFlush
    <2> HIDE DEF x
    <2>3. \A f, e : IsNext(f, e)' => f = "completeFlush" /\ e = V
      BY <1>0, <1>1, <2>1, <2>2, NextOne, Zenon
    <2>4. ~Playing
      BY <1>3, <1>5, <1>7, Zenon DEF BeginInv
    <2>5. /\ ~IsNext("resync", V)' /\ ~IsNext("flush", V)'
          /\ \A t \in Sinks : ~IsNext("channel.flushDone", t)'
      BY <2>3, SMT
    <2>6. NoResync' /\ SinkAnswer'
      BY <1>4, <1>6, <2>5, Zenon DEF NoResync, SinkAnswer
    <2>7. OutputCbInv'
      BY <1>1, <1>2, SMT DEF OutputCbInv
    <2>8. EmptyInv' /\ OnItsWay' /\ AskedInv'
      BY <1>2, <1>4, <1>7, <2>2, <2>5, Zenon DEF EmptyInv, OnItsWay, AskedInv, Decoding
    <2>9. DownInv'
      BY <2>6, <2>7, <2>8, Zenon DEF DownInv
    <2>. QED
      BY <1>0, <1>2, <2>4, <2>9, UpEither, Zenon
  <1>8. CASE ~dec.mIsFlushed
    <2> DEFINE y == Call("vdec_flush", V)
               q == [i \in DOMAIN dec.out |-> Call("channel.flush", dec.out[i])] \o <<y>>
               n == Len(dec.out) + 1
    <2>1. y \in CallType /\ y.f = "vdec_flush" /\ y.e = V
      BY TypedOfV, Zenon
    <2>2. Then(q) /\ dec' = [dec EXCEPT !.mVdecFlushPending = TRUE]
      BY <1>8, Zenon DEF DecFlush
    <2>3. dec.out \in Seq(Sinks) /\ dec \in DecType
      BY <1>0, Types, SMT DEF DecType
    <2>4. /\ dec'.mVdecFlushPending /\ dec'.mIsFlushed = dec.mIsFlushed
          /\ dec'.mInputChannelFlushPending = dec.mInputChannelFlushPending
      BY <2>2, <2>3, SMT DEF DecType
    <2> HIDE DEF y
    <2>5. /\ q \in Seq(CallType) /\ 1 \in DOMAIN q
          /\ n \in DOMAIN q /\ q[n] = y
          /\ \A i \in DOMAIN q : i = n \/ i \in DOMAIN dec.out
          /\ \A i \in DOMAIN dec.out : /\ i \in DOMAIN q /\ q[i].f = "channel.flush"
                                       /\ q[i].e = dec.out[i] /\ dec.out[i] \in Sinks
      BY <2>1, <2>3, CallAllAnd, ZenonT(60)
    <2> HIDE DEF q, n
    <2>6. \A i \in DOMAIN q : \/ q[i].f = "vdec_flush" /\ q[i].e = V
                              \/ q[i].f = "channel.flush" /\ q[i].e \in Sinks
      BY <2>1, <2>5, Zenon
    <2>7. /\ agenda' \in Seq(CallType)
          /\ \A i \in DOMAIN q : i \in DOMAIN agenda' /\ agenda'[i] = q[i]
      BY <1>0, <1>1, <2>2, <2>5, Places, Zenon
    <2>8. \A f, e : IsNext(f, e)' => f \in {"vdec_flush", "channel.flush"} /\ (e = V => f = "vdec_flush")
      <3>1. agenda'[1] = q[1]
        BY <2>5, <2>7, Zenon
      <3>2. \/ q[1].f = "vdec_flush" /\ q[1].e = V
            \/ q[1].f = "channel.flush" /\ q[1].e \in Sinks
        BY <2>5, <2>6, Zenon
      <3>3. \A f, e : IsNext(f, e)' => q[1].f = f /\ q[1].e = e
        BY <3>1, Zenon DEF IsNext
      <3>. QED
        BY <3>2, <3>3, Distinct, SMT
    <2>9. /\ ~IsNext("resync", V)' /\ ~IsNext("flush", V)' /\ ~IsNext("onChannelFlush", V)'
          /\ ~IsNext("completeFlush", V)' /\ ~IsNext("channel.flushDone", V)'
          /\ \A t \in Sinks : ~IsNext("channel.flushDone", t)'
      BY <2>8, SMT
    <2>10. \A s \in Sinks : link[s] = V => Calls("channel.flush", s)'
      <3>1. ASSUME NEW s \in Sinks, link[s] = V
            PROVE  Calls("channel.flush", s)'
        <4>1. Contains(dec.out, s)
          BY <1>0, <3>1, Distinct, Zenon DEF LinkInv
        <4>2. PICK i \in DOMAIN dec.out : dec.out[i] = s
          BY <4>1, SMT DEF Contains
        <4>3. i \in DOMAIN agenda' /\ agenda'[i].f = "channel.flush" /\ agenda'[i].e = s
          BY <2>5, <2>7, <4>2, Zenon
        <4>. QED
          BY <4>3, Zenon DEF Calls
      <3>. QED
        BY <3>1
    <2>11. DownInv'
      <3>1. NoResync' /\ SinkAnswer'
        BY <1>4, <1>6, <2>9, Zenon DEF NoResync, SinkAnswer
      <3>2. OutputCbInv'
        BY <1>1, <1>2, SMT DEF OutputCbInv
      <3>3. EmptyInv'
        BY <1>8, <2>4, Zenon DEF EmptyInv
      <3>4. OnItsWay'
        BY <1>2, <2>4, <2>10, Zenon DEF OnItsWay
      <3>5. AskedInv'
        BY <1>2, <1>3, <1>4, <2>4, <2>9, Zenon DEF AskedInv, Decoding, Flushing
      <3>. QED
        BY <3>1, <3>2, <3>3, <3>4, <3>5, Zenon DEF DownInv
    <2>12. ASSUME Playing PROVE UpCalm /\ QuietInv' /\ VdecInv' /\ BeginInv'
      <3>0. SameUp
        <4>1. Low(agenda[1]) /\ \A i \in DOMAIN q : Low(q[i])
          BY <1>1, <2>6, Distinct, SMT DEF Low, UpNext, UpKey
        <4>. QED
          BY <1>0, <1>1, <2>2, <2>5, <4>1, UpThen, Zenon
      <3>1. UpCalm
        BY <1>2, <2>4, <2>12, <3>0, Zenon DEF UpCalm, Flushing, Playing
      <3>2. /\ dmxOut = <<V>> /\ ~vdec.flushing /\ mFlushPending[V]
        BY <1>3, <1>5, <2>12, Zenon DEF BeginInv
      <3>3. Decoding /\ ~NotBegun
        <4>1. dmxOut # <<>>
          BY <3>2, SMT
        <4>. QED
          BY <1>5, <2>12, <3>2, <4>1, Zenon DEF OutputInv, TimerInv
      <3>4. Flushing
        BY <1>3, <1>4, <3>3, Zenon DEF AskedInv
      <3>5. QuietInv'
        BY <2>4, <3>4, Zenon DEF QuietInv, Flushing
      <3>6. VdecInv'
        BY <1>2, <2>4, <2>9, <3>2, Zenon DEF VdecInv
      <3>7. BeginInv'
        <4>1. ~NotBegun'
          BY <1>0, <3>1, <3>3, UpKeeps, Zenon
        <4>2. ~Asks'
          BY <2>9, Zenon DEF Asks
        <4>. QED
          BY <4>1, <4>2, Zenon DEF BeginInv
      <3>. QED
        BY <3>1, <3>5, <3>6, <3>7
    <2>. QED
      BY <1>0, <1>2, <2>11, <2>12, UpEither, Zenon
  <1>. QED
    BY <1>7, <1>8

\* A flush of the decoder that is not complete, or that nobody can be told of.
LEMMA DecFlushGoesOn ==
  ASSUME InOrder, DecCompleteFlush, UNCHANGED dec, Return \/ Then(<<Call("afterFlush", V)>>)
  PROVE  FlushInv'
  <1>0. /\ TypeOK /\ OrderInv /\ FlushInv /\ DownInv /\ UpInv /\ agenda \in Seq(CallType)
        /\ (LoopRuns => vdec.cb = "none")
    BY InOrderParts, Zenon
  <1>1. /\ agenda # <<>> /\ 1 \in DOMAIN agenda /\ agenda[1].f = "completeFlush"
        /\ agenda[1].e = V /\ LoopRuns /\ vdec.cb = "none"
    BY <1>0, Running, Zenon DEF DecCompleteFlush, Runs
  <1>2. UNCHANGED <<link, dec, vdec, mMbox, sink, est, dmxMedia, dmxOut, mChannelsFlushing,
                    mRunning, mTimer, mState, mFlushPending>>
    BY Zenon DEF DecCompleteFlush, otherThanDec, dmxVars, sessionVars
  <1> DEFINE x == Call("afterFlush", V)
  <1>3. x \in CallType /\ x.f = "afterFlush" /\ x.e = V
    BY TypedOfV, Zenon
  <1>4. Return \/ Then(<<x>>)
    OBVIOUS
  <1> HIDE DEF x
  <1>5. SameUp
    <2>1. Low(agenda[1]) /\ Low(x)
      BY <1>1, <1>3, Distinct, SMT DEF Low, UpNext, UpKey
    <2>. QED
      BY <1>0, <1>1, <1>3, <1>4, <2>1, SideOne, SideNone, Zenon
  <1>6. /\ \A f, e : IsNext(f, e)' => f \notin Immediate \/ f = "afterFlush"
        /\ \A f, e : f \notin {"completeFlush", "afterFlush"} =>
               ~IsNext(f, e) /\ (Calls(f, e)' <=> Calls(f, e))
    <2>1. CASE Return
      BY <1>0, <1>1, <2>1, NextNone, SMT
    <2>2. CASE Then(<<x>>)
      BY <1>0, <1>1, <1>3, <2>2, NextOne, SMT
    <2>. QED
      BY <1>4, <2>1, <2>2
  <1>7. /\ ~IsNext("resync", V)' /\ ~IsNext("flush", V)' /\ ~IsNext("flush", V)
        /\ ~IsNext("completeFlush", V)' /\ ~IsNext("onChannelFlushed", V)'
        /\ ~IsNext("channel.flushDone", V)' /\ ~IsNext("onChannelFlush", V)'
        /\ \A t \in Sinks : ~IsNext("channel.flushDone", t)'
        /\ \A t \in Sinks : Calls("channel.flush", t)' <=> Calls("channel.flush", t)
        /\ Calls("vdec_flush", V)' <=> Calls("vdec_flush", V)
    BY <1>6, SMT DEF Immediate
  <1>8. \A m : Mail(m)' <=> Mail(m)
    BY <1>2, MailSame
  <1>9. (PartPending' => PartPending) /\ (Told' => Told)
    BY <1>2, <1>7, <1>8, Zenon DEF PartPending, Told
  <1>10. DownInv'
    <2>0. NoResync /\ OutputCbInv /\ EmptyInv /\ OnItsWay /\ SinkAnswer /\ AskedInv
      BY <1>0, Zenon DEF DownInv
    <2>1. NoResync' /\ SinkAnswer'
      BY <2>0, <1>7, <1>8, Zenon DEF NoResync, SinkAnswer
    <2>2. OutputCbInv'
      BY <1>1, <1>2, SMT DEF OutputCbInv
    <2>3. EmptyInv'
      BY <2>0, <1>2, Zenon DEF EmptyInv, Decoding
    <2>4. OnItsWay'
      BY <2>0, <1>2, <1>7, Zenon DEF OnItsWay, Decoding, Flushing
    <2>5. AskedInv'
      BY <2>0, <1>2, <1>7, <1>9, Zenon DEF AskedInv, Decoding, Flushing
    <2>. QED
      BY <2>1, <2>2, <2>3, <2>4, <2>5, Zenon DEF DownInv
  <1>11. ASSUME Playing PROVE UpCalm /\ QuietInv' /\ VdecInv' /\ BeginInv'
    <2>0. QuietInv /\ VdecInv /\ BeginInv
      BY <1>0, Zenon DEF UpInv
    <2>1. UpCalm
      BY <1>2, <1>5, <1>11, Zenon DEF UpCalm, Flushing, Playing
    <2>2. /\ NotBegun' <=> NotBegun
          /\ Calls("mboxCb", None)' <=> Calls("mboxCb", None)
          /\ ~Asks'
      BY <1>0, <1>7, <2>1, UpKeeps, Zenon DEF Asks
    <2>3. QuietInv'
      BY <2>0, <2>2, <1>2, <1>9, <1>11, Zenon DEF QuietInv, Flushing
    <2>4. VdecInv'
      BY <2>0, <1>2, <1>7, <1>11, Zenon DEF VdecInv
    <2>5. BeginInv'
      BY <2>0, <2>2, <1>2, <1>7, <1>11, Zenon DEF BeginInv
    <2>. QED
      BY <2>1, <2>3, <2>4, <2>5
  <1>. QED
    BY <1>0, <1>2, <1>10, <1>11, UpEither, Zenon

\* The flush of the decoder is complete: what is asked next is answered.
LEMMA FlushCompleted ==
  ASSUME agenda \in Seq(CallType), agenda # <<>>, OrderInv,
         agenda[1].f = "completeFlush", agenda[1].e = V,
         NEW x \in CallType, NEW y \in CallType, x.f = "channel.flushDone", x.e = V,
         y.f = "afterFlush", y.e = V, Then(<<x, y>>) \/ Then(<<y>>)
  PROVE  /\ \A f, e : IsNext(f, e)' => f \in {"channel.flushDone", "afterFlush"} /\ e = V
         /\ \A f, e : f \notin {"completeFlush", "channel.flushDone", "afterFlush"} =>
                          (Calls(f, e)' <=> Waits(f, e)) /\ ~IsNext(f, e)
         /\ \A f, e : f # "afterFlush" => (Waits(f, e)' <=> Waits(f, e))
         /\ \A k : LoopAt(k)' => LoopWaits(k)
         /\ \A i \in DOMAIN agenda' :
               \/ agenda'[i].f \in {"channel.flushDone", "afterFlush"}
               \/ \E j \in DOMAIN agenda : agenda'[i] = agenda[j]
  <1>1. \A f, e : f # "completeFlush" => ~IsNext(f, e)
    BY Zenon DEF IsNext
  <1>2. CASE Then(<<x, y>>)
    <2>1. /\ \A f, e : Calls(f, e)' <=> (x.f = f /\ x.e = e) \/ (y.f = f /\ y.e = e) \/ Waits(f, e)
          /\ \A f, e : Waits(f, e)' <=> (y.f = f /\ y.e = e) \/ Waits(f, e)
          /\ \A f, e : IsNext(f, e)' <=> x.f = f /\ x.e = e
          /\ \A k : LoopAt(k)' <=> \/ x.f = "flushAt" /\ x.i = k
                                   \/ y.f = "flushAt" /\ y.i = k
                                   \/ LoopWaits(k)
          /\ \A i \in DOMAIN agenda' : \/ agenda'[i] = x \/ agenda'[i] = y
                                       \/ \E j \in DOMAIN agenda : j # 1 /\ agenda'[i] = agenda[j]
      BY <1>2, LineTwo, Zenon
    <2>. QED
      BY <1>1, <2>1, SMT
  <1>3. CASE Then(<<y>>)
    <2>1. /\ \A f, e : Calls(f, e)' <=> (y.f = f /\ y.e = e) \/ Waits(f, e)
          /\ \A f, e : Waits(f, e)' <=> Waits(f, e)
          /\ \A f, e : IsNext(f, e)' <=> y.f = f /\ y.e = e
          /\ \A k : LoopAt(k)' <=> (y.f = "flushAt" /\ y.i = k) \/ LoopWaits(k)
          /\ \A i \in DOMAIN agenda' : \/ agenda'[i] = y
                                       \/ \E j \in DOMAIN agenda : j # 1 /\ agenda'[i] = agenda[j]
      BY <1>3, LineOne, Zenon
    <2>. QED
      BY <1>1, <2>1, SMT
  <1>. QED
    BY <1>2, <1>3

\* The end of a flush in the decoder, with its calls named.
LEMMA FlushListed ==
  ASSUME DecCompleteFlush, ~dec.mVdecFlushPending, ~DecOutputFlushPending, dec.mInputMedia,
         NEW x \in CallType, NEW y \in CallType, x = Call("channel.flushDone", V),
         y = Call("afterFlush", V)
  PROVE  /\ Then(<<x, y>>) \/ Then(<<y>>)
         /\ dec' = [dec EXCEPT !.mIsFlushed = TRUE, !.mInputChannelFlushPending = FALSE]
  <1>1. dec' = [dec EXCEPT !.mIsFlushed = TRUE, !.mInputChannelFlushPending = FALSE]
    BY Zenon DEF DecCompleteFlush
  <1>2. CASE dec.mInputChannelFlushPending
    <2>1. Then(<<x>> \o <<y>>)
      BY <1>2, Zenon DEF DecCompleteFlush
    <2>2. <<x>> \o <<y>> = <<x, y>>
      BY JoinOne
    <2>. QED
      BY <1>1, <2>1, <2>2, Zenon
  <1>3. CASE ~dec.mInputChannelFlushPending
    <2>1. Then(<<>> \o <<y>>)
      BY <1>3, Zenon DEF DecCompleteFlush
    <2>2. <<>> \o <<y>> = <<y>>
      <3>1. <<y>> \in Seq(CallType)
        BY Chains, Zenon
      <3>. QED
        BY <3>1, JoinNone, Zenon
    <2>. QED
      BY <1>1, <2>1, <2>2, Zenon
  <1>. QED
    BY <1>2, <1>3

\* The flush of the decoder is complete: it is flushed, and tells its source.
LEMMA DecFlushEnds ==
  ASSUME InOrder, DecCompleteFlush, ~dec.mVdecFlushPending, ~DecOutputFlushPending,
         dec.mInputMedia
  PROVE  FlushInv'
  <1>0. /\ TypeOK /\ OrderInv /\ FlushInv /\ DownInv /\ UpInv /\ agenda \in Seq(CallType)
        /\ (LoopRuns => vdec.cb = "none") /\ LinkInv
    BY InOrderParts, Zenon
  <1>1. /\ agenda # <<>> /\ 1 \in DOMAIN agenda /\ agenda[1].f = "completeFlush"
        /\ agenda[1].e = V /\ LoopRuns /\ vdec.cb = "none"
    BY <1>0, Running, Zenon DEF DecCompleteFlush, Runs
  <1>2. UNCHANGED <<link, vdec, mMbox, sink, est, dmxMedia, dmxOut, mChannelsFlushing,
                    mRunning, mTimer, mState, mFlushPending>>
    BY Zenon DEF DecCompleteFlush, otherThanDec, dmxVars, sessionVars
  <1> DEFINE x == Call("channel.flushDone", V)
             y == Call("afterFlush", V)
  <1>3. /\ x \in CallType /\ x.f = "channel.flushDone" /\ x.e = V
        /\ y \in CallType /\ y.f = "afterFlush" /\ y.e = V
    <2>1. x \in CallType /\ x.f = "channel.flushDone" /\ x.e = V
      BY TypedOfChannel, Distinct, SMT
    <2>2. y \in CallType /\ y.f = "afterFlush" /\ y.e = V
      BY TypedOfV, Zenon
    <2>. QED
      BY <2>1, <2>2
  <1>4. /\ Then(<<x, y>>) \/ Then(<<y>>)
        /\ dec' = [dec EXCEPT !.mIsFlushed = TRUE, !.mInputChannelFlushPending = FALSE]
    BY <1>3, FlushListed, Zenon
  <1> HIDE DEF x, y
  <1>5. /\ dec'.mIsFlushed /\ ~Flushing' /\ dec'.mVdecFlushPending = dec.mVdecFlushPending
        /\ ~dec'.mVdecFlushPending
    <2>1. dec \in DecType
      BY <1>0, Types
    <2>. QED
      BY <2>1, <1>4, SMT DEF DecType, Flushing
  <1>6. /\ \A f, e : IsNext(f, e)' => f \in {"channel.flushDone", "afterFlush"} /\ e = V
        /\ \A f, e : f \notin {"completeFlush", "channel.flushDone", "afterFlush"} =>
                          (Calls(f, e)' <=> Waits(f, e)) /\ ~IsNext(f, e)
        /\ \A f, e : f # "afterFlush" => (Waits(f, e)' <=> Waits(f, e))
        /\ \A k : LoopAt(k)' => LoopWaits(k)
        /\ \A i \in DOMAIN agenda' :
              \/ agenda'[i].f \in {"channel.flushDone", "afterFlush"}
              \/ \E j \in DOMAIN agenda : agenda'[i] = agenda[j]
    BY <1>0, <1>1, <1>3, <1>4, FlushCompleted, Zenon
  <1>7. /\ ~IsNext("resync", V)' /\ ~IsNext("flush", V)' /\ ~IsNext("onChannelFlush", V)'
        /\ ~IsNext("completeFlush", V)' /\ ~IsNext("onChannelFlushed", V)'
        /\ ~IsNext("channel.flush", V)' /\ ~IsNext("flush", V)
        /\ \A t \in Sinks : ~IsNext("channel.flushDone", t)'
        /\ \A f : ~IsNext(f, D)'
    BY <1>6, Distinct, SMT
  <1>8. /\ \A f, e : Calls(f, e) <=> IsNext(f, e) \/ Waits(f, e)
        /\ \A k : LoopWaits(k) => LoopAt(k)
    BY <1>0, Line, Zenon
  <1>9. \A e : ~Waits("channel.flush", e) /\ ~Waits("vdec_flush", e)
    <2>1. ~DownCall(link, agenda[1])
      BY <1>1, Distinct, SMT DEF DownCall
    <2>. QED
      BY <1>0, <1>1, <2>1, Behind, SMT
  <1>10. \A e : ~Calls("channel.flush", e) /\ ~Calls("vdec_flush", e) /\ ~Calls("channel.flush", e)'
                /\ ~Calls("vdec_flush", e)'
    BY <1>6, <1>8, <1>9, SMT
  <1>11. \A m : Mail(m)' <=> Mail(m)
    BY <1>2, MailSame
  <1>12. IsNext("completeFlush", V) /\ Told
    BY <1>1, Zenon DEF IsNext, Told
  <1>13. \A s \in Sinks : link[s] = V => ~mFlushPending[s]
    <2>1. ASSUME NEW s \in Sinks, link[s] = V, mFlushPending[s]
          PROVE  FALSE
      <3>1. Contains(dec.out, s)
        BY <1>0, <2>1, Distinct, Zenon DEF LinkInv
      <3>2. PICK i \in DOMAIN dec.out : dec.out[i] = s
        BY <3>1, SMT DEF Contains
      <3>. QED
        BY <2>1, <3>2, Zenon DEF DecOutputFlushPending
    <2>. QED
      BY <2>1
  <1>14. NoResync /\ OutputCbInv /\ EmptyInv /\ OnItsWay /\ SinkAnswer /\ AskedInv
    BY <1>0, Zenon DEF DownInv
  <1>15. DownInv'
    <2>1. NoResync' /\ SinkAnswer'
      BY <1>7, <1>11, <1>14, Zenon DEF NoResync, SinkAnswer
    <2>2. OutputCbInv'
      BY <1>1, <1>2, SMT DEF OutputCbInv
    <2>3. EmptyInv'
      <3>1. ASSUME Decoding
            PROVE  ~vdec.busy /\ \A s \in Sinks : link[s] = V => sink[s].mIsFlushed
        <4>1. CASE dec.mIsFlushed
          BY <1>14, <3>1, <4>1, Zenon DEF EmptyInv
        <4>2. CASE ~dec.mIsFlushed
          <5>1. Flushing
            BY <1>12, <1>14, <3>1, <4>2, Zenon DEF AskedInv
          <5>. QED
            BY <1>7, <1>10, <1>13, <1>14, <3>1, <4>2, <5>1, Zenon DEF OnItsWay
        <4>. QED
          BY <4>1, <4>2
      <3>. QED
        BY <1>2, <3>1, Zenon DEF EmptyInv, Decoding
    <2>4. OnItsWay' /\ AskedInv'
      BY <1>5, <1>7, Zenon DEF OnItsWay, AskedInv
    <2>. QED
      BY <2>1, <2>2, <2>3, <2>4, Zenon DEF DownInv
  <1>16. CASE est[D] # "STARTED"
    BY <1>0, <1>2, <1>15, <1>16, UpStopped, UpOutputs, FlushInvParts, Zenon
         DEF FlushInv, DownInv, UpInv
  <1>17. CASE est[D] = "STARTED"
    <2>0. /\ Playing /\ Playing' /\ OutputInv /\ QuietInv /\ VdecInv /\ BeginInv /\ TimerInv /\ LoopInv
      BY <1>0, <1>2, <1>17, Zenon DEF UpInv, Playing
    <2>1. Calls("mboxCb", None) /\ ~vdec.flushing
      BY <1>5, <1>12, <2>0, Zenon DEF VdecInv
    <2>2. /\ ~Calls("flushed", D) /\ \A k : ~LoopAt(k)
          /\ \A i \in DOMAIN agenda : agenda[i].f \notin {"flushAt", "flushed"}
      BY <1>0, <2>1, Exclusive, Zenon
    <2>3. /\ Calls("mboxCb", None)' /\ ~Calls("flushed", D)' /\ (\A k : ~LoopAt(k)')
          /\ Calls("onChannelTeardown", V)' <=> Calls("onChannelTeardown", V)
          /\ Waits("channelFlushed", D)' <=> Waits("channelFlushed", D)
      BY <1>6, <1>8, <2>1, <2>2, SMT
    <2>4. /\ ~NotBegun' /\ ~Answered' /\ ~Asks'
      BY <1>7, <2>3, Zenon DEF NotBegun, Answered, Asks
    <2>5. /\ ~NotBegun /\ ~Answered
      <3>1. \A f : f # "completeFlush" => \A e : ~IsNext(f, e)
        BY <1>1, Zenon DEF IsNext
      <3>. QED
        BY <2>2, <3>1, SMT DEF NotBegun, Answered
    <2>6. OutputInv'
      BY <1>2, <2>0, <2>3, Zenon DEF OutputInv, Decoding
    <2>7. QuietInv'
      <3>1. ~PartPending'
        BY <1>1, <1>2, <1>7, <1>10, <1>13, <2>1, SMT DEF PartPending
      <3>. QED
        BY <1>5, <2>3, <3>1, Zenon DEF QuietInv
    <2>8. VdecInv'
      BY <1>2, <1>7, <1>10, <2>1, <2>3, Zenon DEF VdecInv
    <2>9. BeginInv'
      BY <2>4, Zenon DEF BeginInv
    <2>10. TimerInv'
      BY <1>2, <1>5, <1>7, <2>0, <2>2, <2>3, <2>4, <2>5, Zenon DEF TimerInv
    <2>11. LoopInv'
      <3>1. \A i \in DOMAIN agenda' : agenda'[i].f \notin {"flushAt", "flushed"}
        BY <1>6, <2>2, SMT
      <3>. QED
        BY <3>1, SMT DEF LoopInv
    <2>. QED
      BY <1>15, <2>6, <2>7, <2>8, <2>9, <2>10, <2>11, Zenon DEF FlushInv, DownInv
  <1>. QED
    BY <1>16, <1>17

\* completeFlush() of the decoder.
LEMMA DecCompleteFlushFlush ==
  ASSUME InOrder, DecCompleteFlush
  PROVE  FlushInv'
  <1>1. CASE dec.mVdecFlushPending \/ DecOutputFlushPending
    <2>1. Return /\ UNCHANGED dec
      BY <1>1, Zenon DEF DecCompleteFlush
    <2>. QED
      BY <2>1, DecFlushGoesOn, Zenon
  <1>2. CASE ~dec.mVdecFlushPending /\ ~DecOutputFlushPending /\ ~dec.mInputMedia
    <2>1. Then(<<Call("afterFlush", V)>>) /\ UNCHANGED dec
      BY <1>2, Zenon DEF DecCompleteFlush
    <2>. QED
      BY <2>1, DecFlushGoesOn, Zenon
  <1>3. CASE ~dec.mVdecFlushPending /\ ~DecOutputFlushPending /\ dec.mInputMedia
    BY <1>3, DecFlushEnds, Zenon
  <1>. QED
    BY <1>1, <1>2, <1>3, Zenon

-----------------------------------------------------------------------------
(* The callbacks of vdec.                                                  *)

\* A callback of vdec that begins, or that changes no flag of the sinks.
LEMMA CallbackKeeps ==
  ASSUME InOrder,
         UNCHANGED <<agenda, link, est, dmxMedia, dmxOut, mChannelsFlushing,
                     mRunning, mTimer, mState, mFlushPending>>,
         dec'.mIsFlushed = dec.mIsFlushed,
         dec'.mInputChannelFlushPending = dec.mInputChannelFlushPending,
         dec'.mVdecFlushPending => dec.mVdecFlushPending,
         vdec'.busy => vdec.busy, vdec'.flushing => vdec.flushing,
         Mail("RESYNC")' => Mail("RESYNC"), DownInv',
         Playing /\ ~Flushing => /\ ~PartPending'
                                 /\ Mail("COMPLETE_FLUSH")' => Mail("COMPLETE_FLUSH"),
         Playing /\ Calls("vdec_flush", V) => dec'.mVdecFlushPending,
         Playing /\ vdec'.flushing => dec'.mVdecFlushPending
  PROVE  FlushInv'
  <1>0. /\ TypeOK /\ FlushInv /\ DownInv /\ UpInv
    BY InOrderParts, Zenon
  <1>1. SameUp /\ SameView
    BY SameAgenda, Zenon DEF SameView
  <1>2. /\ \A f, e : Calls(f, e)' <=> Calls(f, e)
        /\ \A f, e : IsNext(f, e)' <=> IsNext(f, e)
    BY LineSame
  <1>3. ASSUME Playing PROVE UpCalm /\ QuietInv' /\ VdecInv' /\ BeginInv'
    <2>0. QuietInv /\ VdecInv /\ BeginInv
      BY <1>0, Zenon DEF UpInv
    <2>1. UpCalm
      BY <1>1, <1>3, Zenon DEF UpCalm, Flushing, Playing
    <2>2. NotBegun' <=> NotBegun
      BY <1>0, <2>1, UpKeeps, Zenon
    <2>3. QuietInv'
      BY <2>0, <1>2, <1>3, Zenon DEF QuietInv, Flushing, Told
    <2>4. VdecInv'
      BY <2>0, <1>2, <1>3, Zenon DEF VdecInv
    <2>5. BeginInv'
      BY <2>0, <2>2, <1>2, <1>3, Zenon DEF BeginInv, Asks
    <2>. QED
      BY <2>1, <2>3, <2>4, <2>5
  <1>. QED
    BY <1>0, <1>3, UpEither, Zenon

\* What a callback leaves alone.
LEMMA CallbackFrame ==
  ASSUME FlushCb \/ FlushCbPost \/ OutputCb \/ OutputCbQueue
  PROVE  /\ UNCHANGED <<agenda, link, est, dmxMedia, dmxOut, mChannelsFlushing,
                        mRunning, mTimer, mState, mFlushPending>>
         /\ FlushCb \/ FlushCbPost \/ OutputCb => UNCHANGED sink
  <1>1. ASSUME FlushCb \/ FlushCbPost \/ OutputCb
        PROVE  UNCHANGED otherThanVdec
    BY <1>1, Zenon DEF FlushCb, FlushCbPost, OutputCb
  <1>2. ASSUME OutputCbQueue
        PROVE  UNCHANGED <<agenda, sessionVars, est, chanVars, dmxVars>>
    BY <1>2, Zenon DEF OutputCbQueue
  <1>3. ASSUME UNCHANGED otherThanVdec
        PROVE  UNCHANGED <<agenda, link, est, dmxMedia, dmxOut, mChannelsFlushing,
                           mRunning, mTimer, mState, mFlushPending, sink>>
    BY <1>3, Zenon DEF otherThanVdec, otherThanDec, dmxVars, sessionVars
  <1>4. ASSUME OutputCbQueue
        PROVE  UNCHANGED <<agenda, link, est, dmxMedia, dmxOut, mChannelsFlushing,
                           mRunning, mTimer, mState, mFlushPending>>
    BY <1>2, <1>4, Zenon DEF chanVars, dmxVars, sessionVars
  <1>. QED
    BY <1>1, <1>3, <1>4

\* flushCb().
LEMMA FlushCbFlush ==
  ASSUME InOrder, FlushCb
  PROVE  FlushInv'
  <1>0. /\ TypeOK /\ FlushInv /\ DownInv /\ UpInv /\ dec \in DecType /\ vdec \in VdecType
    BY InOrderParts, Types, Zenon
  <1>1. /\ UNCHANGED <<agenda, link, est, dmxMedia, dmxOut, mChannelsFlushing,
                       mRunning, mTimer, mState, mFlushPending, sink, mMbox>>
        /\ vdec.flushing
        /\ dec' = [dec EXCEPT !.mVdecFlushPending = FALSE]
        /\ vdec' = [vdec EXCEPT !.flushing = FALSE, !.busy = FALSE, !.cb = "flush"]
    BY CallbackFrame, Zenon DEF FlushCb
  <1>2. /\ dec'.mIsFlushed = dec.mIsFlushed
        /\ dec'.mInputChannelFlushPending = dec.mInputChannelFlushPending
        /\ ~dec'.mVdecFlushPending
        /\ ~vdec'.busy /\ ~vdec'.flushing /\ vdec'.cb = "flush"
    BY <1>0, <1>1, SMT DEF DecType, VdecType
  <1>3. /\ \A f, e : Calls(f, e)' <=> Calls(f, e)
        /\ \A f, e : IsNext(f, e)' <=> IsNext(f, e)
        /\ \A m : Mail(m)' <=> Mail(m)
    BY <1>1, LineSame, MailSame
  <1>4. PartPending
    BY <1>1, Zenon DEF PartPending
  <1>5. DownInv'
    <2>0. NoResync /\ EmptyInv /\ OnItsWay /\ SinkAnswer /\ AskedInv
      BY <1>0, Zenon DEF DownInv
    <2>1. NoResync' /\ SinkAnswer'
      BY <2>0, <1>1, <1>3, Zenon DEF NoResync, SinkAnswer, Decoding
    <2>2. OutputCbInv'
      BY <1>2, SMT DEF OutputCbInv
    <2>3. EmptyInv'
      BY <2>0, <1>1, <1>2, Zenon DEF EmptyInv, Decoding
    <2>4. OnItsWay'
      BY <2>0, <1>1, <1>2, <1>3, Zenon DEF OnItsWay, Decoding, Flushing
    <2>5. AskedInv'
      BY <2>0, <1>1, <1>2, <1>3, <1>4, Zenon DEF AskedInv, Decoding, Flushing
    <2>. QED
      BY <2>1, <2>2, <2>3, <2>4, <2>5, Zenon DEF DownInv
  <1>6. Playing => Flushing /\ ~Calls("vdec_flush", V)
    BY <1>0, <1>1, <1>4, Zenon DEF UpInv, QuietInv, VdecInv
  <1>. QED
    BY <1>1, <1>2, <1>3, <1>5, <1>6, CallbackKeeps, Zenon

\* flushCb() posts its message.
LEMMA FlushCbPostFlush ==
  ASSUME InOrder, FlushCbPost
  PROVE  FlushInv'
  <1>0. /\ TypeOK /\ FlushInv /\ DownInv /\ UpInv /\ vdec \in VdecType
        /\ mMbox \in Seq(MessageType)
    BY InOrderParts, Types, Zenon
  <1>1. /\ UNCHANGED <<agenda, link, est, dmxMedia, dmxOut, mChannelsFlushing,
                       mRunning, mTimer, mState, mFlushPending, sink, dec>>
        /\ vdec.cb = "flush" /\ Post("COMPLETE_FLUSH", V)
        /\ vdec' = [vdec EXCEPT !.cb = "none"]
    BY CallbackFrame, Zenon DEF FlushCbPost
  <1>2. vdec'.busy = vdec.busy /\ vdec'.flushing = vdec.flushing /\ vdec'.cb = "none"
    BY <1>0, <1>1, SMT DEF VdecType
  <1>3. /\ \A f, e : Calls(f, e)' <=> Calls(f, e)
        /\ \A f, e : IsNext(f, e)' <=> IsNext(f, e)
    BY <1>1, LineSame
  <1>4. \A m : Mail(m)' <=> Mail(m) \/ m = "COMPLETE_FLUSH"
    <2>1. [cmd |-> "COMPLETE_FLUSH", e |-> V] \in MessageType
      BY SMT DEF MessageType
    <2>. QED
      BY <1>0, <1>1, <2>1, MailPosted
  <1>5. PartPending
    BY <1>1, Zenon DEF PartPending
  <1>6. Mail("RESYNC")' => Mail("RESYNC")
    BY <1>4, SMT
  <1>7. DownInv'
    <2>0. NoResync /\ EmptyInv /\ OnItsWay /\ SinkAnswer /\ AskedInv
      BY <1>0, Zenon DEF DownInv
    <2>1. NoResync' /\ SinkAnswer'
      BY <2>0, <1>1, <1>3, <1>6, Zenon DEF NoResync, SinkAnswer, Decoding
    <2>2. OutputCbInv'
      BY <1>2, SMT DEF OutputCbInv
    <2>3. EmptyInv'
      BY <2>0, <1>1, <1>2, Zenon DEF EmptyInv, Decoding
    <2>4. OnItsWay'
      BY <2>0, <1>1, <1>2, <1>3, Zenon DEF OnItsWay, Decoding, Flushing
    <2>5. AskedInv'
      BY <2>0, <1>1, <1>3, <1>5, Zenon DEF AskedInv, Decoding, Flushing
    <2>. QED
      BY <2>1, <2>2, <2>3, <2>4, <2>5, Zenon DEF DownInv
  <1>8. Playing => Flushing
    BY <1>0, <1>5, Zenon DEF UpInv, QuietInv
  <1>9. Playing => /\ Calls("vdec_flush", V) => dec'.mVdecFlushPending
                   /\ vdec'.flushing => dec'.mVdecFlushPending
    BY <1>0, <1>1, <1>2, Zenon DEF UpInv, VdecInv
  <1>. QED
    BY <1>1, <1>2, <1>6, <1>7, <1>8, <1>9, CallbackKeeps, Zenon

\* outputCb().
LEMMA OutputCbFlush ==
  ASSUME InOrder, OutputCb
  PROVE  FlushInv'
  <1>0. /\ TypeOK /\ FlushInv /\ DownInv /\ UpInv /\ vdec \in VdecType
    BY InOrderParts, Types, Zenon
  <1>1. /\ UNCHANGED <<agenda, link, est, dmxMedia, dmxOut, mChannelsFlushing,
                       mRunning, mTimer, mState, mFlushPending, sink, dec, mMbox>>
        /\ vdec.cb = "none" /\ vdec.busy /\ est[V] = "STARTED"
        /\ ~dec.mVdecFlushPending /\ ~dec.mInputChannelFlushPending
        /\ vdec' = [vdec EXCEPT !.cb = "output"]
    BY CallbackFrame, Zenon DEF OutputCb, VdecFree
  <1>2. vdec'.busy = vdec.busy /\ vdec'.flushing = vdec.flushing /\ vdec'.cb = "output"
    <2>1. vdec' = [vdec EXCEPT !.cb = "output"] /\ vdec \in VdecType
      BY <1>0, <1>1, Zenon
    <2>. QED
      BY <2>1, SMT DEF VdecType
  <1>3. /\ \A f, e : Calls(f, e)' <=> Calls(f, e)
        /\ \A f, e : IsNext(f, e)' <=> IsNext(f, e)
        /\ \A m : Mail(m)' <=> Mail(m)
    BY <1>1, LineSame, MailSame
  <1>4. (PartPending' => PartPending) /\ (Told' <=> Told)
    <2>1. vdec'.cb # "flush"
      BY <1>2
    <2>. QED
      BY <2>1, <1>1, <1>2, <1>3, Zenon DEF PartPending, Told
  <1>5. DownInv'
    <2>0. NoResync /\ EmptyInv /\ OnItsWay /\ SinkAnswer /\ AskedInv
      BY <1>0, Zenon DEF DownInv
    <2>1. NoResync' /\ SinkAnswer'
      BY <2>0, <1>1, <1>3, Zenon DEF NoResync, SinkAnswer, Decoding
    <2>2. OutputCbInv'
      BY <1>1, <1>2, Zenon DEF OutputCbInv, Decoding, Flushing
    <2>3. EmptyInv'
      BY <2>0, <1>1, <1>2, Zenon DEF EmptyInv, Decoding
    <2>4. OnItsWay'
      BY <2>0, <1>1, <1>2, <1>3, Zenon DEF OnItsWay, Decoding, Flushing
    <2>5. AskedInv'
      BY <2>0, <1>1, <1>3, <1>4, Zenon DEF AskedInv, Decoding, Flushing
    <2>. QED
      BY <2>1, <2>2, <2>3, <2>4, <2>5, Zenon DEF DownInv
  <1>6. Playing /\ ~Flushing => ~PartPending'
    BY <1>0, <1>4, Zenon DEF UpInv, QuietInv
  <1>7. Playing => /\ Calls("vdec_flush", V) => dec'.mVdecFlushPending
                   /\ vdec'.flushing => dec'.mVdecFlushPending
    BY <1>0, <1>1, <1>2, Zenon DEF UpInv, VdecInv
  <1>. QED
    BY <1>1, <1>2, <1>3, <1>5, <1>6, <1>7, CallbackKeeps, Zenon

\* Frames reach the sinks only while no flush is asked of the decoder.
LEMMA OutputCbQueueFlush ==
  ASSUME InOrder, OutputCbQueue
  PROVE  FlushInv'
  <1>0. /\ TypeOK /\ FlushInv /\ DownInv /\ UpInv /\ vdec \in VdecType
    BY InOrderParts, Types, Zenon
  <1>1. /\ UNCHANGED <<agenda, link, est, dmxMedia, dmxOut, mChannelsFlushing,
                       mRunning, mTimer, mState, mFlushPending, dec, mMbox>>
        /\ vdec.cb = "output"
        /\ \E busy \in BOOLEAN : vdec' = [vdec EXCEPT !.cb = "none", !.busy = busy]
    BY CallbackFrame, Zenon DEF OutputCbQueue
  <1>2. vdec'.flushing = vdec.flushing /\ vdec'.cb = "none"
    BY <1>0, <1>1, SMT DEF VdecType
  <1>3. /\ \A f, e : Calls(f, e)' <=> Calls(f, e)
        /\ \A f, e : IsNext(f, e)' <=> IsNext(f, e)
        /\ \A m : Mail(m)' <=> Mail(m)
    BY <1>1, LineSame, MailSame
  <1>4. /\ NoResync /\ EmptyInv /\ SinkAnswer /\ AskedInv
        /\ Decoding /\ vdec.busy /\ ~Flushing /\ ~dec.mVdecFlushPending
    BY <1>0, <1>1, Zenon DEF DownInv, OutputCbInv
  <1>5. ~dec.mIsFlushed /\ ~PartPending
    BY <1>4, Zenon DEF EmptyInv, AskedInv
  <1>6. ~PartPending' /\ (Told' <=> Told)
    <2>1. vdec'.cb # "flush"
      BY <1>2
    <2>. QED
      BY <2>1, <1>1, <1>2, <1>3, <1>5, Zenon DEF PartPending, Told
  <1>7. DownInv'
    <2>1. NoResync'
      BY <1>3, <1>4, Zenon DEF NoResync
    <2>2. SinkAnswer'
      <3>1. \A s \in Sinks : link[s] = V => ~mFlushPending[s]
        BY <1>5, Zenon DEF PartPending
      <3>. QED
        BY <1>1, <3>1, Zenon DEF SinkAnswer
    <2>3. OutputCbInv'
      BY <1>2, SMT DEF OutputCbInv
    <2>4. EmptyInv' /\ OnItsWay'
      BY <1>1, <1>4, <1>5, Zenon DEF EmptyInv, OnItsWay, Flushing
    <2>5. AskedInv'
      BY <1>1, <1>3, <1>4, <1>6, Zenon DEF AskedInv, Decoding, Flushing
    <2>. QED
      BY <2>1, <2>2, <2>3, <2>4, <2>5, Zenon DEF DownInv
  <1>8. Playing => /\ Calls("vdec_flush", V) => dec'.mVdecFlushPending
                   /\ vdec'.flushing => dec'.mVdecFlushPending
    BY <1>0, <1>1, <1>2, Zenon DEF UpInv, VdecInv
  <1>. QED
    BY <1>1, <1>2, <1>3, <1>4, <1>6, <1>7, <1>8, CallbackKeeps, Zenon

-----------------------------------------------------------------------------
(* The events: the application, the timer, the mailbox.                    *)

\* Between two events nothing is called.
LEMMA EventStart ==
  ASSUME InOrder, AtEvent
  PROVE  /\ agenda = <<>> /\ vdec.cb = "none"
         /\ \A f, e : ~Calls(f, e) /\ ~Waits(f, e) /\ ~IsNext(f, e)
         /\ \A k : ~LoopAt(k)
         /\ DOMAIN agenda = {}
         /\ ~NotBegun /\ ~Asks /\ ~Answered
         /\ Told <=> Mail("COMPLETE_FLUSH")
  <1>1. agenda = <<>> /\ vdec.cb = "none"
    BY InOrderParts, Zenon DEF AtEvent
  <1>2. /\ \A f, e : ~Calls(f, e) /\ ~Waits(f, e) /\ ~IsNext(f, e)
        /\ \A k : ~LoopAt(k)
        /\ DOMAIN agenda = {}
    BY <1>1, LineNothing, Zenon
  <1>. QED
    BY <1>1, <1>2, Zenon DEF NotBegun, Asks, Answered, Told

\* The application plays the record.
LEMMA PlayFlush ==
  ASSUME InOrder, Play
  PROVE  FlushInv'
  <1>0. /\ TypeOK /\ FlushInv /\ DownInv /\ UpInv /\ "SeekAnytime" \notin Allowed
    BY InOrderParts, Zenon DEF InOrder, Orderly
  <1>1. /\ AtEvent /\ Playing /\ ~mRunning /\ mRunning' /\ mTimer'
        /\ UNCHANGED <<agenda, link, dec, vdec, mMbox, sink, est, dmxMedia, dmxOut,
                       mChannelsFlushing, mState, mFlushPending>>
    BY <1>0, Zenon DEF Play, Playing, otherThanDmx
  <1>2. /\ vdec.cb = "none"
        /\ \A f, e : ~Calls(f, e) /\ ~Waits(f, e) /\ ~IsNext(f, e)
        /\ DOMAIN agenda = {}
        /\ ~NotBegun /\ ~Asks /\ ~Answered
    BY <1>1, EventStart, Zenon
  <1>3. /\ \A f, e : Calls(f, e)' <=> Calls(f, e)
        /\ \A f, e : Waits(f, e)' <=> Waits(f, e)
        /\ \A f, e : IsNext(f, e)' <=> IsNext(f, e)
        /\ \A k : LoopAt(k)' <=> LoopAt(k)
    BY <1>1, LineSame
  <1>4. ~NotBegun' /\ ~Asks' /\ ~Answered'
    BY <1>2, <1>3, Zenon DEF NotBegun, Asks, Answered
  <1>5. SameDown
    BY <1>1, SameAgenda, Zenon DEF SameView
  <1>6. CalmDown
    BY <1>1, <1>2, <1>5, CalmDownFrozen, Zenon
  <1>7. ~mFlushPending[V] /\ mChannelsFlushing = 0 /\ ~Flushing
    BY <1>0, <1>1, <1>2, Zenon DEF UpInv, TimerInv
  <1>8. BeginInv'
    BY <1>4, Zenon DEF BeginInv
  <1>9. TimerInv'
    BY <1>1, <1>2, <1>3, <1>4, <1>7, Zenon DEF TimerInv, Flushing
  <1>10. LoopInv'
    BY <1>1, <1>2, Zenon DEF LoopInv
  <1>11. Playing'
    BY <1>1, Zenon DEF Playing
  <1>. QED
    BY <1>0, <1>1, <1>2, <1>3, <1>6, <1>8, <1>9, <1>10, <1>11, PlayingKeeps, Zenon

\* A frame is queued, in a decoder that is not asked to flush.
LEMMA TimerFrameFlush ==
  ASSUME InOrder, TimerFrame
  PROVE  FlushInv'
  <1>0. /\ TypeOK /\ FlushInv /\ DownInv /\ UpInv /\ dec \in DecType /\ vdec \in VdecType
        /\ sink \in [Sinks -> SinkType]
    BY InOrderParts, Types, Zenon
  <1>1. /\ AtEvent /\ Playing
        /\ UNCHANGED <<agenda, link, mMbox, est, dmxMedia, dmxOut, mRunning, mTimer,
                       mChannelsFlushing, mState, mFlushPending, port>>
        /\ sink' = Queued(dmxOut)
        /\ \/ /\ Contains(dmxOut, V) /\ DecAccepts
              /\ \E isSync \in BOOLEAN :
                    dec' = [dec EXCEPT !.mIsFlushed = FALSE, !.mIsSync = isSync]
              /\ vdec' = [vdec EXCEPT !.busy = TRUE]
           \/ UNCHANGED <<dec, vdec>>
    BY Zenon DEF TimerFrame, Playing, sessionVars, chanVars, dmxVars
  <1>2. /\ vdec.cb = "none"
        /\ \A f, e : ~Calls(f, e) /\ ~Waits(f, e) /\ ~IsNext(f, e)
        /\ DOMAIN agenda = {}
        /\ ~NotBegun /\ ~Asks /\ ~Answered
        /\ Told <=> Mail("COMPLETE_FLUSH")
    BY <1>1, EventStart, Zenon
  <1>3. /\ \A f, e : Calls(f, e)' <=> Calls(f, e)
        /\ \A f, e : Waits(f, e)' <=> Waits(f, e)
        /\ \A f, e : IsNext(f, e)' <=> IsNext(f, e)
        /\ \A k : LoopAt(k)' <=> LoopAt(k)
        /\ \A m : Mail(m)' <=> Mail(m)
    BY <1>1, LineSame, MailSame
  <1>4. \A s \in Sinks : sink'[s] = sink[s]
    <2>1. \A s \in Sinks : ~Contains(dmxOut, s)
      <3>1. dmxOut = <<>> \/ dmxOut = <<V>>
        BY <1>0, Zenon DEF UpInv, OutputInv
      <3>2. \A x : ~Contains(<<>>, x) /\ (Contains(<<V>>, x) => x = V)
        BY SMT DEF Contains
      <3>. QED
        BY <3>1, <3>2, Distinct, Zenon
    <2>. QED
      BY <1>0, <1>1, <2>1, QueuedNone, Zenon
  <1>5. CASE UNCHANGED <<dec, vdec>>
    <2>1. UNCHANGED <<dmxVars, chanVars>>
      BY <1>1, Zenon DEF dmxVars, chanVars
    <2>2. SameView
      BY <1>1, SameAgenda, Zenon
    <2>3. Calm
      BY <1>1, <1>4, <1>5, <2>1, <2>2, FrozenCalm, Zenon
    <2>. QED
      BY <1>0, <2>3, CalmFlush, Zenon
  <1>6. CASE /\ Contains(dmxOut, V) /\ DecAccepts
             /\ \E isSync \in BOOLEAN :
                    dec' = [dec EXCEPT !.mIsFlushed = FALSE, !.mIsSync = isSync]
             /\ vdec' = [vdec EXCEPT !.busy = TRUE]
    <2>1. /\ ~dec'.mIsFlushed /\ dec'.mVdecFlushPending = dec.mVdecFlushPending
          /\ dec'.mInputChannelFlushPending = dec.mInputChannelFlushPending
      BY <1>0, <1>6, SMT DEF DecType
    <2>2. vdec'.flushing = vdec.flushing /\ vdec'.cb = vdec.cb
      <3>1. vdec' = [vdec EXCEPT !.busy = TRUE] /\ vdec \in VdecType
        BY <1>0, <1>6
      <3>. QED
        BY <3>1, SMT DEF VdecType
    <2>3. Decoding /\ ~Flushing /\ ~dec.mVdecFlushPending
      BY <1>6, Zenon DEF DecAccepts, Decoding, Flushing
    <2>4. ~PartPending /\ ~Told
      BY <1>0, <1>1, <1>2, <2>3, Zenon DEF UpInv, QuietInv
    <2>5. ~PartPending' /\ ~Told'
      BY <1>1, <1>3, <2>2, <2>4, Zenon DEF PartPending, Told
    <2>6. Decoding' /\ ~Flushing' /\ Playing'
      BY <1>1, <2>1, <2>3, Zenon DEF Decoding, Flushing, Playing
    <2>7. DownInv'
      <3>1. NoResync' /\ SinkAnswer'
        BY <1>0, <1>2, <1>3, Zenon DEF DownInv, NoResync, SinkAnswer
      <3>2. OutputCbInv'
        BY <1>2, <2>2, SMT DEF OutputCbInv
      <3>3. EmptyInv' /\ OnItsWay'
        BY <2>1, <2>6, Zenon DEF EmptyInv, OnItsWay
      <3>4. AskedInv'
        BY <1>2, <1>3, <2>5, Zenon DEF AskedInv
      <3>. QED
        BY <3>1, <3>2, <3>3, <3>4, Zenon DEF DownInv
    <2>8. OutputInv'
      <3>1. dmxOut # <<>>
        BY <1>6, SMT DEF Contains
      <3>. QED
        BY <1>0, <1>1, <1>3, <3>1, Zenon DEF UpInv, OutputInv, Decoding
    <2>9. QuietInv'
      BY <2>1, <2>3, <2>5, Zenon DEF QuietInv
    <2>10. VdecInv'
      BY <1>0, <1>1, <1>3, <2>1, <2>2, Zenon DEF UpInv, VdecInv
    <2>11. ~NotBegun' /\ ~Asks' /\ ~Answered'
      BY <1>2, <1>3, Zenon DEF NotBegun, Asks, Answered
    <2>12. BeginInv'
      BY <2>11, Zenon DEF BeginInv
    <2>13. TimerInv'
      BY <1>0, <1>1, <1>2, <1>3, <2>6, <2>11, Zenon DEF UpInv, TimerInv
    <2>14. LoopInv'
      BY <1>1, <1>2, Zenon DEF LoopInv
    <2>. QED
      BY <2>7, <2>8, <2>9, <2>10, <2>12, <2>13, <2>14, Zenon DEF FlushInv, DownInv
  <1>. QED
    BY <1>1, <1>5, <1>6, Zenon

\* There is no buffer left: the frames are in vdec, and a flush begins.
LEMMA TimerNoBufferFlush ==
  ASSUME InOrder, TimerNoBuffer
  PROVE  FlushInv'
  <1>0. /\ TypeOK /\ FlushInv /\ DownInv /\ UpInv /\ H264Sinks = {}
        /\ mTimer \in BOOLEAN
    BY InOrderParts, Types, Zenon DEF InOrder, Orderly
  <1> DEFINE x == Call("flush", D)
  <1>1. /\ AtEvent /\ Playing /\ mTimer /\ mRunning /\ ~mTimer'
        /\ ~dmxMedia \/ vdec.busy
        /\ UNCHANGED <<link, dec, vdec, mMbox, sink, est, dmxMedia, dmxOut, mRunning,
                       mChannelsFlushing, mState, mFlushPending>>
    BY <1>0, Zenon DEF TimerNoBuffer, Playing, otherThanDmx
  <1>2. x \in CallType /\ x.f = "flush" /\ x.e = D /\ agenda' = <<x>>
    BY TypedOfD, Zenon DEF TimerNoBuffer
  <1> HIDE DEF x
  <1>3. /\ agenda = <<>> /\ vdec.cb = "none"
        /\ \A f, e : ~Calls(f, e) /\ ~Waits(f, e) /\ ~IsNext(f, e)
        /\ ~NotBegun /\ ~Asks /\ ~Answered
    BY <1>1, EventStart, Zenon
  <1>4. /\ \A f, e : Calls(f, e)' <=> x.f = f /\ x.e = e
        /\ \A f, e : ~Waits(f, e)'
        /\ \A f, e : IsNext(f, e)' <=> x.f = f /\ x.e = e
        /\ \A k : LoopAt(k)' <=> x.f = "flushAt" /\ x.i = k
        /\ \A i \in DOMAIN agenda' : agenda'[i] = x /\ i = 1
    BY <1>2, <1>3, LineEvent, Zenon
  <1>5. /\ IsNext("flush", D)' /\ ~LoopAt(1)' /\ ~Calls("mboxCb", None)' /\ ~Calls("flushed", D)'
        /\ ~IsNext("channel.flushDone", V)' /\ ~IsNext("channel.flush", V)'
        /\ ~IsNext("onChannelFlushed", D)' /\ ~IsNext("channelFlushed", D)'
        /\ ~IsNext("onChannelFlush", V)' /\ ~IsNext("flush", V)'
        /\ ~Calls("onChannelTeardown", V)' /\ ~Calls("vdec_flush", V)'
    BY <1>2, <1>4, Distinct, SMT
  <1>6. NotBegun' /\ ~Asks' /\ ~Answered'
    BY <1>5, Zenon DEF NotBegun, Asks, Answered
  <1>7. SameDown
    <2>1. Quiet(x)
      BY <1>2, Distinct, SMT DEF Quiet, DownNext, DownKey
    <2>. QED
      BY <1>2, <1>3, <2>1, DownEvent, Zenon
  <1>8. CalmDown
    BY <1>1, <1>3, <1>7, CalmDownFrozen, Zenon
  <1>9. ~mFlushPending[V] /\ mChannelsFlushing = 0 /\ ~Flushing
    BY <1>0, <1>1, <1>3, Zenon DEF UpInv, TimerInv
  <1>10. vdec.busy /\ dmxOut = <<V>> /\ Decoding
    BY <1>0, <1>1, Zenon DEF UpInv, OutputInv
  <1>11. ~dec.mIsFlushed
    BY <1>0, <1>10, Zenon DEF DownInv, EmptyInv
  <1>12. ~PartPending /\ ~dec.mVdecFlushPending
    BY <1>0, <1>1, <1>9, Zenon DEF UpInv, QuietInv
  <1>13. BeginInv'
    BY <1>1, <1>5, <1>6, <1>10, <1>11, <1>12, Zenon DEF BeginInv, PartPending
  <1>14. TimerInv'
    BY <1>1, <1>4, <1>5, <1>6, <1>9, <1>2, SMT DEF TimerInv, Flushing
  <1>15. LoopInv'
    <2>1. \A i \in DOMAIN agenda' : agenda'[i].f \notin {"flushAt", "flushed"}
      BY <1>2, <1>4, SMT
    <2>. QED
      BY <2>1, SMT DEF LoopInv
  <1>16. Playing'
    BY <1>1, Zenon DEF Playing
  <1>. QED
    BY <1>0, <1>1, <1>3, <1>5, <1>8, <1>13, <1>14, <1>15, <1>16, PlayingKeeps, Zenon

\* The loop thread begins to read its messages.
LEMMA RunMboxFlush ==
  ASSUME InOrder, RunMbox
  PROVE  FlushInv'
  <1>0. /\ TypeOK /\ FlushInv /\ DownInv /\ UpInv
    BY InOrderParts, Zenon
  <1> DEFINE x == Call("mboxCb", None)
  <1>1. /\ AtEvent /\ UNCHANGED <<link, dec, vdec, mMbox, sink, est, dmxMedia, dmxOut, mRunning,
                                  mTimer, mChannelsFlushing, mState, mFlushPending>>
        /\ agenda' = <<x>>
    BY Zenon DEF RunMbox, sessionVars, chanVars, dmxVars
  <1>2. x \in CallType /\ x.f = "mboxCb" /\ x.e = None
    <2>1. "mboxCb" \in {"idle", "mboxCb"}
      OBVIOUS
    <2>. QED
      BY <2>1, TypedOfSession, Zenon
  <1> HIDE DEF x
  <1>3. /\ agenda = <<>> /\ vdec.cb = "none"
        /\ \A f, e : ~Calls(f, e) /\ ~Waits(f, e) /\ ~IsNext(f, e)
        /\ ~NotBegun /\ ~Asks /\ ~Answered
    BY <1>1, EventStart, Zenon
  <1>4. /\ \A f, e : Calls(f, e)' <=> x.f = f /\ x.e = e
        /\ \A f, e : ~Waits(f, e)'
        /\ \A f, e : IsNext(f, e)' <=> x.f = f /\ x.e = e
        /\ \A k : LoopAt(k)' <=> x.f = "flushAt" /\ x.i = k
        /\ \A i \in DOMAIN agenda' : agenda'[i] = x /\ i = 1
    BY <1>1, <1>2, <1>3, LineEvent, Zenon
  <1>5. /\ Calls("mboxCb", None)' /\ ~LoopAt(1)'
        /\ \A f, e : f # "mboxCb" => ~Calls(f, e)' /\ ~IsNext(f, e)'
    BY <1>2, <1>4, SMT
  <1>6. ~NotBegun' /\ ~Asks' /\ ~Answered'
    BY <1>5, SMT DEF NotBegun, Asks, Answered
  <1>7. SameDown
    <2>1. Quiet(x)
      BY <1>2, Distinct, SMT DEF Quiet, DownNext, DownKey
    <2>. QED
      BY <1>1, <1>2, <1>3, <2>1, DownEvent, Zenon
  <1>8. CalmDown
    BY <1>1, <1>3, <1>7, CalmDownFrozen, Zenon
  <1>9. DownInv' /\ (PartPending' => PartPending)
    BY <1>0, <1>8, CalmDownKeeps, Zenon
  <1>10. CASE est[D] # "STARTED"
    BY <1>0, <1>1, <1>8, <1>10, StoppedKeeps, Zenon
  <1>11. CASE est[D] = "STARTED"
    <2>0. OutputInv /\ QuietInv /\ VdecInv /\ TimerInv /\ Playing
      BY <1>0, <1>11, Zenon DEF UpInv, Playing
    <2>1. OutputInv'
      BY <2>0, <1>1, <1>5, SMT DEF OutputInv, Decoding, Playing
    <2>2. QuietInv'
      BY <2>0, <1>1, <1>5, <1>9, Zenon DEF QuietInv, Flushing, Told
    <2>3. VdecInv'
      BY <2>0, <1>1, <1>5, <1>9, SMT DEF VdecInv, PartPending
    <2>4. BeginInv'
      BY <1>6, Zenon DEF BeginInv
    <2>5. TimerInv'
      <3>1. /\ ~Calls("flushed", D)' /\ ~IsNext("channel.flushDone", V)'
            /\ ~IsNext("channel.flush", V)' /\ ~Waits("channelFlushed", D)'
            /\ ~Calls("flushed", D)
        BY <1>3, <1>4, <1>5, SMT
      <3>. QED
        BY <2>0, <3>1, <1>1, <1>3, <1>6, Zenon DEF TimerInv, Flushing
    <2>6. LoopInv'
      <3>1. \A i \in DOMAIN agenda' : agenda'[i].f \notin {"flushAt", "flushed"}
        BY <1>2, <1>4, SMT
      <3>. QED
        BY <3>1, SMT DEF LoopInv
    <2>. QED
      BY <1>9, <2>1, <2>2, <2>3, <2>4, <2>5, <2>6, Zenon DEF FlushInv, DownInv
  <1>. QED
    BY <1>10, <1>11

\* An event ends when there is nothing left to do.
LEMMA EventDoneFlush ==
  ASSUME InOrder, EventDone
  PROVE  FlushInv'
  <1>0. /\ TypeOK /\ FlushInv /\ DownInv /\ UpInv /\ agenda \in Seq(CallType) /\ OrderInv
        /\ (LoopRuns => vdec.cb = "none")
    BY InOrderParts, Zenon
  <1>1. /\ UNCHANGED <<link, dec, vdec, mMbox, sink, est, dmxMedia, dmxOut, mRunning,
                       mTimer, mChannelsFlushing, mState, mFlushPending>>
        /\ Return /\ agenda # <<>> /\ agenda[1].e = None /\ LoopRuns
        /\ \/ agenda[1].f = "idle"
           \/ agenda[1].f = "mboxCb" /\ mMbox = <<>>
        /\ UNCHANGED <<dmxVars, chanVars>>
    BY <1>0, Running, Zenon DEF EventDone, Runs, sessionVars, chanVars, dmxVars
  <1>2. vdec.cb = "none"
    BY <1>0, <1>1
  <1>3. CASE agenda[1].f = "idle"
    <2>1. Dull(agenda[1])
      BY <1>1, <1>3, Distinct, SMT DEF Dull, Quiet, DownNext, DownKey, UpNext, UpKey
    <2>2. SameView
      BY <1>0, <1>1, <2>1, SameNone, Zenon
    <2>3. Calm
      BY <1>1, <2>2, FrozenCalm, Zenon
    <2>. QED
      BY <1>0, <2>3, CalmFlush, Zenon
  <1>4. CASE agenda[1].f = "mboxCb" /\ mMbox = <<>>
    <2>1. IsLast(agenda[1]) /\ Quiet(agenda[1])
      BY <1>1, <1>4, Distinct, SMT DEF IsLast, Quiet, DownNext, DownKey
    <2>2. /\ \A f, e : ~Calls(f, e)' /\ ~Waits(f, e)' /\ ~IsNext(f, e)'
          /\ \A k : ~LoopAt(k)'
          /\ DOMAIN agenda' = {}
      BY <1>0, <1>1, <2>1, LastNone, Zenon
    <2>3. /\ \A f, e : Calls(f, e) <=> agenda[1].f = f /\ agenda[1].e = e
          /\ \A f, e : IsNext(f, e) <=> agenda[1].f = f /\ agenda[1].e = e
          /\ \A k : LoopAt(k) <=> agenda[1].f = "flushAt" /\ agenda[1].i = k
      BY <1>0, <1>1, <2>1, LastNow, Zenon
    <2>4. /\ ~NotBegun' /\ ~Asks' /\ ~Answered'
      BY <2>2, Zenon DEF NotBegun, Asks, Answered
    <2>5. /\ ~NotBegun /\ ~Answered /\ ~Calls("flushed", D)
      BY <1>4, <2>3, SMT DEF NotBegun, Answered
    <2>6. SameDown
      BY <1>0, <1>1, <2>1, SideNone, Zenon
    <2>7. CalmDown
      BY <1>1, <1>2, <2>6, CalmDownFrozen, Zenon
    <2>8. DownInv' /\ (PartPending' => PartPending)
      BY <1>0, <2>7, CalmDownKeeps, Zenon
    <2>9. ~Told'
      <3>1. ~Mail("COMPLETE_FLUSH")'
        <4>1. DOMAIN mMbox' = {}
          BY <1>1, <1>4, SMT
        <4>. QED
          BY <4>1, Zenon DEF Mail
      <3>. QED
        BY <2>2, <3>1, Zenon DEF Told
    <2>10. CASE est[D] # "STARTED"
      BY <1>0, <1>1, <2>7, <2>10, StoppedKeeps, Zenon
    <2>11. CASE est[D] = "STARTED"
      <3>0. OutputInv /\ QuietInv /\ VdecInv /\ TimerInv /\ Playing
        BY <1>0, <2>11, Zenon DEF UpInv, Playing
      <3>1. OutputInv'
        BY <3>0, <1>1, <2>2, Zenon DEF OutputInv, Decoding, Playing
      <3>2. QuietInv'
        BY <3>0, <1>1, <2>8, <2>9, Zenon DEF QuietInv, Flushing
      <3>3. VdecInv'
        BY <3>0, <1>1, <2>2, Zenon DEF VdecInv, Playing
      <3>4. BeginInv'
        BY <2>4, Zenon DEF BeginInv
      <3>5. TimerInv'
        BY <3>0, <1>1, <2>2, <2>4, <2>5, Zenon DEF TimerInv, Flushing
      <3>6. LoopInv'
        BY <2>2, Zenon DEF LoopInv
      <3>. QED
        BY <2>8, <3>1, <3>2, <3>3, <3>4, <3>5, <3>6, Zenon DEF FlushInv, DownInv
    <2>. QED
      BY <2>10, <2>11
  <1>. QED
    BY <1>1, <1>3, <1>4

\* A message about a flush: the decoder looks whether it is complete.
LEMMA FlushMessageFlush ==
  ASSUME InOrder, FlushMessage
  PROVE  FlushInv'
  <1>0. /\ TypeOK /\ FlushInv /\ DownInv /\ UpInv /\ agenda \in Seq(CallType) /\ OrderInv
        /\ (LoopRuns => vdec.cb = "none") /\ mMbox \in Seq(MessageType)
    BY InOrderParts, Types, Zenon
  <1> DEFINE x == Call("completeFlush", V)
  <1>1. /\ agenda # <<>> /\ agenda[1].f = "mboxCb" /\ agenda[1].e = None
        /\ mMbox # <<>> /\ mMbox' = Tail(mMbox)
        /\ UNCHANGED <<chanVars, dmxVars, dec, vdec, sink, est, sessionVars>>
        /\ \/ mMbox[1].cmd = "COMPLETE_FLUSH" /\ agenda' = <<x>> \o agenda
           \/ mMbox[1].cmd = "RESYNC"
    BY <1>0, MessageCases, SMT DEF FlushMessage
  <1>2. /\ UNCHANGED <<link, dec, vdec, sink, est, dmxMedia, dmxOut, mRunning,
                       mTimer, mChannelsFlushing, mState, mFlushPending>>
    BY <1>1, Zenon DEF sessionVars, chanVars, dmxVars
  <1>3. vdec.cb = "none"
    BY <1>0, Zenon DEF FlushMessage, MboxMessage, Runs
  <1>4. /\ \A m : Mail(m)' => Mail(m)
        /\ Mail(mMbox[1].cmd)
    BY <1>0, <1>1, MailRead, Zenon
  <1>5. mMbox[1].cmd = "COMPLETE_FLUSH" /\ agenda' = <<x>> \o agenda
    BY <1>0, <1>1, <1>4, Zenon DEF DownInv, NoResync
  <1>6. x \in CallType /\ x.f = "completeFlush" /\ x.e = V
    BY TypedOfV, Zenon
  <1> HIDE DEF x
  <1>7. /\ \A f, e : Calls(f, e)' <=> (x.f = f /\ x.e = e) \/ Calls(f, e)
        /\ \A f, e : Waits(f, e)' => Calls(f, e)
        /\ \A f, e : f # "mboxCb" => ~Calls(f, e) /\ ~IsNext(f, e)
        /\ Calls("mboxCb", None)
        /\ \A f, e : IsNext(f, e)' <=> x.f = f /\ x.e = e
        /\ \A k : LoopAt(k)' <=> x.f = "flushAt" /\ x.i = k
        /\ \A k : ~LoopAt(k)
        /\ \A i \in DOMAIN agenda' : agenda'[i] = x \/ agenda'[i] = agenda[1]
    BY <1>0, <1>1, <1>5, <1>6, MessageLine, Zenon
  <1>8. /\ \A f, e : IsNext(f, e)' => f = "completeFlush"
        /\ \A f, e : f # "completeFlush" => (Calls(f, e)' <=> Calls(f, e))
        /\ \A f, e : f # "mboxCb" => ~Waits(f, e)'
        /\ ~LoopAt(1)' /\ ~LoopAt(1)
        /\ \A i \in DOMAIN agenda' : agenda'[i].f \notin {"flushAt", "flushed"}
    BY <1>1, <1>6, <1>7, SMT
  <1>9. SameUp
    <2>1. \A f, e : UpNext(f, e) => f # "mboxCb" /\ f # "completeFlush"
      BY SMT DEF UpNext
    <2>2. \A f, e : UpKey(f, e) => f # "completeFlush"
      BY SMT DEF UpKey
    <2>3. "channelFlushed" # "mboxCb" /\ "channelFlushed" # "completeFlush"
      OBVIOUS
    <2>. QED
      BY <1>7, <1>8, <2>1, <2>2, <2>3, Zenon DEF SameUp
  <1>10. Told /\ (PartPending' => PartPending)
    <2>1. Told
      BY <1>4, <1>5, Zenon DEF Told
    <2>2. /\ ~IsNext("onChannelFlushed", V)'
          /\ Calls("vdec_flush", V)' <=> Calls("vdec_flush", V)
          /\ \A s \in Sinks : Calls("channel.flush", s)' <=> Calls("channel.flush", s)
      BY <1>8, SMT
    <2>. QED
      BY <1>2, <2>1, <2>2, Zenon DEF PartPending
  <1>11. /\ ~IsNext("resync", V)' /\ ~IsNext("flush", V)' /\ ~IsNext("flush", V)
         /\ ~IsNext("channel.flushDone", V)' /\ ~IsNext("onChannelFlush", V)'
         /\ \A s \in Sinks : ~IsNext("channel.flushDone", s)'
         /\ \A s \in Sinks : Calls("channel.flush", s)' <=> Calls("channel.flush", s)
         /\ Calls("vdec_flush", V)' <=> Calls("vdec_flush", V)
         /\ Calls("mboxCb", None)'
    BY <1>7, <1>8, SMT
  <1>12. DownInv'
    <2>0. NoResync /\ EmptyInv /\ OnItsWay /\ AskedInv
      BY <1>0, Zenon DEF DownInv
    <2>1. NoResync' /\ SinkAnswer'
      BY <2>0, <1>4, <1>11, Zenon DEF NoResync, SinkAnswer
    <2>2. OutputCbInv'
      BY <1>2, <1>3, SMT DEF OutputCbInv
    <2>3. EmptyInv'
      BY <2>0, <1>2, Zenon DEF EmptyInv, Decoding
    <2>4. OnItsWay'
      BY <2>0, <1>2, <1>11, Zenon DEF OnItsWay, Decoding, Flushing
    <2>5. AskedInv'
      BY <2>0, <1>2, <1>10, <1>11, Zenon DEF AskedInv, Decoding, Flushing
    <2>. QED
      BY <2>1, <2>2, <2>3, <2>4, <2>5, Zenon DEF DownInv
  <1>13. ASSUME Playing PROVE UpCalm /\ QuietInv' /\ VdecInv' /\ BeginInv'
    <2>0. QuietInv /\ VdecInv /\ BeginInv
      BY <1>0, Zenon DEF UpInv
    <2>1. UpCalm
      BY <1>2, <1>9, <1>13, Zenon DEF UpCalm, Flushing, Playing
    <2>2. (NotBegun' <=> NotBegun) /\ ~Asks'
      BY <1>0, <1>11, <2>1, UpKeeps, Zenon DEF Asks
    <2>3. QuietInv'
      BY <2>0, <1>2, <1>10, <1>11, <1>13, Zenon DEF QuietInv, Flushing
    <2>4. VdecInv'
      BY <2>0, <1>2, <1>11, <1>13, Zenon DEF VdecInv
    <2>5. BeginInv'
      BY <2>0, <2>2, <1>2, <1>11, <1>13, Zenon DEF BeginInv
    <2>. QED
      BY <2>1, <2>3, <2>4, <2>5
  <1>. QED
    BY <1>0, <1>2, <1>12, <1>13, UpEither, Zenon

-----------------------------------------------------------------------------
(* The sessions that start and open.                                       *)

\* A sink that starts is flushed, and so is its channel.
LEMMA StartVideoSinkFlush ==
  ASSUME InOrder, NEW s \in Sinks, StartVideoSink(s)
  PROVE  FlushInv'
  <1>0. /\ TypeOK /\ FlushInv /\ DownInv /\ UpInv /\ LinkInv
        /\ link \in [SinkElements -> {D, V, None}]
        /\ est \in [Elements -> ElementStates] /\ dec \in DecType
        /\ sink \in [Sinks -> SinkType]
        /\ mFlushPending \in [SinkElements -> BOOLEAN]
        /\ H264Sinks = {}
    BY InOrderParts, Types, Zenon DEF InOrder, Orderly
  <1>1. s \in SinkElements /\ s \in Elements /\ s # V /\ s # D /\ D # V
    BY Distinct, Zenon
  <1>2. SourceOf(s) = V
    BY <1>0, Zenon DEF SourceOf
  <1>3. /\ AtEvent /\ est[s] = "none"
        /\ est' = [est EXCEPT ![s] = "STARTED"]
        /\ link' = [link EXCEPT ![s] = V]
        /\ dec' = [dec EXCEPT !.out = Append(dec.out, s)]
        /\ sink' = [sink EXCEPT ![s].mInputMedia = TRUE, ![s].mVideoSinkListener = TRUE]
        /\ UNCHANGED <<agenda, mFlushPending, mMbox, vdec, mState, dmxMedia, dmxOut,
                       mChannelsFlushing, mRunning, mTimer>>
    BY <1>1, <1>2, Zenon DEF StartVideoSink
  <1>4. /\ vdec.cb = "none" /\ \A f, e : ~Calls(f, e) /\ ~IsNext(f, e)
    BY <1>3, EventStart, Zenon
  <1>5. /\ \A f, e : Calls(f, e)' <=> Calls(f, e)
        /\ \A f, e : IsNext(f, e)' <=> IsNext(f, e)
        /\ \A m : Mail(m)' <=> Mail(m)
    BY <1>3, LineSame, MailSame
  <1>6. sink[s].mIsFlushed /\ ~mFlushPending[s]
    BY <1>0, <1>1, <1>3, Zenon DEF LinkInv
  <1>7. /\ dec'.mIsFlushed = dec.mIsFlushed
        /\ dec'.mVdecFlushPending = dec.mVdecFlushPending
        /\ dec'.mInputChannelFlushPending = dec.mInputChannelFlushPending
    BY <1>0, <1>3, SMT DEF DecType
  <1>8. /\ \A r \in Sinks : r # s => link'[r] = link[r] /\ sink'[r] = sink[r]
        /\ est'[V] = est[V] /\ est'[D] = est[D]
    <2>1. \A r \in Sinks : r \in SinkElements
      BY Distinct, Zenon
    <2>2. V \in Elements /\ D \in Elements
      BY Distinct, Zenon
    <2>. QED
      BY <1>0, <1>1, <1>3, <2>1, <2>2, Zenon
  <1>9. sink'[s].mIsFlushed
    <2>1. sink'[s].mIsFlushed = sink[s].mIsFlushed
      BY <1>0, <1>3, SinkFields, SMT
    <2>. QED
      BY <1>6, <2>1
  <1>10. PartPending' => PartPending
    <2>1. \A t \in Sinks : link'[t] = V /\ mFlushPending'[t] => link[t] = V /\ mFlushPending[t]
      BY <1>3, <1>6, <1>8, Zenon
    <2>. QED
      BY <2>1, <1>3, <1>5, Zenon DEF PartPending
  <1>11. Told' <=> Told
    BY <1>5, Zenon DEF Told
  <1>12. DownInv'
    <2>0. NoResync /\ EmptyInv /\ OnItsWay /\ AskedInv
      BY <1>0, Zenon DEF DownInv
    <2>1. NoResync' /\ SinkAnswer'
      BY <2>0, <1>4, <1>5, Zenon DEF NoResync, SinkAnswer
    <2>2. OutputCbInv'
      BY <1>3, <1>4, SMT DEF OutputCbInv
    <2>3. EmptyInv'
      BY <2>0, <1>3, <1>7, <1>8, <1>9, Zenon DEF EmptyInv, Decoding
    <2>4. OnItsWay'
      BY <2>0, <1>3, <1>5, <1>7, <1>8, <1>9, Zenon DEF OnItsWay, Decoding, Flushing
    <2>5. AskedInv'
      BY <2>0, <1>5, <1>7, <1>8, <1>10, <1>11, Zenon DEF AskedInv, Decoding, Flushing
    <2>. QED
      BY <2>1, <2>2, <2>3, <2>4, <2>5, Zenon DEF DownInv
  <1>13. ASSUME Playing PROVE UpCalm /\ QuietInv' /\ VdecInv' /\ BeginInv'
    <2>0. QuietInv /\ VdecInv /\ BeginInv
      BY <1>0, Zenon DEF UpInv
    <2>1. UpCalm
      <3>1. SameUp
        BY <1>3, SameAgenda, Zenon DEF SameView
      <3>. QED
        BY <1>3, <1>7, <1>8, <1>13, <3>1, Zenon DEF UpCalm, Flushing, Playing
    <2>2. (NotBegun' <=> NotBegun) /\ (Asks' <=> Asks)
      BY <1>0, <1>5, <2>1, UpKeeps, Zenon DEF Asks
    <2>3. QuietInv'
      BY <2>0, <1>5, <1>7, <1>10, <1>11, <1>13, Zenon DEF QuietInv, Flushing
    <2>4. VdecInv'
      BY <2>0, <1>3, <1>5, <1>7, <1>13, Zenon DEF VdecInv
    <2>5. BeginInv'
      BY <2>0, <2>2, <1>3, <1>5, <1>7, <1>13, Zenon DEF BeginInv
    <2>. QED
      BY <2>1, <2>3, <2>4, <2>5
  <1>. QED
    BY <1>0, <1>3, <1>8, <1>12, <1>13, UpEither, Zenon

\* What there is before open(), and after it.
LEMMA Fresh ==
  ASSUME Init
  PROVE  /\ agenda = <<>> /\ mMbox = <<>> /\ DOMAIN agenda = {} /\ DOMAIN mMbox = {}
         /\ \A f, e : ~Calls(f, e) /\ ~IsNext(f, e) /\ ~Waits(f, e)
         /\ \A k : ~LoopAt(k)
         /\ \A m : ~Mail(m)
         /\ dec.mIsFlushed /\ ~dec.mVdecFlushPending /\ ~dec.mInputChannelFlushPending
         /\ ~vdec.flushing /\ ~vdec.busy /\ vdec.cb = "none"
         /\ mChannelsFlushing = 0 /\ ~mRunning /\ ~mTimer /\ dmxOut = <<>>
         /\ \A c \in SinkElements : ~mFlushPending[c] /\ link[c] = None
         /\ est[D] # "STARTED" /\ est[V] # "STARTED"
         /\ dec \in DecType /\ dec = NewDecoder
         /\ mFlushPending = [c \in SinkElements |-> FALSE]
         /\ link = [c \in SinkElements |-> None]
  <1>1. agenda = <<>> /\ mMbox = <<>> /\ DOMAIN agenda = {} /\ DOMAIN mMbox = {}
    BY SMT DEF Init
  <1>2. /\ \A f, e : ~Calls(f, e) /\ ~IsNext(f, e) /\ ~Waits(f, e)
        /\ \A k : ~LoopAt(k)
    BY <1>1, LineNothing, Zenon
  <1>3. \A m : ~Mail(m)
    BY <1>1, Zenon DEF Mail
  <1>4. dec = NewDecoder /\ dec.mIsFlushed /\ ~dec.mVdecFlushPending /\ ~dec.mInputChannelFlushPending
    BY SMT DEF Init, NewDecoder
  <1>5. ~vdec.flushing /\ ~vdec.busy /\ vdec.cb = "none"
    <2>1. vdec = [flushing |-> FALSE, stopping |-> FALSE, busy |-> FALSE,
                  cb |-> "none", count |-> 0]
      BY Zenon DEF Init
    <2>. QED
      BY <2>1, SMT
  <1>6. mChannelsFlushing = 0 /\ ~mRunning /\ ~mTimer /\ dmxOut = <<>>
    BY Zenon DEF Init
  <1>7. /\ \A c \in SinkElements : ~mFlushPending[c] /\ link[c] = None
        /\ mFlushPending = [c \in SinkElements |-> FALSE]
        /\ link = [c \in SinkElements |-> None]
    <2>1. /\ mFlushPending = [c \in SinkElements |-> FALSE]
          /\ link = [c \in SinkElements |-> None]
      BY Zenon DEF Init
    <2>. QED
      BY <2>1, Zenon
  <1>8. est[D] # "STARTED" /\ est[V] # "STARTED"
    <2>1. est = [e \in Elements |-> "none"]
      BY Zenon DEF Init
    <2>. QED
      BY <2>1, Distinct, SMT
  <1>9. dec \in DecType
    BY Before
  <1>. QED
    BY <1>1, <1>2, <1>3, <1>4, <1>5, <1>6, <1>7, <1>8, <1>9

\* Before open() nothing is flushed.
LEMMA InitFlush ==
  ASSUME Init
  PROVE  FlushInv
  <1>1. ~Playing /\ ~Decoding /\ NoResync /\ vdec.cb # "output" /\ dmxOut = <<>>
    <2>1. "none" # "output"
      OBVIOUS
    <2>. QED
      BY <2>1, Fresh, Zenon DEF Playing, Decoding, NoResync
  <1>2. DownInv
    BY <1>1, Zenon DEF DownInv, OutputCbInv, EmptyInv, OnItsWay, SinkAnswer, AskedInv
  <1>3. UpInv
    BY <1>1, Zenon DEF UpInv, OutputInv, QuietInv, VdecInv, BeginInv, TimerInv, LoopInv
  <1>. QED
    BY <1>2, <1>3, FlushInvParts, Zenon

\* A session that opens: nothing has been decoded, and nothing is flushed.
LEMMA OpenFlush ==
  ASSUME Init, Open
  PROVE  FlushInv'
  <1>0. /\ \A f, e : ~Calls(f, e) /\ ~IsNext(f, e) /\ ~Waits(f, e)
        /\ \A k : ~LoopAt(k)
        /\ \A m : ~Mail(m)
        /\ DOMAIN agenda = {}
        /\ dec.mIsFlushed /\ ~dec.mVdecFlushPending /\ ~dec.mInputChannelFlushPending
        /\ ~vdec.flushing /\ ~vdec.busy /\ vdec.cb = "none"
        /\ mChannelsFlushing = 0 /\ ~mRunning /\ ~mTimer /\ dmxOut = <<>>
        /\ \A c \in SinkElements : ~mFlushPending[c] /\ link[c] = None
        /\ dec \in DecType
        /\ link = [c \in SinkElements |-> None]
    BY Fresh
  <1>1. UNCHANGED <<agenda, mMbox, vdec, sink, mFlushPending, mChannelsFlushing, mRunning, mTimer>>
    BY Zenon DEF Open, OpenOk, OpenWithoutDecoder, OpenFails
  <1>2. /\ dec'.mIsFlushed = dec.mIsFlushed
        /\ dec'.mVdecFlushPending = dec.mVdecFlushPending
        /\ dec'.mInputChannelFlushPending = dec.mInputChannelFlushPending
    <2>1. \/ \E a, b : dec' = [dec EXCEPT !.mInputMedia = a, !.mOutputMedia = b]
          \/ dec' = [dec EXCEPT !.mInputMedia = TRUE]
      BY Zenon DEF Open, OpenOk, OpenWithoutDecoder, OpenFails
    <2>2. ASSUME NEW a, NEW b, dec' = [dec EXCEPT !.mInputMedia = a, !.mOutputMedia = b]
          PROVE  /\ dec'.mIsFlushed = dec.mIsFlushed
                 /\ dec'.mVdecFlushPending = dec.mVdecFlushPending
                 /\ dec'.mInputChannelFlushPending = dec.mInputChannelFlushPending
      BY <1>0, <2>2, Zenon DEF DecType
    <2>3. CASE dec' = [dec EXCEPT !.mInputMedia = TRUE]
      BY <1>0, <2>3, Zenon DEF DecType
    <2>. QED
      BY <2>1, <2>2, <2>3
  <1>3. \A s \in Sinks : link'[s] = None
    <2>1. \/ \E b : link' = [link EXCEPT ![V] = b]
          \/ UNCHANGED link
      BY Zenon DEF Open, OpenOk, OpenWithoutDecoder, OpenFails
    <2>2. ASSUME NEW b, link' = [link EXCEPT ![V] = b], NEW s \in Sinks
          PROVE  link'[s] = None
      <3>1. s \in SinkElements /\ s # V
        BY Distinct, Zenon
      <3>. QED
        BY <1>0, <2>2, <3>1, Zenon
    <2>3. ASSUME NEW s \in Sinks, UNCHANGED link
          PROVE  link'[s] = None
      BY <1>0, <2>3, Distinct, Zenon
    <2>. QED
      BY <2>1, <2>2, <2>3, Zenon
  <1>4. /\ \A f, e : ~Calls(f, e)' /\ ~IsNext(f, e)' /\ ~Waits(f, e)'
        /\ \A k : ~LoopAt(k)'
        /\ \A m : ~Mail(m)'
    BY <1>0, <1>1, LineSame, MailSame
  <1>5. ~PartPending' /\ ~Told' /\ ~NotBegun' /\ ~Asks' /\ ~Answered'
    <2>1. V # None
      BY Distinct, Zenon
    <2>. QED
      BY <1>0, <1>1, <1>3, <1>4, <2>1, SMT DEF PartPending, Told, NotBegun, Asks, Answered
  <1>6. DownInv'
    <2>1. NoResync' /\ SinkAnswer' /\ OnItsWay' /\ AskedInv'
      BY <1>0, <1>2, <1>4, <1>5, Zenon DEF NoResync, SinkAnswer, OnItsWay, AskedInv, Flushing
    <2>2. OutputCbInv'
      BY <1>0, <1>1, SMT DEF OutputCbInv
    <2>3. EmptyInv'
      <3>1. V # None
        BY Distinct, Zenon
      <3>. QED
        BY <1>0, <1>1, <1>3, <3>1, Zenon DEF EmptyInv
    <2>. QED
      BY <2>1, <2>2, <2>3, Zenon DEF DownInv
  <1>7. OutputInv'
    <2>1. CASE OpenOk
      <3>1. /\ mState' = "OPENED" /\ dmxMedia'
            /\ dmxOut' = (IF DecodeAll THEN <<V>> ELSE <<>>)
            /\ est' = [e \in Elements |-> IF e \in mElements' THEN "STARTED" ELSE "none"]
            /\ mElements' = {D} \cup (IF DecodeAll THEN {V} ELSE {})
        BY <2>1, Zenon DEF OpenOk
      <3>2. DecodeAll => est'[V] = "STARTED"
        <4>1. V \in Elements
          BY Distinct, Zenon
        <4>. QED
          BY <3>1, <4>1, Zenon
      <3>3. dmxOut' = <<>> \/ dmxOut' = <<V>>
        BY <3>1
      <3>4. dmxOut' # <<>> => Decoding'
        BY <3>1, <3>2, Zenon DEF Decoding
      <3>5. mState' # "CREATED"
        BY <3>1
      <3>. QED
        BY <1>0, <1>1, <1>4, <3>1, <3>3, <3>4, <3>5, Zenon DEF OutputInv
    <2>2. CASE OpenWithoutDecoder
      <3>1. mState' = "OPENED" /\ dmxMedia' /\ dmxOut' = <<>>
        BY <1>0, <2>2, Zenon DEF OpenWithoutDecoder
      <3>2. mState' # "CREATED"
        BY <3>1
      <3>. QED
        BY <1>0, <1>1, <1>4, <3>1, <3>2, Zenon DEF OutputInv
    <2>3. CASE OpenFails
      <3>1. /\ dmxOut' = <<V>>
            /\ est' = [est EXCEPT ![D] = "deleted", ![V] = "STARTED"]
        BY <2>3, Zenon DEF OpenFails
      <3>2. est'[D] # "STARTED"
        <4>1. est = [e \in Elements |-> "none"] /\ D \in Elements /\ V \in Elements /\ D # V
          BY Distinct, Zenon DEF Init
        <4>2. est'[D] = "deleted"
          BY <3>1, <4>1, Zenon
        <4>. QED
          BY <4>2
      <3>. QED
        BY <3>1, <3>2, Zenon DEF OutputInv, Playing
    <2>. QED
      BY <2>1, <2>2, <2>3, Zenon DEF Open
  <1>8. QuietInv'
    BY <1>0, <1>2, <1>5, Zenon DEF QuietInv
  <1>9. VdecInv'
    BY <1>0, <1>1, <1>4, Zenon DEF VdecInv
  <1>10. BeginInv'
    BY <1>5, Zenon DEF BeginInv
  <1>11. TimerInv'
    <2>1. ~mFlushPending[V]
      BY <1>0, Distinct, Zenon
    <2>. QED
      BY <1>0, <1>1, <1>2, <1>4, <1>5, <2>1, Zenon DEF TimerInv, Flushing
  <1>12. LoopInv'
    BY <1>0, <1>1, Zenon DEF LoopInv
  <1>. QED
    BY <1>6, <1>7, <1>8, <1>9, <1>10, <1>11, <1>12, Zenon DEF FlushInv, DownInv

-----------------------------------------------------------------------------
\* The errors of vdec are counted.
LEMMA ErrorsCounted ==
  ASSUME errors \in Nat, [Next]_vars
  PROVE  errors' \in Nat
  <1>1. ASSUME UNCHANGED counters PROVE errors' \in Nat
    BY <1>1, Zenon DEF counters
  <1>2. ASSUME ChannelStep PROVE UNCHANGED counters
    BY <1>2, Zenon DEF ChannelStep, ChannelFlush, ChannelFlushDone, RemoveInputMedia,
       DeleteChannel, otherThanChannels
  <1>3. ASSUME DmxStep PROVE UNCHANGED counters
    BY <1>3, Zenon DEF DmxStep, DmxStop, DmxFlush, DmxFlushAt, DmxChannelCounted,
       DmxOnChannelFlushed, DmxChannelFlushed, DmxOnChannelUnlink
  <1>4. ASSUME DecStep PROVE UNCHANGED counters
    <2>1. UNCHANGED otherThanDec
      BY <1>4, Zenon DEF DecStep, DecStop, DecOnChannelFlush, DecFlush, VdecFlush,
         DecCompleteFlush, DecAfterFlush, DecTeardownOutputs, VdecStop, DecCompleteStop,
         DecOnChannelFlushed, DecOnChannelUnlink, DecResync
    <2>. QED
      BY <2>1, Zenon DEF otherThanDec
  <1>5. ASSUME SinkStep PROVE UNCHANGED counters
    <2>1. UNCHANGED otherThanSinks
      BY <1>5, Zenon DEF SinkStep, SinkStop, SinkTeardown, SinkInputRemoved,
         SinkOnChannelFlush, SinkFlush, SinkFlushDone, SinkCompleteStop
    <2>. QED
      BY <2>1, Zenon DEF otherThanSinks
  <1>6. ASSUME SessionStep \/ RunIdle \/ RunMbox PROVE UNCHANGED counters
    BY <1>6, Zenon DEF SessionStep, IdleFunction, MboxMessage, EventDone, OnElementStopped,
       RunIdle, RunMbox
  <1>7. ASSUME AppEvent PROVE UNCHANGED counters
    BY <1>7, Zenon DEF AppEvent, Open, OpenOk, OpenWithoutDecoder, OpenFails, Close, Play,
       StartVideoSink, StopVideoSink, VideoSinkQueueFlushed, ResyncVideoSink
  <1>8. ASSUME TimerFrame \/ TimerNoBuffer PROVE errors' \in Nat
    BY <1>8, Zenon DEF TimerFrame, TimerNoBuffer
  <1>9. ASSUME VdecCallback PROVE UNCHANGED counters
    BY <1>9, Zenon DEF VdecCallback, FlushCb, FlushCbPost, StopCb, StopCbCount, StopCbLoad,
       StopCbStore, OutputCb, OutputCbQueue, otherThanVdec, otherThanDec
  <1>10. ASSUME OutputError PROVE errors' \in Nat
    <2>1. errors' = errors + 1
      BY <1>10, Zenon DEF OutputError
    <2>. QED
      BY <2>1, SMT
  <1>11. ASSUME UNCHANGED vars PROVE UNCHANGED counters
    BY <1>11, Zenon DEF vars
  <1>. QED
    BY <1>1, <1>2, <1>3, <1>4, <1>5, <1>6, <1>7, <1>8, <1>9, <1>10, <1>11, Zenon
       DEF Next, LoopStep, CallStep

-----------------------------------------------------------------------------
(* FlushInv is an invariant.                                               *)

\* Every plain step keeps FlushInv.
LEMMA PlainFlush ==
  ASSUME InOrder, errors \in Nat, PlainStep
  PROVE  FlushInv'
  <1>0. /\ TypeOK /\ CallInv /\ ChainInv /\ FlushInv /\ PipelineInv
        /\ "Preempt" \notin Allowed /\ MaxErrors = 0
    BY InOrderParts, Zenon DEF InOrder, Orderly, ChainInv
  <1>1. ASSUME NEW c \in SinkElements, ChannelFlush(c) \/ ChannelFlushDone(c)
        PROVE  FlushInv'
    <2>1. c \in Sinks \/ c = V
      BY Zenon DEF SinkElements
    <2>2. CASE c \in Sinks
      BY <1>1, <2>2, SinkChannelFlushFlush, SinkChannelDoneFlush
    <2>3. CASE c = V
      <3>1. ChannelFlush(V) \/ ChannelFlushDone(V)
        BY <1>1, <2>3
      <3>. QED
        BY <3>1, DecChannelFlushFlush, DecChannelDoneFlush
    <2>. QED
      BY <2>1, <2>2, <2>3
  <1>2. ASSUME DmxFlush \/ DmxFlushAt \/ DmxChannelCounted \/ DmxOnChannelFlushed
               \/ DmxChannelFlushed
        PROVE  FlushInv'
    BY <1>2, DmxFlushFlush, DmxFlushAtFlush, DmxChannelCountedFlush, DmxOnChannelFlushedFlush,
       DmxChannelFlushedFlush, Zenon
  <1>3. ASSUME DecOnChannelFlush \/ DecFlush \/ VdecFlush \/ DecCompleteFlush
               \/ DecOnChannelFlushed \/ DecResync
        PROVE  FlushInv'
    BY <1>3, DecOnChannelFlushFlush, DecFlushFlush, VdecFlushFlush, DecCompleteFlushFlush,
       DecOnChannelFlushedFlush, DecResyncFlush, Zenon
  <1>4. ASSUME FlushCb \/ FlushCbPost \/ OutputCb \/ OutputCbQueue
        PROVE  FlushInv'
    BY <1>4, FlushCbFlush, FlushCbPostFlush, OutputCbFlush, OutputCbQueueFlush, Zenon
  <1>5. ASSUME StopCbLoad PROVE FlushInv'
    BY <1>0, <1>5, StopCbCalm, CalmFlush
  <1>6. ~OutputError
    <2>1. OutputError => errors < MaxErrors
      BY Zenon DEF OutputError
    <2>. QED
      BY <1>0, <2>1, SMT
  <1>7. ASSUME NEW s \in Sinks, SinkFlushDone(s) PROVE FlushInv'
    BY <1>7, SinkFlushDoneFlush
  <1>8. ASSUME \/ \E s \in Sinks : \/ SinkOnChannelFlush(s) \/ SinkFlush(s)
                                   \/ VideoSinkQueueFlushed(s) \/ ResyncVideoSink(s)
               \/ RunIdle \/ UNCHANGED vars
        PROVE  FlushInv'
    BY <1>0, <1>8, SinkFrozenCalm, CalmFlush
  <1>9. ASSUME Play \/ TimerFrame \/ TimerNoBuffer \/ RunMbox PROVE FlushInv'
    BY <1>9, PlayFlush, TimerFrameFlush, TimerNoBufferFlush, RunMboxFlush, Zenon
  <1>10. ASSUME EventDone \/ FlushMessage PROVE FlushInv'
    BY <1>10, EventDoneFlush, FlushMessageFlush, Zenon
  <1>11. ASSUME FlushIdle PROVE FlushInv'
    BY <1>0, <1>11, QuietCalm, CalmFlush
  <1>. QED
    BY <1>1, <1>2, <1>3, <1>4, <1>5, <1>6, <1>7, <1>8, <1>9, <1>10, <1>11,
       Zenon DEF PlainStep

\* ... and so does every other.
LEMMA LoudFlush ==
  ASSUME InOrder, LoudStep
  PROVE  FlushInv'
  <1>0. /\ TypeOK /\ CallInv /\ ChainInv /\ FlushInv /\ PipelineInv /\ OutputInv
        /\ "Preempt" \notin Allowed
    BY InOrderParts, Zenon DEF InOrder, Orderly, ChainInv, FlushInv
  <1>1. ASSUME NEW c \in SinkElements, RemoveInputMedia(c) \/ DeleteChannel(c)
        PROVE  Calm
    BY <1>0, <1>1, QuietCalm, DeleteChannelCalm
  <1>2. ASSUME DmxStop PROVE FlushInv'
    BY <1>2, DmxStopFlush
  <1>3. ASSUME DmxOnChannelUnlink PROVE Calm
    BY <1>0, <1>3, DmxOnChannelUnlinkCalm
  <1>4. ASSUME DecStop PROVE FlushInv'
    BY <1>4, DecStopFlush
  <1>5. ASSUME DecAfterFlush \/ DecTeardownOutputs \/ VdecStop \/ DecCompleteStop
        PROVE  Calm
    BY <1>0, <1>5, DecCalm
  <1>6. ASSUME DecOnChannelUnlink PROVE Calm
    BY <1>0, <1>6, DecOnChannelUnlinkCalm
  <1>7. ASSUME StopCb \/ StopCbCount \/ StopCbStore PROVE Calm
    BY <1>0, <1>7, StopCbCalm
  <1>8. ASSUME NEW s \in Sinks, SinkStop(s) \/ SinkInputRemoved(s) \/ SinkCompleteStop(s)
        PROVE  Calm
    BY <1>0, <1>8, SinkCalm
  <1>9. ASSUME NEW s \in Sinks, SinkTeardown(s) \/ StopVideoSink(s) PROVE Calm
    BY <1>0, <1>9, QuietCalm
  <1>10. ASSUME NEW s \in Sinks, StartVideoSink(s) PROVE FlushInv'
    BY <1>10, StartVideoSinkFlush
  <1>11. ASSUME OnElementStopped \/ ListenerIdle PROVE Calm
    BY <1>0, <1>11, QuietCalm
  <1>12. ASSUME DeleteMessage PROVE Calm
    BY <1>0, <1>12, DeleteMessageCalm
  <1>13. ASSUME StopMessage PROVE Calm
    BY <1>0, <1>13, StopMessageCalm
  <1>14. Calm => FlushInv'
    BY <1>0, CalmFlush
  <1>. QED
    BY <1>1, <1>2, <1>3, <1>4, <1>5, <1>6, <1>7, <1>8, <1>9, <1>10, <1>11, <1>12, <1>13, <1>14,
       Zenon DEF LoudStep

\* Every step does.
LEMMA FlushKept ==
  ASSUME InOrder, errors \in Nat, [Next]_vars
  PROVE  FlushInv'
  <1>0. /\ TypeOK /\ CallInv /\ ChainInv /\ FlushInv /\ AnswerInv /\ "Preempt" \notin Allowed
    BY InOrderParts, Zenon DEF InOrder, Orderly, ChainInv, PipelineInv
  <1>1. ASSUME Open PROVE FlushInv'
    <2>1. Init
      BY <1>0, <1>1, Zenon DEF AnswerInv, Open
    <2>. QED
      BY <1>1, <2>1, OpenFlush
  <1>2. ASSUME Close PROVE FlushInv'
    BY <1>0, <1>2, QuietCalm, CalmFlush
  <1>. QED
    BY <1>0, <1>1, <1>2, PlainFlush, LoudFlush, AllSteps

\* In a session of which Orderly holds, a flush is asked for, passed down the
\* pipeline and answered, one at a time.
THEOREM FlushInvariance ==
  ASSUME H264Sinks = {}, MaxErrors = 0, "SeekAnytime" \notin Allowed, "Preempt" \notin Allowed
  PROVE  Spec => []FlushInv
  <1> DEFINE Counted == errors \in Nat
  <1>1. Init => FlushInv /\ Counted
    <2>1. Init => errors = 0
      BY Zenon DEF Init
    <2>. QED
      BY <2>1, InitFlush, SMT
  <1>2. ASSUME PipelineInv, ChainInv, FlushInv, Counted, [Next]_vars
        PROVE  FlushInv' /\ Counted'
    <2>1. InOrder
      BY <1>2, Zenon DEF InOrder, Orderly
    <2>. QED
      BY <1>2, <2>1, FlushKept, ErrorsCounted
  <1> HIDE DEF Counted
  <1>. QED
    BY <1>1, <1>2, PipelineInvariance, ChainInvariance, PTL DEF Spec

\* A decoder that calls itself flushed holds no frame, and neither does a sink
\* after it.
THEOREM FlushedDecoderEmpty ==
  ASSUME H264Sinks = {}, MaxErrors = 0, "SeekAnytime" \notin Allowed, "Preempt" \notin Allowed
  PROVE  Spec => []FlushedIsEmpty
  <1>1. ASSUME TypeOK, LinkInv, FlushInv PROVE FlushedIsEmpty
    <2>1. SUFFICES ASSUME dec.mIsFlushed, est[V] = "STARTED"
                   PROVE  /\ ~vdec.busy
                          /\ \A i \in DOMAIN dec.out : sink[dec.out[i]].mIsFlushed
      BY Zenon DEF FlushedIsEmpty
    <2>2. ~vdec.busy /\ \A s \in Sinks : link[s] = V => sink[s].mIsFlushed
      BY <1>1, <2>1, Zenon DEF FlushInv, EmptyInv, Decoding
    <2>3. ASSUME NEW i \in DOMAIN dec.out PROVE sink[dec.out[i]].mIsFlushed
      <3>0. dec.out \in Seq(Sinks)
        BY <1>1, Zenon DEF TypeOK, DecType
      <3>1. dec.out[i] \in Sinks /\ dec.out[i] \in SinkElements
        <4>1. dec.out[i] \in Sinks
          BY <3>0, SMT
        <4>. QED
          BY <4>1, Zenon DEF SinkElements
      <3>2. Contains(dec.out, dec.out[i])
        BY <2>3, <3>0, SMT DEF Contains
      <3>3. link[dec.out[i]] = V
        BY <1>1, <3>1, <3>2, Zenon DEF LinkInv
      <3>. QED
        BY <2>2, <3>1, <3>3, Zenon
    <2>. QED
      BY <2>2, <2>3
  <1>2. PipelineInv /\ ChainInv => TypeOK /\ LinkInv
    BY Zenon DEF PipelineInv, ChainInv
  <1>. QED
    BY <1>1, <1>2, PipelineInvariance, ChainInvariance, FlushInvariance, PTL

\* Playing goes on after every flush: a demuxer that plays has its timer armed,
\* unless it waits for a channel to be flushed.
THEOREM PlayingResumes ==
  ASSUME H264Sinks = {}, MaxErrors = 0, "SeekAnytime" \notin Allowed, "Preempt" \notin Allowed
  PROVE  Spec => []PlaybackResumes
  <1>1. ASSUME FlushInv PROVE PlaybackResumes
    <2>1. SUFFICES ASSUME agenda = <<>>, est[D] = "STARTED", mRunning,
                          \A i \in DOMAIN dmxOut : ~mFlushPending[dmxOut[i]]
                   PROVE  mTimer
      BY Zenon DEF PlaybackResumes
    <2>2. TimerInv /\ OutputInv
      BY <1>1, Zenon DEF FlushInv
    <2>3. DOMAIN agenda = {} /\ ~NotBegun /\ ~Answered
      BY <2>1, SMT DEF NotBegun, Answered, IsNext, LoopAt
    <2>4. ~mFlushPending[V]
      <3>1. CASE dmxOut = <<V>>
        BY <2>1, <3>1, SMT
      <3>2. CASE dmxOut # <<V>>
        BY <2>1, <2>2, <3>2, Zenon DEF TimerInv, Playing
      <3>. QED
        BY <3>1, <3>2
    <2>. QED
      BY <2>1, <2>2, <2>3, <2>4, Zenon DEF TimerInv, Playing
  <1>. QED
    BY <1>1, FlushInvariance, PTL
=============================================================================
