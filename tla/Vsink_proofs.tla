----------------------------- MODULE Vsink_proofs -----------------------------
(***************************************************************************)
(* Proofs about Vsink, for any media and any number of frames and faults.  *)
(* What two threads that meet on a condition variable without a predicate  *)
(* rely on is written down as assumptions: a wait that never ends for no   *)
(* reason (NoSpurious), and no signal but the awaited one while stop()     *)
(* waits (Orderly).                                                        *)
(***************************************************************************)
EXTENDS Vsink, TLAPS

NoSpurious == "spurious" \notin Allowed
Orderly == Allowed \cap {"lateWait", "lateSignal"} = {}

\* The two threads and the mutex, whatever is allowed.
ThreadsInv ==
    /\ mutex <=> app = "pop"
    /\ loop = "none" <=> app = "out"
    /\ loop = "ended" => app \in {"join", "freed"}
    /\ FreedUnused
    /\ should_stop => app \in {"join", "freed"}

\* stop() has asked for the end of the session.
Stopping == app \in {"stopLock", "stopWait", "stopWoken", "endThread", "join", "freed"}

\* The session and its media, and what the loop was asked for, whatever is
\* allowed.
MediaInv ==
    /\ pdraw \in {"none", "new"} => media = {}
    /\ queue \in added \cup {"none"}
    /\ loop \in Media => loop \in added
    /\ sink # "none" => queue = sink
    /\ \A c, d \in idles : c = d
    /\ "stop_pdraw" \in idles => pdraw \notin {"none", "closing"}
    /\ app = "out" => pdraw = "none" /\ idles = {}
    /\ "start_pdraw" \in idles => pdraw = "none"
    /\ "stop_pdraw" \in idles \/ "delete_pdraw" \in idles \/ pdraw = "closing" => Stopping

\* What the loop was asked for, and for whom it does it.
CallsInv ==
    /\ "start_pdraw" \in idles =>
           app \in {"startLock", "startWait"} /\ pdraw = "none" /\ loop \in {"wait", "ended"}
    /\ "stop_pdraw" \in idles \/ "delete_pdraw" \in idles => app \in {"stopLock", "stopWait"}
    /\ pdraw = "closing" => app \in {"stopLock", "stopWait"}

\* Who signals when: a failed open is over before the wait of start() is.
SignalInv ==
    /\ pdraw = "opening"
          /\ (app \notin {"startLock", "startWait"} \/ loop \in {"signal", "fail"} \cup Media)
       => added # {}
    /\ app = "stop" => loop \in {"wait", "removed"} /\ idles = {}
    /\ app \in {"stopLock", "stopWait"} =>
          /\ loop \notin {"fail"} \cup Media
          /\ loop = "signal" => pdraw = "none" /\ idles = {}
    /\ app \in {"stopWoken", "endThread", "join", "freed"} => pdraw = "none" /\ idles = {}

\* What start() is woken by.
StartInv ==
    /\ app \in InStart /\ loop = "signal" /\ result = "ok" => queue # "none"
    /\ app = "startWoken" /\ result = "ok" => queue # "none"
    /\ app \in {"in", "pop"} => queue # "none"

-----------------------------------------------------------------------------
\* The initial state satisfies every part.
LEMMA InitInv ==
  Init => VsinkTypeOK /\ ThreadsInv /\ MediaInv /\ CallsInv /\ SignalInv /\ StartInv
  <1> SUFFICES ASSUME Init
               PROVE  VsinkTypeOK /\ ThreadsInv /\ MediaInv /\ CallsInv /\ SignalInv
                      /\ StartInv
    OBVIOUS
  <1>1. VsinkTypeOK
    <2>1. bound \in [frames : 0..MaxFrames, faults : 0..MaxFaults]
      BY VsinkConstantsOK DEF Init
    <2>. QED
      BY <2>1 DEF Init, VsinkTypeOK, LoopStates
  <1>2. ThreadsInv /\ MediaInv
    BY VsinkConstantsOK DEF Init, ThreadsInv, MediaInv, FreedUnused, LoopStates, Stopping
  <1>3. CallsInv
    BY DEF Init, CallsInv
  <1>4. SignalInv /\ StartInv
    BY DEF Init, SignalInv, StartInv, InStart
  <1>. QED
    BY <1>1, <1>2, <1>3, <1>4

-----------------------------------------------------------------------------
(* Every step preserves the parts.  The steps of the application first,    *)
(* then those of the loop thread; a stuttering step changes nothing.       *)

AppStep == Start \/ Wait \/ Started \/ GetFrame \/ Popped \/ StopCalled \/ Stop
           \/ EndThread \/ Free

\* The steps of the application preserve the type.
LEMMA TypeApp ==
  ASSUME VsinkTypeOK, MediaInv, AppStep
  PROVE  VsinkTypeOK'
  <1> USE DEF VsinkTypeOK, AppOnly, InStart, InStop, LoopStates
  <1>1. CASE Start
    BY <1>1 DEF Start
  <1>2. CASE Wait
    BY <1>2 DEF Wait
  <1>3. CASE Started
    BY <1>3 DEF Started
  <1>4. CASE GetFrame
    <2>1. bound' \in [frames : 0..MaxFrames, faults : 0..MaxFaults]
      BY <1>4, VsinkConstantsOK DEF GetFrame
    <2>. QED
      BY <1>4, <2>1 DEF GetFrame
  <1>5. CASE Popped
    BY <1>5, ZenonT(60) DEF Popped
  <1>6. CASE StopCalled
    BY <1>6 DEF StopCalled
  <1>7. CASE Stop
    <2>1. idles' \subseteq {"start_pdraw", "stop_pdraw", "delete_pdraw"}
      BY <1>7 DEF Stop
    <2>. QED
      BY <1>7, <2>1 DEF Stop
  <1>8. CASE EndThread
    BY <1>8 DEF EndThread
  <1>9. CASE Free
    BY <1>9 DEF Free
  <1>. QED
    BY <1>1, <1>2, <1>3, <1>4, <1>5, <1>6, <1>7, <1>8, <1>9 DEF AppStep

\* A call that fails is counted.
LEMMA FailsType ==
  ASSUME VsinkTypeOK, Fails
  PROVE  bound' \in [frames : 0..MaxFrames, faults : 0..MaxFaults]
  BY VsinkConstantsOK DEF VsinkTypeOK, Fails

\* The steps of the loop thread preserve the type.
LEMMA TypeLoop ==
  ASSUME VsinkTypeOK, MediaInv, LoopStep
  PROVE  VsinkTypeOK'
  <1> USE VsinkConstantsOK DEF VsinkTypeOK, LoopOnly, InStart, InStop, LoopStates
  <1>1. CASE EndOfThread \/ Signal \/ Fail
    BY <1>1 DEF EndOfThread, Signal, Fail, self
  <1>2. CASE start_pdraw_idle
    BY <1>2, FailsType DEF start_pdraw_idle, Idle
  <1>3. CASE open_resp_cb
    BY <1>3, FailsType DEF open_resp_cb
  <1>4. CASE ready_to_play_cb
    BY <1>4, FailsType DEF ready_to_play_cb
  <1>5. CASE MediaAdded
    BY <1>5 DEF MediaAdded
  <1>6. CASE media_added_cb
    BY <1>6, FailsType, ZenonT(60) DEF media_added_cb
  <1>7. CASE MediaRemoved
    BY <1>7 DEF MediaRemoved
  <1>12. CASE media_removed_cb
    BY <1>12, ZenonT(60) DEF media_removed_cb
  <1>13. CASE QueueFrame
    BY <1>13 DEF QueueFrame
  <1>14. CASE flush_cb
    BY <1>14, ZenonT(60) DEF flush_cb
  <1>9. CASE stop_pdraw_idle
    BY <1>9, FailsType, ZenonT(60) DEF stop_pdraw_idle, Idle
  <1>10. CASE close_resp_cb
    BY <1>10 DEF close_resp_cb
  <1>11. CASE delete_pdraw_idle
    BY <1>11 DEF delete_pdraw_idle, Idle
  <1>. QED
    BY <1>1, <1>2, <1>3, <1>4, <1>5, <1>6, <1>7, <1>9, <1>10, <1>11,
       <1>12, <1>13, <1>14
    DEF LoopStep

\* The threads: the thread ends before the instance is freed.
LEMMA ThreadsStep ==
  ASSUME VsinkTypeOK, ThreadsInv, [Next]_vars
  PROVE  ThreadsInv'
  <1> USE VsinkConstantsOK DEF ThreadsInv, FreedUnused, VsinkTypeOK, AppOnly, LoopOnly,
          LoopStates, InStart, InStop
  <1>1. CASE Start \/ Wait \/ Started
    BY <1>1 DEF Start, Wait, Started
  <1>2. CASE GetFrame \/ Popped \/ StopCalled
    BY <1>2 DEF GetFrame, Popped, StopCalled
  <1>3. CASE Stop \/ EndThread \/ Free
    BY <1>3 DEF Stop, EndThread, Free
  <1>4. CASE EndOfThread \/ Signal \/ Fail
    BY <1>4 DEF EndOfThread, Signal, Fail, self
  <1>5. CASE start_pdraw_idle \/ open_resp_cb \/ ready_to_play_cb
    BY <1>5 DEF start_pdraw_idle, open_resp_cb, ready_to_play_cb, Idle
  <1>6. CASE MediaAdded \/ media_added_cb \/ MediaRemoved \/ media_removed_cb
    BY <1>6 DEF MediaAdded, media_added_cb, MediaRemoved, media_removed_cb
  <1>7. CASE QueueFrame \/ flush_cb \/ stop_pdraw_idle
    BY <1>7 DEF QueueFrame, flush_cb, stop_pdraw_idle, Idle
  <1>8. CASE close_resp_cb \/ delete_pdraw_idle
    BY <1>8 DEF close_resp_cb, delete_pdraw_idle, Idle
  <1>9. CASE UNCHANGED vars
    BY <1>9 DEF vars, self
  <1>. QED
    BY <1>1, <1>2, <1>3, <1>4, <1>5, <1>6, <1>7, <1>8, <1>9 DEF Next, LoopStep

\* The media and the calls.
LEMMA MediaStep ==
  ASSUME VsinkTypeOK, MediaInv, [Next]_vars
  PROVE  MediaInv'
  <1> USE VsinkConstantsOK DEF MediaInv, VsinkTypeOK, AppOnly, LoopOnly,
          LoopStates, InStart, InStop, Stopping
  <1>1. CASE Start \/ Wait \/ Started
    BY <1>1 DEF Start, Wait, Started
  <1>2. CASE GetFrame \/ Popped \/ StopCalled
    BY <1>2 DEF GetFrame, Popped, StopCalled
  <1>3. CASE Stop \/ EndThread \/ Free
    BY <1>3, ZenonT(60) DEF Stop, EndThread, Free
  <1>4. CASE EndOfThread \/ Signal \/ Fail
    BY <1>4 DEF EndOfThread, Signal, Fail, self
  <1>5. CASE start_pdraw_idle
    BY <1>5 DEF start_pdraw_idle, Idle
  <1>6. CASE open_resp_cb \/ ready_to_play_cb
    BY <1>6, ZenonT(60) DEF open_resp_cb, ready_to_play_cb
  <1>7. CASE MediaAdded \/ media_added_cb \/ MediaRemoved \/ media_removed_cb
    BY <1>7, ZenonT(60) DEF MediaAdded, media_added_cb, MediaRemoved, media_removed_cb
  <1>8. CASE QueueFrame \/ flush_cb
    BY <1>8 DEF QueueFrame, flush_cb
  <1>9. CASE stop_pdraw_idle
    <2>1. Stopping /\ UNCHANGED <<app, loop, media, added, queue>>
      BY <1>9 DEF stop_pdraw_idle, Idle
    <2>2. idles = {"stop_pdraw"}
      BY <1>9 DEF stop_pdraw_idle, Idle
    <2>3. /\ idles' \in {{}, {"delete_pdraw"}} /\ sink' \in {sink, "none"}
          /\ pdraw' \in {pdraw, "closing"}
      BY <1>9, <2>2 DEF stop_pdraw_idle
    <2>. QED
      BY <2>1, <2>2, <2>3
  <1>10. CASE close_resp_cb \/ delete_pdraw_idle
    <2>1. CASE close_resp_cb
      <3>1. idles = {} /\ idles' = {"delete_pdraw"}
        BY <2>1, ZenonT(60) DEF close_resp_cb
      <3>. QED
        BY <2>1, <3>1 DEF close_resp_cb
    <2>2. CASE delete_pdraw_idle
      <3>1. idles' = {}
        BY <2>2 DEF delete_pdraw_idle, Idle
      <3>. QED
        BY <2>2, <3>1 DEF delete_pdraw_idle, Idle
    <2>. QED
      BY <1>10, <2>1, <2>2
  <1>11. CASE UNCHANGED vars
    BY <1>11 DEF vars, self
  <1>. QED
    BY <1>1, <1>2, <1>3, <1>4, <1>5, <1>6, <1>7, <1>8, <1>9, <1>10, <1>11
    DEF Next, LoopStep

-----------------------------------------------------------------------------
(* What holds only when the waits are orderly.                             *)

\* The calls into the loop are for the one who waits.
LEMMA CallsStep ==
  ASSUME NoSpurious, Orderly, VsinkTypeOK, ThreadsInv, MediaInv, CallsInv, SignalInv,
         [Next]_vars
  PROVE  CallsInv'
  <1> USE VsinkConstantsOK DEF CallsInv, VsinkTypeOK, AppOnly, LoopOnly, LoopStates,
          InStart, InStop
  <1>1. CASE Start
    BY <1>1 DEF Start, MediaInv
  <1>2. CASE Wait \/ Started
    BY <1>2 DEF Wait, Started, NoSpurious
  <1>3. CASE GetFrame \/ Popped \/ StopCalled
    BY <1>3 DEF GetFrame, Popped, StopCalled
  <1>4. CASE Stop \/ EndThread \/ Free
    BY <1>4 DEF Stop, EndThread, Free, SignalInv
  <1>5. CASE EndOfThread
    BY <1>5 DEF EndOfThread, ThreadsInv
  <1>6. CASE Signal \/ Fail
    BY <1>6 DEF Signal, Fail, self, SignalInv
  <1>7. CASE start_pdraw_idle
    BY <1>7 DEF start_pdraw_idle, Idle
  <1>8. CASE open_resp_cb \/ ready_to_play_cb
    BY <1>8 DEF open_resp_cb, ready_to_play_cb
  <1>9. CASE MediaAdded \/ media_added_cb \/ MediaRemoved \/ media_removed_cb
    BY <1>9 DEF MediaAdded, media_added_cb, MediaRemoved, media_removed_cb, MediaInv
  <1>10. CASE QueueFrame \/ flush_cb
    BY <1>10 DEF QueueFrame, flush_cb
  <1>11. CASE stop_pdraw_idle
    BY <1>11 DEF stop_pdraw_idle, Idle
  <1>12. CASE close_resp_cb \/ delete_pdraw_idle
    BY <1>12 DEF close_resp_cb, delete_pdraw_idle, Idle
  <1>13. CASE UNCHANGED vars
    BY <1>13 DEF vars, self
  <1>. QED
    BY <1>1, <1>2, <1>3, <1>4, <1>5, <1>6, <1>7, <1>8, <1>9, <1>10, <1>11, <1>12, <1>13
    DEF Next, LoopStep

\* While stop() waits, the only signal is that of the deleted session.
LEMMA SignalStep ==
  ASSUME NoSpurious, Orderly, VsinkTypeOK, ThreadsInv, MediaInv, CallsInv, SignalInv,
         [Next]_vars
  PROVE  SignalInv'
  <1> USE VsinkConstantsOK DEF SignalInv, VsinkTypeOK, AppOnly, LoopOnly, LoopStates,
          InStart, InStop
  <1>1. CASE Start
    BY <1>1 DEF Start, MediaInv
  <1>2. CASE Wait
    BY <1>2 DEF Wait, NoSpurious
  <1>3. CASE Started \/ StopCalled
    BY <1>3, ZenonT(60) DEF Started, StopCalled, Settled, Orderly, CallsInv
  <1>4. CASE GetFrame \/ Popped
    BY <1>4 DEF GetFrame, Popped
  <1>5. CASE Stop
    BY <1>5 DEF Stop
  <1>6. CASE EndThread \/ Free
    BY <1>6 DEF EndThread, Free
  <1>7. CASE EndOfThread
    BY <1>7 DEF EndOfThread, ThreadsInv
  <1>8. CASE Signal
    BY <1>8 DEF Signal, self
  <1>9. CASE Fail
    BY <1>9 DEF Fail
  <1>10. CASE start_pdraw_idle
    BY <1>10 DEF start_pdraw_idle, Idle, CallsInv, Orderly
  <1>11. CASE open_resp_cb
    BY <1>11 DEF open_resp_cb
  <1>12. CASE ready_to_play_cb \/ MediaAdded
    BY <1>12 DEF ready_to_play_cb, MediaAdded, MaySignal, Orderly
  <1>13. CASE media_added_cb
    BY <1>13 DEF media_added_cb, MediaInv
  <1>14. CASE MediaRemoved \/ media_removed_cb
    BY <1>14 DEF MediaRemoved, media_removed_cb
  <1>15. CASE QueueFrame \/ flush_cb
    BY <1>15 DEF QueueFrame, flush_cb
  <1>16. CASE stop_pdraw_idle
    BY <1>16 DEF stop_pdraw_idle, Idle, CallsInv
  <1>17. CASE close_resp_cb
    BY <1>17 DEF close_resp_cb, CallsInv
  <1>18. CASE delete_pdraw_idle
    <2>1. idles' = {} /\ pdraw' = "none" /\ loop' = "signal"
      BY <1>18 DEF delete_pdraw_idle, Idle, MediaInv
    <2>. QED
      BY <1>18, <2>1 DEF delete_pdraw_idle, Idle, CallsInv
  <1>19. CASE UNCHANGED vars
    BY <1>19 DEF vars, self
  <1>. QED
    BY <1>1, <1>2, <1>3, <1>4, <1>5, <1>6, <1>7, <1>8, <1>9, <1>10, <1>11, <1>12, <1>13,
       <1>14, <1>15, <1>16, <1>17, <1>18, <1>19 DEF Next, LoopStep

\* What start() is woken by: a failure, or the sink of a medium.
LEMMA StartStep ==
  ASSUME NoSpurious, Orderly, VsinkTypeOK, ThreadsInv, MediaInv, CallsInv, SignalInv,
         StartInv, [Next]_vars
  PROVE  StartInv'
  <1> USE VsinkConstantsOK DEF StartInv, VsinkTypeOK, AppOnly, LoopOnly, LoopStates,
          InStart, InStop
  <1>1. CASE Start
    BY <1>1 DEF Start
  <1>2. CASE Wait
    BY <1>2 DEF Wait, NoSpurious
  <1>3. CASE Started
    BY <1>3 DEF Started
  <1>4. CASE GetFrame \/ Popped \/ StopCalled
    BY <1>4 DEF GetFrame, Popped, StopCalled
  <1>5. CASE Stop \/ EndThread \/ Free
    BY <1>5 DEF Stop, EndThread, Free
  <1>6. CASE EndOfThread
    BY <1>6 DEF EndOfThread
  <1>7. CASE Signal
    BY <1>7 DEF Signal, self
  <1>8. CASE Fail
    BY <1>8 DEF Fail
  <1>9. CASE start_pdraw_idle \/ open_resp_cb \/ ready_to_play_cb
    BY <1>9 DEF start_pdraw_idle, open_resp_cb, ready_to_play_cb
  <1>10. CASE MediaAdded \/ MediaRemoved
    BY <1>10 DEF MediaAdded, MediaRemoved
  <1>11. CASE media_added_cb
    BY <1>11 DEF media_added_cb
  <1>12. CASE media_removed_cb \/ QueueFrame \/ flush_cb
    BY <1>12 DEF media_removed_cb, QueueFrame, flush_cb
  <1>13. CASE stop_pdraw_idle \/ close_resp_cb
    BY <1>13 DEF stop_pdraw_idle, close_resp_cb
  <1>14. CASE delete_pdraw_idle
    BY <1>14 DEF delete_pdraw_idle, Idle, CallsInv
  <1>15. CASE UNCHANGED vars
    BY <1>15 DEF vars, self
  <1>. QED
    BY <1>1, <1>2, <1>3, <1>4, <1>5, <1>6, <1>7, <1>8, <1>9, <1>10, <1>11, <1>12, <1>13,
       <1>14, <1>15 DEF Next, LoopStep

\* A queue is waited for only while its sink is there.
LEMMA QueueStep ==
  ASSUME "staleQueue" \notin Allowed, VsinkTypeOK, ThreadsInv, MediaInv,
         app = "pop" => sink # "none", [Next]_vars
  PROVE  app' = "pop" => sink' # "none"
  <1> USE VsinkConstantsOK DEF VsinkTypeOK, AppOnly, LoopOnly, LoopStates, InStart, InStop
  <1>1. CASE Start \/ Wait \/ Started \/ GetFrame \/ Popped \/ StopCalled \/ Stop
             \/ EndThread \/ Free
    BY <1>1 DEF Start, Wait, Started, GetFrame, Popped, StopCalled, Stop, EndThread, Free
  <1>2. CASE EndOfThread \/ Signal \/ Fail \/ QueueFrame \/ flush_cb
    BY <1>2 DEF EndOfThread, Signal, Fail, QueueFrame, flush_cb, self
  <1>3. CASE start_pdraw_idle \/ open_resp_cb \/ ready_to_play_cb \/ close_resp_cb
             \/ delete_pdraw_idle
    BY <1>3 DEF start_pdraw_idle, open_resp_cb, ready_to_play_cb, close_resp_cb,
       delete_pdraw_idle
  <1>4. CASE MediaAdded \/ media_added_cb \/ MediaRemoved \/ media_removed_cb
    BY <1>4 DEF MediaAdded, media_added_cb, MediaRemoved, media_removed_cb, ThreadsInv
  <1>5. CASE stop_pdraw_idle
    BY <1>5 DEF stop_pdraw_idle, Idle, ThreadsInv
  <1>6. CASE UNCHANGED vars
    BY <1>6 DEF vars, self
  <1>. QED
    BY <1>1, <1>2, <1>3, <1>4, <1>5, <1>6 DEF Next, LoopStep

\* A call that fails is one that failed.
LEMMA FailsCounted ==
  ASSUME VsinkTypeOK, Fails
  PROVE  bound'.faults # 0
  BY VsinkConstantsOK DEF VsinkTypeOK, Fails

\* The number of faults never falls, and only a fault raises it.
LEMMA FaultsKept ==
  ASSUME VsinkTypeOK, [Next]_vars, bound'.faults = 0
  PROVE  bound.faults = 0
  <1>0. bound.faults \in Nat
    BY DEF VsinkTypeOK
  <1>1. CASE Fails
    BY <1>1, FailsCounted
  <1>2. CASE GetFrame
    BY <1>2 DEF GetFrame, VsinkTypeOK
  <1>3. CASE bound' = bound
    BY <1>3
  <1>. QED
    BY <1>1, <1>2, <1>3
    DEF Next, LoopStep, vars, self, Start, Wait, Started, Popped, StopCalled, Stop,
        EndThread, Free, EndOfThread, Signal, Fail, start_pdraw_idle, open_resp_cb,
        ready_to_play_cb, MediaAdded, media_added_cb, MediaRemoved, media_removed_cb,
        QueueFrame, flush_cb, stop_pdraw_idle, close_resp_cb, delete_pdraw_idle

\* The sink follows the medium through the two callbacks of the media, unless
\* a call into libpdraw failed.
LEMMA FollowStep ==
  ASSUME "overlap" \notin Allowed, VsinkTypeOK, ThreadsInv, MediaInv, FollowInv,
         [Next]_vars
  PROVE  FollowInv'
  <1> USE VsinkConstantsOK, FaultsKept
      DEF FollowInv, VsinkTypeOK, AppOnly, LoopOnly, LoopStates, InStart, InStop
  <1>1. CASE Start
    BY <1>1 DEF Start, MediaInv
  <1>2. CASE Wait \/ Started \/ Popped \/ StopCalled
    BY <1>2 DEF Wait, Started, Popped, StopCalled
  <1>3. CASE GetFrame
    BY <1>3 DEF GetFrame
  <1>4. CASE Stop \/ EndThread \/ Free
    BY <1>4 DEF Stop, EndThread, Free
  <1>5. CASE EndOfThread \/ Signal \/ Fail
    BY <1>5 DEF EndOfThread, Signal, Fail, self
  <1>6. CASE start_pdraw_idle
    BY <1>6, FailsCounted DEF start_pdraw_idle, Idle, MediaInv
  <1>7. CASE open_resp_cb
    <2>1. /\ UNCHANGED <<app, idles, media, sink>>
          /\ loop = "wait" /\ loop' \in {"wait", "fail"} /\ pdraw = "opening"
      BY <1>7 DEF open_resp_cb
    <2>2. bound'.faults = 0 => bound.faults = 0 /\ loop' = "wait"
      BY <1>7, FailsCounted DEF open_resp_cb
    <2>3. app # "out" /\ "start_pdraw" \notin idles
      BY <2>1 DEF MediaInv
    <2>. QED
      BY <2>1, <2>2, <2>3
  <1>8. CASE ready_to_play_cb
    <2>1. /\ UNCHANGED <<app, idles, media, sink, pdraw>>
          /\ loop = "wait" /\ loop' = "fail" /\ bound'.faults # 0
      BY <1>8, FailsCounted DEF ready_to_play_cb
    <2>2. app # "out" /\ "start_pdraw" \notin idles
      BY <1>8 DEF MediaInv, ready_to_play_cb
    <2>. QED
      BY <2>1, <2>2
  <1>9. CASE MediaAdded
    BY <1>9 DEF MediaAdded, MediaInv
  <1>10. CASE media_added_cb
    BY <1>10, FailsCounted DEF media_added_cb, MediaInv
  <1>11. CASE MediaRemoved
    <2>1. /\ UNCHANGED <<app, idles, sink, pdraw, bound>>
          /\ loop' = "removed" /\ media' = {} /\ media # {}
      BY <1>11 DEF MediaRemoved
    <2>2. app # "out" /\ "start_pdraw" \notin idles
      BY <2>1, <1>11 DEF MediaInv
    <2>3. loop' \notin Media
      BY <2>1
    <2> HIDE VsinkConstantsOK, FaultsKept DEF VsinkTypeOK
    <2>. QED
      BY <2>1, <2>2, <2>3
  <1>12. CASE media_removed_cb
    BY <1>12 DEF media_removed_cb
  <1>13. CASE QueueFrame \/ flush_cb
    BY <1>13 DEF QueueFrame, flush_cb
  <1>14. CASE stop_pdraw_idle
    BY <1>14, FailsCounted DEF stop_pdraw_idle, Idle
  <1>15. CASE close_resp_cb
    BY <1>15 DEF close_resp_cb
  <1>16. CASE delete_pdraw_idle
    <2>1. /\ app # "out" /\ UNCHANGED <<app, sink, bound>>
          /\ idles' = {} /\ media' = {} /\ loop' = "signal" /\ pdraw' = "none"
      BY <1>16 DEF delete_pdraw_idle, Idle, MediaInv
    <2>2. loop' \notin Media
      BY <2>1
    <2> HIDE VsinkConstantsOK, FaultsKept DEF VsinkTypeOK
    <2>. QED
      BY <2>1, <2>2
  <1>17. CASE UNCHANGED vars
    BY <1>17 DEF vars, self
  <1>. QED
    BY <1>1, <1>2, <1>3, <1>4, <1>5, <1>6, <1>7, <1>8, <1>9, <1>10, <1>11, <1>12, <1>13,
       <1>14, <1>15, <1>16, <1>17 DEF Next, LoopStep

-----------------------------------------------------------------------------
AnyInv == VsinkTypeOK /\ ThreadsInv /\ MediaInv
OrderlyInv == AnyInv /\ CallsInv /\ SignalInv /\ StartInv

\* AnyInv holds whatever the threads, the session and POSIX do.
THEOREM VsinkInvariance == Spec => []AnyInv
  <1>1. Init => AnyInv
    BY InitInv DEF AnyInv
  <1>2. AnyInv /\ [Next]_vars => AnyInv'
    <2> SUFFICES ASSUME AnyInv, [Next]_vars PROVE AnyInv'
      OBVIOUS
    <2>1. VsinkTypeOK'
      <3>1. CASE UNCHANGED vars
        BY <3>1 DEF AnyInv, VsinkTypeOK, vars, self, InStart, InStop
      <3>. QED
        BY <3>1, TypeApp, TypeLoop DEF AnyInv, Next, AppStep
    <2>. QED
      BY <2>1, ThreadsStep, MediaStep DEF AnyInv
  <1>. QED
    BY <1>1, <1>2, PTL DEF Spec

\* Type correctness, whatever is allowed.
THEOREM VsinkTypeCorrect == Spec => []VsinkTypeOK
  <1>1. AnyInv => VsinkTypeOK
    BY DEF AnyInv
  <1>. QED
    BY <1>1, VsinkInvariance, PTL

\* The thread is over when the instance is freed, even after a wait that was
\* ended by the wrong signal or by none (pdraw_vsink_stop() joins in any case).
THEOREM FreedIsUnused == Spec => []FreedUnused
  <1>1. AnyInv => FreedUnused
    BY DEF AnyInv, ThreadsInv
  <1>. QED
    BY <1>1, VsinkInvariance, PTL

\* OrderlyInv holds when the waits are orderly.
THEOREM OrderlyInvariance == ASSUME NoSpurious, Orderly PROVE Spec => []OrderlyInv
  <1>1. Init => OrderlyInv
    BY InitInv DEF AnyInv, OrderlyInv
  <1>2. OrderlyInv /\ AnyInv' /\ [Next]_vars => OrderlyInv'
    BY CallsStep, SignalStep, StartStep DEF AnyInv, OrderlyInv
  <1>. QED
    BY <1>1, <1>2, VsinkInvariance, PTL DEF Spec

\* With orderly waits, stop() returns only once the libpdraw instance is
\* deleted, whatever failed before.
THEOREM PdrawIsDeleted == ASSUME NoSpurious, Orderly PROVE Spec => []PdrawDeleted
  <1>1. OrderlyInv => PdrawDeleted
    BY DEF OrderlyInv, SignalInv, PdrawDeleted
  <1>. QED
    BY <1>1, OrderlyInvariance, PTL

\* With orderly waits, start() returns an instance only with a sink.
THEOREM StartedWithSink == ASSUME NoSpurious, Orderly PROVE Spec => []StartedHasSink
  <1>1. OrderlyInv => StartedHasSink
    BY DEF OrderlyInv, AnyInv, StartInv, MediaInv, StartedHasSink
  <1>. QED
    BY <1>1, OrderlyInvariance, PTL

\* When frames are asked for only while there is a sink, the sink stays for
\* as long as its queue is waited for: its removal waits for the mutex.
THEOREM QueueStaysAlive == ASSUME "staleQueue" \notin Allowed PROVE Spec => []QueueAlive
  <1> DEFINE Sunk == app = "pop" => sink # "none"
  <1>1. Init => Sunk
    BY DEF Init
  <1>2. Sunk /\ AnyInv /\ [Next]_vars => Sunk'
    BY QueueStep DEF AnyInv
  <1>3. Sunk /\ AnyInv => QueueAlive
    BY DEF AnyInv, MediaInv, QueueAlive
  <1> HIDE DEF Sunk
  <1>. QED
    BY <1>1, <1>2, <1>3, VsinkInvariance, PTL DEF Spec
\* When no two media overlap, the sink is that of the medium the session has
\* whenever no callback is under way and nothing failed, whatever the waits of
\* the application do: media_added_cb() and media_removed_cb() leave no sink
\* behind and miss no medium.
THEOREM SinkFollows == ASSUME "overlap" \notin Allowed PROVE Spec => []SinkFollowsMedia
  <1>1. Init => FollowInv
    BY VsinkConstantsOK DEF Init, FollowInv, LoopStates
  <1>2. FollowInv /\ AnyInv /\ [Next]_vars => FollowInv'
    BY FollowStep DEF AnyInv
  <1>3. FollowInv => SinkFollowsMedia
    BY VsinkConstantsOK DEF FollowInv, SinkFollowsMedia, LoopStates
  <1>. QED
    BY <1>1, <1>2, <1>3, VsinkInvariance, PTL DEF Spec

=============================================================================
