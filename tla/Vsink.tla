-------------------------------- MODULE Vsink --------------------------------
(***************************************************************************)
(* libpdraw-vsink (pdraw_vsink.c): a blocking wrapper of libpdraw.  The    *)
(* application starts an instance, takes frames and stops it; a thread of  *)
(* the instance runs the loop and the callbacks of libpdraw.  The two      *)
(* meet on one mutex and one condition variable that is waited for without *)
(* a predicate.  What a thread does under the mutex without waiting is one *)
(* step; a signal is a step of its own, as it is given without the mutex.  *)
(***************************************************************************)
EXTENDS Naturals

CONSTANTS
    Media,      \* the decoded media the session may add, each once
    Allowed,    \* what may happen, see AllAllowed
    MaxFrames,  \* bound: number of frames asked for
    MaxFaults   \* bound: number of calls into libpdraw that fail

\* lateWait     the loop may do what it is asked before the application waits
\* lateSignal   a callback may signal while the application is in stop()
\* spurious     the wait may end for no reason, as POSIX allows
\* forever      frames are waited for without a timeout
\* staleQueue   frames are asked for when there is no sink
\* overlap      a medium may be added before the last one is removed
\* noMedium     the session may have no decoded medium at all
AllAllowed == {"lateWait", "lateSignal", "spurious", "forever", "staleQueue",
               "overlap", "noMedium"}

LoopStates == {"none", "wait", "signal", "fail", "removed", "ended"}

ASSUME VsinkConstantsOK ==
    /\ Media \cap LoopStates = {}
    /\ Allowed \subseteq AllAllowed
    /\ MaxFrames \in Nat /\ MaxFaults \in Nat

VARIABLES
    app,        \* where the application is
    mutex,      \* the application holds the mutex across a step
    loop,       \* what the loop thread is in
    idles,      \* idle calls added to the loop (never two)
    should_stop,\* thread_should_stop
    pdraw,      \* the libpdraw instance
    media,      \* the decoded media of the session
    added,      \* those it ever had
    sink, queue,\* the medium of the sink; the one whose queue is kept
    frame,      \* the queue holds a frame (queue_max_count is 1)
    result,     \* result of the start
    bound       \* frames asked for and faults so far

self == <<should_stop, pdraw, sink, queue, result>>
vars == <<app, mutex, loop, idles, self, media, added, frame, bound>>

InStart == {"startLock", "startWait", "startWoken"}
InStop == {"stop", "stopLock", "stopWait", "stopWoken", "endThread", "join"}
VsinkTypeOK ==
    /\ app \in {"out", "in", "pop", "freed"} \cup InStart \cup InStop
    /\ mutex \in BOOLEAN
    /\ loop \in LoopStates \cup Media
    /\ idles \subseteq {"start_pdraw", "stop_pdraw", "delete_pdraw"}
    /\ should_stop \in BOOLEAN
    /\ pdraw \in {"none", "new", "opening", "open", "closing"}
    /\ media \subseteq added /\ added \subseteq Media
    /\ sink \in Media \cup {"none"} /\ queue \in Media \cup {"none"}
    /\ frame \in BOOLEAN /\ result \in {"ok", "failed"}
    /\ bound \in [frames : 0..MaxFrames, faults : 0..MaxFaults]

Init ==
    /\ app = "out" /\ mutex = FALSE /\ loop = "none" /\ idles = {}
    /\ should_stop = FALSE /\ pdraw = "none" /\ media = {} /\ added = {}
    /\ sink = "none" /\ queue = "none" /\ frame = FALSE /\ result = "ok"
    /\ bound = [frames |-> 0, faults |-> 0]

Fails == bound.faults < MaxFaults /\ bound' = [bound EXCEPT !.faults = @ + 1]

-----------------------------------------------------------------------------
(* The application: pdraw_vsink_start(), _get_frame() and _stop().         *)

AppOnly == UNCHANGED <<pdraw, media, added, sink, queue, result>>

Start ==
    /\ app = "out"
    /\ app' = "startLock" /\ loop' = "wait" /\ idles' = {"start_pdraw"}
    /\ UNCHANGED <<mutex, should_stop, frame, bound>> /\ AppOnly

\* pthread_cond_wait() gives the mutex back; it may end for no reason.
Wait ==
    /\ app \in {"startLock", "stopLock"}
    /\ \E ends \in {FALSE} \cup {"spurious" \in Allowed} :
          app' = CASE app = "startLock" -> IF ends THEN "startWoken" ELSE "startWait"
                   [] app = "stopLock" -> IF ends THEN "stopWoken" ELSE "stopWait"
    /\ UNCHANGED <<mutex, loop, idles, should_stop, frame, bound>> /\ AppOnly

MaySignal == app \notin InStop \/ "lateSignal" \in Allowed
Settled == loop \in {"wait", "removed"} \/ "lateSignal" \in Allowed

\* A start that failed stops the instance itself.
Started ==
    /\ app = "startWoken" /\ (result = "ok" \/ Settled)
    /\ app' = IF result = "ok" THEN "in" ELSE "stop"
    /\ UNCHANGED <<mutex, loop, idles, should_stop, frame, bound>> /\ AppOnly

GetFrame ==
    /\ app = "in" /\ bound.frames < MaxFrames
    /\ "staleQueue" \in Allowed \/ sink # "none"
    /\ app' = "pop" /\ mutex' = TRUE
    /\ bound' = [bound EXCEPT !.frames = @ + 1]
    /\ UNCHANGED <<loop, idles, should_stop, frame>> /\ AppOnly

\* The mutex is kept while the queue is waited for.
Popped ==
    /\ app = "pop"
    /\ frame \/ "forever" \notin Allowed
    /\ app' = "in" /\ mutex' = FALSE /\ frame' = FALSE
    /\ UNCHANGED <<loop, idles, should_stop, bound>> /\ AppOnly

StopCalled ==
    /\ app = "in" /\ Settled
    /\ app' = "stop"
    /\ UNCHANGED <<mutex, loop, idles, should_stop, frame, bound>> /\ AppOnly

\* pdraw is read without the mutex.
Stop ==
    /\ \/ /\ app = "stop" /\ pdraw # "none"
          /\ app' = "stopLock" /\ idles' = idles \cup {"stop_pdraw"}
       \/ /\ app = "stop" /\ pdraw = "none"
          /\ app' = "endThread" /\ UNCHANGED idles
       \/ app = "stopWoken" /\ app' = "endThread" /\ UNCHANGED idles
    /\ UNCHANGED <<mutex, loop, should_stop, frame, bound>> /\ AppOnly

EndThread ==
    /\ app = "endThread"
    /\ app' = "join" /\ should_stop' = TRUE
    /\ UNCHANGED <<mutex, loop, idles, frame, bound>> /\ AppOnly

\* pthread_join(), then everything is destroyed and freed.
Free ==
    /\ app = "join" /\ loop = "ended"
    /\ app' = "freed"
    /\ UNCHANGED <<mutex, loop, idles, should_stop, frame, bound>> /\ AppOnly

-----------------------------------------------------------------------------
(* The loop thread.                                                        *)

LoopOnly == UNCHANGED <<app, mutex, should_stop>>
Idle(call) == /\ loop = "wait" /\ call \in idles
              /\ ~mutex
              /\ "lateWait" \in Allowed \/ app \notin {"startLock", "stopLock"}

EndOfThread ==
    /\ loop = "wait" /\ should_stop
    /\ loop' = "ended"
    /\ UNCHANGED <<idles, pdraw, media, added, sink, queue, frame, result, bound>> /\ LoopOnly

\* pthread_cond_signal(): a signal nobody waits for is lost.
Signal ==
    /\ loop = "signal" /\ loop' = "wait"
    /\ app' = CASE app = "startWait" -> "startWoken"
                [] app = "stopWait" -> "stopWoken"
                [] OTHER -> app
    /\ UNCHANGED <<mutex, idles, self, media, added, frame, bound>>

\* What pdraw_new(), pdraw_open_url(), an open response or pdraw_play() that
\* fails is followed by: the result is set under the mutex.
Fail ==
    /\ loop = "fail" /\ ~mutex
    /\ loop' = "signal" /\ result' = "failed"
    /\ UNCHANGED <<idles, pdraw, media, added, sink, queue, frame, bound>> /\ LoopOnly

start_pdraw_idle ==
    /\ Idle("start_pdraw")
    /\ idles' = idles \ {"start_pdraw"}
    /\ \/ Fails /\ loop' = "fail" /\ pdraw' \in {"none", "new"}
       \/ UNCHANGED <<loop, bound>> /\ pdraw' = "opening"
    /\ UNCHANGED <<media, added, sink, queue, frame, result>> /\ LoopOnly

\* Mutant: every open response ends the start.
open_resp_signals ==
    /\ loop = "wait" /\ pdraw = "opening"
    /\ \/ Fails /\ added = {} /\ loop' = "fail" /\ pdraw' = "new"
       \/ UNCHANGED bound /\ pdraw' = "open" /\ loop' = "signal"
    /\ UNCHANGED <<idles, media, added, sink, queue, frame, result>> /\ LoopOnly

open_resp_cb ==
    /\ loop = "wait" /\ pdraw = "opening"
    /\ \/ Fails /\ added = {} /\ loop' = "fail" /\ pdraw' = "new"
       \/ UNCHANGED <<loop, bound>> /\ pdraw' = "open"
    /\ UNCHANGED <<idles, media, added, sink, queue, frame, result>> /\ LoopOnly

\* ready_to_play_cb() plays: nothing comes of it here unless play() fails.
ready_to_play_cb ==
    /\ loop = "wait" /\ pdraw = "open" /\ MaySignal
    /\ Fails /\ loop' = "fail"
    /\ UNCHANGED <<idles, pdraw, media, added, sink, queue, frame, result>> /\ LoopOnly

\* media_added_cb() is called, and waits for the mutex.
MediaAdded ==
    /\ loop = "wait" /\ pdraw \in {"opening", "open"} /\ MaySignal
    /\ media = {} \/ "overlap" \in Allowed
    /\ \E medium \in Media \ added :
          /\ loop' = medium
          /\ media' = media \cup {medium} /\ added' = added \cup {medium}
    /\ UNCHANGED <<idles, pdraw, sink, queue, frame, result, bound>> /\ LoopOnly

\* A sink there is already is replaced, or cannot be stopped and stays.
media_added_cb ==
    /\ loop \in Media /\ ~mutex
    /\ loop' = "signal"
    /\ \/ /\ sink' = loop /\ queue' = loop /\ frame' = FALSE
          /\ result' = "ok" /\ UNCHANGED bound
       \/ /\ Fails /\ sink' \in {sink, "none"} /\ frame' = (frame /\ sink' # "none")
          /\ result' = "failed" /\ UNCHANGED queue
    /\ UNCHANGED <<idles, pdraw, media, added>> /\ LoopOnly

\* media_removed_cb() is called, and waits for the mutex.
MediaRemoved ==
    /\ loop = "wait"
    /\ \E medium \in media : media' = media \ {medium}
    /\ loop' = "removed"
    /\ UNCHANGED <<idles, pdraw, added, sink, queue, frame, result, bound>> /\ LoopOnly

\* Mutant: the sink is stopped without the mutex.
media_removed_unlocked ==
    /\ loop = "removed"
    /\ loop' = "wait" /\ sink' = "none" /\ frame' = FALSE
    /\ UNCHANGED <<idles, pdraw, media, added, queue, result, bound>> /\ LoopOnly

\* Mutant: the sink is kept.
media_removed_kept ==
    /\ loop = "removed" /\ ~mutex
    /\ loop' = "wait"
    /\ UNCHANGED <<idles, pdraw, media, added, sink, queue, frame, result, bound>> /\ LoopOnly

\* The sink is stopped whatever medium was removed; queue is not reset.
media_removed_cb ==
    /\ loop = "removed" /\ ~mutex
    /\ loop' = "wait" /\ sink' = "none" /\ frame' = FALSE
    /\ UNCHANGED <<idles, pdraw, media, added, queue, result, bound>> /\ LoopOnly

\* A frame in a full queue is dropped for the new one; flush_cb() empties it.
QueueFrame ==
    /\ loop = "wait" /\ sink # "none" /\ ~frame
    /\ frame' = TRUE
    /\ UNCHANGED <<loop, idles, pdraw, media, added, sink, queue, result, bound>> /\ LoopOnly
flush_cb ==
    /\ loop = "wait" /\ sink # "none" /\ frame
    /\ frame' = FALSE
    /\ UNCHANGED <<loop, idles, pdraw, media, added, sink, queue, result, bound>> /\ LoopOnly

\* A sink that cannot be stopped, or a session that cannot be closed, is
\* deleted as it is.
stop_pdraw_idle ==
    /\ Idle("stop_pdraw")
    /\ \/ /\ Fails /\ sink' \in {sink, "none"}
          /\ idles' = (idles \ {"stop_pdraw"}) \cup {"delete_pdraw"} /\ UNCHANGED pdraw
       \/ /\ sink' = "none" /\ pdraw' = "closing"
          /\ idles' = idles \ {"stop_pdraw"} /\ UNCHANGED bound
    /\ frame' = (frame /\ sink' # "none")
    /\ UNCHANGED <<loop, media, added, queue, result>> /\ LoopOnly

\* Mutant: the end of the session is signalled before it is deleted.
close_resp_signals ==
    /\ loop = "wait" /\ pdraw = "closing" /\ media = {} /\ "delete_pdraw" \notin idles
    /\ idles' = idles \cup {"delete_pdraw"} /\ loop' = "signal"
    /\ UNCHANGED <<pdraw, media, added, sink, queue, frame, result, bound>> /\ LoopOnly

\* The media were removed; called once.
close_resp_cb ==
    /\ loop = "wait" /\ pdraw = "closing" /\ media = {} /\ "delete_pdraw" \notin idles
    /\ idles' = idles \cup {"delete_pdraw"}
    /\ UNCHANGED <<loop, pdraw, media, added, sink, queue, frame, result, bound>> /\ LoopOnly


delete_pdraw_idle ==
    /\ Idle("delete_pdraw")
    /\ idles' = idles \ {"delete_pdraw"} /\ pdraw' = "none" /\ media' = {} /\ loop' = "signal"
    /\ UNCHANGED <<added, sink, queue, frame, result, bound>> /\ LoopOnly

-----------------------------------------------------------------------------
LoopStep ==
    \/ EndOfThread \/ Signal \/ Fail \/ start_pdraw_idle \/ open_resp_cb
    \/ ready_to_play_cb \/ MediaAdded \/ media_added_cb \/ MediaRemoved
    \/ media_removed_cb \/ QueueFrame \/ flush_cb \/ stop_pdraw_idle
    \/ close_resp_cb \/ delete_pdraw_idle

Next == \/ Start \/ Wait \/ Started \/ GetFrame \/ Popped
        \/ StopCalled \/ Stop \/ EndThread \/ Free \/ LoopStep

Spec == Init /\ [][Next]_vars

\* The threads run; pop() ends at its timeout; the session answers, has its
\* first medium unless it need not, and removes its media when it closes.
Fairness ==
    /\ WF_vars(Wait \/ Started \/ Popped \/ Stop \/ EndThread \/ Free)
    /\ WF_vars(EndOfThread) /\ WF_vars(Signal \/ Fail \/ media_added_cb \/ media_removed_cb)
    /\ WF_vars(start_pdraw_idle \/ stop_pdraw_idle \/ delete_pdraw_idle)
    /\ WF_vars(open_resp_cb) /\ WF_vars(close_resp_cb)
    /\ WF_vars(MediaAdded /\ added = {} /\ "noMedium" \notin Allowed)
    /\ WF_vars(MediaRemoved /\ pdraw = "closing")
FairSpec == Spec /\ Fairness

-----------------------------------------------------------------------------
\* When the instance is freed, its thread is over and nobody has the mutex
\* (pdraw_vsink_stop() joins the thread before it destroys what it uses).
FreedUnused == app = "freed" => loop = "ended" /\ ~mutex

\* When the loop is destroyed, the libpdraw instance that runs on it is
\* deleted: what ended the wait of stop() was the end of the session and no
\* other of the five signals.
PdrawDeleted == app = "freed" => pdraw = "none" /\ idles = {}

\* An instance start() returned has had its sink started, of a medium the
\* session has or had.
StartedHasSink == app \in {"in", "pop"} => queue # "none" /\ queue \in added

\* When no callback is under way and nothing failed, the sink is that of the
\* medium the session has, and there is none without a medium: the two
\* callbacks of the media leave no sink behind and miss no medium.
SinkFollowsMedia ==
    loop = "wait" /\ pdraw = "open" /\ bound.faults = 0 =>
        IF media = {} THEN sink = "none" ELSE sink \in media

\* What makes SinkFollowsMedia inductive where media do not overlap: while a
\* callback waits for the mutex, the sink is still what it was before it.
\* Before the session is created there is no sink.
FollowInv ==
    /\ app = "out" \/ "start_pdraw" \in idles =>
           sink = "none" /\ loop \in {"none", "wait", "ended"}
    /\ \A c, d \in media : c = d
    /\ loop \in Media => media = {loop}
    /\ loop = "removed" => media = {}
    /\ pdraw \in {"opening", "open"} /\ bound.faults = 0 =>
           /\ loop \in Media => sink = "none"
           /\ loop \notin Media \cup {"removed"} =>
                  IF media = {} THEN sink = "none" ELSE sink \in media

\* While the application waits on a queue, the sink whose queue it is stays.
QueueAlive == app = "pop" => queue = sink

=============================================================================
