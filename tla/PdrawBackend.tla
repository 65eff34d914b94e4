---------------------------- MODULE PdrawBackend ----------------------------
(***************************************************************************)
(* libpdraw-backend (pdraw_backend_impl.cpp): the PDrAW instance mPdraw    *)
(* lives on a loop thread of its own, and the functions of the API may be  *)
(* called on any thread.  A call made on the loop thread, from a listener  *)
(* function, uses mPdraw directly.  Any other call posts a command to the  *)
(* mailbox mMbox and sleeps on the condition variable mCond until the loop *)
(* thread has executed it and written the answer to one of the mRet...     *)
(* members.  The members, and the flag mRetValReady, are shared by all     *)
(* calls; the recursive mutex mApiMutex, held for the whole call, lets one *)
(* call use them at a time.  The rendering functions use mPdraw on the     *)
(* rendering thread, under mApiMutex too.                                  *)
(*                                                                         *)
(* mPdraw is represented by its version (see BackendApi): an operation     *)
(* returns the version it creates, and 0 stands for the value a failed     *)
(* call returns and for the initial value of every mRet... member.         *)
(***************************************************************************)
EXTENDS Naturals, Sequences, BackendRpc

CONSTANTS
    App,            \* threads that call the functions of the API
    Render,         \* threads that call the rendering functions
    Loop,           \* the loop thread
    None,           \* no thread: a free mutex
    Calls,          \* API functions the application threads call
    CallbackCalls,  \* API functions listener functions call on the loop thread
    Stoppers,       \* threads that call stop()
    Restart,        \* whether start() is called again after stop()
    StartFails,     \* whether the loop thread may fail to create mPdraw
    MaxOps          \* bound: no call begins once mPdraw executed MaxOps operations

Threads == App \cup Render \cup {Loop}

ASSUME ThreadsOK == /\ Loop \notin App \cup Render
                    /\ None \notin Threads
                    /\ Stoppers \subseteq Threads
ASSUME CallsOK == Calls \subseteq ApiCalls /\ CallbackCalls \subseteq ApiCalls
ASSUME FlagsOK == Restart \in BOOLEAN /\ StartFails \in BOOLEAN /\ MaxOps \in Nat

VARIABLES
    mApiMutex,      \* [owner, depth]: the recursive mutex
    mMutex,         \* owner of the mutex of mCond
    mMbox,          \* commands posted and not yet read: [cmd, by]
    mRetValReady,
    ret,            \* the mRet... members
    mStarted,
    mThreadShouldStop,
    mLoopThreadLaunched,
    mPdraw,         \* the instance exists
    pc,             \* where each thread is in the API
    op,             \* the function it is in
    res,            \* its local variable res / ret
    inRender,       \* the threads inside a rendering function of mPdraw
    loopPc,         \* where the loop thread is in loopThread / mboxCb
    cur,            \* the command it is handling
    val,            \* what mPdraw returned for it
    inCallback,     \* whether a listener function is running on the loop thread
    startStatus,    \* mRetStatus as start() reads it: "ok" or "error"
    \* History: the version of mPdraw, the version the current call of a thread
    \* created (0 before that), and what its last call returned.
    version, ver, out

apiVars == <<mApiMutex, mMutex, mMbox, mRetValReady, ret>>
lifeVars == <<mStarted, mThreadShouldStop, mLoopThreadLaunched, mPdraw, startStatus>>
loopVars == <<loopPc, cur, val, inCallback>>
threadVars == <<pc, op, res, inRender>>
history == <<version, ver, out>>
vars == <<apiVars, lifeVars, loopVars, threadVars, history>>

NoCmd == [cmd |-> "none", by |-> None]
Msg(t) == [cmd |-> CmdOf(op[t]), by |-> t]

Pcs == {"idle", "api", "locked", "direct", "armed", "check", "wait", "awake",
        "unlock", "stopApi", "joining", "renderApi", "render"}
LoopPcs == {"none", "init", "initSignal", "failSignal", "run", "serve", "reply",
            "signal", "drain", "exited"}

ApiTypeOK ==
    /\ mApiMutex \in [owner : Threads \cup {None}, depth : Nat]
    /\ mMutex \in Threads \cup {None}
    /\ mMbox \in Seq([cmd : Cmds, by : Threads])
    /\ mRetValReady \in BOOLEAN
    /\ ret \in [Slots -> Nat]

LifeTypeOK ==
    /\ mStarted \in BOOLEAN /\ mThreadShouldStop \in BOOLEAN
    /\ mLoopThreadLaunched \in BOOLEAN /\ mPdraw \in BOOLEAN
    /\ startStatus \in {"ok", "error"}

LoopTypeOK ==
    /\ loopPc \in LoopPcs /\ inCallback \in BOOLEAN
    /\ cur \in [cmd : Cmds, by : Threads] \cup {NoCmd}
    /\ val \in Nat

ThreadTypeOK ==
    /\ pc \in [Threads -> Pcs]
    /\ op \in [Threads -> ApiCalls \cup {"none", "start"}]
    /\ res \in [Threads -> Nat]
    /\ inRender \in [Threads -> BOOLEAN]

HistoryTypeOK ==
    version \in Nat /\ ver \in [Threads -> Nat] /\ out \in [Threads -> Nat]

TypeOK == ApiTypeOK /\ LifeTypeOK /\ LoopTypeOK /\ ThreadTypeOK /\ HistoryTypeOK

Init ==
    /\ mApiMutex = [owner |-> None, depth |-> 0] /\ mMutex = None
    /\ mMbox = <<>> /\ mRetValReady = FALSE /\ ret = [s \in Slots |-> 0]
    /\ mStarted = FALSE /\ mThreadShouldStop = FALSE
    /\ mLoopThreadLaunched = FALSE /\ mPdraw = FALSE /\ startStatus = "ok"
    /\ pc = [t \in Threads |-> "idle"] /\ op = [t \in Threads |-> "none"]
    /\ res = [t \in Threads |-> 0] /\ inRender = [t \in Threads |-> FALSE]
    /\ loopPc = "none" /\ cur = NoCmd /\ val = 0 /\ inCallback = FALSE
    /\ version = 0 /\ ver = [t \in Threads |-> 0] /\ out = [t \in Threads |-> 0]

-----------------------------------------------------------------------------
(* The recursive mutex mApiMutex.                                          *)

CanLockApi(t) == mApiMutex.owner \in {None, t}
LockedBy(t) == [owner |-> t, depth |-> mApiMutex.depth + 1]
Unlocked == IF mApiMutex.depth = 1 THEN [owner |-> None, depth |-> 0]
            ELSE [mApiMutex EXCEPT !.depth = @ - 1]

\* A thread is running code of the application: outside the API, in a video
\* renderer listener function or, on the loop thread, in a listener function.
AtRest(t) == IF inRender[t] THEN "render" ELSE "idle"
InApplication(t) == pc[t] = AtRest(t) /\ (t = Loop => inCallback)

Goto(t, from, to) == pc[t] = from /\ pc' = [pc EXCEPT ![t] = to]

-----------------------------------------------------------------------------
(* A call of an API function.                                              *)

\* The call passes the check of mStarted, made before the mutex is locked.
Invoke(t, call) ==
    /\ InApplication(t) /\ t \notin Render \ App
    /\ call \in (IF t = Loop THEN CallbackCalls ELSE Calls)
    /\ mStarted
    /\ version < MaxOps
    /\ Goto(t, AtRest(t), "api")
    /\ op' = [op EXCEPT ![t] = call]
    /\ UNCHANGED <<apiVars, lifeVars, loopVars, res, inRender, history>>

LockApi(t) ==
    /\ CanLockApi(t)
    /\ mApiMutex' = LockedBy(t)
    /\ Goto(t, "api", IF t = Loop THEN "direct" ELSE "locked")
    /\ UNCHANGED <<mMutex, mMbox, mRetValReady, ret, lifeVars, loopVars, op, res,
                   inRender, history>>

\* On the loop thread the function of mPdraw is called directly.
Direct ==
    /\ Goto(Loop, "direct", "unlock")
    /\ version' = version + 1
    /\ ver' = [ver EXCEPT ![Loop] = version + 1]
    /\ res' = [res EXCEPT ![Loop] = version + 1]
    /\ UNCHANGED <<apiVars, lifeVars, loopVars, op, inRender, out>>

LockMutex(t) ==
    /\ mMutex = None
    /\ mMutex' = t
    /\ mRetValReady' = FALSE
    /\ Goto(t, "locked", "armed")
    /\ UNCHANGED <<mApiMutex, mMbox, ret, lifeVars, loopVars, op, res, inRender,
                   history>>

Push(t) ==
    /\ Goto(t, "armed", "check")
    /\ mMbox' = Append(mMbox, Msg(t))
    /\ UNCHANGED <<mApiMutex, mMutex, mRetValReady, ret, lifeVars, loopVars, op,
                   res, inRender, history>>

\* calloc or mbox_push fails: the call returns without waiting.
PushFails(t) ==
    /\ Goto(t, "armed", "unlock")
    /\ res' = [res EXCEPT ![t] = 0]
    /\ mMutex' = None
    /\ UNCHANGED <<mApiMutex, mMbox, mRetValReady, ret, lifeVars, loopVars, op,
                   inRender, history>>

\* while (!mRetValReady) pthread_cond_wait(&mCond, &mMutex)
Wait(t) ==
    /\ ~mRetValReady
    /\ Goto(t, "check", "wait")
    /\ mMutex' = None
    /\ UNCHANGED <<mApiMutex, mMbox, mRetValReady, ret, lifeVars, loopVars, op,
                   res, inRender, history>>

SpuriousWakeup(t) ==
    /\ Goto(t, "wait", "awake")
    /\ UNCHANGED <<apiVars, lifeVars, loopVars, op, res, inRender, history>>

Relock(t) ==
    /\ mMutex = None
    /\ mMutex' = t
    /\ Goto(t, "awake", "check")
    /\ UNCHANGED <<mApiMutex, mMbox, mRetValReady, ret, lifeVars, loopVars, op,
                   res, inRender, history>>

\* Mutant: "if" instead of "while" around pthread_cond_wait.
TakeUnready(t) ==
    /\ op[t] # "start"
    /\ Goto(t, "check", "unlock")
    /\ res' = [res EXCEPT ![t] = ret[ReadSlot(op[t])]]
    /\ ret' = [ret EXCEPT ![ReadSlot(op[t])] = 0]
    /\ mRetValReady' = FALSE /\ mMutex' = None
    /\ UNCHANGED <<mApiMutex, mMbox, lifeVars, loopVars, op, inRender, history>>

Take(t) ==
    /\ mRetValReady /\ op[t] # "start"
    /\ Goto(t, "check", "unlock")
    /\ res' = [res EXCEPT ![t] = ret[ReadSlot(op[t])]]
    /\ ret' = [ret EXCEPT ![ReadSlot(op[t])] = 0]
    /\ mRetValReady' = FALSE
    /\ mMutex' = None
    /\ UNCHANGED <<mApiMutex, mMbox, lifeVars, loopVars, op, inRender, history>>

UnlockApi(t) ==
    /\ Goto(t, "unlock", AtRest(t))
    /\ mApiMutex' = Unlocked
    /\ out' = [out EXCEPT ![t] = res[t]]
    /\ ver' = [ver EXCEPT ![t] = 0]
    /\ UNCHANGED <<mMutex, mMbox, mRetValReady, ret, lifeVars, loopVars, op, res,
                   inRender, version>>

-----------------------------------------------------------------------------
(* The rendering functions: they run on the rendering thread, and their    *)
(* listener functions may call the API from inside (mApiMutex is           *)
(* recursive).                                                             *)

Rendering(t) ==
    /\ t \in Render /\ mStarted
    /\ Goto(t, "idle", "renderApi")
    /\ UNCHANGED <<apiVars, lifeVars, loopVars, op, res, inRender, history>>

\* Mutant: the rendering functions do not lock mApiMutex.
RenderEnterUnlocked(t) ==
    /\ Goto(t, "renderApi", "render")
    /\ inRender' = [inRender EXCEPT ![t] = TRUE]
    /\ UNCHANGED <<apiVars, lifeVars, loopVars, op, res, history>>

RenderEnter(t) ==
    /\ CanLockApi(t)
    /\ mApiMutex' = LockedBy(t)
    /\ Goto(t, "renderApi", "render")
    /\ inRender' = [inRender EXCEPT ![t] = TRUE]
    /\ UNCHANGED <<mMutex, mMbox, mRetValReady, ret, lifeVars, loopVars, op, res,
                   history>>

RenderLeave(t) ==
    /\ Goto(t, "render", "idle")
    /\ inRender' = [inRender EXCEPT ![t] = FALSE]
    /\ mApiMutex' = Unlocked
    /\ UNCHANGED <<mMutex, mMbox, mRetValReady, ret, lifeVars, loopVars, op, res,
                   history>>

-----------------------------------------------------------------------------
(* start() and stop().                                                     *)

\* The documentation asks for start() before any other function.  Nothing
\* resets mThreadShouldStop.
Start(t) ==
    /\ t \in App
    /\ ~mStarted
    /\ \A u \in Threads : pc[u] = "idle"
    /\ loopPc = "none" \/ (Restart /\ loopPc = "exited")
    /\ Goto(t, "idle", "check")
    /\ op' = [op EXCEPT ![t] = "start"]
    /\ mMutex' = t
    /\ mMbox' = <<>>
    /\ mRetValReady' = FALSE
    /\ mLoopThreadLaunched' = TRUE
    /\ loopPc' = "init"
    /\ UNCHANGED <<mApiMutex, ret, mStarted, mThreadShouldStop, mPdraw, startStatus,
                   cur, val, inCallback, res, inRender, history>>

\* start() sets mStarted whatever status the loop thread reported.
StartReturns(t) ==
    /\ mRetValReady /\ op[t] = "start"
    /\ Goto(t, "check", "idle")
    /\ mRetValReady' = FALSE
    /\ mStarted' = TRUE
    /\ mMutex' = None
    /\ UNCHANGED <<mApiMutex, mMbox, ret, mThreadShouldStop, mLoopThreadLaunched,
                   mPdraw, startStatus, loopVars, op, res, inRender, history>>

Stop(t) ==
    /\ t \in Stoppers /\ mStarted
    /\ InApplication(t)
    /\ Goto(t, AtRest(t), "stopApi")
    /\ UNCHANGED <<apiVars, lifeVars, loopVars, op, res, inRender, history>>

\* Mutants: stop() does not lock mApiMutex; stop() forgets the flag.
StopLoopUnlocked(t) ==
    /\ mApiMutex' = LockedBy(t)
    /\ Goto(t, "stopApi", "joining")
    /\ mThreadShouldStop' = TRUE
    /\ UNCHANGED <<mMutex, mMbox, mRetValReady, ret, mStarted, mLoopThreadLaunched,
                   mPdraw, startStatus, loopVars, op, res, inRender, history>>

StopLoopUnnoticed(t) ==
    /\ CanLockApi(t)
    /\ mApiMutex' = LockedBy(t)
    /\ Goto(t, "stopApi", "joining")
    /\ UNCHANGED <<mMutex, mMbox, mRetValReady, ret, lifeVars, loopVars, op, res,
                   inRender, history>>

StopLoop(t) ==
    /\ CanLockApi(t)
    /\ mApiMutex' = LockedBy(t)
    /\ Goto(t, "stopApi", "joining")
    /\ mThreadShouldStop' = TRUE
    /\ UNCHANGED <<mMutex, mMbox, mRetValReady, ret, mStarted, mLoopThreadLaunched,
                   mPdraw, startStatus, loopVars, op, res, inRender, history>>

\* pthread_join returns once the thread ended; for the loop thread itself it
\* fails with EDEADLK, which is only logged.
Join(t) ==
    /\ mLoopThreadLaunched => (loopPc = "exited" \/ t = Loop)
    /\ Goto(t, "joining", AtRest(t))
    /\ mLoopThreadLaunched' = FALSE
    /\ mStarted' = FALSE
    /\ mApiMutex' = Unlocked
    /\ UNCHANGED <<mMutex, mMbox, mRetValReady, ret, mThreadShouldStop, mPdraw,
                   startStatus, loopVars, op, res, inRender, history>>

-----------------------------------------------------------------------------
(* The loop thread.                                                        *)

\* pthread_cond_signal(&mCond), after the mutex was unlocked.
\* Mutant: no pthread_cond_signal.
NoSignal == UNCHANGED pc

Signal ==
    IF \E t \in Threads : pc[t] = "wait"
    THEN \E t \in Threads : Goto(t, "wait", "awake")
    ELSE UNCHANGED pc

LoopInit ==
    /\ loopPc = "init" /\ mMutex = None
    /\ \/ loopPc' = "initSignal" /\ mPdraw' = TRUE /\ startStatus' = "ok"
       \/ /\ StartFails
          /\ loopPc' = "failSignal" /\ startStatus' = "error"
          /\ UNCHANGED mPdraw
    /\ mRetValReady' = TRUE
    /\ UNCHANGED <<mApiMutex, mMutex, mMbox, ret, mStarted, mThreadShouldStop,
                   mLoopThreadLaunched, cur, val, inCallback, threadVars, history>>

\* mboxCb reads the next command.
Peek ==
    /\ loopPc \in {"run", "drain"} /\ ~inCallback
    /\ mMbox # <<>>
    /\ cur' = Head(mMbox)
    /\ mMbox' = Tail(mMbox)
    /\ loopPc' = "serve"
    /\ UNCHANGED <<mApiMutex, mMutex, mRetValReady, ret, lifeVars, val, inCallback,
                   threadVars, history>>

Drained ==
    /\ loopPc = "drain" /\ mMbox = <<>>
    /\ loopPc' = "run"
    /\ UNCHANGED <<apiVars, lifeVars, cur, val, inCallback, threadVars, history>>

\* The handler calls the function of mPdraw ...
Execute ==
    /\ loopPc = "serve" /\ ~inCallback
    /\ version' = version + 1
    /\ ver' = [ver EXCEPT ![cur.by] = version + 1]
    /\ val' = version + 1
    /\ loopPc' = "reply"
    /\ UNCHANGED <<apiVars, lifeVars, cur, inCallback, threadVars, out>>

\* ... and publishes what it returned.
Reply ==
    /\ loopPc = "reply" /\ mMutex = None
    /\ ret' = [ret EXCEPT ![HandlerSlot(cur.cmd)] = val]
    /\ mRetValReady' = TRUE
    /\ cur' = NoCmd
    /\ loopPc' = "signal"
    /\ UNCHANGED <<mApiMutex, mMutex, mMbox, lifeVars, val, inCallback, threadVars,
                   history>>

\* The signal that ends start() and the one that ends a command.
SignalReply ==
    /\ \/ loopPc = "initSignal" /\ loopPc' = "run"
       \/ loopPc = "failSignal" /\ loopPc' = "exited"
       \/ loopPc = "signal" /\ loopPc' = "drain"
    /\ Signal
    /\ UNCHANGED <<apiVars, lifeVars, cur, val, inCallback, op, res, inRender,
                   history>>

LoopExit ==
    /\ loopPc = "run" /\ ~inCallback
    /\ mThreadShouldStop
    /\ mPdraw' = FALSE
    /\ loopPc' = "exited"
    /\ UNCHANGED <<apiVars, mStarted, mThreadShouldStop, mLoopThreadLaunched,
                   startStatus, cur, val, inCallback, threadVars, history>>

\* A listener function is called by mPdraw: from the loop (an idle function, a
\* timer, a socket), or synchronously by the operation a command executes
\* (selectDemuxerMedia, onSocketCreated).
CallbackBegin ==
    /\ loopPc \in {"run", "serve"} /\ ~inCallback
    /\ inCallback' = TRUE
    /\ UNCHANGED <<apiVars, lifeVars, loopPc, cur, val, threadVars, history>>

CallbackEnd ==
    /\ inCallback /\ pc[Loop] = "idle"
    /\ inCallback' = FALSE
    /\ UNCHANGED <<apiVars, lifeVars, loopPc, cur, val, threadVars, history>>

-----------------------------------------------------------------------------
\* The steps a thread takes by itself once it is in the API.
ThreadStep(t) ==
    \/ LockApi(t) \/ LockMutex(t) \/ Push(t) \/ PushFails(t) \/ Wait(t)
    \/ Relock(t) \/ Take(t) \/ UnlockApi(t) \/ RenderEnter(t) \/ RenderLeave(t)
    \/ StartReturns(t) \/ StopLoop(t) \/ Join(t)

LoopStep == \/ LoopInit \/ Peek \/ Drained \/ Execute \/ Reply \/ SignalReply
            \/ LoopExit \/ CallbackEnd \/ Direct

Next ==
    \/ \E t \in Threads : \/ \E call \in Calls \cup CallbackCalls : Invoke(t, call)
                          \/ Rendering(t) \/ Start(t) \/ Stop(t)
                          \/ SpuriousWakeup(t) \/ ThreadStep(t)
    \/ LoopStep \/ CallbackBegin

Spec == Init /\ [][Next]_vars

\* Every thread that can take a step in the API, or on the loop, eventually
\* does; a thread that waits for a mutex that is released again and again
\* eventually gets it.  An iteration of the loop serves every ready descriptor,
\* so listener functions do not keep it from reading the mailbox, finishing a
\* command or noticing mThreadShouldStop; a rendering function returns, however
\* often its listener functions call the API.  Nobody has to call, no listener
\* function has to run, and no wake-up needs to be spurious.
Fairness ==
    /\ \A t \in Threads : /\ WF_vars(ThreadStep(t))
                          /\ SF_vars(\/ LockApi(t) \/ RenderEnter(t) \/ StopLoop(t)
                                     \/ LockMutex(t) \/ Relock(t))
                          /\ SF_vars(RenderLeave(t))
    /\ WF_vars(LoopStep)
    /\ SF_vars(LoopInit \/ Peek \/ Execute \/ Reply \/ LoopExit)
FairSpec == Spec /\ Fairness

-----------------------------------------------------------------------------
(* Properties.                                                             *)

InCall == {"api", "locked", "direct", "armed", "check", "wait", "awake", "unlock"}
Calling(t) == pc[t] \in InCall /\ op[t] # "start"

\* Every call returns what its own operation produced, as if it were executed
\* at one moment between the call and its return: with one mailbox, one flag
\* and one set of mRet... members shared by all threads, no thread is handed
\* the answer of another one's command, an answer is never lost, left over or
\* read before it is written, and no command is executed twice.
Api == INSTANCE BackendApi WITH busy <- [t \in Threads |-> Calling(t)]
Linearizable == Api!Spec

\* While a rendering thread is inside mPdraw, the loop thread does not execute
\* an API call of another thread on it (its own, made by a listener function
\* of the rendering, it may): mApiMutex orders rendering with all API calls,
\* those made directly from listener functions included.
RenderExcludesCalls ==
    \A t \in Threads : inRender[t] =>
        /\ pc[Loop] # "direct"
        /\ loopPc \in {"serve", "reply"} => cur.by = t

\* mPdraw is deleted (by the loop thread, which does not lock mApiMutex for it)
\* only when no rendering function is inside it.
DeletedUnused ==
    [][mPdraw /\ ~mPdraw' => \A t \in Threads : ~inRender[t]]_vars

\* Each API call returns, whatever the order of the threads, spurious wake-ups
\* and failures to post: no wake-up is lost, and nobody waits for ever for a
\* mutex or for an answer.
EveryCallReturns == \A t \in Threads : Calling(t) ~> ~Calling(t)

\* The same, as long as nobody has stopped the loop thread.
EveryCallServed == \A t \in Threads : Calling(t) ~> ~Calling(t) \/ loopPc = "exited"

\* stop() returns: the loop thread notices the request.
StopReturns == \A t \in Threads : pc[t] = "joining" ~> pc[t] # "joining"

\* Once start() has returned 0, and until stop() is called, the loop thread is
\* there to serve commands.
StartedServes ==
    mStarted /\ startStatus = "ok" /\ (\A t \in Threads : pc[t] # "joining")
        => loopPc \notin {"none", "exited"}

\* A rendering function is never executed on a deleted instance.
RenderUsesInstance == \A t \in Threads : inRender[t] => mPdraw

\* What a caller is about to return is what its own operation produced.
AnswerIsOwn == \A t \in Threads : pc[t] = "unlock" => res[t] = ver[t]

-----------------------------------------------------------------------------
(* The inductive invariant.                                                *)

Starting(t) == op[t] = "start" /\ pc[t] \in {"check", "wait", "awake"}
Waiting(t) == op[t] # "start" /\ pc[t] \in {"check", "wait", "awake"}
Serving == loopPc \in {"serve", "reply"}

\* The thread is between the lock and the unlock of mApiMutex in a call or in
\* stop().
InSection(t) ==
    \/ pc[t] \in {"locked", "direct", "armed", "unlock", "joining"}
    \/ Waiting(t)

Holds(t) == InSection(t) \/ inRender[t]

\* Who is where: the loop thread never posts commands, listener functions of
\* the rendering run inside a rendering function.
PlaceInv ==
    /\ pc[Loop] \in {"idle", "api", "direct", "unlock", "stopApi", "joining"}
    /\ \A t \in Threads :
        /\ inRender[t] => t # Loop /\ pc[t] \notin {"idle", "renderApi"}
        /\ pc[t] = "render" => inRender[t]
        /\ pc[t] = "direct" => t = Loop
        /\ Starting(t) => ~inRender[t]
        /\ pc[t] \in InCall /\ op[t] # "start" => op[t] \in Calls \cup CallbackCalls
        /\ pc[t] \in {"api", "locked", "direct", "armed", "unlock"} => op[t] # "start"

ApiMutexInv ==
    /\ mApiMutex.owner = None <=> mApiMutex.depth = 0
    /\ \A t \in Threads :
        /\ Holds(t) <=> mApiMutex.owner = t
        /\ Holds(t) => mApiMutex.depth = (IF InSection(t) THEN 1 ELSE 0)
                                          + (IF inRender[t] THEN 1 ELSE 0)

MutexInv == \A t \in Threads : mMutex = t <=> pc[t] \in {"armed", "check"}

\* While start() waits for the loop thread nobody else is in the API.
StartInv ==
    \A t \in Threads : Starting(t) =>
        /\ ~mStarted
        /\ \A u \in Threads \ {t} : pc[u] = "idle"
        /\ loopPc \in {"init", "initSignal", "failSignal", "run", "exited"}

\* The loop thread starts on behalf of a start() that waits for it.
InitLoopInv ==
    loopPc = "init" => ~mRetValReady /\ \E t \in Threads : Starting(t)

\* A call that has locked mMutex has reset the flag.
ArmedInv == \A t \in Threads : pc[t] = "armed" => ~mRetValReady

\* The only command in the system is the one of the call that waits, and it
\* is in one place: in the mailbox, in the hands of the loop thread before or
\* after mPdraw executed it, or answered.
Posted(t) == /\ mMbox = <<Msg(t)>> /\ ~Serving
             /\ ~mRetValReady /\ ver[t] = 0
Served(t) == /\ mMbox = <<>> /\ loopPc = "serve" /\ cur = Msg(t)
             /\ ~mRetValReady /\ ver[t] = 0
Executed(t) == /\ mMbox = <<>> /\ loopPc = "reply" /\ cur = Msg(t)
               /\ ~mRetValReady /\ ver[t] = val /\ val # 0
Answered(t) == /\ mMbox = <<>> /\ ~Serving
               /\ mRetValReady /\ ver[t] # 0 /\ ret[ReadSlot(op[t])] = ver[t]

ExchangeInv ==
    /\ \A t \in Threads :
        Waiting(t) => Posted(t) \/ Served(t) \/ Executed(t) \/ Answered(t)
    /\ (\A t \in Threads : ~Waiting(t)) => mMbox = <<>> /\ ~Serving

HistoryInv ==
    \A t \in Threads :
        pc[t] \notin {"check", "wait", "awake", "unlock"} \/ Starting(t) => ver[t] = 0

IInv == /\ TypeOK /\ PlaceInv /\ ApiMutexInv /\ MutexInv /\ StartInv
        /\ InitLoopInv /\ ArmedInv /\ ExchangeInv /\ HistoryInv /\ AnswerIsOwn

\* What DeletedUnused rests on besides: the instance is only deleted on behalf
\* of a stop() that waits for it, with mApiMutex locked.
StopInv ==
    /\ mLoopThreadLaunched \/ loopPc \in {"none", "exited"}
    /\ loopPc = "none" => ~mStarted /\ ~mThreadShouldStop
    /\ mThreadShouldStop /\ loopPc # "exited" =>
           \E t \in Threads : pc[t] = "joining"
    /\ \A t \in Threads :
        /\ pc[t] \in {"stopApi", "joining"} => t \in Stoppers /\ loopPc # "none"
        /\ inRender[t] \/ pc[t] = "renderApi" => t \in Render
=============================================================================
