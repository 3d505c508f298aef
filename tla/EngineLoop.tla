----------------------------- MODULE EngineLoop -----------------------------
(***************************************************************************)
(* The threads of one engine: application threads that leave work in the   *)
(* mailbox and ring, and the I/O thread that steps, waits and is woken     *)
(* (NetworkEngine::run, step, waitForWork, wake).  The links are reduced   *)
(* to what the mailbox depends on: which messages they still have to get   *)
(* acknowledged.  Between two operations of the mailbox, application       *)
(* threads may do anything.                                                *)
(***************************************************************************)
EXTENDS Mailbox, FiniteSetsExt

CONSTANTS
    Sockets,      \* sockets the engine may come to bind, each once
    NoSocket,
    Posted,       \* bound: kinds of commands the application posts, besides Disconnect
    MayEnd,       \* bound: the application may stop the loop, or an exception end it
    MaxEpochs,    \* bound: sessions that are opened
    MaxPosts,     \* bound: commands that wait at a time
    MaxAccepted   \* bound: messages of a session

VARIABLES
    mWoken, mSocket,
    used,         \* sockets bound so far
    interrupted,  \* sockets whose interrupt() ended no wait yet
    notified,     \* mWakeUp was notified while the I/O thread waits on it
    stop,         \* stop_requested()
    mShutdown,
    ioState,      \* where the I/O thread is
    work,         \* what the last drain() took
    link          \* per peer: [state, pending, unsettled]

loopVars == <<mWoken, mSocket, used, interrupted, notified, stop, mShutdown, ioState, work, link>>
vars == <<mailVars, loopVars>>

\* state: "none", "connected", "closing" (drains), "goodbye" (only waits for its Ack)
NoLink == [state |-> "none", pending |-> {}, unsettled |-> FALSE]

NoWork == [commands |-> <<>>, ready |-> {}, touched |-> {}, todo |-> {}, closing |-> {}]

finished == mShutdown /\ \A p \in Peers : link[p].state = "none"

transfersData(p) == link[p].state \in {"connected", "closing"}

\* The I/O thread, between two operations
at(state) == ioState = state /\ io \notin notifying

-----------------------------------------------------------------------------
(* Application threads *)

Commands == [kind : Posted, peer : Peers]

CallerPosts(c) ==
    /\ Len(mCommands) < MaxPosts
    /\ \E command \in Commands : Post(c, command)
    /\ UNCHANGED loopVars

CallerSends(c) ==
    /\ \E p \in Peers, l \in MailLanes, size \in Sizes :
        /\ p \in opened => mPeers[p].accepted < MaxAccepted
        /\ Push(c, p, l, size) \/ PushWaits(c, p, l, size)
    /\ UNCHANGED loopVars

CallerBroadcasts(c) ==
    /\ \A p \in opened : mPeers[p].accepted < MaxAccepted
    /\ \E l \in MailLanes, size \in Sizes : PushToAll(c, l, size)
    /\ UNCHANGED loopVars

CallerFlushes(c) == (\E p \in Peers : FlushWaits(c, p)) /\ UNCHANGED loopVars

\* disconnect(): seal(), then post()
CallerSeals(c) == (\E p \in Peers : Seal(c, p)) /\ UNCHANGED loopVars

CallerDisconnects(c) ==
    /\ Len(mCommands) < MaxPosts
    /\ PostDisconnect(c)
    /\ UNCHANGED loopVars

CallerContinues(c) == (WakeUp(c) \/ NotifyAll(c)) /\ UNCHANGED loopVars

CallerTimesOut(c) == TimeOut(c) /\ UNCHANGED loopVars

\* The stop callback wakes the loop on the thread that asked for the stop
RequestStop(c) ==
    /\ MayEnd
    /\ caller[c] = Idle /\ ~stop
    /\ stop' = TRUE
    /\ caller' = [caller EXCEPT ![c] = [doing |-> "ring"]]
    /\ UNCHANGED <<boxVars, woken, notifying, mWoken, mSocket, used, interrupted, notified,
                   mShutdown, ioState, work, link>>

\* wake(): first under mSocketMutex ...
Ring(c) ==
    /\ caller[c].doing = "ring"
    /\ mWoken' = TRUE
    /\ caller' = [caller EXCEPT ![c] = [doing |-> "interrupt", socket |-> mSocket]]
    /\ UNCHANGED <<boxVars, woken, notifying, mSocket, used, interrupted, notified, stop,
                   mShutdown, ioState, work, link>>

\* ... then without it, at the socket that was there
Interrupt(c) ==
    /\ caller[c].doing = "interrupt"
    /\ notified' = (notified \/ ioState = "cvWait")
    /\ interrupted' = interrupted \cup ({caller[c].socket} \ {NoSocket})
    /\ caller' = [caller EXCEPT ![c] = Idle]
    /\ UNCHANGED <<boxVars, woken, notifying, mWoken, mSocket, used, stop, mShutdown,
                   ioState, work, link>>

Application(c) ==
    \/ CallerPosts(c) \/ CallerSends(c) \/ CallerBroadcasts(c) \/ CallerFlushes(c)
    \/ CallerSeals(c) \/ CallerDisconnects(c) \/ CallerContinues(c) \/ CallerTimesOut(c)
    \/ RequestStop(c) \/ Ring(c) \/ Interrupt(c)

-----------------------------------------------------------------------------
(* One step of the I/O thread *)

goto(state) == ioState' = state

\* What most parts of a step leave alone
restVars == <<mSocket, used, interrupted, notified, stop>>

IoNotifies == NotifyAll(io) /\ UNCHANGED loopVars

\* run(): the loop ends, or there is another step
Begin ==
    /\ at("begin")
    /\ IF stop \/ finished THEN stopRunning /\ goto("exited")
       ELSE goto("step") /\ UNCHANGED mailVars
    /\ UNCHANGED <<restVars, mWoken, mShutdown, work, link>>

\* step() begins, under mSocketMutex: rings so far are for what it will find, except that of a
\* stop which run() did not see anymore
StepBegins ==
    /\ at("step")
    /\ mWoken' = FALSE
    /\ goto("drain")
    /\ UNCHANGED <<mailVars, restVars, mShutdown, work, link>>

Drain ==
    /\ at("drain")
    /\ drain
    /\ work' = [work EXCEPT !.commands = mCommands, !.ready = mReady, !.touched = {}]
    /\ goto("apply")
    /\ UNCHANGED <<restVars, mWoken, mShutdown, link>>

\* apply(): a Disconnect ends whichever session the peer has now, and Shutdown all of them.
\* The other commands do not touch the mailbox here.
Apply ==
    /\ at("apply") /\ work.commands # <<>>
    /\ LET command == Head(work.commands)
           p == command.peer
           ends == command.kind = "Disconnect" /\ link[p].state = "connected"
       IN  /\ link' = IF ends THEN [link EXCEPT ![p].state = "closing"] ELSE link
           /\ work' = [work EXCEPT !.commands = Tail(@),
                                   !.touched = IF ends THEN @ \cup {p} ELSE @]
           /\ goto(IF command.kind = "Shutdown" /\ ~mShutdown THEN "shutdown" ELSE "apply")
           /\ mShutdown' = (mShutdown \/ command.kind = "Shutdown")
    /\ UNCHANGED <<mailVars, restVars, mWoken>>

\* sendClose(): the mailbox is closed first, then the goodbye goes out
sayGoodbye(p) ==
    /\ close(p)
    /\ link' = [link EXCEPT ![p] = [NoLink EXCEPT !.state = "goodbye"]]

\* beginShutdown(): one session after the other, then nobody may send anymore
Shutdown ==
    /\ at("shutdown")
    /\ \/ \E p \in Peers : transfersData(p) /\ sayGoodbye(p) /\ goto("shutdown")
       \/ /\ \A p \in Peers : ~transfersData(p)
          /\ stopRunning /\ goto("apply") /\ UNCHANGED link
    /\ UNCHANGED <<restVars, mWoken, mShutdown, work>>

Applied ==
    /\ at("apply") /\ work.commands = <<>>
    /\ LET found == {p \in work.ready : link[p].state # "none"}
       IN  /\ link' = [p \in Peers |-> IF p \in found THEN [link[p] EXCEPT !.unsettled = TRUE]
                                       ELSE link[p]]
           /\ work' = [work EXCEPT !.ready = {}, !.touched = @ \cup found]
    /\ goto("interface")
    /\ UNCHANGED <<mailVars, restVars, mWoken, mShutdown>>

\* updateInterface(): nothing changed or nothing can be bound, ...
KeepInterface ==
    /\ at("interface")
    /\ goto("receive")
    /\ UNCHANGED <<mailVars, restVars, mWoken, mShutdown, work, link>>

\* ... the adapter changed or its socket broke: sessions and socket go, ...
InterfaceChanged ==
    /\ at("interface") /\ ~mShutdown /\ mSocket # NoSocket
    /\ goto("replace")
    /\ UNCHANGED <<mailVars, restVars, mWoken, mShutdown, work, link>>

\* (endAllSessions(), one at a time)
EndOneSession ==
    /\ at("replace") \/ at("failing")
    /\ \E p \in Peers : /\ link[p].state # "none"
                        /\ close(p)
                        /\ link' = [link EXCEPT ![p] = NoLink]
    /\ UNCHANGED <<restVars, mWoken, mShutdown, ioState, work>>

CloseSockets ==
    /\ at("replace")
    /\ \A p \in Peers : link[p].state = "none"
    /\ mSocket' = NoSocket
    /\ goto("interface")
    /\ UNCHANGED <<mailVars, mWoken, used, interrupted, notified, stop, mShutdown, work, link>>

\* ... and there is an adapter to bind to
Bind ==
    /\ at("interface") /\ ~mShutdown /\ mSocket = NoSocket
    /\ \E s \in Sockets \ used : mSocket' = s /\ used' = used \cup {s}
    /\ goto("receive")
    /\ UNCHANGED <<mailVars, mWoken, interrupted, notified, stop, mShutdown, work, link>>

touch(p) == work' = [work EXCEPT !.touched = @ \cup {p}]

\* What datagrams and timers do to a session, as far as the mailbox is concerned
Acknowledged ==
    /\ at("receive") /\ mSocket # NoSocket
    /\ \E p \in Peers : \E n \in link[p].pending :
        link' = [link EXCEPT ![p].pending = @ \ {n}] /\ touch(p)
    /\ UNCHANGED <<mailVars, restVars, mWoken, mShutdown, ioState>>

OtherwiseTouched(p) ==
    /\ at("receive")
    /\ link[p].state # "none" /\ touch(p)
    /\ UNCHANGED <<mailVars, restVars, mWoken, mShutdown, ioState, link>>

SessionOpens ==
    /\ at("receive") /\ mSocket # NoSocket /\ ~mShutdown /\ mEpochs < MaxEpochs
    /\ \E p \in Peers : /\ link[p].state = "none"
                        /\ open(p)
                        /\ link' = [link EXCEPT ![p].state = "connected"]
                        /\ touch(p)
    /\ UNCHANGED <<restVars, mWoken, mShutdown, ioState>>

\* Declined, closed by the remote, failed, or its goodbye was acknowledged
SessionEnds ==
    /\ at("receive")
    /\ \E p \in Peers : /\ link[p].state # "none"
                        /\ close(p)
                        /\ link' = [link EXCEPT ![p] = NoLink]
    /\ UNCHANGED <<restVars, mWoken, mShutdown, ioState, work>>

\* An exception leaves the step, the delivery or the wait: run() calls fail(), and what the step
\* had still to do is not done
Throw ==
    /\ MayEnd
    /\ io \notin notifying /\ ioState \notin {"begin", "failing", "exited"}
    /\ work' = NoWork
    /\ goto("failing")
    /\ UNCHANGED <<mailVars, restVars, mWoken, mShutdown, link>>

Failed ==
    /\ at("failing")
    /\ \A p \in Peers : link[p].state = "none"
    /\ stopRunning
    /\ goto("exited")
    /\ UNCHANGED <<restVars, mWoken, mShutdown, work, link>>

Received ==
    /\ at("receive")
    /\ work' = [work EXCEPT !.todo = {p \in work.touched : link[p].state # "none"}]
    /\ goto("advance")
    /\ UNCHANGED <<mailVars, restVars, mWoken, mShutdown, link>>

\* advance(): a session that drains says goodbye once nothing is left. settle() comes first, and
\* its notification.
Advance ==
    /\ at("advance")
    /\ \E p \in work.todo :
        LET asks == link[p].state = "closing" /\ link[p].pending = {}
        IN  /\ work' = [work EXCEPT !.todo = @ \ {p}, !.closing = {p}]
            /\ IF asks THEN settle(p) /\ goto(IF settled(p) THEN "goodbye" ELSE "advance")
               ELSE goto("advance") /\ UNCHANGED mailVars
    /\ UNCHANGED <<restVars, mWoken, mShutdown, link>>

\* ... or says it anyway, after DrainTimeout
DrainExpires(p) ==
    /\ at("advance") /\ p \in work.todo
    /\ link[p].state = "closing"
    /\ work' = [work EXCEPT !.todo = @ \ {p}, !.closing = {p}]
    /\ goto("goodbye")
    /\ UNCHANGED <<mailVars, restVars, mWoken, mShutdown, link>>

Goodbye ==
    /\ at("goodbye")
    /\ \E p \in work.closing : sayGoodbye(p)
    /\ goto("advance")
    /\ UNCHANGED <<restVars, mWoken, mShutdown, work>>

Advanced ==
    /\ at("advance") /\ work.todo = {}
    /\ work' = [work EXCEPT !.closing = {}]
    /\ goto("send")
    /\ UNCHANGED <<mailVars, restVars, mWoken, mShutdown, link>>

\* PeerSource::next(), when a link has room for another message
Take(p, l) ==
    /\ at("send") /\ transfersData(p)
    /\ take(p, l)
    /\ link' = IF l = "Media" THEN link
               ELSE [link EXCEPT ![p].pending = @ \cup {Head(mPeers[p].queue[l]).num}]
    /\ UNCHANGED <<restVars, mWoken, mShutdown, ioState, work>>

Sent ==
    /\ at("send")
    /\ goto("settle")
    /\ UNCHANGED <<mailVars, restVars, mWoken, mShutdown, work, link>>

\* Whoever waits in flush() is told, unless a message arrived in the meantime
Settle ==
    /\ at("settle")
    /\ \E p \in work.touched :
        /\ work' = [work EXCEPT !.touched = @ \ {p}]
        /\ IF link[p].unsettled /\ link[p].pending = {}
           THEN settle(p) /\ link' = [link EXCEPT ![p].unsettled = ~settled(p)]
           ELSE UNCHANGED <<mailVars, link>>
    /\ UNCHANGED <<restVars, mWoken, mShutdown, ioState>>

-----------------------------------------------------------------------------
(* Waiting *)

\* Mutant: only the socket tells whether work arrived
waitsAtOnce == FALSE

\* Work arrived during the step: its ring may have gone to a socket that was replaced since
workArrived == mWoken

\* waitForWork(), under mSocketMutex
WaitForWork ==
    /\ at("settle") /\ work.touched = {}
    /\ notified' = FALSE
    /\ goto(IF finished \/ workArrived THEN "begin"
            ELSE IF mSocket = NoSocket THEN "cvWait" ELSE "readWait")
    /\ UNCHANGED <<mailVars, mWoken, mSocket, used, interrupted, stop, mShutdown, work, link>>

\* mWakeUp.wait_for(): a notification makes it look at mWoken
Awakened ==
    /\ ioState = "cvWait" /\ notified
    /\ notified' = FALSE
    /\ goto(IF mWoken THEN "begin" ELSE "cvWait")
    /\ UNCHANGED <<mailVars, mWoken, mSocket, used, interrupted, stop, mShutdown, work, link>>

\* ReadWaiter::wait(): one interrupt() ends one wait, also one that begins later
Interrupted ==
    /\ ioState = "readWait" /\ mSocket \in interrupted
    /\ interrupted' = interrupted \ {mSocket}
    /\ goto("begin")
    /\ UNCHANGED <<mailVars, mWoken, mSocket, used, notified, stop, mShutdown, work, link>>

\* A datagram arrived, or a timer is due: what waits for its Ack, for the end of a session or
\* in the ring of the scheduler has one
LinkHasWork ==
    /\ ioState \in {"cvWait", "readWait"}
    /\ \E p \in Peers :
        \/ link[p].pending # {} \/ link[p].state \in {"closing", "goodbye"}
        \/ p \in opened /\ ~mPeers[p].listed /\ ~settled(p)
    /\ goto("begin")
    /\ UNCHANGED <<mailVars, mWoken, mSocket, used, interrupted, notified, stop, mShutdown, work, link>>

WaitTimesOut ==
    /\ ioState \in {"cvWait", "readWait"}
    /\ goto("begin")
    /\ UNCHANGED <<mailVars, mWoken, mSocket, used, interrupted, notified, stop, mShutdown, work, link>>

Step ==
    \/ IoNotifies \/ Begin \/ StepBegins \/ Drain \/ Apply \/ Shutdown \/ Applied
    \/ KeepInterface \/ InterfaceChanged \/ EndOneSession \/ CloseSockets \/ Bind
    \/ Acknowledged \/ SessionOpens \/ SessionEnds \/ Received
    \/ (\E p \in Peers : OtherwiseTouched(p) \/ DrainExpires(p))
    \/ Failed \/ Advance \/ Goodbye \/ Advanced
    \/ (\E p \in Peers, l \in MailLanes : Take(p, l)) \/ Sent \/ Settle
    \/ WaitForWork \/ Awakened \/ Interrupted \/ LinkHasWork

-----------------------------------------------------------------------------

Init ==
    /\ MailboxInit
    /\ mWoken = FALSE /\ mSocket = NoSocket /\ used = {} /\ interrupted = {}
    /\ notified = FALSE /\ stop = FALSE /\ mShutdown = FALSE
    /\ ioState = "begin"
    /\ work = NoWork
    /\ link = [p \in Peers |-> NoLink]

Next == (\E c \in Callers : Application(c)) \/ Step \/ Throw \/ WaitTimesOut

Spec == Init /\ [][Next]_vars

-----------------------------------------------------------------------------
(* Properties *)

\* Every variable has its type.
TypeOK ==
    /\ DOMAIN mPeers \subseteq Peers
    /\ \A p \in opened : /\ mPeers[p].done <= mPeers[p].accepted
                         /\ \A l \in MailLanes : mPeers[p].queue[l] \in Seq(Mail)
                         /\ mPeers[p].bytes \in [MailLanes -> Nat]
    /\ mReady \subseteq Peers /\ woken \subseteq Callers /\ notifying \subseteq Callers \cup {io}
    /\ mSocket \in Sockets \cup {NoSocket} /\ interrupted \subseteq used

sleeping == ioState \in {"cvWait", "readWait"}

\* The I/O thread never sleeps over what waits in the mailbox: it was woken already, or a thread
\* is on its way to wake it where it sleeps. A ring may be left out (mSignalled), be forgotten
\* (mWoken), or go to a socket that was replaced, only if the loop looks again anyway.
NoLostWakeup ==
    sleeping /\ (mCommands # <<>> \/ mReady # {}) =>
        \/ \E c \in Callers : caller[c].doing = "ring"
        \/ \E c \in Callers : /\ caller[c].doing = "interrupt"
                              /\ ioState = "readWait" => caller[c].socket = mSocket
        \/ ioState = "cvWait" /\ notified
        \/ ioState = "readWait" /\ mSocket \in interrupted

\* Whoever waits in push() or flush() for something that has happened was notified or is
\* about to be, whichever operation made it happen.
NoMissedNotify ==
    \A c \in waiting : satisfied(caller[c]) => c \in woken \/ notifying # {}

\* flush() returns true for a session that goes on only when everything accepted before the
\* call was acknowledged: what is still queued or in the link is newer than done.
FlushTruthful ==
    \A p \in opened :
        /\ \A n \in link[p].pending : n > mPeers[p].done
        /\ \A l \in AckLanes : \A i \in DOMAIN mPeers[p].queue[l] :
            mPeers[p].queue[l][i].num > mPeers[p].done

\* The I/O thread knows of every peer with something flush() may wait for, and so tells its
\* callers in the end.
FlushWillBeTold ==
    \A p \in opened : mPeers[p].done < mPeers[p].accepted =>
        p \in mReady \/ p \in work.ready \/ link[p].unsettled

\* flush() waits for what was accepted before it, and for nothing else: once all of that is
\* acknowledged and the loop has nothing to do, its caller was told.
FlushWaitsForEarlierOnly ==
    \A c \in Callers :
        LET w == caller[c]
        IN  w.doing = "flush" /\ ~gone(w) /\ sleeping =>
            \/ mPeers[w.peer].done >= w.target
            \/ \E n \in link[w.peer].pending : n <= w.target
            \/ \E l \in AckLanes : \E i \in DOMAIN mPeers[w.peer].queue[l] :
                mPeers[w.peer].queue[l][i].num <= w.target

\* A message goes to the session its sender meant, also when the sender had to wait for room
\* while that session ended and another one was opened.
NeverIntoAnotherSession ==
    \A p \in opened : \A l \in MailLanes : \A i \in DOMAIN mPeers[p].queue[l] :
        mPeers[p].queue[l][i].epoch = mPeers[p].epoch

\* The bytes of a lane, which are only ever added to and subtracted from, stay those of its
\* queue: otherwise the lane would run full for good.
BytesExact ==
    \A p \in opened : \A l \in MailLanes :
        mPeers[p].bytes[l] = MapThenSumSet(LAMBDA i : mPeers[p].queue[l][i].size,
                                            DOMAIN mPeers[p].queue[l])

\* While the engine runs, connectedPeers() lists exactly the peers that send() takes messages for.
PublishedMatches ==
    mRunning => \A p \in Peers : mSessions[p] = "Connected" <=> takesMail(p)

-----------------------------------------------------------------------------
(* Liveness *)

\* Threads run: the operating system schedules them, and no part of a step blocks. Draining ends
\* at a fixed time, from which on serviceTimers() touches the session in every step. Whether
\* the remote acknowledges anything is not assumed, and neither an exception nor the
\* timeout of a wait helps.
Fairness ==
    /\ WF_vars(Step)
    /\ \A p \in Peers : /\ SF_vars(OtherwiseTouched(p) /\ link[p].state = "closing")
                        /\ SF_vars(DrainExpires(p))
    /\ \A c \in Callers : /\ WF_vars(CallerContinues(c)) /\ WF_vars(CallerDisconnects(c))
                          /\ WF_vars(Ring(c)) /\ WF_vars(Interrupt(c))

FairSpec == Spec /\ Fairness

\* A command that was posted is taken by the loop, or the loop has ended: no ring gets lost
\* between mSignalled, mWoken, the two kinds of waiting and a socket that is replaced.
CommandsAreTaken == mCommands # <<>> ~> (mCommands = <<>> \/ ioState = "exited")

\* Everything the session was given is acknowledged
nothingLeft(p) == p \in opened /\ link[p].pending = {} /\ settled(p)

\* The call has what it waits for, or the engine only has to notice it
due(w) == satisfied(w) \/ (w.doing = "flush" /\ nothingLeft(w.peer))

\* push() and flush() return without their timeout once there is room, everything is
\* acknowledged, the session is over or the engine has ended, unless that is undone before.
WaitersReturn ==
    \A c \in Callers : (c \in waiting /\ due(caller[c])) ~> ~(c \in waiting /\ due(caller[c]))

\* A session that disconnect() sealed is closed: its command reaches it, and it says goodbye when
\* what it still had to send is acknowledged or DrainTimeout is over, whatever the remote does.
DisconnectEnds ==
    \A p \in Peers : p \in opened /\ mPeers[p].sealed ~> p \notin opened \/ ioState = "exited"

=============================================================================
