------------------------------ MODULE Mailbox -------------------------------
(***************************************************************************)
(* Channel/Mailbox.h: what application threads leave for the I/O thread,   *)
(* and what they wait for there.  Every operation holds mMutex, so it is   *)
(* one action; a notification or the doorbell follows after the unlock and *)
(* is an action of its own.  An operation that returns without having      *)
(* changed anything is a stuttering step and not written down.             *)
(***************************************************************************)
EXTENDS Integers, Sequences, FiniteSets

CONSTANTS
    Peers, Callers,      \* application threads
    MailLanes,           \* lanes of the application in use
    Sizes,               \* sizes of messages
    QueueBytes,          \* bytes that may wait in an acknowledged lane
    MediaQueueMessages,  \* messages that may wait in the Media lane
    io                   \* the I/O thread

ASSUME MailboxAssumption ==
    /\ MailLanes \subseteq {"Reliable", "Bulk", "Media"}
    /\ Sizes \subseteq Nat \ {0} /\ QueueBytes \in Nat /\ MediaQueueMessages \in Nat \ {0}
    /\ io \notin Callers

VARIABLES
    mPeers,      \* sessions that take messages
    mCommands, mReady, mEpochs, mSignalled, mRunning,
    mSessions,   \* what connect() and connected() are told; "None" if absent
    caller,      \* what each application thread is doing
    woken,       \* waiting threads that were notified and did not look yet
    notifying    \* threads that are about to notify mChanged

boxVars == <<mPeers, mCommands, mReady, mEpochs, mSignalled, mRunning, mSessions>>
mailVars == <<boxVars, caller, woken, notifying>>

-----------------------------------------------------------------------------
(* Data *)

AckLanes == MailLanes \ {"Media"}

\* num counts the messages of the acknowledged lanes; epoch: of the session the sender meant
Mail == [size : Sizes, num : Nat, epoch : Nat]

NewPeer(epoch) ==
    [queue |-> [l \in MailLanes |-> <<>>], bytes |-> [l \in MailLanes |-> 0],
     accepted |-> 0, done |-> 0, epoch |-> epoch, listed |-> FALSE, sealed |-> FALSE]

\* doing: "idle", "push" or "flush" (waiting on mChanged), "post" (of disconnect()), "ring"
\* and "interrupt" (the two halves of the doorbell)
Idle == [doing |-> "idle"]

opened == DOMAIN mPeers

waiting == {c \in Callers : caller[c].doing \in {"push", "flush"}}

hasRoom(peer, l, size) == peer.queue[l] = <<>> \/ peer.bytes[l] + size <= QueueBytes

\* Mutant: a Media message that makes room stays counted
enqueueCountsEvicted(peer, l, size, epoch) ==
    LET full == l = "Media" /\ Len(peer.queue[l]) >= MediaQueueMessages
        counts == IF l = "Media" THEN 0 ELSE 1
        mail == [size |-> size, num |-> counts * (peer.accepted + 1), epoch |-> epoch]
    IN  [peer EXCEPT
            !.queue[l] = Append(IF full THEN Tail(@) ELSE @, mail),
            !.bytes[l] = @ + size,
            !.accepted = @ + counts,
            !.listed = TRUE]

\* enqueue() on the record of the peer: the oldest Media message makes room for a new one
enqueue(peer, l, size, epoch) ==
    LET full == l = "Media" /\ Len(peer.queue[l]) >= MediaQueueMessages
        counts == IF l = "Media" THEN 0 ELSE 1
        mail == [size |-> size, num |-> counts * (peer.accepted + 1), epoch |-> epoch]
    IN  [peer EXCEPT
            !.queue[l] = Append(IF full THEN Tail(@) ELSE @, mail),
            !.bytes[l] = @ - (IF full THEN Head(peer.queue[l]).size ELSE 0) + size,
            !.accepted = @ + counts,
            !.listed = TRUE]

\* ... and on the rest of the mailbox
list(targets) ==
    /\ mReady' = mReady \cup {p \in targets : ~mPeers[p].listed}
    /\ mSignalled' = TRUE

ringer == IF mSignalled THEN Idle ELSE [doing |-> "ring"]

-----------------------------------------------------------------------------
(* Any thread *)

post(c, command) ==
    /\ mCommands' = Append(mCommands, command)
    /\ mSignalled' = TRUE
    /\ caller' = [caller EXCEPT ![c] = ringer]
    /\ UNCHANGED <<mPeers, mReady, mEpochs, mRunning, mSessions, woken, notifying>>

Post(c, command) == caller[c] = Idle /\ post(c, command)

takesMail(p) == p \in opened /\ ~mPeers[p].sealed

push(c, p, l, size, epoch) ==
    /\ mPeers' = [mPeers EXCEPT ![p] = enqueue(@, l, size, epoch)]
    /\ list({p})
    /\ caller' = [caller EXCEPT ![c] = ringer]
    /\ UNCHANGED <<mCommands, mEpochs, mRunning, mSessions, notifying>>

Push(c, p, l, size) ==
    /\ caller[c] = Idle
    /\ mRunning /\ takesMail(p)
    /\ l = "Media" \/ hasRoom(mPeers[p], l, size)
    /\ push(c, p, l, size, mPeers[p].epoch)
    /\ UNCHANGED woken

\* The lane is full and the caller allows for a timeout
PushWaits(c, p, l, size) ==
    /\ caller[c] = Idle
    /\ mRunning /\ takesMail(p)
    /\ l # "Media" /\ ~hasRoom(mPeers[p], l, size)
    /\ caller' = [caller EXCEPT ![c] = [doing |-> "push", peer |-> p, lane |-> l, size |-> size,
                                        epoch |-> mPeers[p].epoch]]
    /\ UNCHANGED <<boxVars, woken, notifying>>

PushToAll(c, l, size) ==
    LET targets == {p \in opened : ~mPeers[p].sealed
                                   /\ (l = "Media" \/ hasRoom(mPeers[p], l, size))}
    IN  /\ caller[c] = Idle
        /\ mRunning /\ targets # {}
        /\ mPeers' = [p \in opened |-> IF p \in targets
                                       THEN enqueue(mPeers[p], l, size, mPeers[p].epoch)
                                       ELSE mPeers[p]]
        /\ list(targets)
        /\ caller' = [caller EXCEPT ![c] = ringer]
        /\ UNCHANGED <<mCommands, mEpochs, mRunning, mSessions, woken, notifying>>

\* flush(): everything accepted so far. Returns at once if that is done already.
FlushWaits(c, p) ==
    /\ caller[c] = Idle
    /\ p \in opened /\ mRunning /\ mPeers[p].done < mPeers[p].accepted
    /\ caller' = [caller EXCEPT ![c] = [doing |-> "flush", peer |-> p, epoch |-> mPeers[p].epoch,
                                        target |-> mPeers[p].accepted]]
    /\ UNCHANGED <<boxVars, woken, notifying>>

\* seal(), the first half of disconnect()
Seal(c, p) ==
    /\ caller[c] = Idle
    /\ p \in opened
    /\ mPeers' = [mPeers EXCEPT ![p].sealed = TRUE,
                                ![p].queue = [l \in MailLanes |-> IF l = "Media" THEN <<>> ELSE @[l]],
                                ![p].bytes = [l \in MailLanes |-> IF l = "Media" THEN 0 ELSE @[l]]]
    /\ mSessions' = [mSessions EXCEPT ![p] = "Pending"]
    /\ caller' = [caller EXCEPT ![c] = [doing |-> "post", peer |-> p]]
    /\ notifying' = notifying \cup {c}
    /\ UNCHANGED <<mCommands, mReady, mEpochs, mSignalled, mRunning, woken>>

\* ... and the second one, once mChanged was notified
PostDisconnect(c) ==
    /\ caller[c].doing = "post" /\ c \notin notifying
    /\ post(c, [kind |-> "Disconnect", peer |-> caller[c].peer])

-----------------------------------------------------------------------------
(* Waiting on mChanged *)

NotifyAll(t) ==
    /\ t \in notifying
    /\ notifying' = notifying \ {t}
    /\ woken' = woken \cup waiting
    /\ UNCHANGED <<boxVars, caller>>

\* Mutant: a session that was closed and opened again counts as the one that is waited for
goneForGood(w) == w.peer \notin opened \/ mPeers[w.peer].sealed

\* The session that is waited for ended, or does not take messages anymore
gone(w) ==
    w.peer \notin opened \/ mPeers[w.peer].epoch # w.epoch
    \/ (w.doing = "push" /\ mPeers[w.peer].sealed)

\* What the caller waits for, apart from the end of the session or of the engine
reached(w) ==
    IF w.doing = "push" THEN hasRoom(mPeers[w.peer], w.lane, w.size)
    ELSE mPeers[w.peer].done >= w.target

satisfied(w) == ~mRunning \/ gone(w) \/ reached(w)

\* The wait is over, by a notification or by its timeout: the call takes a last look and returns
Return(c) ==
    LET w == caller[c]
    IN  /\ woken' = woken \ {c}
        /\ IF w.doing = "push" /\ ~gone(w) /\ mRunning /\ reached(w)
           THEN push(c, w.peer, w.lane, w.size, w.epoch)
           ELSE /\ caller' = [caller EXCEPT ![c] = Idle]
                /\ UNCHANGED <<boxVars, notifying>>

WakeUp(c) ==
    /\ c \in woken
    /\ IF satisfied(caller[c]) THEN Return(c)
       ELSE /\ woken' = woken \ {c}
            /\ UNCHANGED <<boxVars, caller, notifying>>

TimeOut(c) == c \in waiting /\ Return(c)

-----------------------------------------------------------------------------
(* I/O thread *)

\* Mutant: a peer that was listed once is not listed again
drainKeepsListed ==
    /\ mCommands' = <<>>
    /\ mReady' = {}
    /\ mSignalled' = FALSE
    /\ UNCHANGED <<mPeers, mEpochs, mRunning, mSessions, caller, woken, notifying>>

\* Mutant: the doorbell is not rung again
drainKeepsSignalled ==
    /\ mCommands' = <<>>
    /\ mReady' = {}
    /\ mPeers' = [p \in opened |-> [mPeers[p] EXCEPT !.listed = @ /\ p \notin mReady]]
    /\ UNCHANGED <<mEpochs, mSignalled, mRunning, mSessions, caller, woken, notifying>>

\* drain(): the I/O thread takes mCommands and mReady along
drain ==
    /\ mCommands' = <<>>
    /\ mReady' = {}
    /\ mPeers' = [p \in opened |-> [mPeers[p] EXCEPT !.listed = @ /\ p \notin mReady]]
    /\ mSignalled' = FALSE
    /\ UNCHANGED <<mEpochs, mRunning, mSessions, caller, woken, notifying>>

\* Mutant: the bytes are counted off twice
takeTwiceOff(p, l) ==
    /\ p \in opened /\ mPeers[p].queue[l] # <<>>
    /\ mPeers' = [mPeers EXCEPT ![p].queue[l] = Tail(@),
                                ![p].bytes[l] = @ - 2 * Head(mPeers[p].queue[l]).size]
    /\ notifying' = notifying \cup {io}
    /\ UNCHANGED <<mCommands, mReady, mEpochs, mSignalled, mRunning, mSessions, caller, woken>>

\* Mutant: whoever waits for room is not told
takeSilently(p, l) ==
    /\ p \in opened /\ mPeers[p].queue[l] # <<>>
    /\ mPeers' = [mPeers EXCEPT ![p].queue[l] = Tail(@),
                                ![p].bytes[l] = @ - Head(mPeers[p].queue[l]).size]
    /\ UNCHANGED <<mCommands, mReady, mEpochs, mSignalled, mRunning, mSessions, caller, woken,
                   notifying>>

take(p, l) ==
    /\ p \in opened /\ mPeers[p].queue[l] # <<>>
    /\ mPeers' = [mPeers EXCEPT ![p].queue[l] = Tail(@),
                                ![p].bytes[l] = @ - Head(mPeers[p].queue[l]).size]
    /\ notifying' = notifying \cup {io}
    /\ UNCHANGED <<mCommands, mReady, mEpochs, mSignalled, mRunning, mSessions, caller, woken>>

\* Mutant: messages that arrived in the meantime are overlooked
settledInAnyCase(p) == TRUE

\* settle() returns true: nothing arrived in the meantime
settled(p) == p \in opened => \A l \in AckLanes : mPeers[p].queue[l] = <<>>

settle(p) ==
    LET news == p \in opened /\ settled(p) /\ mPeers[p].done # mPeers[p].accepted
    IN  /\ mPeers' = IF news THEN [mPeers EXCEPT ![p].done = mPeers[p].accepted] ELSE mPeers
        /\ notifying' = IF news THEN notifying \cup {io} ELSE notifying
        /\ UNCHANGED <<mCommands, mReady, mEpochs, mSignalled, mRunning, mSessions, caller, woken>>

open(p) ==
    /\ mEpochs' = mEpochs + 1
    /\ mPeers' = [q \in opened \cup {p} |-> IF q = p THEN NewPeer(mEpochs + 1) ELSE mPeers[q]]
    /\ mSessions' = [mSessions EXCEPT ![p] = "Connected"]
    /\ UNCHANGED <<mCommands, mReady, mSignalled, mRunning, caller, woken, notifying>>

\* Mutant: the peer stays published
closeKeepsSession(p) ==
    /\ mPeers' = [q \in opened \ {p} |-> mPeers[q]]
    /\ mReady' = mReady \ {p}
    /\ notifying' = notifying \cup {io}
    /\ UNCHANGED <<mCommands, mEpochs, mSignalled, mRunning, mSessions, caller, woken>>

close(p) ==
    /\ mPeers' = [q \in opened \ {p} |-> mPeers[q]]
    /\ mSessions' = [mSessions EXCEPT ![p] = "None"]
    /\ mReady' = mReady \ {p}
    /\ notifying' = notifying \cup {io}
    /\ UNCHANGED <<mCommands, mEpochs, mSignalled, mRunning, caller, woken>>

\* Mutant: whoever waits is not told
stopSilently ==
    /\ mRunning' = FALSE
    /\ UNCHANGED <<mPeers, mCommands, mReady, mEpochs, mSignalled, mSessions, caller, woken,
                   notifying>>

\* setRunning(false)
stopRunning ==
    /\ mRunning' = FALSE
    /\ notifying' = notifying \cup {io}
    /\ UNCHANGED <<mPeers, mCommands, mReady, mEpochs, mSignalled, mSessions, caller, woken>>

MailboxInit ==
    /\ mPeers = [p \in {} |-> NewPeer(0)]
    /\ mCommands = <<>> /\ mReady = {} /\ mEpochs = 0
    /\ mSignalled = FALSE /\ mRunning = TRUE
    /\ mSessions = [p \in Peers |-> "None"]
    /\ caller = [c \in Callers |-> Idle]
    /\ woken = {} /\ notifying = {}
=============================================================================
