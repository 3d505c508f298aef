------------------------------ MODULE Session -------------------------------
(***************************************************************************)
(* Sessions between two engines: NetworkEngine's commands, onHello,        *)
(* handleDatagram, advance and onControl, over a network that loses,       *)
(* repeats and reorders datagrams.  The link of a session is reduced to    *)
(* what ReliableLink guarantees: each lane delivers in order what was sent *)
(* on it, knows how much of it was acknowledged, and keeps what it         *)
(* acknowledged until there is room to deliver it.                         *)
(*                                                                         *)
(* One record per engine; its operations are functions from the record to  *)
(* the changed record, named as in the code.                               *)
(***************************************************************************)
EXTENDS Integers, Sequences, FiniteSets, SequencesExt

CONSTANTS
    Engines,      \* two instance IDs
    AutoAccept,   \* engines whose application sets no onConnectionRequest
    MayShutdown,  \* engines whose application stops
    MaxStreams,   \* bound: links, of both engines together
    MaxConnects,  \* bound: calls of connect(), of each engine
    MaxPosted,    \* bound, per engine: commands that wait at a time
    Connectors, Disconnectors, Senders,  \* bound: engines whose application does these things
    MaxData       \* bound: messages sent in a session

ASSUME SessionAssumption ==
    /\ Engines \subseteq Nat /\ Cardinality(Engines) = 2
    /\ AutoAccept \subseteq Engines /\ MayShutdown \subseteq Engines
    /\ MaxPosted \in [Engines -> Nat]

VARIABLES
    eng,      \* per engine: its peer, what it published, what its application knows
    posted,   \* per engine: commands in the mailbox
    stepping, \* engines within a step that has applied its commands
    net,      \* datagrams that were sent: any of them may arrive, at any time, again
    streams,  \* stream IDs handed out
    connects  \* calls of connect() so far

vars == <<eng, posted, stepping, net, streams, connects>>

-----------------------------------------------------------------------------
(* Data *)

Lanes == {"Control", "Data"}

other(e) == CHOOSE f \in Engines : f # e

\* out: session or application messages of a lane, the ones the link did not take yet included;
\* una of them are acknowledged. got: messages received and acknowledged, of which the link holds
\* the last ones back for lack of room in the assembly budget, and the ones before wait in the
\* inbox for the next step; delivered: Message events raised.
NewPeer(local) ==
    [local |-> local, remote |-> 0, state |-> "Connecting",
     initiator |-> FALSE, acceptSent |-> FALSE, closeSent |-> FALSE,
     announced |-> FALSE, reported |-> FALSE, ended |-> FALSE, failed |-> FALSE,
     stateDeadline |-> FALSE,
     out |-> [l \in Lanes |-> <<>>], una |-> [l \in Lanes |-> 0],
     got |-> [l \in Lanes |-> 0], ackDue |-> {}, inbox |-> <<>>, held |-> <<>>, delivered |-> 0]

NoPeer == [local |-> 0]

find(s) == s.peer # NoPeer

-----------------------------------------------------------------------------
(* What the application is told *)

\* view: the session the application knows of: "idle" (none), "trying" (its connect() is under
\* way), "asked" (onConnectionRequest), "open" (onConnected), or "broken" by an event that the
\* callbacks rule out. asking: connect() returned true and nothing followed.
allowedIn(event) ==
    CASE event = "Trying" -> {"idle"}
      [] event = "Refused" -> {"idle"}   \* onDisconnected for a connect() that began nothing
      [] event = "Request" -> {"idle"}
      [] event = "Connected" -> {"idle", "trying", "asked"}
      [] event = "Message" -> {"open"}
      [] event = "Disconnected" -> {"trying", "asked", "open"}

viewAfter(event) ==
    CASE event = "Trying" -> "trying"
      [] event = "Request" -> "asked"
      [] event \in {"Connected", "Message"} -> "open"
      [] event \in {"Disconnected", "Refused"} -> "idle"

emit(s, event) ==
    [s EXCEPT !.view = IF @ \in allowedIn(event) THEN viewAfter(event) ELSE "broken",
              !.asking = @ /\ event \notin {"Connected", "Disconnected", "Refused"}]

\* Mutant: told again
reportAgain(s) == IF s.peer.announced THEN emit(s, "Disconnected") ELSE s

report(s) ==
    IF ~s.peer.announced \/ s.peer.reported THEN s
    ELSE emit([s EXCEPT !.peer.reported = TRUE], "Disconnected")

-----------------------------------------------------------------------------
(* Sessions *)

\* Mailbox::close()
closeMail(s) == [s EXCEPT !.session = "None"]

end(s) == IF s.peer.ended THEN s ELSE closeMail([s EXCEPT !.peer.ended = TRUE])

erase(s) == [closeMail(s) EXCEPT !.peer = NoPeer]

setConnected(s) ==
    emit([s EXCEPT !.peer.state = "Connected", !.peer.announced = TRUE,
                   !.peer.stateDeadline = FALSE, !.session = "Connected"], "Connected")

control(s, message) == [s EXCEPT !.peer.out["Control"] = Append(@, message)]

sendAccept(s) ==
    [control(s, "Accept") EXCEPT !.peer.state = "Connecting", !.peer.acceptSent = TRUE,
                                 !.peer.stateDeadline = FALSE, !.session = "Pending"]

lingers(s) == [s EXCEPT !.peer.state = "Closing", !.peer.closeSent = TRUE,
                        !.peer.stateDeadline = TRUE]

sendDecline(s) == closeMail(lingers(report(control(s, "Decline"))))

\* Mutant: the mailbox stays open
closeKeepsMail(s) == IF s.peer.remote = 0 THEN end(s) ELSE lingers(control(s, "Close"))

\* A remote that never answered does not know this link
sendClose(s) ==
    IF s.peer.remote = 0 THEN end(closeMail(s)) ELSE lingers(control(closeMail(s), "Close"))

transfersData(peer) == peer.state = "Connected" \/ (peer.state = "Closing" /\ ~peer.closeSent)

-----------------------------------------------------------------------------
(* Commands *)

\* A session that only waits for its goodbye to be acknowledged makes room for a new one
replaceable(peer) == peer.state = "Closing" /\ peer.closeSent

\* Mutant: a connect() that begins nothing is not answered
startQuietly(s, known, stream) ==
    IF s.shutdown THEN s
    ELSE IF find(s) /\ s.peer.state = "AwaitingDecision" THEN sendAccept(s)
    ELSE IF find(s) /\ ~replaceable(s.peer) THEN s
    ELSE LET room == IF find(s) THEN erase(s) ELSE s
         IN  IF ~known THEN room
             ELSE control(emit([room EXCEPT !.peer = [NewPeer(stream) EXCEPT !.initiator = TRUE,
                                                                            !.announced = TRUE],
                                            !.session = "Pending"], "Trying"), "Hello")

\* known: the peer is still discovered, and there is room and a socket for a session
startSession(s, known, stream) ==
    IF s.shutdown THEN s
    ELSE IF find(s) /\ s.peer.state = "AwaitingDecision" THEN sendAccept(s)
    ELSE IF find(s) /\ ~replaceable(s.peer) THEN s
    ELSE LET room == IF find(s) THEN erase(s) ELSE s
         IN  IF ~known THEN emit(room, "Refused")
             ELSE control(emit([room EXCEPT !.peer = [NewPeer(stream) EXCEPT !.initiator = TRUE,
                                                                            !.announced = TRUE],
                                            !.session = "Pending"], "Trying"), "Hello")

endSession(s) ==
    CASE s.peer.state = "Connected"        -> [s EXCEPT !.peer.state = "Closing",
                                                        !.peer.stateDeadline = TRUE]
      [] s.peer.state = "AwaitingDecision" -> sendDecline(s)
      [] s.peer.state = "Connecting"       -> sendClose(report(s))
      [] s.peer.state = "Closing"          -> s

\* Mutant: only a request is ended
shutdownDeclines(s) ==
    LET down == [s EXCEPT !.shutdown = TRUE]
        told == report(down)
    IN  IF s.shutdown \/ ~find(s) THEN down
        ELSE IF s.peer.state = "AwaitingDecision" THEN sendDecline(told) ELSE told

beginShutdown(s) ==
    LET down == [s EXCEPT !.shutdown = TRUE]
        told == report(down)
    IN  IF s.shutdown \/ ~find(s) THEN down
        ELSE IF s.peer.state = "AwaitingDecision" THEN sendDecline(told)
        ELSE IF ~s.peer.closeSent THEN sendClose(told) ELSE told

apply(s, command, known, stream) ==
    CASE command = "Connect"  -> startSession(s, known, stream)
      [] command = "Accept"   -> IF find(s) /\ s.peer.state = "AwaitingDecision"
                                 THEN sendAccept(s) ELSE s
      [] command = "Decline"  -> IF find(s) /\ s.peer.state = "AwaitingDecision"
                                 THEN sendDecline(s) ELSE s
      [] command = "Disconnect" -> IF find(s) THEN endSession(s) ELSE s
      [] command = "Shutdown" -> beginShutdown(s)

-----------------------------------------------------------------------------
(* Receiving *)

\* A fresh message joins the ones that are held back, or the inbox
arrives(p, l, msg) ==
    IF l = "Data" /\ p.held # <<>> THEN [p EXCEPT !.got[l] = @ + 1, !.held = Append(@, msg)]
    ELSE [p EXCEPT !.got[l] = @ + 1, !.inbox = Append(@, msg)]

\* Mutant: packets of any stream are taken
onPacketOfAny(s, packet) ==
    LET p == s.peer
        l == packet.lane
        known == [s EXCEPT !.peer.remote = packet.src]
        fresh == packet.seq = p.got[l] + 1
    IN  IF p.failed THEN s
        ELSE IF packet.kind = "Ack"
        THEN [known EXCEPT !.peer.una[l] = IF packet.seq > @ THEN packet.seq ELSE @]
        ELSE [known EXCEPT !.peer = [IF fresh THEN arrives(@, l, packet.msg) ELSE @
                                     EXCEPT !.ackDue = @ \cup {l}]]

\* What the link of the peer is sent: a message of a lane, or the Ack of a lane
onPacket(s, packet) ==
    LET p == s.peer
        l == packet.lane
        known == [s EXCEPT !.peer.remote = packet.src]
        fresh == packet.seq = p.got[l] + 1
    IN  IF p.failed \/ packet.dst \notin {0, p.local} \/ p.remote \notin {0, packet.src} THEN s
        ELSE IF packet.kind = "Ack"
        THEN [known EXCEPT !.peer.una[l] = IF packet.seq > @ THEN packet.seq ELSE @]
        ELSE [known EXCEPT !.peer = [IF fresh THEN arrives(@, l, packet.msg) ELSE @
                                     EXCEPT !.ackDue = @ \cup {l}]]

\* Both asked at once: the one with the higher ID keeps asking, the other one answers
crosses(s) == find(s) /\ s.peer.state = "Connecting" /\ s.peer.initiator

\* A Hello of a link that is not known yet
acceptsHello(e, s) == ~s.shutdown /\ ~(crosses(s) /\ e > other(e))

\* ... makes a new session, and ends the one there was
onHello(e, s, stream) ==
    LET room == IF find(s) THEN erase(IF crosses(s) THEN s ELSE report(s)) ELSE s
        new == [room EXCEPT !.peer = NewPeer(stream)]
    IN  IF crosses(s) \/ e \in AutoAccept
        THEN sendAccept([new EXCEPT !.peer.announced = crosses(s)])
        ELSE emit([new EXCEPT !.peer.state = "AwaitingDecision", !.peer.stateDeadline = TRUE,
                              !.peer.announced = TRUE, !.session = "Requested"], "Request")

\* Before a session is connected nothing but its Control lane is taken - unless the remote,
\* which has the Accept, already uses the session
usesSession(s) == s.peer.state = "Connecting" /\ ~s.peer.initiator /\ s.peer.acceptSent

\* Mutant: every lane is taken at any time
takeEarly(s, packet) == IF ~find(s) \/ s.peer.ended THEN s ELSE onPacket(s, packet)

takePacket(s, packet) ==
    IF ~find(s) \/ s.peer.ended THEN s
    ELSE IF packet.lane = "Control" \/ transfersData(s.peer) THEN onPacket(s, packet)
    ELSE IF usesSession(s) THEN onPacket(setConnected(s), packet)
    ELSE s

\* retryRefused(): there is room now for what was held back
release(s) == [s EXCEPT !.peer.inbox = @ \o s.peer.held, !.peer.held = <<>>]

\* A message of the lane lets the link try again what it holds back, before it is taken itself
retried(s, packet) ==
    {s} \cup (IF packet.kind = "Data" /\ packet.lane = "Data" /\ transfersData(s.peer)
              THEN {release(s)} ELSE {})

\* drainReorderBuffer(): the packet closes the gap before one that came earlier, for which there
\* is no room: that one is acknowledged and held back
holdsBack(s, packet, next) ==
    LET t == takePacket(s, packet)
    IN  [t EXCEPT !.peer.got["Data"] = @ + 1, !.peer.held = <<next.msg>>]

-----------------------------------------------------------------------------
(* The end of a step *)

onControl(s, message) ==
    LET answers == s.peer.state = "Connecting" /\ s.peer.initiator
    IN  CASE message = "Accept"  -> IF answers THEN setConnected(s) ELSE s
          [] message = "Decline" -> IF answers THEN end(report(s)) ELSE s
          [] message = "Close"   -> end(report(s))
          [] OTHER -> s

onMessage(s, message) ==
    IF message # "Payload" THEN IF s.peer.ended THEN s ELSE onControl(s, message)
    ELSE IF s.peer.ended \/ s.peer.reported \/ ~transfersData(s.peer) THEN s
    ELSE emit([s EXCEPT !.peer.delivered = @ + 1], "Message")

settled(peer, l) == peer.una[l] = Len(peer.out[l])

\* What became of the session, and what that lets it do next
proceed(s, expired) ==
    CASE s.peer.ended -> s
      [] s.peer.state = "Connecting" ->
            IF usesSession(s) /\ settled(s.peer, "Control") THEN setConnected(s) ELSE s
      [] s.peer.state = "AwaitingDecision" -> IF expired THEN sendDecline(s) ELSE s
      [] s.peer.state = "Connected" -> s
      [] s.peer.state = "Closing" ->
            IF s.peer.closeSent
            THEN IF settled(s.peer, "Control") \/ expired THEN end(s) ELSE s
            ELSE IF settled(s.peer, "Data") \/ expired THEN sendClose(report(s)) ELSE s

advance(s, expired) ==
    IF s.peer.ended THEN s
    ELSE IF s.peer.failed THEN end(report(s))
    ELSE proceed(FoldLeft(onMessage, [s EXCEPT !.peer.inbox = <<>>], s.peer.inbox), expired)

packet(e, p, kind, l, seq, msg) ==
    [to |-> other(e), src |-> p.local, dst |-> p.remote, kind |-> kind, lane |-> l, seq |-> seq,
     msg |-> msg]

\* Acks that are due, also for a session that just ended, and everything not acknowledged yet
sends(e, p) ==
    IF p.failed THEN {}
    ELSE {packet(e, p, "Ack", l, p.got[l], "none") : l \in p.ackDue}
         \cup (IF p.ended THEN {}
               ELSE UNION {{packet(e, p, "Data", l, i, p.out[l][i]) : i \in (p.una[l] + 1) .. Len(p.out[l])} :
                           l \in IF transfersData(p) THEN Lanes ELSE {"Control"}})

\* The engine changed and sent something. Datagrams that cannot have an effect anymore are
\* forgotten: the ones for a link that is gone, and the ones that bring nothing new - a message
\* that was received is only acknowledged again.
useful(p, states) ==
    LET q == states[p.to].peer
    IN  \/ p.dst = 0
        \/ /\ find(states[p.to]) /\ p.dst = q.local /\ ~q.failed
           /\ p.seq > IF p.kind = "Ack" THEN q.una[p.lane] ELSE q.got[p.lane]

become(e, s, sent) ==
    /\ eng' = [eng EXCEPT ![e] = s]
    /\ net' = {p \in net \cup sent : useful(p, eng')}

-----------------------------------------------------------------------------
(* Application threads *)

post(e, command) ==
    /\ Len(posted[e]) < MaxPosted[e]
    /\ posted' = [posted EXCEPT ![e] = Append(@, command)]

Connect(e) ==
    /\ e \in Connectors /\ ~eng[e].shutdown
    /\ eng[e].session \in {"None", "Requested"}
    /\ connects[e] < MaxConnects
    /\ post(e, "Connect")
    /\ connects' = [connects EXCEPT ![e] = @ + 1]
    /\ eng' = [eng EXCEPT ![e].asking = TRUE]
    /\ UNCHANGED <<stepping, net, streams>>

Answer(e) ==
    /\ eng[e].view = "asked"
    /\ post(e, "Accept") \/ post(e, "Decline")
    /\ UNCHANGED <<eng, stepping, net, streams, connects>>

\* disconnect(): seal(), which does nothing when there is no session, and post()
Disconnect(e) ==
    /\ e \in Disconnectors
    /\ post(e, "Disconnect")
    /\ eng' = IF eng[e].session = "Connected" THEN [eng EXCEPT ![e].session = "Pending"] ELSE eng
    /\ UNCHANGED <<stepping, net, streams, connects>>

Send(e) ==
    /\ e \in Senders
    /\ eng[e].session = "Connected" /\ ~eng[e].shutdown
    /\ Len(eng[e].peer.out["Data"]) < MaxData
    /\ eng' = [eng EXCEPT ![e].peer.out["Data"] = Append(@, "Payload")]
    /\ UNCHANGED <<posted, stepping, net, streams, connects>>

Stop(e) ==
    /\ e \in MayShutdown /\ ~eng[e].shutdown
    /\ "Shutdown" \notin Range(posted[e])
    /\ post(e, "Shutdown")
    /\ UNCHANGED <<eng, stepping, net, streams, connects>>

-----------------------------------------------------------------------------
(* A step of an engine: commands, datagrams and timers, then what follows from them *)

finished(e) == eng[e].shutdown /\ ~find(eng[e])

\* Everything that was posted before the step
Apply(e) ==
    /\ e \notin stepping /\ posted[e] # <<>> /\ ~finished(e)
    /\ \E known \in BOOLEAN :
        LET applyNext(s, command) == apply(s, command, known, streams + 1)
            s == FoldLeft(applyNext, eng[e], posted[e])
        IN  /\ become(e, s, {})
            /\ streams' = IF find(s) /\ s.peer.local > streams THEN streams + 1 ELSE streams
            /\ streams' <= MaxStreams
            /\ stepping' = IF find(s) THEN stepping \cup {e} ELSE stepping
    /\ posted' = [posted EXCEPT ![e] = <<>>]
    /\ UNCHANGED connects

\* handleDatagram() of a datagram that names this side's link, or of a Hello sent again
Receive(e, p) ==
    /\ p.to = e /\ find(eng[e])
    /\ p.dst = eng[e].peer.local \/ (p.dst = 0 /\ eng[e].peer.remote = p.src)
    /\ \E s \in retried(eng[e], p) : become(e, takePacket(s, p), {})
    /\ stepping' = stepping \cup {e}
    /\ UNCHANGED <<posted, streams, connects>>

\* ... of the message before one that came earlier, which is refused
ReceiveAndHold(e, p) ==
    LET q == [p EXCEPT !.seq = @ + 1] IN
    /\ p.to = e /\ p.kind = "Data" /\ p.lane = "Data"
    /\ find(eng[e]) /\ p.dst = eng[e].peer.local /\ q \in net
    /\ \E s \in retried(eng[e], p) :
        /\ s.peer.held = <<>>
        /\ takePacket(s, p).peer.got["Data"] = p.seq /\ s.peer.got["Data"] < p.seq
        /\ become(e, holdsBack(s, p, q), {})
    /\ stepping' = stepping \cup {e}
    /\ UNCHANGED <<posted, streams, connects>>

\* ... of a Hello that begins a link
ReceiveHello(e, p) ==
    /\ p.to = e /\ p.dst = 0
    /\ ~(find(eng[e]) /\ eng[e].peer.remote = p.src)
    /\ acceptsHello(e, eng[e])
    /\ streams < MaxStreams
    /\ become(e, takePacket(onHello(e, eng[e], streams + 1), p), {})
    /\ streams' = streams + 1
    /\ stepping' = stepping \cup {e}
    /\ UNCHANGED <<posted, connects>>

\* The remote was not heard from, or did not acknowledge, for too long
LinkFails(e) ==
    /\ find(eng[e]) /\ ~eng[e].peer.failed
    /\ become(e, [eng[e] EXCEPT !.peer.failed = TRUE, !.peer.ackDue = {}, !.peer.inbox = <<>>,
                                !.peer.held = <<>>,
                                !.peer.out = NewPeer(0).out, !.peer.una = NewPeer(0).una,
                                !.peer.got = NewPeer(0).got], {})
    /\ stepping' = stepping \cup {e}
    /\ UNCHANGED <<posted, streams, connects>>

\* advance(), Acks, data, and the end of a session that is over. expired: stateDeadline passed.
\* makeAck() tries again what is held back, also for the Ping of a sender that paused; the next
\* step hands it over.
StepEnds(e, expired) ==
    /\ find(eng[e]) /\ (expired => eng[e].peer.stateDeadline)
    /\ stepping' = stepping \ {e}
    /\ LET s == advance(eng[e], expired)
       IN  \E t \in {s, release(s)} :
            become(e, IF s.peer.ended THEN erase(s) ELSE [t EXCEPT !.peer.ackDue = {}],
                   sends(e, s.peer))
    /\ UNCHANGED <<posted, streams, connects>>

-----------------------------------------------------------------------------

Init ==
    /\ eng = [e \in Engines |-> [peer |-> NoPeer, session |-> "None", view |-> "idle",
                                 asking |-> FALSE, shutdown |-> FALSE]]
    /\ posted = [e \in Engines |-> <<>>] 
    /\ stepping = {} /\ net = {} /\ streams = 0
    /\ connects = [e \in Engines |-> 0]

Next ==
    \E e \in Engines :
        \/ Connect(e) \/ Answer(e) \/ Disconnect(e) \/ Send(e) \/ Stop(e)
        \/ Apply(e) \/ LinkFails(e) \/ \E expired \in BOOLEAN : StepEnds(e, expired)
        \/ \E p \in net : Receive(e, p) \/ ReceiveAndHold(e, p) \/ ReceiveHello(e, p)

Spec == Init /\ [][Next]_vars

peerOf(e) == eng[e].peer

\* The link of e talks to the one the other engine has now
paired(e) ==
    /\ find(eng[e]) /\ find(eng[other(e)])
    /\ peerOf(e).remote = peerOf(other(e)).local

\* When an action of an engine is enabled
applyDue(e) == e \notin stepping /\ posted[e] # <<>> /\ ~finished(e)

stepDue(e, expired) ==
    LET s == advance(eng[e], expired)
    IN  /\ find(eng[e]) /\ (expired => eng[e].peer.stateDeadline)
        /\ \/ e \in stepping \/ s # eng[e] \/ eng[e].peer.ended
           \/ \E p \in sends(e, s.peer) : p \notin net /\ useful(p, [eng EXCEPT ![e] = s])

\* A datagram that brings the link something new
isNew(e, p) ==
    /\ p.to = e /\ find(eng[e]) /\ p.dst = peerOf(e).local
    /\ p.kind = "Data" => p.seq = peerOf(e).got[p.lane] + 1
    /\ takePacket(eng[e], p) # eng[e]

ReceiveNew(e) == \E p \in net : isNew(e, p) /\ Receive(e, p)

\* The remote has no link that talks to this one
silent(e) ==
    find(eng[e]) /\ ~peerOf(e).failed /\ ~(paired(other(e)) /\ ~peerOf(other(e)).failed)

\* Spelled out: steps end, each one applies what was posted, deadlines pass, what two live links
\* send to each other arrives in the end, and silence fails a link.
Fairness ==
    \A e \in Engines :
        /\ <>[](~applyDue(e)) \/ []<><<Apply(e)>>_vars
        /\ \A x \in BOOLEAN : []<>(~stepDue(e, x)) \/ []<><<StepEnds(e, x)>>_vars
        /\ []<>(~\E p \in net : isNew(e, p)) \/ []<><<ReceiveNew(e)>>_vars
        /\ []<>(~silent(e)) \/ []<><<LinkFails(e)>>_vars

FairSpec == Spec /\ Fairness

-----------------------------------------------------------------------------
(* Properties *)

\* For every peer: onConnected comes before its first onMessage, onConnectionRequest and
\* onConnected come once, and nothing follows onDisconnected, which comes once as well.
EventsInOrder == \A e \in Engines : eng[e].view # "broken"

\* What connect() and connectedPeers() are told fits the session: "None" when a new one can be
\* asked for, "Requested" when the application still has to answer.
PublishedFits ==
    \A e \in Engines :
        LET p == peerOf(e) IN
        /\ eng[e].session = "None" => ~find(eng[e]) \/ p.closeSent \/ p.ended
        /\ eng[e].session = "Requested" => p.state = "AwaitingDecision"
        /\ eng[e].session = "Connected" => transfersData(p)

\* connect() that returned true is answered by onConnected or onDisconnected: as long as it was
\* not, its command or a session that will answer is there.
ConnectIsAnswered ==
    \A e \in Engines :
        eng[e].asking /\ ~eng[e].shutdown =>
            \/ "Connect" \in Range(posted[e]) \/ find(eng[e])

\* ... and in the end it is.
ConnectEnds ==
    \A e \in Engines : eng[e].asking ~> (~eng[e].asking \/ eng[e].shutdown)

\* An engine that shuts down gets rid of its sessions, whatever the remote does.
ShutdownFinishes == \A e \in MayShutdown : eng[e].shutdown ~> finished(e)

\* A side is connected only with a link that talks to it and to nobody else, and exactly one of
\* the two asked for the session, also when both called connect() at once.
ConnectedAgree ==
    \A e \in Engines : paired(e) /\ peerOf(e).state = "Connected" =>
        /\ peerOf(other(e)).remote = peerOf(e).local
        /\ peerOf(other(e)).initiator # peerOf(e).initiator

\* What the remote acknowledged was handed to its application or is kept for it, as long as that
\* application was not told that the session is over: an Ack never covers a message that the
\* other side drops because its session is not open yet.
AcknowledgedIsKept ==
    \A e \in Engines :
        LET q == peerOf(other(e))
            kept == Len(q.held) + Cardinality({i \in DOMAIN q.inbox : q.inbox[i] = "Payload"})
        IN  paired(e) /\ peerOf(e).state = "Connected" /\ ~q.reported /\ ~q.failed =>
                peerOf(e).una["Data"] <= q.delivered + kept

\* The remote started over: a session that onHello() replaces as lost is one that the remote
\* does not hold anymore.
ReplacedOnlyIfDropped ==
    [][\A e \in Engines :
        /\ find(eng[e]) /\ find(eng'[e]) /\ peerOf(e).local # eng'[e].peer.local
        /\ ~eng'[e].peer.initiator /\ peerOf(e).state = "Connected"
        => peerOf(other(e)).local # peerOf(e).remote]_vars
=============================================================================
