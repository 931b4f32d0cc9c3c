---------------------------- MODULE RoomGateway ----------------------------
(***************************************************************************)
(* Delivery in realtime/roomGateway: wakeups are coalesced into passes, a  *)
(* pass refreshes every connection, and everything one client's sockets do *)
(* goes through that client's queue, replaced sockets included.  Between   *)
(* the read of a snapshot and its delivery anything may happen.  Rooms are *)
(* versions of what one account may see: odd ones in a room, even ones not.*)
(***************************************************************************)
EXTENDS Integers, Sequences, SequencesExt

CONSTANTS
    Key,                     \* connectionKey of a client
    MaxVersion, MaxSockets, MaxReports \* bounds of the model

GatewayAssumption == {MaxVersion, MaxSockets, MaxReports} \subseteq Nat

Conn == 1..MaxSockets
NoConn == 0
Unsent == -1

VARIABLES
    version,    \* committed changes so far
    pending,    \* refreshPending
    pass,       \* where the fan-out is, refreshing unless idle
    current,    \* connections: the connection of each key
    socket,     \* the state of each socket
    sent,       \* connection.version
    chain,      \* chains: the operations of each key, the first one running
    heard,      \* the version of the last snapshot the client's sockets brought
    shown,      \* the version the client shows, from its sockets or from HTTP
    present,    \* connectionPresent of the account's member
    reported,   \* connections whose heartbeat was taken
    reports     \* heartbeats sent

fanoutVars == <<pending, pass>>
socketVars == <<current, socket>>
viewVars == <<heard, shown>>
presenceVars == <<present, reported, reports>>
vars == <<version, fanoutVars, socketVars, sent, chain, viewVars, presenceVars>>

Op == [op : {"subscribe", "refresh", "report", "closed"}, conn : Conn,
       at : {"queued", "under way"}, read : 0..MaxVersion, inPass : BOOLEAN]
Queued(op, c) == [op |-> op, conn |-> c, at |-> "queued", read |-> 0, inPass |-> FALSE]

\* One operation of a client at a time; the newest socket is the current one.
TypeOK ==
    /\ version \in 0..MaxVersion /\ pending \in BOOLEAN
    /\ pass \in {"idle", "loop", "passing", "ending"}
    /\ current \in [Key -> Conn \union {NoConn}]
    /\ socket \in [Conn -> {"unused", "open", "closing", "gone"}]
    /\ sent \in [Conn -> {Unsent} \union 0..MaxVersion]
    /\ heard \in [Key -> {Unsent} \union 0..MaxVersion] /\ shown \in [Key -> {Unsent} \union 0..MaxVersion]
    /\ present \in [Key -> BOOLEAN] /\ reported \subseteq Conn /\ reports \in 0..MaxReports
    /\ \A k \in Key : /\ chain[k] \in Seq(Op)
                      /\ \A i \in 2..Len(chain[k]) : chain[k][i].at = "queued"
                      /\ current[k] # NoConn => socket[current[k]] \in {"open", "closing"}

Init ==
    /\ version \in 0..1 /\ pending = FALSE /\ pass = "idle"
    /\ current = [k \in Key |-> NoConn] /\ socket = [c \in Conn |-> "unused"]
    /\ sent = [c \in Conn |-> Unsent] /\ chain = [k \in Key |-> <<>>]
    /\ heard = [k \in Key |-> Unsent] /\ shown = [k \in Key |-> Unsent]
    /\ present = [k \in Key |-> FALSE] /\ reported = {} /\ reports = 0

-----------------------------------------------------------------------------
\* What a version says: no room, or a room at a revision of its own.
View(v) == IF v % 2 = 0 THEN 0 ELSE v

Enqueue(k, op) == chain' = [chain EXCEPT ![k] = Append(@, op)]

\* fanout
Fanout == /\ pending' = TRUE
          /\ pass' = IF pass = "idle" THEN "loop" ELSE pass

\* A transaction commits a change; the wakeup after it may be lost with the reply.
Commit == /\ version < MaxVersion
          /\ version' = version + 1
          /\ Fanout \/ UNCHANGED fanoutVars
          /\ UNCHANGED <<socketVars, sent, chain, viewVars, presenceVars>>

\* tick, every five seconds
Tick == /\ Fanout
        /\ UNCHANGED <<version, socketVars, sent, chain, viewVars, presenceVars>>

\* A pass refreshes the connections of the moment, each behind its own queue.
BeginPass ==
    /\ pass = "loop" /\ pending
    /\ pass' = "passing" /\ pending' = FALSE
    /\ chain' = [k \in Key |-> IF current[k] = NoConn THEN chain[k]
                               ELSE Append(chain[k], [Queued("refresh", current[k]) EXCEPT !.inPass = TRUE])]
    /\ UNCHANGED <<version, socketVars, sent, viewVars, presenceVars>>

EndPass ==
    /\ pass = "passing"
    /\ \A k \in Key : \A i \in DOMAIN chain[k] : ~chain[k][i].inPass
    /\ pass' = "loop"
    /\ UNCHANGED <<version, pending, socketVars, sent, chain, viewVars, presenceVars>>

\* The loop ends, and a few turns later refreshing is false again: a wakeup
\* in between is remembered but starts nothing.
EndLoop == /\ pass = "loop" /\ ~pending
           /\ pass' = "ending"
           /\ UNCHANGED <<version, pending, socketVars, sent, chain, viewVars, presenceVars>>

Settle == /\ pass = "ending"
          /\ pass' = "idle"
          /\ UNCHANGED <<version, pending, socketVars, sent, chain, viewVars, presenceVars>>

-----------------------------------------------------------------------------
\* connect
Connect(k) == \E c \in Conn :
    /\ socket[c] = "unused" /\ \A d \in 1..c - 1 : socket[d] # "unused"
    /\ current' = [current EXCEPT ![k] = c]
    /\ socket' = [d \in Conn |-> IF d = c THEN "open"
                                 ELSE IF d = current[k] THEN "closing" ELSE socket[d]]
    /\ Enqueue(k, Queued("subscribe", c))
    /\ UNCHANGED <<version, fanoutVars, sent, viewVars, presenceVars>>

\* The client, its network or the gateway closes the socket.
Close(c) == /\ socket[c] = "open"
            /\ socket' = [socket EXCEPT ![c] = "closing"]
            /\ UNCHANGED <<version, fanoutVars, current, sent, chain, viewVars, presenceVars>>

\* The close event.
SocketClosed(k, c) ==
    /\ socket[c] = "closing"
    /\ socket' = [socket EXCEPT ![c] = "gone"]
    /\ IF current[k] = c THEN /\ current' = [current EXCEPT ![k] = NoConn]
                              /\ Enqueue(k, Queued("closed", c))
                         ELSE c \notin {current[l] : l \in Key} /\ UNCHANGED <<current, chain>>
    /\ UNCHANGED <<version, fanoutVars, sent, viewVars, presenceVars>>

\* A heartbeat arrives.
Report(k) ==
    /\ current[k] # NoConn /\ socket[current[k]] = "open" /\ reports < MaxReports
    /\ Enqueue(k, Queued("report", current[k]))
    /\ reports' = reports + 1
    /\ UNCHANGED <<version, fanoutVars, socketVars, sent, viewVars, present, reported>>

\* The client reads its room over HTTP.
ReadOverHttp(k) ==
    /\ current[k] # NoConn
    /\ shown' = [shown EXCEPT ![k] = version]
    /\ UNCHANGED <<version, fanoutVars, socketVars, sent, chain, heard, presenceVars>>

-----------------------------------------------------------------------------
\* Mutant: operations of a client run as they come.
RunningAtOnce(k, i) == i \in DOMAIN chain[k]

\* serialized: the i-th operation is the client's next to run.
Running(k, i) == i \in DOMAIN chain[k] /\ i = 1

Finish(k, i) == chain' = [chain EXCEPT ![k] = RemoveAt(@, i)]
Proceed(k, i, read) == chain' = [chain EXCEPT ![k][i].at = "under way", ![k][i].read = read]
Is(k, i, ops, at) == Running(k, i) /\ chain[k][i].op \in ops /\ chain[k][i].at = at
Current(k, i) == current[k] = chain[k][i].conn
Open(k, i) == Current(k, i) /\ socket[current[k]] = "open"
Reading == {"subscribe", "refresh"}

\* refresh and dispatch give up on a connection that is no longer the client's.
Skip(k, i) == /\ Is(k, i, Reading \union {"report"}, "queued")
              /\ ~Open(k, i)
              /\ Finish(k, i)
              /\ UNCHANGED <<version, fanoutVars, socketVars, sent, viewVars, presenceVars>>

\* currentRoom
ReadRoom(k, i) == /\ Is(k, i, Reading, "queued") /\ Open(k, i)
                  /\ Proceed(k, i, version)
                  /\ UNCHANGED <<version, fanoutVars, socketVars, sent, viewVars, presenceVars>>

\* Mutant: a version the connection already brought is not brought again.
NewsUnlessSent(k, i) == chain[k][i].op = "subscribe" \/ View(chain[k][i].read) # sent[chain[k][i].conn]

\* A snapshot is sent when it differs, and absence always.
News(k, i) == \/ chain[k][i].op = "subscribe"
              \/ View(chain[k][i].read) = 0
              \/ View(chain[k][i].read) # sent[chain[k][i].conn]

\* The rest of refresh.
Deliver(k, i) ==
    /\ Is(k, i, Reading, "under way")
    /\ LET read == chain[k][i].read IN
       IF ~Current(k, i) THEN UNCHANGED <<sent, viewVars>>
       ELSE /\ sent' = [sent EXCEPT ![current[k]] = View(read)]
            /\ IF Open(k, i) /\ News(k, i)
               THEN heard' = [heard EXCEPT ![k] = read] /\ shown' = [shown EXCEPT ![k] = read]
               ELSE UNCHANGED viewVars
    /\ Finish(k, i)
    /\ UNCHANGED <<version, fanoutVars, socketVars, presenceVars>>

\* Three reads, or a report, failed: closeForFailure.
Fail(k, i) == /\ Is(k, i, Reading \union {"report"}, "queued") /\ Open(k, i)
              /\ socket' = [socket EXCEPT ![current[k]] = "closing"]
              /\ Finish(k, i)
              /\ UNCHANGED <<version, fanoutVars, current, sent, viewVars, presenceVars>>

\* dispatchReport: taken by the room, or void, which refreshes its socket.
Heartbeat(k, i) ==
    /\ Is(k, i, {"report"}, "queued") /\ Open(k, i)
    /\ \/ /\ present' = [present EXCEPT ![k] = TRUE]
          /\ reported' = reported \union {current[k]}
          /\ Finish(k, i)
       \/ /\ chain' = [chain EXCEPT ![k][i] = Queued("refresh", current[k])]
          /\ UNCHANGED <<present, reported>>
    /\ UNCHANGED <<version, fanoutVars, socketVars, sent, viewVars, reports>>

\* The queued half of the close event: has the client come back?
Leave(k, i) == /\ Is(k, i, {"closed"}, "queued")
               /\ IF current[k] = NoConn THEN Proceed(k, i, 0) ELSE Finish(k, i)
               /\ UNCHANGED <<version, fanoutVars, socketVars, sent, viewVars, presenceVars>>

\* disconnected commits, or fails for good.
Disconnected(k, i) == /\ Is(k, i, {"closed"}, "under way")
                      /\ \E p \in {FALSE, present[k]} : present' = [present EXCEPT ![k] = p]
                      /\ Finish(k, i)
                      /\ UNCHANGED <<version, fanoutVars, socketVars, sent, viewVars, reported, reports>>

Run(k) == \E i \in DOMAIN chain[k] :
    Skip(k, i) \/ ReadRoom(k, i) \/ Deliver(k, i) \/ Fail(k, i) \/ Heartbeat(k, i) \/ Leave(k, i) \/ Disconnected(k, i)

Loop == BeginPass \/ EndPass \/ EndLoop \/ Settle

Next == \/ Commit \/ Tick \/ Loop
        \/ \E c \in Conn : Close(c)
        \/ \E k \in Key : Connect(k) \/ Report(k) \/ ReadOverHttp(k) \/ Run(k) \/ \E c \in Conn : SocketClosed(k, c)

Spec == Init /\ [][Next]_vars

\* The interval, the loop and every queued operation run on.
Fairness == WF_vars(Tick) /\ WF_vars(Loop) /\ \A k \in Key : WF_vars(Run(k))

FairSpec == Spec /\ Fairness

-----------------------------------------------------------------------------
\* Safety.

\* What a client's sockets bring it never goes back in time, across passes,
\* reports that refresh, and replaced sockets.
NoneGoesBack == \A k \in Key : heard'[k] >= heard[k]
NeverBack == [][NoneGoesBack]_vars

\* A client whose present connection reported is present once its queue is
\* empty: the departure of an earlier socket never lands last.
ReturnersArePresent ==
    \A k \in Key : chain[k] = <<>> /\ current[k] \in reported => present[k]

\* Liveness.

\* Every client with an open socket comes to show what is committed, though
\* wakeups are lost or coalesced and HTTP showed it something newer before.
Synchronised ==
    \A k \in Key : []<>(\/ current[k] = NoConn
                        \/ socket[current[k]] # "open"
                        \/ View(shown[k]) = View(version))
=============================================================================
