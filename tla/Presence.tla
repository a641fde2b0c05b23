---------------------------------- MODULE Presence ----------------------------------
(***************************************************************************)
(* Who is shown as present: the roster of the opstream-collab client, the  *)
(* awareness session of the server, and the SignalR messages between them. *)
(*                                                                         *)
(* A client announces itself when its join is answered, then at every      *)
(* heartbeat, and once to each peer that is new to it.  What it announces  *)
(* is always the same, and the server does not pass on an announcement     *)
(* that equals what it keeps of the connection.  What a client shows of a  *)
(* peer is known by the connection it came over: a connection is a client  *)
(* and a number, as a reconnect of the transport gets a new one.           *)
(***************************************************************************)
EXTENDS Naturals, Sequences, FiniteSets

CONSTANTS
    Clients,          \* the clients
    MaxConnections,   \* bound: connections, of all clients
    MaxReconnects,    \* bound: reconnects of the transport, of all clients
    MaxExpiries       \* bound: states that outlive their time on the server

ASSUME BoundsAssumption ==
    MaxConnections \in Nat \ {0} /\ MaxReconnects \in Nat /\ MaxExpiries \in Nat

VARIABLES
    number,       \* client -> the number of its connection, 0 before the first
    step,         \* client -> how far it is: "off", "asked", "found", "joined", "on"
    roster,       \* client -> the connections it shows, of each peer at most one
    calls,        \* the connections with an UpdateAwareness on its way
    net,          \* client -> the messages on their way to it
    states,       \* the connections the awareness session has a state of
    expired,      \* those whose state is older than its time to live
    registered,   \* the connections the peer registry has in the document
    group,        \* the connections in the document's SignalR group
    joined,       \* the connections that were ever registered
    overtaken,    \* the clients announced by a connection they have replaced
    count         \* how many connections, reconnects and expiries there were

clientVars == <<number, step, roster>>
serverVars == <<states, expired, registered, group>>
vars == <<clientVars, calls, net, serverVars, joined, overtaken, count>>

Connections == Clients \X (1..MaxConnections)
ConnectionOf(c) == <<c, number[c]>>

\* One more connection.
Connecting(c) ==
    /\ count.connections < MaxConnections
    /\ number' = [number EXCEPT ![c] = @ + 1]
Open(k) == step[k[1]] # "off" /\ k = ConnectionOf(k[1])

Init ==
    /\ number = [c \in Clients |-> 0]
    /\ step = [c \in Clients |-> "off"]
    /\ roster = [c \in Clients |-> {}]
    /\ calls = {}
    /\ net = [c \in Clients |-> <<>>]
    /\ states = {} /\ expired = {}
    /\ registered = {} /\ group = {} /\ joined = {}
    /\ overtaken = {}
    /\ count = [connections |-> 0, reconnects |-> 0, expiries |-> 0]

\* The relay sends a message to the group, but not to the connection it is about.
Sent(type, k) ==
    [c \in Clients |->
        IF step[c] # "off" /\ ConnectionOf(c) \in group /\ ConnectionOf(c) # k
        THEN Append(net[c], [type |-> type, conn |-> k]) ELSE net[c]]

----------------------------------------------------------------------------
(***************************************************************************)
(* The client.                                                             *)
(***************************************************************************)

\* connect(): a new session, with an empty roster, asks for the document.
Connect(c) ==
    /\ step[c] = "off"
    /\ Connecting(c)
    /\ count' = [count EXCEPT !.connections = @ + 1]
    /\ step' = [step EXCEPT ![c] = "asked"]
    /\ roster' = [roster EXCEPT ![c] = {}]
    /\ UNCHANGED <<calls, net, serverVars, joined, overtaken>>

\* The join is answered: the client takes the snapshot, leaves the states of the
\* peers in the answer aside, and announces itself.
Joined(c) ==
    /\ step[c] = "joined"
    /\ step' = [step EXCEPT ![c] = "on"]
    /\ calls' = calls \cup {ConnectionOf(c)}
    /\ UNCHANGED <<number, roster, net, serverVars, joined, overtaken, count>>

\* The interval: announce again.
Heartbeat(c) ==
    /\ step[c] = "on" /\ ConnectionOf(c) \notin calls
    /\ calls' = calls \cup {ConnectionOf(c)}
    /\ UNCHANGED <<clientVars, net, serverVars, joined, overtaken, count>>

\* Mutant of ReceiveAwareness: the peer is shown beside what it was shown with.
ReceiveAwarenessBeside(c) ==
    /\ step[c] # "off" /\ net[c] # <<>> /\ Head(net[c]).type = "awareness"
    /\ LET k == Head(net[c]).conn
           known == {x \in roster[c] : x[1] = k[1]}
       IN  /\ roster' = [roster EXCEPT ![c] = @ \cup {k}]
           /\ calls' = IF known = {} /\ k[1] # c THEN calls \cup {ConnectionOf(c)} ELSE calls
    /\ net' = [net EXCEPT ![c] = Tail(@)]
    /\ UNCHANGED <<number, step, serverVars, joined, overtaken, count>>

\* _onAwareness: the peer is shown with this connection, and answered when new.
ReceiveAwareness(c) ==
    /\ step[c] # "off" /\ net[c] # <<>> /\ Head(net[c]).type = "awareness"
    /\ LET k == Head(net[c]).conn
           known == {x \in roster[c] : x[1] = k[1]}
       IN  /\ roster' = [roster EXCEPT ![c] = (@ \ known) \cup {k}]
           /\ calls' = IF known = {} /\ k[1] # c THEN calls \cup {ConnectionOf(c)} ELSE calls
    /\ net' = [net EXCEPT ![c] = Tail(@)]
    /\ UNCHANGED <<number, step, serverVars, joined, overtaken, count>>

\* Mutant of ReceiveGone: the peer is dropped, whatever connection it is shown with.
ReceiveGoneOfPeer(c) ==
    /\ step[c] # "off" /\ net[c] # <<>> /\ Head(net[c]).type = "gone"
    /\ roster' = [roster EXCEPT ![c] = {x \in @ : x[1] # Head(net[c]).conn[1]}]
    /\ net' = [net EXCEPT ![c] = Tail(@)]
    /\ UNCHANGED <<number, step, calls, serverVars, joined, overtaken, count>>

\* _onPeerGone: what came over the connection is not shown any longer.
ReceiveGone(c) ==
    /\ step[c] # "off" /\ net[c] # <<>> /\ Head(net[c]).type = "gone"
    /\ roster' = [roster EXCEPT ![c] = @ \ {Head(net[c]).conn}]
    /\ net' = [net EXCEPT ![c] = Tail(@)]
    /\ UNCHANGED <<number, step, calls, serverVars, joined, overtaken, count>>

\* disconnect(), or the page is closed; an announcement may still be on its way.
Leave(c) ==
    /\ step[c] # "off"
    /\ step' = [step EXCEPT ![c] = "off"]
    /\ net' = [net EXCEPT ![c] = <<>>]
    /\ UNCHANGED <<number, roster, calls, serverVars, joined, overtaken, count>>

\* The transport loses the connection and gets another (withAutomaticReconnect):
\* the session goes on with its roster and its interval, and does not join again.
Reconnect(c) ==
    /\ step[c] = "on"
    /\ Connecting(c)
    /\ count.reconnects < MaxReconnects
    /\ count' = [count EXCEPT !.connections = @ + 1, !.reconnects = @ + 1]
    /\ net' = [net EXCEPT ![c] = <<>>]
    /\ UNCHANGED <<step, roster, calls, serverVars, joined, overtaken>>

----------------------------------------------------------------------------
(***************************************************************************)
(* The server.                                                             *)
(***************************************************************************)

\* JoinDocumentAsync: the peer is registered, and the states are read for the
\* answer, which forgets those that are too old.
Join(c) ==
    /\ step[c] = "asked"
    /\ step' = [step EXCEPT ![c] = "found"]
    /\ registered' = registered \cup {ConnectionOf(c)}
    /\ joined' = joined \cup {ConnectionOf(c)}
    /\ states' = states \ expired
    /\ expired' = {}
    /\ UNCHANGED <<number, roster, calls, net, group, overtaken, count>>

\* JoinDocument: the connection is added to the group, and then the call answered.
AddToGroup(c) ==
    /\ step[c] = "found"
    /\ step' = [step EXCEPT ![c] = "joined"]
    /\ group' = group \cup {ConnectionOf(c)}
    /\ UNCHANGED <<number, roster, calls, net, states, expired, registered, joined, overtaken, count>>

\* Mutant of UpdateAwareness: what equals the state of any connection of the client
\* is dropped.
UpdateAwarenessByClient(k) ==
    /\ k \in calls
    /\ calls' = calls \ {k}
    /\ states' = states \cup {k}
    /\ net' = IF \E x \in states : x[1] = k[1] THEN net ELSE Sent("awareness", k)
    /\ overtaken' = IF k = ConnectionOf(k[1]) THEN overtaken ELSE overtaken \cup {k[1]}
    /\ UNCHANGED <<clientVars, expired, registered, group, joined, count>>

\* UpdateAsync: an announcement equal to the connection's state is dropped, and its
\* time is not renewed; another one is kept and sent to the group.
UpdateAwareness(k) ==
    /\ k \in calls
    /\ calls' = calls \ {k}
    /\ states' = states \cup {k}
    /\ net' = IF k \in states THEN net ELSE Sent("awareness", k)
    /\ overtaken' = IF k = ConnectionOf(k[1]) THEN overtaken ELSE overtaken \cup {k[1]}
    /\ UNCHANGED <<clientVars, expired, registered, group, joined, count>>

\* A state gets older than its time to live.
Expire(k) ==
    /\ k \in states \ expired
    /\ count.expiries < MaxExpiries
    /\ count' = [count EXCEPT !.expiries = @ + 1]
    /\ expired' = expired \cup {k}
    /\ UNCHANGED <<clientVars, calls, net, states, registered, group, joined, overtaken>>

\* Mutant of Disconnected: nobody is told.
DisconnectedSilently(k) ==
    /\ k \in registered \cup group \cup calls \cup states /\ ~Open(k)
    /\ calls' = calls \ {k}
    /\ registered' = registered \ {k}
    /\ group' = group \ {k}
    /\ states' = IF k \in registered THEN states \ {k} ELSE states
    /\ expired' = IF k \in registered THEN expired \ {k} ELSE expired
    /\ UNCHANGED <<clientVars, net, joined, overtaken, count>>

\* OnDisconnectedAsync, after the calls of the connection that still arrived: only
\* a connection that joined is taken out of the awareness session and told of.
Disconnected(k) ==
    /\ k \in registered \cup group \cup calls /\ ~Open(k)
    /\ calls' = calls \ {k}
    /\ registered' = registered \ {k}
    /\ group' = group \ {k}
    /\ states' = IF k \in registered THEN states \ {k} ELSE states
    /\ expired' = IF k \in registered THEN expired \ {k} ELSE expired
    /\ net' = IF k \in registered THEN Sent("gone", k) ELSE net
    /\ UNCHANGED <<clientVars, joined, overtaken, count>>

\* CloseSessionAsync, when nobody has been in the document for a while.
Close ==
    /\ registered = {} /\ states # {}
    /\ states' = {} /\ expired' = {}
    /\ UNCHANGED <<clientVars, calls, net, registered, group, joined, overtaken, count>>

----------------------------------------------------------------------------
Client(c) ==
    \/ Connect(c) \/ Joined(c) \/ Heartbeat(c) \/ ReceiveAwareness(c) \/ ReceiveGone(c)
    \/ Leave(c) \/ Reconnect(c)

Server ==
    \/ \E c \in Clients : Join(c) \/ AddToGroup(c)
    \/ \E k \in Connections : UpdateAwareness(k) \/ Expire(k) \/ Disconnected(k)
    \/ Close

Next == (\E c \in Clients : Client(c)) \/ Server

Spec == Init /\ [][Next]_vars

\* Calls are answered and messages delivered while a connection lasts, the interval
\* keeps firing, and the server learns of the end of a connection.  Nobody has to
\* join, and nobody has to leave.
FairSpec ==
    /\ Spec
    /\ \A c \in Clients :
           /\ WF_vars(Join(c)) /\ WF_vars(AddToGroup(c)) /\ WF_vars(Joined(c))
           /\ WF_vars(Heartbeat(c)) /\ WF_vars(ReceiveAwareness(c)) /\ WF_vars(ReceiveGone(c))
    /\ \A k \in Connections : WF_vars(UpdateAwareness(k)) /\ WF_vars(Disconnected(k))

----------------------------------------------------------------------------
(***************************************************************************)
(* Properties.                                                             *)
(***************************************************************************)

\* The types of the variables; a client shows a peer at most once.
TypeOK ==
    /\ number \in [Clients -> 0..MaxConnections]
    /\ step \in [Clients -> {"off", "asked", "found", "joined", "on"}]
    /\ \A c \in Clients : roster[c] \subseteq Connections
    /\ \A c \in Clients : \A x, y \in roster[c] : x[1] = y[1] => x = y
    /\ states \subseteq Connections /\ expired \subseteq states
    /\ registered \subseteq Connections /\ group \subseteq Connections
    /\ calls \subseteq Connections

InGroup(c) == step[c] # "off" /\ ConnectionOf(c) \in group

\* Nobody stays listed who is gone: a client in the group that shows a peer over a
\* connection that joined is told when that connection ends.
GoneUnlisted ==
    \A c \in Clients : InGroup(c) =>
        \A k \in roster[c] \cap joined :
            \/ k \in registered
            \/ \E i \in DOMAIN net[c] : net[c][i] = [type |-> "gone", conn |-> k]

\* Who is here is not dropped: a peer shown over the connection it has stays shown
\* for as long as it has that connection, unless an announcement over the connection
\* before it comes late ("for (const [id, e] of this._peers) if
\* (e.connId === connId)").
ListedWhileHere ==
    [][\A c \in Clients : \A k \in roster[c] :
           Open(k) /\ Open(k)' /\ step[c] # "off" /\ step'[c] # "off" /\ k[1] \notin overtaken
               => k \in roster'[c]]_vars

\* A client that joins is shown by everybody who is in the group already, unless
\* one of the two goes.
NewcomerShown ==
    \A c \in Clients : \A b \in Clients \ {c} :
        (InGroup(c) /\ step[b] = "asked")
            ~> (ConnectionOf(b) \in roster[c] \/ step[b] = "off" \/ ~InGroup(c))

\* Two clients in the document come to show each other: "roster, heartbeat,
\* late-joiner convergence" (packages/opstream-collab-js/README.md:12), "Reply once so
\* they learn about us too" (index.js:240-241).
EveryoneShown ==
    \A c \in Clients : \A b \in Clients \ {c} :
        (InGroup(c) /\ InGroup(b) /\ step[c] = "on" /\ step[b] = "on")
            ~> (ConnectionOf(b) \in roster[c] \/ ~InGroup(c) \/ ~InGroup(b))

============================================================================
