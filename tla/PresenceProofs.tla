------------------------------- MODULE PresenceProofs -------------------------------
(***************************************************************************)
(* Proofs about Presence, for every set of clients and every bound.        *)
(*                                                                         *)
(* A connection that has ended never comes back, as a client only ever     *)
(* gets connections with greater numbers.  From that, and from the order   *)
(* in which the messages of a connection are delivered, it follows that    *)
(* what a client shows of a peer who is gone is about to be dropped, and   *)
(* that nothing drops a peer who is here.                                  *)
(***************************************************************************)
EXTENDS Presence, TLAPS

----------------------------------------------------------------------------
\* The inductive invariant, part by part.

Message == [type : {"awareness", "gone"}, conn : Connections]

StateOK ==
    /\ TypeOK
    /\ roster \in [Clients -> SUBSET Connections]
    /\ net \in [Clients -> Seq(Message)]
    /\ joined \subseteq Connections
    /\ count.connections \in 0..MaxConnections
    /\ count \in [connections : Nat, reconnects : Nat, expiries : Nat]
    /\ \A c \in Clients : number[c] <= count.connections
    /\ \A c \in Clients : step[c] # "off" => 1 <= number[c]

\* The connection was opened at some time; and it is not open any longer.
Reached(k) == k[2] <= number[k[1]]
Ended(k) == Reached(k) /\ ~Open(k)

\* Nobody knows of a connection that was never opened, and what has ended was taken out.
ConnectionsInv ==
    /\ \A k \in calls \cup registered \cup group \cup joined : Reached(k)
    /\ \A c \in Clients : \A k \in roster[c] : Reached(k)
    /\ \A c \in Clients : \A i \in DOMAIN net[c] : Reached(net[c][i].conn)
    /\ registered \subseteq joined
    /\ \A k \in joined \ registered : Ended(k) /\ k \notin calls
    /\ \A c \in Clients : \A i \in DOMAIN net[c] :
           net[c][i].type = "gone" => Ended(net[c][i].conn)

\* What a client has and gets before it is in the group: nothing.
BeforeGroup ==
    \A c \in Clients :
        /\ step[c] \in {"off", "asked", "found"} => net[c] = <<>>
        /\ step[c] \in {"asked", "found"} => roster[c] = {} /\ ConnectionOf(c) \notin group

\* After position i of what is on its way to the client comes the news that k has ended.
Tells(c, i, k) == \E j \in DOMAIN net[c] : i < j /\ net[c][j] = [type |-> "gone", conn |-> k]

\* A client in the group is told of the end of every connection it shows or is about to show.
Told(c) ==
    InGroup(c) =>
        /\ \A k \in roster[c] : k \in joined \ registered => Tells(c, 0, k)
        /\ \A i \in DOMAIN net[c] :
               net[c][i].type = "awareness" /\ net[c][i].conn \in joined \ registered
                   => Tells(c, i, net[c][i].conn)

\* A peer's announcements reach a client in the order of the peer's connections, unless
\* one came late to the server.
InOrder(c) ==
    \A i \in DOMAIN net[c] :
        net[c][i].type = "awareness" /\ net[c][i].conn[1] \notin overtaken =>
            /\ \A k \in roster[c] : k[1] = net[c][i].conn[1] => k[2] <= net[c][i].conn[2]
            /\ \A j \in DOMAIN net[c] :
                   j < i /\ net[c][j].type = "awareness" /\ net[c][j].conn[1] = net[c][i].conn[1]
                       => net[c][j].conn[2] <= net[c][i].conn[2]

ViewInv == \A c \in Clients : Told(c) /\ InOrder(c)

IInv == StateOK /\ ConnectionsInv /\ BeforeGroup /\ ViewInv

----------------------------------------------------------------------------
\* Facts about connections and queues.

LEMMA ConnectionShape ==
    ASSUME NEW k \in Connections
    PROVE  k[1] \in Clients /\ k[2] \in 1..MaxConnections /\ k = <<k[1], k[2]>>
BY DEF Connections

LEMMA OwnConnection ==
    ASSUME BoundsAssumption, StateOK, NEW c \in Clients
    PROVE  /\ ConnectionOf(c)[1] = c /\ ConnectionOf(c)[2] = number[c]
           /\ number[c] \in Nat /\ number[c] <= MaxConnections
           /\ step[c] # "off" => ConnectionOf(c) \in Connections /\ Open(ConnectionOf(c))
<1>1. number[c] \in 0..MaxConnections /\ (step[c] # "off" => 1 <= number[c])
  BY DEF StateOK, TypeOK
<1>2. ConnectionOf(c)[1] = c /\ ConnectionOf(c)[2] = number[c]
  BY DEF ConnectionOf
<1>3. step[c] # "off" => ConnectionOf(c) \in Connections
  BY <1>1 DEF ConnectionOf, Connections, BoundsAssumption
<1>4. step[c] # "off" => Open(ConnectionOf(c))
  BY <1>2 DEF Open
<1> QED
  BY <1>1, <1>2, <1>3, <1>4 DEF BoundsAssumption

LEMMA HeadAndTail ==
    ASSUME NEW S, NEW q \in Seq(S), q # <<>>
    PROVE  /\ 1 \in DOMAIN q /\ Head(q) = q[1] /\ q[1] \in S
           /\ Tail(q) \in Seq(S)
           /\ \A i \in DOMAIN Tail(q) : i + 1 \in DOMAIN q /\ Tail(q)[i] = q[i + 1] /\ i \in Nat
           /\ \A i \in DOMAIN q : i \in Nat /\ (1 < i =>
                  i - 1 \in DOMAIN Tail(q) /\ Tail(q)[i - 1] = q[i])
OBVIOUS

LEMMA OneAppended ==
    ASSUME NEW S, NEW q \in Seq(S), NEW m \in S
    PROVE  /\ Append(q, m) \in Seq(S) /\ Len(q) \in Nat /\ DOMAIN q = 1..Len(q)
           /\ DOMAIN Append(q, m) = 1..(Len(q) + 1)
           /\ Append(q, m)[Len(q) + 1] = m
           /\ \A i \in DOMAIN q : Append(q, m)[i] = q[i]
OBVIOUS

\* What the relay does to the queues.
LEMMA SentType ==
    ASSUME StateOK, NEW k \in Connections, NEW t \in {"awareness", "gone"}
    PROVE  /\ [type |-> t, conn |-> k] \in Message
           /\ Sent(t, k) \in [Clients -> Seq(Message)]
<1> DEFINE m == [type |-> t, conn |-> k]
<1>1. m \in Message
  BY DEF Message
<1>2. \A b \in Clients : net[b] \in Seq(Message)
  BY DEF StateOK
<1>3. Sent(t, k) = [c \in Clients |->
        IF step[c] # "off" /\ ConnectionOf(c) \in group /\ ConnectionOf(c) # k
        THEN Append(net[c], m) ELSE net[c]]
  BY DEF Sent
<1> HIDE DEF m
<1>4. \A b \in Clients : Append(net[b], m) \in Seq(Message)
  BY <1>1, <1>2
<1>5. Sent(t, k) \in [Clients -> Seq(Message)]
  BY <1>2, <1>3, <1>4
<1> QED
  BY <1>1, <1>5 DEF m

\* One client's queue grows by the message, or does not change.
LEMMA SentTo ==
    ASSUME StateOK, NEW k \in Connections, NEW t \in {"awareness", "gone"}, NEW c \in Clients
    PROVE  Sent(t, k)[c] = IF step[c] # "off" /\ ConnectionOf(c) \in group /\ ConnectionOf(c) # k
                           THEN Append(net[c], [type |-> t, conn |-> k]) ELSE net[c]
BY DEF Sent

\* The queue of a client holds messages.
LEMMA Queued ==
    ASSUME NEW f \in [Clients -> Seq(Message)], NEW c \in Clients, NEW i \in DOMAIN f[c]
    PROVE  /\ f[c][i] \in Message /\ f[c][i].conn \in Connections
           /\ f[c][i].type \in {"awareness", "gone"}
           /\ f[c][i] = [type |-> f[c][i].type, conn |-> f[c][i].conn]
           /\ i \in Nat
<1>1. f[c] \in Seq(Message)
  OBVIOUS
<1>2. f[c][i] \in Message /\ i \in Nat
  BY <1>1
<1> QED
  BY <1>2 DEF Message

----------------------------------------------------------------------------
\* Type correctness.

LEMMA StateInit == BoundsAssumption /\ Init => StateOK
<1> SUFFICES ASSUME BoundsAssumption, Init PROVE StateOK
  OBVIOUS
<1>1. TypeOK
  BY DEF Init, TypeOK, BoundsAssumption
<1>2. /\ roster \in [Clients -> SUBSET Connections]
      /\ net \in [Clients -> Seq(Message)]
      /\ joined \subseteq Connections
      /\ \A c \in Clients : step[c] = "off" /\ number[c] = 0
  BY DEF Init
<1>3. /\ count.connections = 0 /\ count \in [connections : Nat, reconnects : Nat, expiries : Nat]
      /\ 0 \in 0..MaxConnections /\ 0 <= 0
  BY DEF Init, BoundsAssumption
<1> QED
  BY <1>1, <1>2, <1>3 DEF StateOK

\* A client gets another connection: one more than it had.
LEMMA Connected ==
    ASSUME BoundsAssumption, StateOK, NEW c \in Clients, Connecting(c),
           count'.connections = count.connections + 1
    PROVE  /\ number' \in [Clients -> 0..MaxConnections]
           /\ number'[c] = number[c] + 1
           /\ \A b \in Clients \ {c} : number'[b] = number[b]
           /\ count'.connections \in 0..MaxConnections
           /\ \A b \in Clients : number'[b] <= count'.connections
           /\ \A b \in Clients : number[b] \in Nat
<1>1. /\ number \in [Clients -> 0..MaxConnections] /\ MaxConnections \in Nat
      /\ count.connections \in 0..MaxConnections
      /\ \A b \in Clients : number[b] <= count.connections
  BY DEF StateOK, TypeOK, BoundsAssumption
<1>2. /\ count.connections < MaxConnections
      /\ number' = [number EXCEPT ![c] = number[c] + 1]
  BY DEF Connecting
<1>3. number'[c] = number[c] + 1 /\ \A b \in Clients \ {c} : number'[b] = number[b]
  BY <1>1, <1>2
<1>4. number[c] + 1 \in 0..MaxConnections
  BY <1>1, <1>2
<1> QED
  BY <1>1, <1>2, <1>3, <1>4

LEMMA Counted ==
    ASSUME NEW r \in [connections : Nat, reconnects : Nat, expiries : Nat], NEW a \in Nat, NEW b \in Nat
    PROVE  /\ [r EXCEPT !.connections = a, !.reconnects = b]
                \in [connections : Nat, reconnects : Nat, expiries : Nat]
           /\ [r EXCEPT !.connections = a, !.reconnects = b].connections = a
OBVIOUS

LEMMA StateStep == BoundsAssumption /\ StateOK /\ [Next]_vars => StateOK'
<1> SUFFICES ASSUME BoundsAssumption, StateOK, [Next]_vars PROVE StateOK'
  OBVIOUS
<1> USE DEF clientVars, serverVars
<1>0. CASE UNCHANGED vars
  BY <1>0 DEF vars, StateOK, TypeOK, Connections
<1>1. ASSUME NEW c \in Clients, Connect(c) PROVE StateOK'
  <2>1. /\ count' = [count EXCEPT !.connections = count.connections + 1]
        /\ count \in [connections : Nat, reconnects : Nat, expiries : Nat]
    BY <1>1 DEF Connect, StateOK
  <2>2. /\ count'.connections = count.connections + 1
        /\ count' \in [connections : Nat, reconnects : Nat, expiries : Nat]
    BY <2>1
  <2>3. /\ number' \in [Clients -> 0..MaxConnections]
        /\ number'[c] = number[c] + 1
        /\ \A b \in Clients \ {c} : number'[b] = number[b]
        /\ count'.connections \in 0..MaxConnections
        /\ \A b \in Clients : number'[b] <= count'.connections
        /\ \A b \in Clients : number[b] \in Nat
    BY <1>1, <2>2, Connected DEF Connect
  <2>4. TypeOK'
    BY <1>1, <2>3 DEF Connect, StateOK, TypeOK, Connections
  <2>5. \A b \in Clients : step'[b] # "off" => 1 <= number'[b]
    BY <1>1, <2>3 DEF Connect, StateOK, TypeOK
  <2> QED
    BY <1>1, <2>2, <2>3, <2>4, <2>5 DEF Connect, StateOK, Connections
<1>2. ASSUME NEW c \in Clients, Reconnect(c) PROVE StateOK'
  <2>1. /\ count' = [count EXCEPT !.connections = count.connections + 1, !.reconnects = count.reconnects + 1]
        /\ count \in [connections : Nat, reconnects : Nat, expiries : Nat]
        /\ count.connections + 1 \in Nat /\ count.reconnects + 1 \in Nat
    BY <1>2 DEF Reconnect, StateOK
  <2>2. /\ count'.connections = count.connections + 1
        /\ count' \in [connections : Nat, reconnects : Nat, expiries : Nat]
    BY <2>1, Counted
  <2>3. /\ number' \in [Clients -> 0..MaxConnections]
        /\ number'[c] = number[c] + 1
        /\ \A b \in Clients \ {c} : number'[b] = number[b]
        /\ count'.connections \in 0..MaxConnections
        /\ \A b \in Clients : number'[b] <= count'.connections
        /\ \A b \in Clients : number[b] \in Nat
    BY <1>2, <2>2, Connected DEF Reconnect
  <2>4. TypeOK'
    BY <1>2, <2>3 DEF Reconnect, StateOK, TypeOK, Connections
  <2>5. \A b \in Clients : step'[b] # "off" => 1 <= number'[b]
    <3>1. step' = step /\ \A b \in Clients : step[b] # "off" => 1 <= number[b]
      BY <1>2 DEF Reconnect, StateOK
    <3> QED
      BY <2>3, <3>1
  <2>6. net' \in [Clients -> Seq(Message)]
    BY <1>2 DEF Reconnect, StateOK
  <2> QED
    BY <1>2, <2>2, <2>3, <2>4, <2>5, <2>6 DEF Reconnect, StateOK, Connections
<1>3. ASSUME NEW c \in Clients, Joined(c) \/ Heartbeat(c) PROVE StateOK'
  <2>1. ConnectionOf(c) \in Connections
    BY <1>3, OwnConnection DEF Joined, Heartbeat
  <2>2. TypeOK'
    BY <1>3, <2>1 DEF Joined, Heartbeat, StateOK, TypeOK, Connections
  <2>3. \A b \in Clients : step'[b] # "off" => 1 <= number'[b]
    BY <1>3 DEF Joined, Heartbeat, StateOK, TypeOK
  <2> QED
    BY <1>3, <2>2, <2>3 DEF Joined, Heartbeat, StateOK, Connections
<1>4. ASSUME NEW c \in Clients, ReceiveAwareness(c) PROVE StateOK'
  <2>1. /\ net[c] \in Seq(Message) /\ net[c] # <<>> /\ net' = [net EXCEPT ![c] = Tail(net[c])]
        /\ ConnectionOf(c) \in Connections
    BY <1>4, OwnConnection DEF ReceiveAwareness, StateOK
  <2>2. Head(net[c]) \in Message /\ Tail(net[c]) \in Seq(Message)
    BY <2>1, HeadAndTail
  <2>3. net' \in [Clients -> Seq(Message)]
    BY <2>1, <2>2 DEF StateOK
  <2>4. PICK k \in Connections :
            /\ roster' = [roster EXCEPT ![c] = (roster[c] \ {x \in roster[c] : x[1] = k[1]}) \cup {k}]
            /\ calls' \subseteq calls \cup {ConnectionOf(c)}
    BY <1>4, <2>2 DEF ReceiveAwareness, Message
  <2>5. roster' \in [Clients -> SUBSET Connections]
    BY <2>4 DEF StateOK
  <2>6. \A b \in Clients : \A x, y \in roster'[b] : x[1] = y[1] => x = y
    BY <2>4 DEF StateOK, TypeOK
  <2>7. TypeOK'
    BY <1>4, <2>1, <2>4, <2>5, <2>6 DEF ReceiveAwareness, StateOK, TypeOK, Connections
  <2> QED
    BY <1>4, <2>3, <2>5, <2>7 DEF ReceiveAwareness, StateOK, Connections
<1>5. ASSUME NEW c \in Clients, ReceiveGone(c) PROVE StateOK'
  <2>1. /\ net[c] \in Seq(Message) /\ net[c] # <<>> /\ net' = [net EXCEPT ![c] = Tail(net[c])]
    BY <1>5 DEF ReceiveGone, StateOK
  <2>2. Tail(net[c]) \in Seq(Message)
    BY <2>1, HeadAndTail
  <2>3. net' \in [Clients -> Seq(Message)]
    BY <2>1, <2>2 DEF StateOK
  <2>4. roster' = [roster EXCEPT ![c] = roster[c] \ {Head(net[c]).conn}]
    BY <1>5 DEF ReceiveGone
  <2>5. roster' \in [Clients -> SUBSET Connections]
    BY <2>4 DEF StateOK
  <2>6. \A b \in Clients : \A x, y \in roster'[b] : x[1] = y[1] => x = y
    BY <2>4 DEF StateOK, TypeOK
  <2>7. TypeOK'
    BY <1>5, <2>5, <2>6 DEF ReceiveGone, StateOK, TypeOK, Connections
  <2> QED
    BY <1>5, <2>3, <2>5, <2>7 DEF ReceiveGone, StateOK, Connections
<1>6. ASSUME NEW c \in Clients, Leave(c) PROVE StateOK'
  <2>1. TypeOK'
    BY <1>6 DEF Leave, StateOK, TypeOK, Connections
  <2>2. net' \in [Clients -> Seq(Message)]
    BY <1>6 DEF Leave, StateOK
  <2>3. \A b \in Clients : step'[b] # "off" => 1 <= number'[b]
    BY <1>6 DEF Leave, StateOK, TypeOK
  <2> QED
    BY <1>6, <2>1, <2>2, <2>3 DEF Leave, StateOK, Connections
<1>7. ASSUME NEW c \in Clients, Join(c) \/ AddToGroup(c) PROVE StateOK'
  <2>1. ConnectionOf(c) \in Connections
    BY <1>7, OwnConnection DEF Join, AddToGroup
  <2>2. TypeOK'
    BY <1>7, <2>1 DEF Join, AddToGroup, StateOK, TypeOK, Connections
  <2>3. joined' \subseteq Connections /\ \A b \in Clients : step'[b] # "off" => 1 <= number'[b]
    BY <1>7, <2>1 DEF Join, AddToGroup, StateOK, TypeOK
  <2> QED
    BY <1>7, <2>2, <2>3 DEF Join, AddToGroup, StateOK, Connections
<1>8. ASSUME NEW k \in Connections, UpdateAwareness(k) PROVE StateOK'
  <2>1. net' \in [Clients -> Seq(Message)]
    <3>1. Sent("awareness", k) \in [Clients -> Seq(Message)] /\ net \in [Clients -> Seq(Message)]
      BY SentType DEF StateOK
    <3> QED
      BY <1>8, <3>1 DEF UpdateAwareness
  <2>2. TypeOK'
    BY <1>8 DEF UpdateAwareness, StateOK, TypeOK, Connections
  <2> QED
    BY <1>8, <2>1, <2>2 DEF UpdateAwareness, StateOK, Connections
<1>9. ASSUME NEW k \in Connections, Expire(k) PROVE StateOK'
  <2>1. /\ count' = [count EXCEPT !.expiries = count.expiries + 1]
        /\ count \in [connections : Nat, reconnects : Nat, expiries : Nat]
    BY <1>9 DEF Expire, StateOK
  <2>2. /\ count'.connections = count.connections
        /\ count' \in [connections : Nat, reconnects : Nat, expiries : Nat]
    BY <2>1
  <2>3. TypeOK'
    BY <1>9 DEF Expire, StateOK, TypeOK, Connections
  <2> QED
    BY <1>9, <2>2, <2>3 DEF Expire, StateOK, Connections
<1>10. ASSUME NEW k \in Connections, Disconnected(k) PROVE StateOK'
  <2>1. net' \in [Clients -> Seq(Message)]
    <3>1. Sent("gone", k) \in [Clients -> Seq(Message)] /\ net \in [Clients -> Seq(Message)]
      BY SentType DEF StateOK
    <3> QED
      BY <1>10, <3>1 DEF Disconnected
  <2>2. TypeOK'
    BY <1>10 DEF Disconnected, StateOK, TypeOK, Connections
  <2> QED
    BY <1>10, <2>1, <2>2 DEF Disconnected, StateOK, Connections
<1>11. CASE Close
  <2>1. TypeOK'
    BY <1>11 DEF Close, StateOK, TypeOK, Connections
  <2> QED
    BY <1>11, <2>1 DEF Close, StateOK, Connections
<1> QED
  BY <1>0, <1>1, <1>2, <1>3, <1>4, <1>5, <1>6, <1>7, <1>8, <1>9, <1>10, <1>11
     DEF Next, Client, Server

\* The variables keep their types, and no client shows a peer twice (the roster is a map
\* from the peer's id), for any number of clients and connections.
THEOREM TypeCorrect == Spec => []TypeOK
<1>1. Init => StateOK
  BY BoundsAssumption, StateInit
<1>2. StateOK /\ [Next]_vars => StateOK'
  BY BoundsAssumption, StateStep
<1>3. StateOK => TypeOK
  BY DEF StateOK
<1> QED
  BY <1>1, <1>2, <1>3, PTL DEF Spec

----------------------------------------------------------------------------
\* A connection that has ended does not come back.

Forward ==
    \A c \in Clients :
        /\ number[c] <= number'[c]
        /\ number'[c] = number[c] /\ step[c] = "off" => step'[c] = "off"

LEMMA MovesForward == BoundsAssumption /\ StateOK /\ [Next]_vars => Forward
<1> SUFFICES ASSUME BoundsAssumption, StateOK, [Next]_vars PROVE Forward
  OBVIOUS
<1>1. \A c \in Clients : number[c] \in Nat /\ number[c] <= number[c] /\ number[c] <= number[c] + 1
                        /\ number[c] # number[c] + 1
  BY DEF StateOK, TypeOK, BoundsAssumption
<1>2. CASE number' = number /\ \A c \in Clients : step[c] = "off" => step'[c] = "off"
  BY <1>1, <1>2 DEF Forward
<1>3. ASSUME NEW c \in Clients, Connect(c) \/ Reconnect(c) PROVE Forward
  <2>1. number'[c] = number[c] + 1 /\ \A b \in Clients \ {c} : number'[b] = number[b]
    BY <1>3 DEF Connect, Reconnect, Connecting, StateOK, TypeOK
  <2>2. \A b \in Clients \ {c} : step'[b] = step[b]
    BY <1>3 DEF Connect, Reconnect, StateOK, TypeOK
  <2> QED
    BY <1>1, <2>1, <2>2 DEF Forward
<1>4. ASSUME NEW c \in Clients, Client(c), ~Connect(c), ~Reconnect(c) PROVE Forward
  <2>1. number' = number /\ \A b \in Clients : step[b] = "off" => step'[b] = "off"
    BY <1>4 DEF Client, Joined, Heartbeat, ReceiveAwareness, ReceiveGone, Leave, clientVars, StateOK, TypeOK
  <2> QED
    BY <1>2, <2>1
<1>5. ASSUME Server PROVE Forward
  <2>1. number' = number /\ \A b \in Clients : step[b] = "off" => step'[b] = "off"
    BY <1>5 DEF Server, Join, AddToGroup, UpdateAwareness, Expire, Disconnected, Close,
                clientVars, StateOK, TypeOK
  <2> QED
    BY <1>2, <2>1
<1>6. CASE UNCHANGED vars
  BY <1>2, <1>6 DEF vars, clientVars
<1> QED
  BY <1>3, <1>4, <1>5, <1>6 DEF Next

LEMMA EndedStays ==
    ASSUME BoundsAssumption, StateOK, StateOK', Forward, NEW k \in Connections
    PROVE  /\ Reached(k) => Reached(k)'
           /\ Ended(k) => Ended(k)'
           /\ Open(k) => Reached(k)
<1>1. k[1] \in Clients /\ k[2] \in Nat /\ k = <<k[1], k[2]>>
  BY ConnectionShape DEF BoundsAssumption
<1>2. number[k[1]] \in Nat /\ number'[k[1]] \in Nat
  BY <1>1 DEF StateOK, TypeOK, BoundsAssumption
<1>3. /\ number[k[1]] <= number'[k[1]]
      /\ number'[k[1]] = number[k[1]] /\ step[k[1]] = "off" => step'[k[1]] = "off"
  BY <1>1 DEF Forward
<1>4. Reached(k) => Reached(k)'
  BY <1>1, <1>2, <1>3 DEF Reached
<1>5. Open(k) <=> step[k[1]] # "off" /\ k[2] = number[k[1]]
  BY <1>1 DEF Open, ConnectionOf
<1>6. Open(k)' <=> step'[k[1]] # "off" /\ k[2] = number'[k[1]]
  BY <1>1 DEF Open, ConnectionOf
<1>7. Ended(k) => Ended(k)'
  BY <1>1, <1>2, <1>3, <1>4, <1>5, <1>6 DEF Ended, Reached
<1>8. Open(k) => Reached(k)
  BY <1>1, <1>2, <1>5 DEF Reached
<1> QED
  BY <1>4, <1>7, <1>8

----------------------------------------------------------------------------
\* What is known of connections, whatever the step.

LEMMA ConnectionsKept ==
    ASSUME BoundsAssumption, StateOK, StateOK', Forward, ConnectionsInv,
           \A k \in calls' : k \in calls \/ Open(k),
           \A k \in registered' \cup group' \cup joined' :
               k \in registered \cup group \cup joined \/ Open(k),
           \A c \in Clients : \A k \in roster'[c] :
               k \in roster[c] \/ \E i \in DOMAIN net[c] : net[c][i].conn = k,
           \A c \in Clients : \A i \in DOMAIN net'[c] :
               \/ \E j \in DOMAIN net[c] : net'[c][i] = net[c][j]
               \/ /\ net'[c][i].conn \in calls \cup registered
                  /\ net'[c][i].type = "gone" => Ended(net'[c][i].conn),
           registered' \subseteq joined',
           \A k \in joined' \ registered' :
               k \in joined \ registered \/ (Ended(k) /\ k \notin calls')
    PROVE  ConnectionsInv'
<1>1. ASSUME NEW k \in Connections
      PROVE  /\ Reached(k) => Reached(k)'
             /\ Ended(k) => Ended(k)'
             /\ Open(k) => Reached(k)
  BY EndedStays
<1>2. /\ calls' \subseteq Connections /\ registered' \subseteq Connections
      /\ group' \subseteq Connections /\ joined' \subseteq Connections
      /\ \A c \in Clients : roster'[c] \subseteq Connections
      /\ net \in [Clients -> Seq(Message)] /\ net' \in [Clients -> Seq(Message)]
  BY DEF StateOK, TypeOK, Connections, Message
<1>3. ASSUME NEW k \in calls' \cup registered' \cup group' \cup joined' PROVE Reached(k)'
  <2>1. k \in Connections
    BY <1>2
  <2>2. Reached(k)
    BY <1>1, <2>1 DEF ConnectionsInv
  <2> QED
    BY <1>1, <2>1, <2>2
<1>4. ASSUME NEW c \in Clients, NEW k \in roster'[c] PROVE Reached(k)'
  <2>1. k \in Connections
    BY <1>2
  <2>2. Reached(k)
    BY DEF ConnectionsInv
  <2> QED
    BY <1>1, <2>1, <2>2
<1>5. ASSUME NEW c \in Clients, NEW i \in DOMAIN net'[c], NEW k \in Connections, k = net'[c][i].conn
      PROVE  Reached(k)' /\ (net'[c][i].type = "gone" => Ended(k)')
  <2>1. \/ \E j \in DOMAIN net[c] : net'[c][i] = net[c][j]
        \/ /\ k \in calls \cup registered
           /\ net'[c][i].type = "gone" => Ended(k)
    BY <1>5
  <2>2. Reached(k) /\ (net'[c][i].type = "gone" => Ended(k))
    BY <1>5, <2>1 DEF ConnectionsInv
  <2> QED
    BY <1>1, <2>2
<1>7. ASSUME NEW c \in Clients, NEW i \in DOMAIN net'[c] PROVE net'[c][i].conn \in Connections
  BY <1>2, Queued
<1>6. ASSUME NEW k \in joined' \ registered' PROVE Ended(k)' /\ k \notin calls'
  <2>1. k \in Connections
    BY <1>2
  <2>2. Ended(k) /\ k \notin calls'
    BY DEF ConnectionsInv, Ended
  <2> QED
    BY <1>1, <2>1, <2>2
<1>8. ASSUME NEW c \in Clients, NEW i \in DOMAIN net'[c]
      PROVE  Reached(net[c][i].conn)' /\ (net'[c][i].type = "gone" => Ended(net[c][i].conn)')
  <2>1. PICK k \in Connections : k = net'[c][i].conn
    BY <1>7
  <2>2. Reached(k)' /\ (net'[c][i].type = "gone" => Ended(k)')
    BY <1>5, <2>1
  <2> QED
    BY <2>1, <2>2 DEF Reached, Ended, Open, ConnectionOf
<1> QED
  BY <1>3, <1>4, <1>6, <1>8 DEF ConnectionsInv

\* What one client finds on its way when the relay sends something.
LEMMA Sends ==
    ASSUME StateOK, NEW k \in Connections, NEW t \in {"awareness", "gone"}, NEW c \in Clients
    PROVE  /\ ~(InGroup(c) /\ ConnectionOf(c) # k) => Sent(t, k)[c] = net[c]
           /\ InGroup(c) /\ ConnectionOf(c) # k =>
                 /\ Len(net[c]) \in Nat /\ DOMAIN net[c] = 1..Len(net[c])
                 /\ DOMAIN Sent(t, k)[c] = 1..(Len(net[c]) + 1)
                 /\ Sent(t, k)[c][Len(net[c]) + 1] = [type |-> t, conn |-> k]
                 /\ \A i \in DOMAIN net[c] : Sent(t, k)[c][i] = net[c][i]
<1> DEFINE m == [type |-> t, conn |-> k]
<1>1. m \in Message /\ net[c] \in Seq(Message)
  BY SentType DEF StateOK
<1>2. Sent(t, k)[c] = IF InGroup(c) /\ ConnectionOf(c) # k THEN Append(net[c], m) ELSE net[c]
  BY SentTo DEF InGroup
<1> HIDE DEF m
<1>3. InGroup(c) /\ ConnectionOf(c) # k =>
                 /\ Len(net[c]) \in Nat /\ DOMAIN net[c] = 1..Len(net[c])
                 /\ DOMAIN Sent(t, k)[c] = 1..(Len(net[c]) + 1)
                 /\ Sent(t, k)[c][Len(net[c]) + 1] = m
                 /\ \A i \in DOMAIN net[c] : Sent(t, k)[c][i] = net[c][i]
  BY <1>1, <1>2, OneAppended
<1> QED
  BY <1>2, <1>3 DEF m

\* Every message is an old one or the one that was sent.
LEMMA OldOrSent ==
    ASSUME StateOK, NEW k \in Connections, NEW t \in {"awareness", "gone"}, NEW c \in Clients,
           NEW i \in DOMAIN Sent(t, k)[c]
    PROVE  \/ \E j \in DOMAIN net[c] : Sent(t, k)[c][i] = net[c][j]
           \/ Sent(t, k)[c][i].conn = k /\ Sent(t, k)[c][i].type = t
<1>1. CASE ~(InGroup(c) /\ ConnectionOf(c) # k)
  BY <1>1, Sends, ZenonT(60)
<1>2. CASE InGroup(c) /\ ConnectionOf(c) # k
  <2>1. /\ Len(net[c]) \in Nat /\ DOMAIN net[c] = 1..Len(net[c])
        /\ DOMAIN Sent(t, k)[c] = 1..(Len(net[c]) + 1)
        /\ Sent(t, k)[c][Len(net[c]) + 1] = [type |-> t, conn |-> k]
        /\ \A j \in DOMAIN net[c] : Sent(t, k)[c][j] = net[c][j]
    BY <1>2, Sends, ZenonT(60)
  <2>2. CASE i = Len(net[c]) + 1
    BY <2>1, <2>2
  <2>3. CASE i # Len(net[c]) + 1
    <3>1. i \in DOMAIN net[c]
      BY <2>1, <2>3
    <3> QED
      BY <2>1, <3>1
  <2> QED
    BY <2>2, <2>3
<1> QED
  BY <1>1, <1>2

----------------------------------------------------------------------------
\* What is known of connections is kept by every step.

LEMMA ConnectionsStep ==
    BoundsAssumption /\ StateOK /\ ConnectionsInv /\ [Next]_vars => ConnectionsInv'
<1> SUFFICES ASSUME BoundsAssumption, StateOK, ConnectionsInv, [Next]_vars PROVE ConnectionsInv'
  OBVIOUS
<1> USE DEF clientVars, serverVars
<1>a. StateOK' /\ Forward
  BY StateStep, MovesForward
<1>b. /\ registered \subseteq joined /\ \A k \in registered : Reached(k)
      /\ roster \in [Clients -> SUBSET Connections] /\ net \in [Clients -> Seq(Message)]
      /\ \A c \in Clients : step[c] # "off" => Open(ConnectionOf(c))
  BY OwnConnection DEF ConnectionsInv, StateOK
<1> DEFINE
      CallsKept == \A k \in calls' : k \in calls \/ Open(k)
      SetsKept == \A k \in registered' \cup group' \cup joined' :
                      k \in registered \cup group \cup joined \/ Open(k)
      RosterKept == \A c \in Clients : \A k \in roster'[c] :
                        k \in roster[c] \/ \E i \in DOMAIN net[c] : net[c][i].conn = k
      NetKept == \A c \in Clients : \A i \in DOMAIN net'[c] :
                     \/ \E j \in DOMAIN net[c] : net'[c][i] = net[c][j]
                     \/ /\ net'[c][i].conn \in calls \cup registered
                        /\ net'[c][i].type = "gone" => Ended(net'[c][i].conn)
      JoinedKept == registered' \subseteq joined'
      GoneKept == \A k \in joined' \ registered' :
                      k \in joined \ registered \/ (Ended(k) /\ k \notin calls')
<1>c. CallsKept /\ SetsKept /\ RosterKept /\ NetKept /\ JoinedKept /\ GoneKept => ConnectionsInv'
  BY <1>a, ConnectionsKept
<1>d. net' = net => NetKept
  OBVIOUS
<1>e. roster' = roster => RosterKept
  OBVIOUS
<1>f. UNCHANGED <<registered, joined>> => JoinedKept /\ GoneKept
  BY <1>b
<1>g. ASSUME NEW c \in Clients, net' = [net EXCEPT ![c] = <<>>] PROVE NetKept
  BY <1>b, <1>g
<1>h. ASSUME NEW c \in Clients, net[c] # <<>>, net' = [net EXCEPT ![c] = Tail(@)] PROVE NetKept
  <2>1. net[c] \in Seq(Message) /\ net'[c] = Tail(net[c]) /\ \A b \in Clients \ {c} : net'[b] = net[b]
    BY <1>b, <1>h
  <2>2. \A i \in DOMAIN Tail(net[c]) : i + 1 \in DOMAIN net[c] /\ Tail(net[c])[i] = net[c][i + 1]
    BY <1>h, <2>1, HeadAndTail
  <2> QED
    BY <2>1, <2>2, ZenonT(60)
<1> HIDE DEF CallsKept, SetsKept, RosterKept, NetKept, JoinedKept, GoneKept
<1>0. CASE UNCHANGED vars
  BY <1>0, <1>c, <1>d, <1>e, <1>f DEF vars, CallsKept, SetsKept
<1>1. ASSUME NEW c \in Clients, Connect(c) PROVE ConnectionsInv'
  <2>1. RosterKept
    BY <1>1, <1>b DEF Connect, RosterKept
  <2> QED
    BY <1>1, <1>c, <1>d, <1>f, <2>1 DEF Connect, CallsKept, SetsKept
<1>2. ASSUME NEW c \in Clients, Joined(c) \/ Heartbeat(c) PROVE ConnectionsInv'
  <2>1. CallsKept
    BY <1>2, <1>b DEF Joined, Heartbeat, CallsKept
  <2> QED
    BY <1>2, <1>c, <1>d, <1>e, <1>f, <2>1 DEF Joined, Heartbeat, SetsKept
<1>3. ASSUME NEW c \in Clients, ReceiveAwareness(c) PROVE ConnectionsInv'
  <2>1. CallsKept
    BY <1>3, <1>b DEF ReceiveAwareness, CallsKept
  <2>2. NetKept
    BY <1>3, <1>h DEF ReceiveAwareness
  <2>3. 1 \in DOMAIN net[c] /\ Head(net[c]) = net[c][1]
    BY <1>3, <1>b, HeadAndTail DEF ReceiveAwareness
  <2>4. /\ \A b \in Clients \ {c} : roster'[b] = roster[b]
        /\ roster'[c] \subseteq roster[c] \cup {net[c][1].conn}
    BY <1>3, <1>b, <2>3 DEF ReceiveAwareness
  <2>5. RosterKept
    BY <2>3, <2>4 DEF RosterKept
  <2> QED
    BY <1>3, <1>c, <1>f, <2>1, <2>2, <2>5 DEF ReceiveAwareness, SetsKept
<1>4. ASSUME NEW c \in Clients, ReceiveGone(c) PROVE ConnectionsInv'
  <2>1. RosterKept
    BY <1>4, <1>b DEF ReceiveGone, RosterKept
  <2>2. NetKept
    BY <1>4, <1>h DEF ReceiveGone
  <2> QED
    BY <1>4, <1>c, <1>f, <2>1, <2>2 DEF ReceiveGone, CallsKept, SetsKept
<1>5. ASSUME NEW c \in Clients, Leave(c) \/ Reconnect(c) PROVE ConnectionsInv'
  <2>1. NetKept
    BY <1>5, <1>g DEF Leave, Reconnect
  <2> QED
    BY <1>5, <1>c, <1>e, <1>f, <2>1 DEF Leave, Reconnect, CallsKept, SetsKept
<1>6. ASSUME NEW c \in Clients, Join(c) \/ AddToGroup(c) PROVE ConnectionsInv'
  <2>1. SetsKept /\ JoinedKept /\ GoneKept
    BY <1>6, <1>b DEF Join, AddToGroup, SetsKept, JoinedKept, GoneKept
  <2> QED
    BY <1>6, <1>c, <1>d, <1>e, <2>1 DEF Join, AddToGroup, CallsKept
<1>7. ASSUME NEW k \in Connections, UpdateAwareness(k) PROVE ConnectionsInv'
  <2>1. CASE net' = net
    BY <1>7, <1>c, <1>d, <1>e, <1>f, <2>1 DEF UpdateAwareness, CallsKept, SetsKept
  <2>2. CASE net' = Sent("awareness", k)
    <3>1. NetKept
      <4> SUFFICES ASSUME NEW c \in Clients, NEW i \in DOMAIN net'[c]
                   PROVE  \/ \E j \in DOMAIN net[c] : net'[c][i] = net[c][j]
                          \/ /\ net'[c][i].conn \in calls \cup registered
                             /\ net'[c][i].type = "gone" => Ended(net'[c][i].conn)
        BY DEF NetKept
      <4>1. \/ \E j \in DOMAIN net[c] : net'[c][i] = net[c][j]
            \/ net'[c][i].conn = k /\ net'[c][i].type = "awareness"
        BY <2>2, OldOrSent
      <4> QED
        BY <1>7, <4>1 DEF UpdateAwareness
    <3> QED
      BY <1>7, <1>c, <1>e, <1>f, <3>1 DEF UpdateAwareness, CallsKept, SetsKept
  <2> QED
    BY <1>7, <2>1, <2>2 DEF UpdateAwareness
<1>8. ASSUME NEW k \in Connections, Expire(k) PROVE ConnectionsInv'
  BY <1>8, <1>c, <1>d, <1>e, <1>f DEF Expire, CallsKept, SetsKept
<1>9. ASSUME NEW k \in Connections, Disconnected(k) PROVE ConnectionsInv'
  <2>1. SetsKept /\ CallsKept
    BY <1>9 DEF Disconnected, SetsKept, CallsKept
  <2>2. JoinedKept /\ GoneKept
    BY <1>9, <1>b DEF Disconnected, JoinedKept, GoneKept, Ended
  <2>3. NetKept
    <3>1. CASE net' = net
      BY <1>d, <3>1
    <3>2. CASE net' = Sent("gone", k) /\ k \in registered
      <4> SUFFICES ASSUME NEW c \in Clients, NEW i \in DOMAIN net'[c]
                   PROVE  \/ \E j \in DOMAIN net[c] : net'[c][i] = net[c][j]
                          \/ /\ net'[c][i].conn \in calls \cup registered
                             /\ net'[c][i].type = "gone" => Ended(net'[c][i].conn)
        BY DEF NetKept
      <4>1. \/ \E j \in DOMAIN net[c] : net'[c][i] = net[c][j]
            \/ net'[c][i].conn = k /\ net'[c][i].type = "gone"
        BY <3>2, OldOrSent
      <4>2. Ended(k)
        BY <1>9, <1>b, <3>2 DEF Ended, Disconnected
      <4> QED
        BY <3>2, <4>1, <4>2
    <3> QED
      BY <1>9, <3>1, <3>2 DEF Disconnected
  <2> QED
    BY <1>9, <1>c, <1>e, <2>1, <2>2, <2>3 DEF Disconnected
<1>10. CASE Close
  BY <1>10, <1>c, <1>d, <1>e, <1>f DEF Close, CallsKept, SetsKept
<1> QED
  BY <1>0, <1>1, <1>2, <1>3, <1>4, <1>5, <1>6, <1>7, <1>8, <1>9, <1>10 DEF Next, Client, Server

----------------------------------------------------------------------------
\* Before a client is in the group.

LEMMA BeforeGroupStep ==
    /\ BoundsAssumption /\ StateOK /\ ConnectionsInv /\ BeforeGroup
    /\ [Next]_vars
    => BeforeGroup'
<1> SUFFICES ASSUME BoundsAssumption, StateOK, ConnectionsInv, BeforeGroup, [Next]_vars,
                    NEW c \in Clients
             PROVE  /\ step'[c] \in {"off", "asked", "found"} => net'[c] = <<>>
                    /\ step'[c] \in {"asked", "found"} =>
                           roster'[c] = {} /\ ConnectionOf(c)' \notin group'
  BY DEF BeforeGroup
<1> USE DEF clientVars, serverVars
<1>a. /\ step[c] \in {"off", "asked", "found"} => net[c] = <<>>
      /\ step[c] \in {"asked", "found"} => roster[c] = {} /\ ConnectionOf(c) \notin group
  BY DEF BeforeGroup
<1>b. /\ number \in [Clients -> 0..MaxConnections]
      /\ step \in [Clients -> {"off", "asked", "found", "joined", "on"}]
      /\ roster \in [Clients -> SUBSET Connections] /\ net \in [Clients -> Seq(Message)]
      /\ group \subseteq Connections
  BY DEF StateOK, TypeOK
<1>c. /\ net'[c] = net[c] /\ roster'[c] = roster[c] /\ step'[c] = step[c]
      /\ number'[c] = number[c] /\ (ConnectionOf(c) \in group' => ConnectionOf(c) \in group)
      => /\ step'[c] \in {"off", "asked", "found"} => net'[c] = <<>>
         /\ step'[c] \in {"asked", "found"} =>
                roster'[c] = {} /\ ConnectionOf(c)' \notin group'
  BY <1>a DEF ConnectionOf
<1>0. CASE UNCHANGED vars
  BY <1>0, <1>c DEF vars
<1>1. ASSUME NEW b \in Clients, Connect(b)
      PROVE  /\ step'[c] \in {"off", "asked", "found"} => net'[c] = <<>>
             /\ step'[c] \in {"asked", "found"} =>
                    roster'[c] = {} /\ ConnectionOf(c)' \notin group'
  <2>1. CASE b = c
    <3>1. ConnectionOf(c)' = <<c, number[c] + 1>>
      BY <1>1, <1>b, <2>1 DEF Connect, Connecting, ConnectionOf
    <3>2. <<c, number[c] + 1>> \notin group
      <4>1. number[c] \in Nat /\ ~(number[c] + 1 <= number[c])
        BY <1>b DEF BoundsAssumption
      <4>2. \A k \in group : k[2] <= number[k[1]]
        BY DEF ConnectionsInv, Reached
      <4> QED
        BY <4>1, <4>2
    <3> QED
      BY <1>1, <1>a, <1>b, <2>1, <3>1, <3>2 DEF Connect
  <2>2. CASE b # c
    BY <1>1, <1>b, <1>c, <2>2 DEF Connect, Connecting
  <2> QED
    BY <2>1, <2>2
<1>2. ASSUME NEW b \in Clients, Joined(b) \/ Heartbeat(b)
      PROVE  /\ step'[c] \in {"off", "asked", "found"} => net'[c] = <<>>
             /\ step'[c] \in {"asked", "found"} =>
                    roster'[c] = {} /\ ConnectionOf(c)' \notin group'
  BY <1>2, <1>a, <1>b, <1>c DEF Joined, Heartbeat
<1>3. ASSUME NEW b \in Clients, ReceiveAwareness(b) \/ ReceiveGone(b)
      PROVE  /\ step'[c] \in {"off", "asked", "found"} => net'[c] = <<>>
             /\ step'[c] \in {"asked", "found"} =>
                    roster'[c] = {} /\ ConnectionOf(c)' \notin group'
  <2>1. step[c] \in {"off", "asked", "found"} => b # c
    BY <1>3, <1>a DEF ReceiveAwareness, ReceiveGone
  <2>2. /\ step' = step /\ number' = number /\ group' = group
        /\ b # c => net'[c] = net[c] /\ roster'[c] = roster[c]
    BY <1>3, <1>b DEF ReceiveAwareness, ReceiveGone
  <2> QED
    BY <1>c, <2>1, <2>2
<1>4. ASSUME NEW b \in Clients, Leave(b) \/ Reconnect(b)
      PROVE  /\ step'[c] \in {"off", "asked", "found"} => net'[c] = <<>>
             /\ step'[c] \in {"asked", "found"} =>
                    roster'[c] = {} /\ ConnectionOf(c)' \notin group'
  BY <1>4, <1>b, <1>c DEF Leave, Reconnect, Connecting
<1>5. ASSUME NEW b \in Clients, Join(b) \/ AddToGroup(b)
      PROVE  /\ step'[c] \in {"off", "asked", "found"} => net'[c] = <<>>
             /\ step'[c] \in {"asked", "found"} =>
                    roster'[c] = {} /\ ConnectionOf(c)' \notin group'
  BY <1>5, <1>a, <1>b, <1>c DEF Join, AddToGroup, ConnectionOf
<1>6. ASSUME NEW k \in Connections, UpdateAwareness(k) \/ Disconnected(k)
      PROVE  /\ step'[c] \in {"off", "asked", "found"} => net'[c] = <<>>
             /\ step'[c] \in {"asked", "found"} =>
                    roster'[c] = {} /\ ConnectionOf(c)' \notin group'
  <2>1. /\ step' = step /\ number' = number /\ roster' = roster /\ group' \subseteq group
        /\ net' \in {net, Sent("awareness", k), Sent("gone", k)}
    BY <1>6 DEF UpdateAwareness, Disconnected
  <2>2. step[c] \in {"off", "asked", "found"} => ~InGroup(c)
    BY <1>a DEF InGroup
  <2>3. ~InGroup(c) => Sent("awareness", k)[c] = net[c] /\ Sent("gone", k)[c] = net[c]
    BY Sends
  <2> QED
    BY <1>a, <2>1, <2>2, <2>3 DEF ConnectionOf
<1>7. ASSUME NEW k \in Connections, Expire(k)
      PROVE  /\ step'[c] \in {"off", "asked", "found"} => net'[c] = <<>>
             /\ step'[c] \in {"asked", "found"} =>
                    roster'[c] = {} /\ ConnectionOf(c)' \notin group'
  BY <1>7, <1>c DEF Expire
<1>8. CASE Close
  BY <1>8, <1>c DEF Close
<1> QED
  BY <1>0, <1>1, <1>2, <1>3, <1>4, <1>5, <1>6, <1>7, <1>8 DEF Next, Client, Server

----------------------------------------------------------------------------
\* What a client shows and is about to show, case by case of what a step does to it.

\* Its queue and its roster stay.
LEMMA ViewSame ==
    ASSUME NEW c \in Clients, Told(c), InOrder(c),
           net'[c] = net[c], roster'[c] = roster[c], InGroup(c)' => InGroup(c),
           joined' \ registered' \subseteq joined \ registered, overtaken \subseteq overtaken'
    PROVE  Told(c)' /\ InOrder(c)'
<1>1. Told(c)'
  BY DEF Told, Tells
<1>2. InOrder(c)'
  BY DEF InOrder
<1> QED
  BY <1>1, <1>2

\* Nothing is on its way, and it is not in the group with a roster.
LEMMA ViewEmpty ==
    ASSUME NEW c \in Clients, net'[c] = <<>>, InGroup(c)' => roster'[c] = {}
    PROVE  Told(c)' /\ InOrder(c)'
<1>1. DOMAIN net'[c] = {}
  OBVIOUS
<1>2. Told(c)'
  BY <1>1 DEF Told
<1>3. InOrder(c)'
  BY <1>1 DEF InOrder
<1> QED
  BY <1>2, <1>3

\* The first message is taken: what came after the others still does.
LEMMA TellsShifted ==
    ASSUME NEW c \in Clients, net[c] \in Seq(Message), net[c] # <<>>, net'[c] = Tail(net[c]),
           NEW k, NEW h \in Nat, NEW j \in DOMAIN net[c], h + 1 < j,
           net[c][j] = [type |-> "gone", conn |-> k]
    PROVE  Tells(c, h, k)'
<1>1. j \in Nat /\ 1 < j /\ h < j - 1
  <2>1. j \in Nat
    BY HeadAndTail
  <2> QED
    BY <2>1
<1>2. j - 1 \in DOMAIN Tail(net[c]) /\ Tail(net[c])[j - 1] = net[c][j]
  BY <1>1, HeadAndTail
<1> QED
  BY <1>1, <1>2 DEF Tells

\* An announcement is taken: the connection takes the place of the one shown before.
LEMMA ViewAnnounced ==
    ASSUME StateOK, NEW c \in Clients, Told(c), InOrder(c), net[c] # <<>>,
           net'[c] = Tail(net[c]), net[c][1].type = "awareness",
           NEW k \in Connections, k = net[c][1].conn,
           roster'[c] = (roster[c] \ {x \in roster[c] : x[1] = k[1]}) \cup {k},
           InGroup(c)' => InGroup(c), UNCHANGED <<joined, registered, overtaken>>
    PROVE  Told(c)' /\ InOrder(c)'
<1>0. net[c] \in Seq(Message) /\ net \in [Clients -> Seq(Message)]
  BY DEF StateOK
<1>1. 1 \in DOMAIN net[c] /\ \A i \in DOMAIN net[c] : i \in Nat
  BY <1>0, HeadAndTail
<1>2. ASSUME NEW i \in DOMAIN net'[c]
      PROVE  i \in Nat /\ i + 1 \in DOMAIN net[c] /\ net'[c][i] = net[c][i + 1]
  BY <1>0, HeadAndTail
<1>3. ASSUME InGroup(c)', NEW x \in roster'[c], x \in joined \ registered PROVE Tells(c, 0, x)'
  <2>1. PICK j \in DOMAIN net[c] : 1 < j /\ net[c][j] = [type |-> "gone", conn |-> x]
    <3>1. CASE x = k
      <4>1. Tells(c, 1, x)
        BY <1>1, <1>3, <3>1 DEF Told
      <4> QED
        BY <4>1 DEF Tells
    <3>2. CASE x # k
      <4>1. Tells(c, 0, x)
        BY <1>3, <3>2 DEF Told
      <4>2. PICK j \in DOMAIN net[c] : 0 < j /\ net[c][j] = [type |-> "gone", conn |-> x]
        BY <4>1 DEF Tells
      <4>3. j # 1
        BY <4>2
      <4>4. j \in Nat /\ 1 < j
        BY <1>1, <4>2, <4>3
      <4> QED
        BY <4>2, <4>4
    <3> QED
      BY <3>1, <3>2
  <2>2. 0 + 1 < j /\ 0 \in Nat
    BY <2>1
  <2> QED
    BY <1>0, <2>1, <2>2, TellsShifted
<1>4. ASSUME InGroup(c)', NEW i \in DOMAIN net'[c], net'[c][i].type = "awareness",
             net'[c][i].conn \in joined \ registered
      PROVE  Tells(c, i, net[c][i].conn)'
  <2>1. i \in Nat /\ i + 1 \in DOMAIN net[c] /\ net'[c][i] = net[c][i + 1]
    BY <1>2
  <2>2. Tells(c, i + 1, net[c][i + 1].conn)
    BY <1>4, <2>1 DEF Told
  <2>3. PICK j \in DOMAIN net[c] : i + 1 < j /\ net[c][j] = [type |-> "gone", conn |-> net[c][i + 1].conn]
    BY <2>2 DEF Tells
  <2>4. \A x : x = net[c][i + 1].conn => Tells(c, i, x)'
    BY <1>0, <2>1, <2>3, TellsShifted
  <2> QED
    BY <2>1, <2>4 DEF Tells
<1>5. Told(c)'
  BY <1>3, <1>4 DEF Told
<1>6. InOrder(c)'
  <2> SUFFICES ASSUME NEW i \in DOMAIN net'[c], net'[c][i].type = "awareness",
                      net'[c][i].conn[1] \notin overtaken
               PROVE  /\ \A x \in roster'[c] : x[1] = net'[c][i].conn[1] => x[2] <= net'[c][i].conn[2]
                      /\ \A j \in DOMAIN net'[c] :
                             j < i /\ net'[c][j].type = "awareness" /\ net'[c][j].conn[1] = net'[c][i].conn[1]
                                 => net'[c][j].conn[2] <= net'[c][i].conn[2]
    BY DEF InOrder
  <2>1. i \in Nat /\ i + 1 \in DOMAIN net[c] /\ net'[c][i] = net[c][i + 1] /\ 1 < i + 1
    <3>1. i # 0
      BY <1>0, HeadAndTail
    <3> QED
      BY <1>2, <3>1
  <2>2. /\ \A x \in roster[c] : x[1] = net[c][i + 1].conn[1] => x[2] <= net[c][i + 1].conn[2]
        /\ \A j \in DOMAIN net[c] :
               j < i + 1 /\ net[c][j].type = "awareness" /\ net[c][j].conn[1] = net[c][i + 1].conn[1]
                   => net[c][j].conn[2] <= net[c][i + 1].conn[2]
    BY <2>1 DEF InOrder
  <2>3. k[1] = net[c][i + 1].conn[1] => k[2] <= net[c][i + 1].conn[2]
    BY <1>1, <2>1, <2>2
  <2>4. ASSUME NEW j \in DOMAIN net'[c], j < i, net'[c][j].type = "awareness",
               net'[c][j].conn[1] = net'[c][i].conn[1]
        PROVE  net'[c][j].conn[2] <= net'[c][i].conn[2]
    <3>1. j \in Nat /\ j + 1 \in DOMAIN net[c] /\ net'[c][j] = net[c][j + 1] /\ j + 1 < i + 1
      BY <1>2, <2>1, <2>4
    <3> QED
      BY <2>1, <2>2, <2>4, <3>1
  <2> QED
    BY <2>1, <2>2, <2>3, <2>4
<1> QED
  BY <1>5, <1>6

\* The news of an end is taken: the connection is not shown any longer.
LEMMA ViewDropped ==
    ASSUME StateOK, NEW c \in Clients, Told(c), InOrder(c), net[c] # <<>>,
           net'[c] = Tail(net[c]), net[c][1].type = "gone",
           NEW k \in Connections, k = net[c][1].conn, roster'[c] = roster[c] \ {k},
           InGroup(c)' => InGroup(c), UNCHANGED <<joined, registered, overtaken>>
    PROVE  Told(c)' /\ InOrder(c)'
<1>0. net[c] \in Seq(Message) /\ net \in [Clients -> Seq(Message)]
  BY DEF StateOK
<1>1. 1 \in DOMAIN net[c] /\ \A i \in DOMAIN net[c] : i \in Nat
  BY <1>0, HeadAndTail
<1>2. ASSUME NEW i \in DOMAIN net'[c]
      PROVE  i \in Nat /\ i + 1 \in DOMAIN net[c] /\ net'[c][i] = net[c][i + 1]
  BY <1>0, HeadAndTail
<1>3. ASSUME InGroup(c)', NEW x \in roster'[c], x \in joined \ registered PROVE Tells(c, 0, x)'
  <2>1. x # k /\ Tells(c, 0, x)
    BY <1>3 DEF Told
  <2>2. PICK j \in DOMAIN net[c] : 0 < j /\ net[c][j] = [type |-> "gone", conn |-> x]
    BY <2>1 DEF Tells
  <2>3. j # 1
    BY <2>1, <2>2
  <2>4. 0 + 1 < j /\ 0 \in Nat
    BY <1>1, <2>2, <2>3
  <2> QED
    BY <1>0, <2>2, <2>4, TellsShifted
<1>4. ASSUME InGroup(c)', NEW i \in DOMAIN net'[c], net'[c][i].type = "awareness",
             net'[c][i].conn \in joined \ registered
      PROVE  Tells(c, i, net[c][i].conn)'
  <2>1. i \in Nat /\ i + 1 \in DOMAIN net[c] /\ net'[c][i] = net[c][i + 1]
    BY <1>2
  <2>2. Tells(c, i + 1, net[c][i + 1].conn)
    BY <1>4, <2>1 DEF Told
  <2>3. PICK j \in DOMAIN net[c] : i + 1 < j /\ net[c][j] = [type |-> "gone", conn |-> net[c][i + 1].conn]
    BY <2>2 DEF Tells
  <2>4. \A x : x = net[c][i + 1].conn => Tells(c, i, x)'
    BY <1>0, <2>1, <2>3, TellsShifted
  <2> QED
    BY <2>1, <2>4 DEF Tells
<1>5. Told(c)'
  BY <1>3, <1>4 DEF Told
<1>6. InOrder(c)'
  <2> SUFFICES ASSUME NEW i \in DOMAIN net'[c], net'[c][i].type = "awareness",
                      net'[c][i].conn[1] \notin overtaken
               PROVE  /\ \A x \in roster'[c] : x[1] = net'[c][i].conn[1] => x[2] <= net'[c][i].conn[2]
                      /\ \A j \in DOMAIN net'[c] :
                             j < i /\ net'[c][j].type = "awareness" /\ net'[c][j].conn[1] = net'[c][i].conn[1]
                                 => net'[c][j].conn[2] <= net'[c][i].conn[2]
    BY DEF InOrder
  <2>1. i \in Nat /\ i + 1 \in DOMAIN net[c] /\ net'[c][i] = net[c][i + 1]
    BY <1>2
  <2>2. /\ \A x \in roster[c] : x[1] = net[c][i + 1].conn[1] => x[2] <= net[c][i + 1].conn[2]
        /\ \A j \in DOMAIN net[c] :
               j < i + 1 /\ net[c][j].type = "awareness" /\ net[c][j].conn[1] = net[c][i + 1].conn[1]
                   => net[c][j].conn[2] <= net[c][i + 1].conn[2]
    BY <2>1 DEF InOrder
  <2>3. ASSUME NEW j \in DOMAIN net'[c], j < i, net'[c][j].type = "awareness",
               net'[c][j].conn[1] = net'[c][i].conn[1]
        PROVE  net'[c][j].conn[2] <= net'[c][i].conn[2]
    <3>1. j \in Nat /\ j + 1 \in DOMAIN net[c] /\ net'[c][j] = net[c][j + 1] /\ j + 1 < i + 1
      BY <1>2, <2>1, <2>3
    <3> QED
      BY <2>1, <2>2, <2>3, <3>1
  <2> QED
    BY <2>1, <2>2, <2>3
<1> QED
  BY <1>5, <1>6

\* One more message is on its way: what the client is told already it is told still.
LEMMA ToldStill ==
    ASSUME NEW c \in Clients, Told(c), InGroup(c), roster'[c] = roster[c],
           DOMAIN net[c] \subseteq DOMAIN net'[c], \A i \in DOMAIN net[c] : net'[c][i] = net[c][i]
    PROVE  /\ \A k \in roster'[c] : k \in joined \ registered => Tells(c, 0, k)'
           /\ \A i \in DOMAIN net[c] :
                  net[c][i].type = "awareness" /\ net[c][i].conn \in joined \ registered
                      => Tells(c, i, net[c][i].conn)'
<1>1. ASSUME NEW i, NEW k, Tells(c, i, k) PROVE Tells(c, i, k)'
  BY <1>1 DEF Tells
<1>2. ASSUME NEW i \in DOMAIN net[c], net[c][i].type = "awareness", net[c][i].conn \in joined \ registered
      PROVE  Tells(c, i, net[c][i].conn)'
  <2>1. Tells(c, i, net[c][i].conn)
    BY <1>2 DEF Told
  <2> QED
    BY <2>1, <1>1 DEF Tells
<1> QED
  BY <1>1, <1>2 DEF Told

\* The end of a connection is sent to a client that is in the group.
LEMMA ViewOfEnd ==
    ASSUME StateOK, NEW c \in Clients, Told(c), InOrder(c), InGroup(c), NEW k \in Connections,
           ConnectionOf(c) # k, net' = Sent("gone", k), roster'[c] = roster[c],
           joined' \ registered' \subseteq (joined \ registered) \cup {k}, overtaken' = overtaken
    PROVE  Told(c)' /\ InOrder(c)'
<1> DEFINE n == Len(net[c])
<1>0. /\ n \in Nat /\ DOMAIN net[c] = 1..n /\ DOMAIN Sent("gone", k)[c] = 1..(n + 1)
      /\ Sent("gone", k)[c][n + 1] = [type |-> "gone", conn |-> k]
      /\ \A i \in DOMAIN net[c] : Sent("gone", k)[c][i] = net[c][i]
  <2>1. "gone" \in {"awareness", "gone"}
    OBVIOUS
  <2> QED
    BY <2>1, Sends, ZenonT(60)
<1>1. /\ n \in Nat /\ DOMAIN net[c] = 1..n /\ DOMAIN net'[c] = 1..(n + 1)
      /\ net'[c][n + 1] = [type |-> "gone", conn |-> k]
      /\ \A i \in DOMAIN net[c] : net'[c][i] = net[c][i]
  BY <1>0
<1>2. net'[c][n + 1].type = "gone"
  BY <1>1
<1> HIDE DEF n
<1>3. DOMAIN net[c] \subseteq DOMAIN net'[c] /\ n + 1 \in DOMAIN net'[c]
  BY <1>1
<1>4. /\ \A x \in roster'[c] : x \in joined \ registered => Tells(c, 0, x)'
      /\ \A i \in DOMAIN net[c] :
             net[c][i].type = "awareness" /\ net[c][i].conn \in joined \ registered
                 => Tells(c, i, net[c][i].conn)'
  BY <1>1, <1>3, ToldStill
<1>5. ASSUME NEW i \in 0..n PROVE Tells(c, i, k)'
  <2>1. i < n + 1
    BY <1>1
  <2> QED
    BY <1>1, <1>3, <2>1 DEF Tells
<1>6. 0 \in 0..n
  BY <1>1
<1>7. ASSUME NEW i \in DOMAIN net'[c], net'[c][i].type = "awareness"
      PROVE  i \in DOMAIN net[c] /\ net'[c][i] = net[c][i] /\ i \in 0..n
  <2>1. i # n + 1
    BY <1>2, <1>7
  <2> QED
    BY <1>1, <2>1
<1>8. Told(c)'
  <2>1. \A x \in roster'[c] : x \in joined' \ registered' => Tells(c, 0, x)'
    BY <1>4, <1>5, <1>6
  <2>2. ASSUME NEW i \in DOMAIN net'[c], net'[c][i].type = "awareness",
               net'[c][i].conn \in joined' \ registered'
        PROVE  Tells(c, i, net[c][i].conn)'
    <3>1. i \in DOMAIN net[c] /\ net'[c][i] = net[c][i] /\ i \in 0..n
      BY <1>7, <2>2
    <3>2. CASE net[c][i].conn = k
      BY <1>5, <3>1, <3>2 DEF Tells
    <3>3. CASE net[c][i].conn # k
      <4>1. Tells(c, i, net[c][i].conn)'
        BY <1>4, <2>2, <3>1, <3>3
      <4> QED
        BY <4>1
    <3> QED
      BY <3>2, <3>3
  <2> QED
    BY <2>1, <2>2 DEF Told
<1>9. InOrder(c)'
  BY <1>7 DEF InOrder
<1> QED
  BY <1>8, <1>9

\* An announcement is sent to a client that is in the group: its connection is the last
\* that the peer has got, unless the peer is overtaken.
LEMMA ViewOfAnnouncement ==
    ASSUME StateOK, ConnectionsInv, NEW c \in Clients, Told(c), InOrder(c), InGroup(c),
           NEW k \in Connections, ConnectionOf(c) # k, net' = Sent("awareness", k),
           roster'[c] = roster[c], k \notin joined \ registered, UNCHANGED <<joined, registered>>,
           overtaken \subseteq overtaken', k[2] = number[k[1]] \/ k[1] \in overtaken'
    PROVE  Told(c)' /\ InOrder(c)'
<1> DEFINE n == Len(net[c])
<1>0. /\ n \in Nat /\ DOMAIN net[c] = 1..n /\ DOMAIN Sent("awareness", k)[c] = 1..(n + 1)
      /\ Sent("awareness", k)[c][n + 1] = [type |-> "awareness", conn |-> k]
      /\ \A i \in DOMAIN net[c] : Sent("awareness", k)[c][i] = net[c][i]
  <2>1. "awareness" \in {"awareness", "gone"}
    OBVIOUS
  <2> QED
    BY <2>1, Sends, ZenonT(60)
<1>1. /\ n \in Nat /\ DOMAIN net[c] = 1..n /\ DOMAIN net'[c] = 1..(n + 1)
      /\ net'[c][n + 1] = [type |-> "awareness", conn |-> k]
      /\ \A i \in DOMAIN net[c] : net'[c][i] = net[c][i]
  BY <1>0
<1>2. net'[c][n + 1].conn = k
  BY <1>1
<1> HIDE DEF n
<1>3. DOMAIN net[c] \subseteq DOMAIN net'[c]
  BY <1>1
<1>4. /\ \A x \in roster'[c] : x \in joined \ registered => Tells(c, 0, x)'
      /\ \A i \in DOMAIN net[c] :
             net[c][i].type = "awareness" /\ net[c][i].conn \in joined \ registered
                 => Tells(c, i, net[c][i].conn)'
  BY <1>1, <1>3, ToldStill
<1>5. ASSUME NEW i \in DOMAIN net'[c], i # n + 1
      PROVE  i \in DOMAIN net[c] /\ net'[c][i] = net[c][i]
  BY <1>1, <1>5
<1>6. Told(c)'
  <2>1. ASSUME NEW i \in DOMAIN net'[c], net'[c][i].type = "awareness",
               net'[c][i].conn \in joined \ registered
        PROVE  Tells(c, i, net[c][i].conn)'
    <3>1. i # n + 1
      BY <1>2, <2>1
    <3>2. i \in DOMAIN net[c] /\ net'[c][i] = net[c][i]
      BY <1>5, <3>1
    <3> QED
      BY <1>4, <2>1, <3>2
  <2> QED
    BY <1>4, <2>1 DEF Told
<1>7. InOrder(c)'
  <2> SUFFICES ASSUME NEW i \in DOMAIN net'[c], net'[c][i].type = "awareness",
                      net'[c][i].conn[1] \notin overtaken'
               PROVE  /\ \A x \in roster'[c] : x[1] = net'[c][i].conn[1] => x[2] <= net'[c][i].conn[2]
                      /\ \A j \in DOMAIN net'[c] :
                             j < i /\ net'[c][j].type = "awareness" /\ net'[c][j].conn[1] = net'[c][i].conn[1]
                                 => net'[c][j].conn[2] <= net'[c][i].conn[2]
    BY DEF InOrder
  <2>1. CASE i = n + 1
    <3>1. net'[c][i].conn = k /\ k[2] = number[k[1]]
      BY <1>2, <2>1
    <3>2. \A x \in roster'[c] : x[1] = k[1] => x[2] <= k[2]
      BY <3>1 DEF ConnectionsInv, Reached
    <3>3. ASSUME NEW j \in DOMAIN net'[c], j < i, net'[c][j].conn[1] = k[1]
          PROVE  net'[c][j].conn[2] <= k[2]
      <4>1. j # n + 1
        BY <1>1, <2>1, <3>3
      <4>2. j \in DOMAIN net[c] /\ net'[c][j] = net[c][j]
        BY <1>5, <4>1
      <4> QED
        BY <3>1, <3>3, <4>2 DEF ConnectionsInv, Reached
    <3> QED
      BY <3>1, <3>2, <3>3
  <2>2. CASE i # n + 1
    <3>1. i \in DOMAIN net[c] /\ net'[c][i] = net[c][i] /\ i \in 1..n
      BY <1>1, <1>5, <2>2
    <3>2. /\ \A x \in roster[c] : x[1] = net[c][i].conn[1] => x[2] <= net[c][i].conn[2]
          /\ \A j \in DOMAIN net[c] :
                 j < i /\ net[c][j].type = "awareness" /\ net[c][j].conn[1] = net[c][i].conn[1]
                     => net[c][j].conn[2] <= net[c][i].conn[2]
      BY <3>1 DEF InOrder
    <3>3. ASSUME NEW j \in DOMAIN net'[c], j < i
          PROVE  j \in DOMAIN net[c] /\ net'[c][j] = net[c][j]
      <4>1. j # n + 1
        BY <1>1, <3>1, <3>3
      <4> QED
        BY <1>5, <4>1
    <3> QED
      BY <3>1, <3>2, <3>3
  <2> QED
    BY <2>1, <2>2
<1> QED
  BY <1>6, <1>7

----------------------------------------------------------------------------
\* Every step keeps what clients show and are about to show.

LEMMA ViewStep ==
    BoundsAssumption /\ IInv /\ [Next]_vars => ViewInv'
<1> SUFFICES ASSUME BoundsAssumption, IInv, [Next]_vars, NEW c \in Clients
             PROVE  Told(c)' /\ InOrder(c)'
  BY DEF ViewInv
<1> USE DEF clientVars, serverVars
<1>a. StateOK /\ ConnectionsInv /\ BeforeGroup /\ Told(c) /\ InOrder(c)
  BY DEF IInv, ViewInv
<1>b. BeforeGroup'
  BY <1>a, BeforeGroupStep
<1>c. /\ number \in [Clients -> 0..MaxConnections]
      /\ step \in [Clients -> {"off", "asked", "found", "joined", "on"}]
      /\ roster \in [Clients -> SUBSET Connections] /\ net \in [Clients -> Seq(Message)]
  BY <1>a DEF StateOK, TypeOK
<1>d. ASSUME net'[c] = net[c], roster'[c] = roster[c], InGroup(c)' => InGroup(c),
             joined' \ registered' \subseteq joined \ registered, overtaken \subseteq overtaken'
      PROVE  Told(c)' /\ InOrder(c)'
  BY <1>a, <1>d, ViewSame
<1>e. step'[c] = step[c] /\ number'[c] = number[c] /\ group' \subseteq group => (InGroup(c)' => InGroup(c))
  BY DEF InGroup, ConnectionOf
<1>f. step[c] \in {"off", "asked", "found"} => net[c] = <<>> /\ ~InGroup(c)
  BY <1>a DEF BeforeGroup, InGroup
<1>g. step'[c] \in {"off", "asked", "found"} => net'[c] = <<>> /\ ~InGroup(c)'
  BY <1>b DEF BeforeGroup, InGroup
<1>0. CASE UNCHANGED vars
  BY <1>0, <1>d, <1>e DEF vars
<1>1. ASSUME NEW b \in Clients, Connect(b) PROVE Told(c)' /\ InOrder(c)'
  <2>1. CASE b = c
    <3>1. step'[c] = "asked"
      BY <1>1, <1>c, <2>1 DEF Connect
    <3> QED
      BY <1>g, <3>1, ViewEmpty
  <2>2. CASE b # c
    <3>1. /\ net' = net /\ roster'[c] = roster[c] /\ step'[c] = step[c] /\ number'[c] = number[c]
          /\ UNCHANGED <<group, joined, registered, overtaken>>
      BY <1>1, <1>c, <2>2 DEF Connect, Connecting
    <3> QED
      BY <1>d, <1>e, <3>1
  <2> QED
    BY <2>1, <2>2
<1>2. ASSUME NEW b \in Clients, Joined(b) \/ Heartbeat(b) PROVE Told(c)' /\ InOrder(c)'
  <2>1. /\ net' = net /\ roster' = roster /\ UNCHANGED <<number, group, joined, registered, overtaken>>
        /\ step'[c] # step[c] => step[c] = "joined"
    BY <1>2, <1>c DEF Joined, Heartbeat
  <2>2. InGroup(c)' => InGroup(c)
    BY <2>1 DEF InGroup, ConnectionOf
  <2> QED
    BY <1>d, <2>1, <2>2
<1>3. ASSUME NEW b \in Clients, ReceiveAwareness(b) PROVE Told(c)' /\ InOrder(c)'
  <2>0. UNCHANGED <<number, step, group, joined, registered, overtaken>>
    BY <1>3 DEF ReceiveAwareness
  <2>1. CASE b = c
    <3>1. 1 \in DOMAIN net[c] /\ Head(net[c]) = net[c][1] /\ net[c] # <<>>
      BY <1>3, <1>c, <2>1, HeadAndTail DEF ReceiveAwareness
    <3>2. PICK k \in Connections : k = net[c][1].conn
      BY <1>c, <3>1, Queued
    <3>3. /\ net'[c] = Tail(net[c]) /\ net[c][1].type = "awareness"
          /\ roster'[c] = (roster[c] \ {x \in roster[c] : x[1] = k[1]}) \cup {k}
      BY <1>3, <1>c, <2>1, <3>1, <3>2 DEF ReceiveAwareness
    <3> QED
      BY <1>a, <1>e, <2>0, <3>1, <3>2, <3>3, ViewAnnounced
  <2>2. CASE b # c
    <3>1. net'[c] = net[c] /\ roster'[c] = roster[c]
      BY <1>3, <1>c, <2>2 DEF ReceiveAwareness
    <3> QED
      BY <1>d, <1>e, <2>0, <3>1
  <2> QED
    BY <2>1, <2>2
<1>4. ASSUME NEW b \in Clients, ReceiveGone(b) PROVE Told(c)' /\ InOrder(c)'
  <2>0. UNCHANGED <<number, step, group, joined, registered, overtaken>>
    BY <1>4 DEF ReceiveGone
  <2>1. CASE b = c
    <3>1. 1 \in DOMAIN net[c] /\ Head(net[c]) = net[c][1] /\ net[c] # <<>>
      BY <1>4, <1>c, <2>1, HeadAndTail DEF ReceiveGone
    <3>2. PICK k \in Connections : k = net[c][1].conn
      BY <1>c, <3>1, Queued
    <3>3. net'[c] = Tail(net[c]) /\ net[c][1].type = "gone" /\ roster'[c] = roster[c] \ {k}
      BY <1>4, <1>c, <2>1, <3>1, <3>2 DEF ReceiveGone
    <3> QED
      BY <1>a, <1>e, <2>0, <3>1, <3>2, <3>3, ViewDropped
  <2>2. CASE b # c
    <3>1. net'[c] = net[c] /\ roster'[c] = roster[c]
      BY <1>4, <1>c, <2>2 DEF ReceiveGone
    <3> QED
      BY <1>d, <1>e, <2>0, <3>1
  <2> QED
    BY <2>1, <2>2
<1>5. ASSUME NEW b \in Clients, Leave(b) PROVE Told(c)' /\ InOrder(c)'
  <2>1. CASE b = c
    <3>1. step'[c] = "off"
      BY <1>5, <1>c, <2>1 DEF Leave
    <3> QED
      BY <1>g, <3>1, ViewEmpty
  <2>2. CASE b # c
    <3>1. /\ net'[c] = net[c] /\ roster' = roster /\ step'[c] = step[c]
          /\ UNCHANGED <<number, group, joined, registered, overtaken>>
      BY <1>5, <1>c, <2>2 DEF Leave
    <3> QED
      BY <1>d, <1>e, <3>1
  <2> QED
    BY <2>1, <2>2
<1>6. ASSUME NEW b \in Clients, Reconnect(b) PROVE Told(c)' /\ InOrder(c)'
  <2>1. CASE b = c
    <3>1. net'[c] = <<>> /\ group' = group /\ ConnectionOf(c)' = <<c, number[c] + 1>>
      BY <1>6, <1>c, <2>1 DEF Reconnect, Connecting, ConnectionOf
    <3>2. <<c, number[c] + 1>> \notin group
      <4>1. number[c] \in Nat /\ ~(number[c] + 1 <= number[c])
        BY <1>c DEF BoundsAssumption
      <4>2. \A k \in group : k[2] <= number[k[1]]
        BY <1>a DEF ConnectionsInv, Reached
      <4> QED
        BY <4>1, <4>2
    <3>3. ~InGroup(c)'
      BY <3>1, <3>2 DEF InGroup
    <3> QED
      BY <3>1, <3>3, ViewEmpty
  <2>2. CASE b # c
    <3>1. /\ net'[c] = net[c] /\ roster' = roster /\ step'[c] = step[c] /\ number'[c] = number[c]
          /\ UNCHANGED <<group, joined, registered, overtaken>>
      BY <1>6, <1>c, <2>2 DEF Reconnect, Connecting
    <3> QED
      BY <1>d, <1>e, <3>1
  <2> QED
    BY <2>1, <2>2
<1>7. ASSUME NEW b \in Clients, Join(b) PROVE Told(c)' /\ InOrder(c)'
  <2>1. /\ UNCHANGED <<number, net, roster, group, overtaken>> /\ joined' \ registered' \subseteq joined \ registered
    BY <1>7 DEF Join
  <2>2. InGroup(c)' => InGroup(c)
    <3>1. step'[c] # step[c] => step'[c] = "found"
      BY <1>7, <1>c DEF Join
    <3> QED
      BY <1>e, <1>g, <2>1, <3>1
  <2> QED
    BY <1>d, <2>1, <2>2
<1>8. ASSUME NEW b \in Clients, AddToGroup(b) PROVE Told(c)' /\ InOrder(c)'
  <2>0. UNCHANGED <<number, net, roster, joined, registered, overtaken>>
    BY <1>8 DEF AddToGroup
  <2>1. CASE b = c
    <3>1. net[c] = <<>> /\ roster[c] = {}
      BY <1>8, <1>a, <2>1 DEF AddToGroup, BeforeGroup
    <3> QED
      BY <2>0, <3>1, ViewEmpty
  <2>2. CASE b # c
    <3>1. step'[c] = step[c] /\ (ConnectionOf(c) \in group' => ConnectionOf(c) \in group)
      BY <1>8, <1>c, <2>2 DEF AddToGroup, ConnectionOf
    <3>2. InGroup(c)' => InGroup(c)
      BY <2>0, <3>1 DEF InGroup, ConnectionOf
    <3> QED
      BY <1>d, <2>0, <3>2
  <2> QED
    BY <2>1, <2>2
<1>9. ASSUME NEW k \in Connections, UpdateAwareness(k) PROVE Told(c)' /\ InOrder(c)'
  <2>0. /\ UNCHANGED <<number, step, roster, group, joined, registered>> /\ overtaken \subseteq overtaken'
        /\ net' \in {net, Sent("awareness", k)} /\ k \in calls
        /\ k = ConnectionOf(k[1]) \/ k[1] \in overtaken'
    BY <1>9 DEF UpdateAwareness
  <2>1. CASE net'[c] = net[c]
    BY <1>d, <1>e, <2>0, <2>1
  <2>2. CASE net'[c] # net[c]
    <3>0. ~(InGroup(c) /\ ConnectionOf(c) # k) => Sent("awareness", k)[c] = net[c]
      BY <1>a, Sends
    <3>1. net' = Sent("awareness", k) /\ InGroup(c) /\ ConnectionOf(c) # k
      BY <2>0, <2>2, <3>0
    <3>2. k \notin joined \ registered
      BY <1>a, <2>0 DEF ConnectionsInv
    <3>3. k[2] = number[k[1]] \/ k[1] \in overtaken'
      BY <2>0, ConnectionShape DEF ConnectionOf
    <3> QED
      BY <1>a, <2>0, <3>1, <3>2, <3>3, ViewOfAnnouncement
  <2> QED
    BY <2>1, <2>2
<1>10. ASSUME NEW k \in Connections, Expire(k) PROVE Told(c)' /\ InOrder(c)'
  BY <1>10, <1>d, <1>e DEF Expire
<1>11. ASSUME NEW k \in Connections, Disconnected(k) PROVE Told(c)' /\ InOrder(c)'
  <2>0. /\ UNCHANGED <<number, step, roster, joined, overtaken>> /\ group' \subseteq group /\ ~Open(k)
        /\ registered' = registered \ {k} /\ net' = IF k \in registered THEN Sent("gone", k) ELSE net
    BY <1>11 DEF Disconnected
  <2>1. CASE k \notin registered
    BY <1>d, <1>e, <2>0, <2>1
  <2>2. CASE k \in registered /\ ~InGroup(c)
    <3>0. Sent("gone", k)[c] = net[c]
      BY <1>a, <2>2, Sends
    <3>1. net'[c] = net[c] /\ ~InGroup(c)'
      BY <1>e, <2>0, <2>2, <3>0
    <3>2. Told(c)'
      BY <3>1 DEF Told
    <3>3. InOrder(c)'
      BY <1>a, <2>0, <3>1 DEF InOrder
    <3> QED
      BY <3>2, <3>3
  <2>3. CASE k \in registered /\ InGroup(c)
    <3>1. ConnectionOf(c) # k
      <4>1. Open(ConnectionOf(c))
        BY <1>a, <2>3, OwnConnection DEF InGroup
      <4> QED
        BY <2>0, <4>1
    <3>2. joined' \ registered' \subseteq (joined \ registered) \cup {k}
      BY <2>0
    <3> QED
      BY <1>a, <2>0, <2>3, <3>1, <3>2, ViewOfEnd
  <2> QED
    BY <2>1, <2>2, <2>3
<1>12. CASE Close
  BY <1>12, <1>d, <1>e DEF Close
<1> QED
  BY <1>0, <1>1, <1>2, <1>3, <1>4, <1>5, <1>6, <1>7, <1>8, <1>9, <1>10, <1>11, <1>12
  DEF Next, Client, Server

----------------------------------------------------------------------------
LEMMA Inductive ==
    /\ BoundsAssumption /\ Init => IInv
    /\ BoundsAssumption /\ IInv /\ [Next]_vars => IInv'
<1>1. ASSUME BoundsAssumption, Init PROVE IInv
  <2>1. /\ \A c \in Clients : net[c] = <<>> /\ roster[c] = {}
        /\ calls = {} /\ registered = {} /\ group = {} /\ joined = {}
    BY <1>1 DEF Init
  <2>2. \A c \in Clients : DOMAIN net[c] = {}
    BY <2>1
  <2>3. ConnectionsInv
    BY <2>1, <2>2 DEF ConnectionsInv
  <2>4. BeforeGroup
    BY <2>1 DEF BeforeGroup
  <2>5. ViewInv
    BY <2>1, <2>2 DEF ViewInv, Told, InOrder
  <2> QED
    BY <1>1, <2>3, <2>4, <2>5, StateInit DEF IInv
<1>2. BoundsAssumption /\ IInv /\ [Next]_vars => IInv'
  BY StateStep, ConnectionsStep, BeforeGroupStep, ViewStep DEF IInv
<1> QED
  BY <1>1, <1>2

\* Nobody stays listed who is gone: what a client in the group shows of a connection that
\* has ended is about to be dropped, as the news of the end (OnDisconnectedAsync, to the
\* group) comes after every announcement of the connection.
THEOREM GoneAreDropped == Spec => []GoneUnlisted
<1>1. BoundsAssumption /\ Init => IInv
  BY Inductive
<1>2. BoundsAssumption /\ IInv /\ [Next]_vars => IInv'
  BY Inductive
<1>3. IInv => GoneUnlisted
  BY DEF IInv, ViewInv, Told, Tells, GoneUnlisted
<1> QED
  BY <1>1, <1>2, <1>3, BoundsAssumption, PTL DEF Spec

\* Who is here stays listed: neither the news of an end (_onPeerGone compares connections)
\* nor an announcement (_onAwareness replaces what it shows of the peer) takes away a peer
\* shown over the connection it has, as both are about connections it had before.
THEOREM HereStayListed == Spec => ListedWhileHere
<1>1. BoundsAssumption /\ Init => IInv
  BY Inductive
<1>2. BoundsAssumption /\ IInv /\ [Next]_vars => IInv'
  BY Inductive
<1>3. ASSUME BoundsAssumption, IInv, [Next]_vars, NEW c \in Clients, NEW k \in roster[c],
             Open(k), step[c] # "off", step'[c] # "off", k[1] \notin overtaken
      PROVE  k \in roster'[c]
  <2> USE DEF clientVars, serverVars
  <2>1. StateOK /\ ConnectionsInv /\ InOrder(c) /\ k \in Connections
    BY <1>3 DEF IInv, ViewInv, StateOK
  <2>2. roster \in [Clients -> SUBSET Connections] /\ net \in [Clients -> Seq(Message)]
    BY <2>1 DEF StateOK
  <2>3. CASE roster'[c] = roster[c]
    BY <2>3
  <2>4. CASE Connect(c)
    BY <1>3, <2>4 DEF Connect
  <2>5. CASE ReceiveAwareness(c)
    <3>1. 1 \in DOMAIN net[c] /\ Head(net[c]) = net[c][1] /\ net[c] # <<>>
      BY <2>2, <2>5, HeadAndTail DEF ReceiveAwareness
    <3>2. PICK m \in Connections : m = net[c][1].conn
      BY <2>2, <3>1, Queued
    <3>3. /\ net[c][1].type = "awareness"
          /\ roster'[c] = (roster[c] \ {x \in roster[c] : x[1] = m[1]}) \cup {m}
      BY <2>2, <2>5, <3>1, <3>2 DEF ReceiveAwareness
    <3>4. k[1] = m[1] => k = m
      <4> SUFFICES ASSUME k[1] = m[1] PROVE k = m
        OBVIOUS
      <4>1. k[2] <= m[2]
        BY <1>3, <2>1, <3>1, <3>2, <3>3 DEF InOrder
      <4>2. m[2] <= k[2]
        <5>1. Reached(m)
          BY <2>1, <3>1, <3>2 DEF ConnectionsInv
        <5>2. k[2] = number[k[1]]
          BY <1>3, <2>1, ConnectionShape DEF Open, ConnectionOf
        <5> QED
          BY <5>1, <5>2 DEF Reached
      <4>3. /\ k = <<k[1], k[2]>> /\ m = <<m[1], m[2]>>
            /\ k[2] \in 1..MaxConnections /\ m[2] \in 1..MaxConnections
        BY <2>1, ConnectionShape
      <4>4. k[2] = m[2]
        BY <1>3, <4>1, <4>2, <4>3 DEF BoundsAssumption
      <4> QED
        BY <4>3, <4>4
    <3> QED
      BY <3>3, <3>4
  <2>6. CASE ReceiveGone(c)
    <3>1. 1 \in DOMAIN net[c] /\ Head(net[c]) = net[c][1] /\ net[c] # <<>>
      BY <2>2, <2>6, HeadAndTail DEF ReceiveGone
    <3>2. net[c][1].type = "gone" /\ roster'[c] = roster[c] \ {net[c][1].conn}
      BY <2>2, <2>6, <3>1 DEF ReceiveGone
    <3>3. ~Open(net[c][1].conn)
      BY <2>1, <3>1, <3>2 DEF ConnectionsInv, Ended
    <3>4. k # net[c][1].conn
      BY <1>3, <3>3
    <3> QED
      BY <3>2, <3>4
  <2>7. ASSUME NEW b \in Clients, Client(b) PROVE roster'[c] = roster[c] \/ (b = c /\ (Connect(c) \/ ReceiveAwareness(c) \/ ReceiveGone(c)))
    BY <2>2, <2>7 DEF Client, Connect, Joined, Heartbeat, ReceiveAwareness, ReceiveGone, Leave, Reconnect
  <2>8. CASE Server
    BY <2>3, <2>8 DEF Server, Join, AddToGroup, UpdateAwareness, Expire, Disconnected, Close
  <2>9. CASE UNCHANGED vars
    BY <2>3, <2>9 DEF vars
  <2> QED
    BY <1>3, <2>3, <2>4, <2>5, <2>6, <2>7, <2>8, <2>9 DEF Next
<1>4. BoundsAssumption /\ IInv /\ [Next]_vars =>
        [\A c \in Clients : \A k \in roster[c] :
           Open(k) /\ Open(k)' /\ step[c] # "off" /\ step'[c] # "off" /\ k[1] \notin overtaken
               => k \in roster'[c]]_vars
  BY <1>3
<1> QED
  BY <1>1, <1>2, <1>4, BoundsAssumption, PTL DEF Spec, ListedWhileHere

=============================================================================
