------------------------------ MODULE IpcProofs ------------------------------
(***************************************************************************)
(* Proofs about the lister's connection: types, the one lister, and that   *)
(* a connection is kept only while its program is there or its end is      *)
(* under way.  The three are inductive together: the server belongs to the *)
(* program that has the lock, so a program that starts while a connection  *)
(* is kept becomes a client, and the end of a connection is the last event *)
(* in the queue, so handling it frees no other.                            *)
(***************************************************************************)
EXTENDS Ipc, SequenceTheorems, TLAPS

IInv == TypeOK /\ OneLister /\ ConnectionHeld

-----------------------------------------------------------------------------
(* Queues with at most one end in them.                                    *)

LEMMA EndsOfEmpty == Ends(<<>>) = {}
  BY DEF Ends

\* A request at the tail adds no end.
LEMMA AppendCommand ==
  ASSUME NEW s \in Seq(Event), NEW p \in Programs,
         Ends(s) = {}
  PROVE  Ends(Append(s, [type |-> "IPC_COMMAND", from |-> p])) = {}
  BY DEF Ends, Event

\* An end at the tail is the only one.
LEMMA AppendEnd ==
  ASSUME NEW s \in Seq(Event), NEW p \in Programs,
         Ends(s) = {}
  PROVE  LET t == Append(s, [type |-> "IPC_DISCONNECT", from |-> p]) IN
         Ends(t) = {Len(t)} /\ t[Len(t)].from = p
  BY DEF Ends, Event

\* Taking a request off leaves an end at the tail where it is.
LEMMA TailCommand ==
  ASSUME NEW s \in Seq(Event), s # <<>>, Head(s).type = "IPC_COMMAND"
  PROVE  /\ Tail(s) \in Seq(Event)
         /\ Ends(s) = {} => Ends(Tail(s)) = {}
         /\ Ends(s) = {Len(s)} =>
              Ends(Tail(s)) = {Len(Tail(s))} /\ Tail(s)[Len(Tail(s))] = s[Len(s)]
<1>1. /\ Tail(s) \in Seq(Event) /\ Len(Tail(s)) = Len(s) - 1 /\ Len(s) \in Nat \ {0}
      /\ \A i \in 1..(Len(s) - 1) : Tail(s)[i] = s[i + 1]
      /\ DOMAIN s = 1..Len(s) /\ DOMAIN Tail(s) = 1..(Len(s) - 1)
  OBVIOUS
<1>2. ASSUME Ends(s) = {} PROVE Ends(Tail(s)) = {}
  BY <1>1, <1>2 DEF Ends
<1>3. ASSUME Ends(s) = {Len(s)}
      PROVE  Ends(Tail(s)) = {Len(Tail(s))} /\ Tail(s)[Len(Tail(s))] = s[Len(s)]
  <2>1. s[1].type = "IPC_COMMAND"
    OBVIOUS
  <2>2. Len(s) - 1 \in 1..(Len(s) - 1) /\ s[Len(s)].type = "IPC_DISCONNECT"
    BY <1>1, <1>3, <2>1 DEF Ends
  <2>3. \A i \in 1..Len(s) : s[i].type = "IPC_DISCONNECT" <=> i = Len(s)
    BY <1>1, <1>3 DEF Ends
  <2>4. ASSUME NEW i \in 1..(Len(s) - 1)
        PROVE  Tail(s)[i].type = "IPC_DISCONNECT" <=> i = Len(s) - 1
    <3>1. i + 1 \in 1..Len(s) /\ Tail(s)[i] = s[i + 1]
      BY <1>1
    <3>2. i + 1 = Len(s) <=> i = Len(s) - 1
      BY <1>1
    <3>3. s[i + 1].type = "IPC_DISCONNECT" <=> i + 1 = Len(s)
      BY <2>3, <3>1
    <3> QED
      BY <3>1, <3>2, <3>3
  <2>5. Tail(s)[Len(Tail(s))] = s[Len(s)]
    <3>1. (Len(s) - 1) + 1 = Len(s)
      BY <1>1
    <3> QED
      BY <1>1, <2>2, <3>1
  <2> QED
    BY <1>1, <2>2, <2>4, <2>5 DEF Ends
<1> QED
  BY <1>1, <1>2, <1>3

\* Where the head is an end, it is all there is.
LEMMA TailEnd ==
  ASSUME NEW s \in Seq(Event), s # <<>>, Head(s).type = "IPC_DISCONNECT"
  PROVE  /\ Ends(s) # {}
         /\ Ends(s) = {Len(s)} => Tail(s) = <<>>
<1>1. 1 \in Ends(s)
  BY DEF Ends
<1>2. ASSUME Ends(s) = {Len(s)} PROVE Tail(s) = <<>>
  <2>1. Len(s) = 1
    BY <1>1, <1>2
  <2>2. Tail(s) \in Seq(Event) /\ Len(Tail(s)) = 0
    BY <2>1
  <2> QED
    BY <2>2, EmptySeq
<1> QED
  BY <1>1, <1>2

-----------------------------------------------------------------------------
(* The invariant.                                                          *)

LEMMA InitInv == Init => IInv
<1> SUFFICES ASSUME Init PROVE IInv
  OBVIOUS
<1>1. TypeOK
  <2>1. events \in Seq(Event)
    BY EmptySeq DEF Init
  <2> QED
    BY <2>1 DEF Init, TypeOK, Positions
<1>2. OneLister
  BY IpcAssumption DEF Init, OneLister, Lister
<1>3. ConnectionHeld
  BY EndsOfEmpty DEF Init, ConnectionHeld
<1> QED
  BY <1>1, <1>2, <1>3 DEF IInv

LEMMA StepTypes ==
  ASSUME TypeOK, ConnectionHeld, [Next]_vars
  PROVE  TypeOK'
<1> USE DEF TypeOK, Goes, Positions
<1>1. CASE OnPoke
  <2>1. conn \in Programs
    BY <1>1 DEF OnPoke, ConnectionHeld
  <2> QED
    BY <1>1, <2>1 DEF OnPoke, Post, Event
<1>2. CASE OnDisconnect
  <2>1. conn \in Programs
    BY <1>2 DEF OnDisconnect, ConnectionHeld
  <2> QED
    BY <1>2, <2>1 DEF OnDisconnect, Post, Event
<1>3. CASE Disconnect
  BY <1>3 DEF Disconnect
<1>4. CASE Command
  <2>1. Head(events) \in Event /\ Tail(events) \in Seq(Event)
    BY <1>4 DEF Command
  <2>2. Head(events).from \in Programs
    BY <2>1 DEF Event
  <2> QED
    BY <1>4, <2>1, <2>2 DEF Command
<1>5. ASSUME NEW p \in Programs, Start(p) \/ Again(p) \/ Connect(p) \/ Fail(p) \/ Accept(p)
      PROVE  TypeOK'
  BY <1>5 DEF Start, Again, Connect, Fail, Accept
<1>6. ASSUME NEW p \in Programs, Poke(p) \/ Leave(p)
      PROVE  TypeOK'
  BY <1>6 DEF Poke, Leave, Sends
<1>7. ASSUME NEW p \in Programs, Close(p) \/ Exit(p) \/ Kill(p)
      PROVE  TypeOK'
  <2>1. events' \in Seq(Event)
    BY <1>7, EmptySeq DEF Close, Exit, Kill
  <2> QED
    BY <1>7, <2>1 DEF Close, Exit, Kill
<1>8. ASSUME NEW p \in Programs, NEW ok \in BOOLEAN, NEW uri \in BOOLEAN, Create(p, ok, uri)
      PROVE  TypeOK'
  <2>1. events' \in Seq(Event)
    <3>1. [type |-> "IPC_COMMAND", from |-> p] \in Event
      BY DEF Event
    <3> QED
      BY <1>8, <3>1 DEF Create, Post
  <2> QED
    BY <1>8, <2>1 DEF Create
<1>9. CASE UNCHANGED vars
  BY <1>9 DEF vars
<1> QED
  BY <1>1, <1>2, <1>3, <1>4, <1>5, <1>6, <1>7, <1>8, <1>9 DEF Next, Listen, Client

LEMMA StepOneLister ==
  ASSUME TypeOK, OneLister, ConnectionHeld, [Next]_vars
  PROVE  OneLister'
<1> USE DEF TypeOK, OneLister, Goes, Lister, Positions
<1>1. CASE Listen
  BY <1>1 DEF Listen, OnPoke, OnDisconnect, Disconnect, Command
<1>2. ASSUME NEW p \in Programs, Start(p)
      PROVE  OneLister'
  BY <1>2, IpcAssumption DEF Start
<1>3. ASSUME NEW p \in Programs, Again(p) \/ Client(p) \/ Accept(p)
      PROVE  OneLister'
  BY <1>3 DEF Again, Client, Connect, Fail, Poke, Leave, Accept
<1>4. ASSUME NEW p \in Programs, Close(p) \/ Exit(p) \/ Kill(p)
      PROVE  OneLister'
  BY <1>4, IpcAssumption DEF Close, Exit, Kill
<1>5. ASSUME NEW p \in Programs, NEW ok \in BOOLEAN, NEW uri \in BOOLEAN, Create(p, ok, uri)
      PROVE  OneLister'
  BY <1>5, IpcAssumption DEF Create
<1>6. CASE UNCHANGED vars
  BY <1>6 DEF vars
<1> QED
  BY <1>1, <1>2, <1>3, <1>4, <1>5, <1>6 DEF Next

LEMMA StepHeld ==
  ASSUME TypeOK, OneLister, ConnectionHeld, [Next]_vars
  PROVE  ConnectionHeld'
<1> USE DEF TypeOK, Goes, Positions
<1>1. CASE OnPoke
  <2>1. /\ conn \in Programs /\ server /\ Ends(events) = {}
        /\ \/ pc[conn] = "poked" /\ chan = {"poke"}
           \/ pc[conn] \in Left /\ chan = {"poke", "bye"}
    BY <1>1 DEF OnPoke, ConnectionHeld
  <2>2. Ends(events') = {}
    BY <1>1, <2>1, AppendCommand DEF OnPoke, Post
  <2> QED
    BY <1>1, <2>1, <2>2 DEF OnPoke, ConnectionHeld
<1>2. CASE OnDisconnect
  <2>1. /\ conn \in Programs /\ server /\ Ends(events) = {}
        /\ pc[conn] \in Left /\ chan = {"bye"}
    BY <1>2 DEF OnDisconnect, ConnectionHeld
  <2>2. Ends(events') = {Len(events')} /\ events'[Len(events')].from = conn
    BY <1>2, <2>1, AppendEnd DEF OnDisconnect, Post
  <2> QED
    BY <1>2, <2>1, <2>2 DEF OnDisconnect, ConnectionHeld
<1>3. CASE Disconnect
  <2>1. Ends(events) = {Len(events)} /\ Tail(events) = <<>>
    BY <1>3, TailEnd DEF Disconnect, ConnectionHeld
  <2> QED
    BY <1>3, <2>1, EndsOfEmpty DEF Disconnect, ConnectionHeld
<1>4. CASE Command
  <2>1. /\ Ends(events) = {} => Ends(events') = {}
        /\ Ends(events) = {Len(events)} =>
             Ends(events') = {Len(events')} /\ events'[Len(events')] = events[Len(events)]
    BY <1>4, TailCommand DEF Command
  <2>2. UNCHANGED <<pc, server, conn, chan>>
    BY <1>4 DEF Command
  <2> QED
    BY <2>1, <2>2 DEF ConnectionHeld
<1>5. ASSUME NEW p \in Programs, Start(p)
      PROVE  ConnectionHeld'
  <2>1. conn # None => lock # None
    BY DEF ConnectionHeld, OneLister
  <2> QED
    BY <1>5, <2>1 DEF Start, ConnectionHeld, Left
<1>6. ASSUME NEW p \in Programs, Again(p) \/ Connect(p) \/ Fail(p)
      PROVE  ConnectionHeld'
  BY <1>6 DEF Again, Connect, Fail, ConnectionHeld, Left
<1>7. ASSUME NEW p \in Programs, Accept(p)
      PROVE  ConnectionHeld'
  <2>1. CASE conn = None
    BY <1>7, <2>1, IpcAssumption DEF Accept, ConnectionHeld
  <2>2. CASE conn # None
    BY <1>7, <2>2 DEF Accept, ConnectionHeld, Left
  <2> QED
    BY <2>1, <2>2
<1>8. ASSUME NEW p \in Programs, Poke(p)
      PROVE  ConnectionHeld'
  <2>1. CASE conn = p
    <3>1. /\ server /\ chan = {} /\ Ends(events) = {}
          /\ conn \in Programs /\ conn # None
      BY <1>8, <2>1, IpcAssumption DEF Poke, ConnectionHeld, Left
    <3>2. /\ pc'[conn] = "poked" /\ chan' = {"poke"}
          /\ UNCHANGED <<server, conn, events>>
      BY <1>8, <2>1, <3>1 DEF Poke, Sends
    <3> QED
      BY <3>1, <3>2 DEF ConnectionHeld
  <2>2. CASE conn # p
    BY <1>8, <2>2 DEF Poke, Sends, ConnectionHeld, Left
  <2> QED
    BY <2>1, <2>2
<1>9. ASSUME NEW p \in Programs, Leave(p)
      PROVE  ConnectionHeld'
  <2>1. CASE conn = p
    BY <1>9, <2>1, IpcAssumption DEF Leave, Sends, ConnectionHeld, Left
  <2>2. CASE conn # p
    BY <1>9, <2>2 DEF Leave, Sends, ConnectionHeld, Left
  <2> QED
    BY <2>1, <2>2
<1>10. ASSUME NEW p \in Programs, Close(p) \/ Kill(p)
      PROVE  ConnectionHeld'
  BY <1>10, EndsOfEmpty DEF Close, Kill, ConnectionHeld
<1>11. ASSUME NEW p \in Programs, Exit(p)
      PROVE  ConnectionHeld'
  <2>1. pc[p] \in Lister /\ pc[p] # "main"
    BY <1>11 DEF Exit, Lister
  <2>2. ~server
    BY <2>1 DEF OneLister
  <2> QED
    BY <1>11, <2>2 DEF Exit, ConnectionHeld
<1>12. ASSUME NEW p \in Programs, NEW ok \in BOOLEAN, NEW uri \in BOOLEAN, Create(p, ok, uri)
      PROVE  ConnectionHeld'
  <2>1. ~server
    BY <1>12 DEF Create, OneLister, Lister
  <2>2. conn = None /\ chan = {} /\ Ends(events) = {}
    BY <2>1 DEF ConnectionHeld
  <2>3. Ends(events') = {}
    BY <1>12, <2>2, AppendCommand DEF Create, Post
  <2> QED
    BY <1>12, <2>2, <2>3 DEF Create, ConnectionHeld
<1>13. CASE UNCHANGED vars
  BY <1>13 DEF vars, ConnectionHeld
<1> QED
  BY <1>1, <1>2, <1>3, <1>4, <1>5, <1>6, <1>7, <1>8, <1>9, <1>10, <1>11, <1>12, <1>13
     DEF Next, Listen, Client

LEMMA Invariance == Spec => []IInv
<1>1. IInv /\ [Next]_vars => IInv'
  BY StepTypes, StepOneLister, StepHeld DEF IInv
<1> QED
  BY InitInv, <1>1, PTL DEF Spec

-----------------------------------------------------------------------------
\* Types of the programs and the lister's server, for any number of programs.
THEOREM TypeCorrect == Spec => []TypeOK
<1>1. IInv => TypeOK
  BY DEF IInv
<1> QED
  BY <1>1, Invariance, PTL

\* At most one program is the lister, and only it may have the server
\* (CslApp::OnInit, CslFrame's constructor and destructor).
THEOREM OneListerCorrect == Spec => []OneLister
<1>1. IInv => OneLister
  BY DEF IInv
<1> QED
  BY <1>1, Invariance, PTL

\* The connection of CslIpcServer is kept only while its program is there or its end is
\* under way, and an end never frees another program's connection.
THEOREM HeldCorrect == Spec => []ConnectionHeld
<1>1. IInv => ConnectionHeld
  BY DEF IInv
<1> QED
  BY <1>1, Invariance, PTL

-----------------------------------------------------------------------------
(* Requests.                                                               *)

\* A request is in the queue.
Asks(s, p) == \E i \in 1..Len(s) : s[i] = [type |-> "IPC_COMMAND", from |-> p]

\* p's request was sent and is not carried out yet.
Pending(p) == ("poke" \in chan /\ conn = p) \/ Asks(events, p)

\* What is sent through the connection arrives, and is there until it is carried out or the
\* lister ends, whether or not the program that sent it is still connected.
RequestKept ==
  \A p \in Programs :
    /\ Poke(p) /\ conn = p => Pending(p)'
    /\ Pending(p) => Pending(p)' \/ p \in handled' \/ ~server'

LEMMA AppendAsks ==
  ASSUME NEW s \in Seq(Event), NEW e \in Event, NEW p
  PROVE  Asks(Append(s, e), p) <=> Asks(s, p) \/ e = [type |-> "IPC_COMMAND", from |-> p]
<1> DEFINE c == [type |-> "IPC_COMMAND", from |-> p]
           t == Append(s, e)
<1>1. /\ Len(t) = Len(s) + 1 /\ Len(s) \in Nat
      /\ \A i \in 1..Len(s) : t[i] = s[i]
      /\ t[Len(s) + 1] = e
  OBVIOUS
<1> HIDE DEF c, t
<1>2. (\E i \in 1..Len(t) : t[i] = c) <=> (\E i \in 1..Len(s) : s[i] = c) \/ e = c
  BY <1>1
<1> QED BY <1>2 DEF Asks, c, t

LEMMA TailAsks ==
  ASSUME NEW s \in Seq(Event), s # <<>>, NEW p
  PROVE  Asks(s, p) => Asks(Tail(s), p) \/ Head(s) = [type |-> "IPC_COMMAND", from |-> p]
<1> DEFINE c == [type |-> "IPC_COMMAND", from |-> p]
           t == Tail(s)
<1>1. /\ Len(t) = Len(s) - 1 /\ Len(s) \in Nat \ {0} /\ Head(s) = s[1]
      /\ \A i \in 1..Len(t) : t[i] = s[i + 1]
  OBVIOUS
<1> HIDE DEF c, t
<1>2. ASSUME NEW i \in 1..Len(s), s[i] = c PROVE (\E j \in 1..Len(t) : t[j] = c) \/ s[1] = c
  <2>1. CASE i = 1
    BY <1>2, <2>1
  <2>2. CASE i # 1
    <3>1. i - 1 \in 1..Len(t) /\ t[i - 1] = s[i]
      BY <1>1, <2>2
    <3> QED BY <1>2, <3>1
  <2> QED BY <2>1, <2>2
<1> QED BY <1>1, <1>2 DEF Asks, c, t

\* Every step of the lister and of the others keeps the requests.
LEMMA StepRequest == IInv /\ [Next]_vars => RequestKept
<1> SUFFICES ASSUME IInv, [Next]_vars, NEW p \in Programs
             PROVE  /\ Poke(p) /\ conn = p => Pending(p)'
                    /\ Pending(p) => Pending(p)' \/ p \in handled' \/ ~server'
  BY DEF RequestKept
<1>0. TypeOK /\ ConnectionHeld /\ events \in Seq(Event)
  BY DEF IInv, TypeOK
<1>p. Poke(p) /\ conn = p => Pending(p)'
  BY DEF Poke, Sends, Pending
<1>s. ASSUME Pending(p), events' = events, conn' = conn, "poke" \in chan => "poke" \in chan'
      PROVE  Pending(p)'
  BY <1>s DEF Pending, Asks
<1> SUFFICES ASSUME Pending(p) PROVE Pending(p)' \/ p \in handled' \/ ~server'
  BY <1>p
<1>c. conn = p => conn # None
  BY IpcAssumption
<1>1. CASE OnPoke
  <2>1. conn \in Programs
    BY <1>0, <1>1 DEF OnPoke, ConnectionHeld, TypeOK
  <2>2. [type |-> "IPC_COMMAND", from |-> conn] \in Event
    BY <2>1 DEF Event
  <2>3. Asks(events', p) <=> Asks(events, p) \/ conn = p
    <3> DEFINE e == [type |-> "IPC_COMMAND", from |-> conn]
    <3>1. e = [type |-> "IPC_COMMAND", from |-> p] <=> conn = p
      OBVIOUS
    <3>2. events' = Append(events, e)
      BY <1>1 DEF OnPoke, Post
    <3>3. e \in Event
      BY <2>2
    <3> HIDE DEF e
    <3> QED BY <1>0, <3>1, <3>2, <3>3, AppendAsks
  <2> QED BY <2>3 DEF Pending
<1>2. CASE OnDisconnect
  <2>1. conn \in Programs /\ "poke" \notin chan
    BY <1>0, <1>2 DEF OnDisconnect, ConnectionHeld, TypeOK
  <2>2. [type |-> "IPC_DISCONNECT", from |-> conn] \in Event
    BY <2>1 DEF Event
  <2>3. Asks(events, p) => Asks(events', p)
    BY <1>0, <1>2, <2>2, AppendAsks DEF OnDisconnect, Post
  <2> QED BY <2>1, <2>3 DEF Pending
<1>3. CASE Disconnect
  <2>1. Ends(events) # {} /\ Head(events).type # "IPC_COMMAND" /\ events # <<>> /\ events' = Tail(events)
    BY <1>0, <1>3, TailEnd DEF Disconnect
  <2>2. chan = {}
    BY <1>0, <2>1 DEF ConnectionHeld
  <2>3. Head(events) # [type |-> "IPC_COMMAND", from |-> p]
    BY <2>1
  <2>4. Asks(events', p)
    BY <1>0, <2>1, <2>2, <2>3, TailAsks DEF Pending
  <2> QED BY <2>4 DEF Pending
<1>4. CASE Command
  <2>1. Asks(events, p) => Asks(events', p) \/ Head(events) = [type |-> "IPC_COMMAND", from |-> p]
    BY <1>0, <1>4, TailAsks DEF Command
  <2>2. Head(events) = [type |-> "IPC_COMMAND", from |-> p] => p \in handled'
    BY <1>4 DEF Command
  <2>3. chan' = chan /\ conn' = conn
    BY <1>4 DEF Command
  <2> QED BY <2>1, <2>2, <2>3 DEF Pending
<1>5. ASSUME NEW q \in Programs, Start(q) \/ Again(q) \/ Connect(q) \/ Fail(q) \/ Exit(q)
      PROVE  Pending(p)'
  BY <1>5, <1>s DEF Start, Again, Connect, Fail, Exit
<1>6. ASSUME NEW q \in Programs, Poke(q) \/ Leave(q) PROVE Pending(p)'
  BY <1>6, <1>s DEF Poke, Leave, Sends
<1>7. ASSUME NEW q \in Programs, Accept(q) PROVE Pending(p)'
  <2>1. CASE conn = None
    <3>1. chan = {} /\ events' = events
      BY <1>0, <1>7, <2>1 DEF Accept, ConnectionHeld
    <3> QED BY <3>1 DEF Pending
  <2>2. CASE conn # None
    BY <1>7, <1>s, <2>2 DEF Accept
  <2> QED BY <2>1, <2>2
<1>8. ASSUME NEW q \in Programs, Close(q) \/ Kill(q) PROVE ~server'
  BY <1>8 DEF Close, Kill
<1>9. ASSUME NEW q \in Programs, NEW ok \in BOOLEAN, NEW uri \in BOOLEAN, Create(q, ok, uri)
      PROVE  Pending(p)'
  <2>1. [type |-> "IPC_COMMAND", from |-> q] \in Event
    BY DEF Event
  <2>2. Asks(events, p) => Asks(events', p)
    <3> DEFINE e == [type |-> "IPC_COMMAND", from |-> q]
    <3>1. events' = Append(events, e) \/ events' = events
      BY <1>9 DEF Create, Post
    <3>2. e \in Event
      BY <2>1
    <3> HIDE DEF e
    <3> QED BY <1>0, <3>1, <3>2, AppendAsks
  <2>3. chan' = chan /\ conn' = conn
    BY <1>9 DEF Create
  <2> QED BY <2>2, <2>3 DEF Pending
<1>10. CASE UNCHANGED vars
  BY <1>10, <1>s DEF vars
<1> QED
  BY <1>1, <1>2, <1>3, <1>4, <1>5, <1>6, <1>7, <1>8, <1>9, <1>10 DEF Next, Listen, Client

\* No request that went through a connection is lost before it is carried out, unless the
\* lister ends: neither by the end of its connection nor by another program's
\* (CslIPC.cpp:32-50, 106-125).
THEOREM RequestsKept == Spec => [][RequestKept]_vars
<1> QED BY Invariance, StepRequest, PTL DEF Spec
=============================================================================
