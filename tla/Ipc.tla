--------------------------------- MODULE Ipc ---------------------------------
(***************************************************************************)
(* Programs that the user starts, one after or beside the other: the first *)
(* becomes the lister, the others give it their request and end            *)
(* (src/CslApp.cpp, CslIPC.cpp, CslFrame.cpp).  The lister has one         *)
(* connection at a time, which it keeps until it has handled the event     *)
(* that its end has posted.                                                *)
(***************************************************************************)
EXTENDS Naturals, Sequences

CONSTANTS
  Programs,  \* processes, each started with a request
  None       \* NULL, and a lock that nobody has

ASSUME IpcAssumption == None \notin Programs

VARIABLES
  pc,      \* where each program is
  lock,    \* who has the lock of m_single
  server,  \* whether the lister has m_ipcServer
  conn,    \* m_connection: the program at its other end
  chan,    \* what of its request and its end it has sent and the lister has not read
  events,  \* the lister's posted IPC events; "from" is not part of them
  handled  \* the programs whose request OnIPC has carried out

vars == <<pc, lock, server, conn, chan, events, handled>>

Positions == {"idle", "client", "asking", "connected", "poked", "gone",
              "frame", "main", "closing"}
Lister == {"frame", "main", "closing"}
Event  == [type : {"IPC_COMMAND", "IPC_DISCONNECT"}, from : Programs]

Goes(p, to) == pc' = [pc EXCEPT ![p] = to]

Post(type, p) == events' = Append(events, [type |-> type, from |-> p])

Init ==
  /\ pc = [p \in Programs |-> "idle"]
  /\ lock = None /\ server = FALSE /\ conn = None
  /\ chan = {} /\ events = <<>> /\ handled = {}

-----------------------------------------------------------------------------
(* Starting.                                                               *)

\* OnInit asks whether another one is running; the lock is wx's.
Start(p) ==
  /\ pc[p] = "idle"
  /\ IF lock = None THEN lock' = p /\ Goes(p, "frame")
                    ELSE lock' = lock /\ Goes(p, "client")
  /\ UNCHANGED <<server, conn, chan, events, handled>>

\* The frame creates its server, which may fail, and OnInit posts its own request.
Create(p, ok, uri) ==
  /\ pc[p] = "frame"
  /\ Goes(p, "main")
  /\ server' = ok
  /\ IF uri THEN Post("IPC_COMMAND", p) ELSE events' = events
  /\ UNCHANGED <<lock, conn, chan, handled>>

\* The user starts a program again.
Again(p) ==
  /\ pc[p] = "gone"
  /\ Goes(p, "idle")
  /\ handled' = handled \ {p}
  /\ UNCHANGED <<lock, server, conn, chan, events>>

-----------------------------------------------------------------------------
(* The program that gives its request away.                                *)

\* IpcCall: if there is no server the request is dropped, and the program ends.
Connect(p) ==
  /\ pc[p] = "client"
  /\ Goes(p, IF server THEN "asking" ELSE "gone")
  /\ UNCHANGED <<lock, server, conn, chan, events, handled>>

\* The server went away while it was asked.
Fail(p) ==
  /\ pc[p] = "asking" /\ ~server
  /\ Goes(p, "gone")
  /\ UNCHANGED <<lock, server, conn, chan, events, handled>>

\* What goes through the connection is lost if the lister has closed it.
Sends(p, what) == chan' = IF conn = p THEN chan \cup {what} ELSE chan

Poke(p) ==
  /\ pc[p] = "connected"
  /\ Goes(p, "poked") /\ Sends(p, "poke")
  /\ UNCHANGED <<lock, server, conn, events, handled>>

\* ~CslIpcClient, or the end of a program that is killed before it could poke.
Leave(p) ==
  /\ pc[p] \in {"connected", "poked"}
  /\ Goes(p, "gone") /\ Sends(p, "bye")
  /\ UNCHANGED <<lock, server, conn, events, handled>>

-----------------------------------------------------------------------------
(* The lister's thread.                                                    *)

\* Mutation: a program is accepted whoever else is connected.
AcceptAlways(p) ==
  /\ pc[p] = "asking" /\ server
  /\ conn' = p /\ chan' = {} /\ Goes(p, "connected")
  /\ UNCHANGED <<lock, server, events, handled>>

\* OnAcceptConnection: the program that is refused drops its request and ends.
Accept(p) ==
  /\ pc[p] = "asking" /\ server
  /\ IF conn = None THEN conn' = p /\ Goes(p, "connected")
                    ELSE conn' = conn /\ Goes(p, "gone")
  /\ UNCHANGED <<lock, server, chan, events, handled>>

OnPoke ==
  /\ "poke" \in chan
  /\ chan' = chan \ {"poke"} /\ Post("IPC_COMMAND", conn)
  /\ UNCHANGED <<pc, lock, server, conn, handled>>

\* The end is read behind the request.
OnDisconnect ==
  /\ chan = {"bye"}
  /\ chan' = {} /\ Post("IPC_DISCONNECT", conn)
  /\ UNCHANGED <<pc, lock, server, conn, handled>>

\* Mutation: the connection is closed and not forgotten.
DisconnectOnly ==
  /\ events # <<>> /\ Head(events).type = "IPC_DISCONNECT"
  /\ events' = Tail(events)
  /\ UNCHANGED <<pc, lock, server, conn, chan, handled>>

\* OnIPC and CslIpcServer::Disconnect
Disconnect ==
  /\ events # <<>> /\ Head(events).type = "IPC_DISCONNECT"
  /\ events' = Tail(events)
  /\ conn' = None /\ chan' = {}
  /\ UNCHANGED <<pc, lock, server, handled>>

\* OnIPC: what a request does is a step of the frame's parts.
Command ==
  /\ events # <<>> /\ Head(events).type = "IPC_COMMAND"
  /\ events' = Tail(events)
  /\ handled' = handled \cup {Head(events).from}
  /\ UNCHANGED <<pc, lock, server, conn, chan>>

\* Mutation: what was sent to the connection is read after it is gone.
CloseOnly(p) ==
  /\ pc[p] = "main"
  /\ Goes(p, "closing")
  /\ server' = FALSE /\ conn' = None /\ events' = <<>>
  /\ UNCHANGED <<lock, chan, handled>>

\* ~CslFrame: the events of a handler that is destroyed are dropped.
Close(p) ==
  /\ pc[p] = "main"
  /\ Goes(p, "closing")
  /\ server' = FALSE /\ conn' = None
  /\ chan' = {} /\ events' = <<>>
  /\ UNCHANGED <<lock, handled>>

\* OnExit gives the lock back, after the server is gone.
Exit(p) ==
  /\ pc[p] = "closing"
  /\ lock' = None /\ Goes(p, "gone")
  /\ UNCHANGED <<server, conn, chan, events, handled>>

\* The lister is killed; wx finds that the process that has the lock is no more.
Kill(p) ==
  /\ pc[p] \in Lister
  /\ lock' = None /\ Goes(p, "gone")
  /\ server' = FALSE /\ conn' = None
  /\ chan' = {} /\ events' = <<>>
  /\ UNCHANGED handled

-----------------------------------------------------------------------------
Listen == OnPoke \/ OnDisconnect \/ Disconnect \/ Command

Client(p) == Connect(p) \/ Fail(p) \/ Poke(p) \/ Leave(p)

Next ==
  \/ Listen
  \/ \E p \in Programs :
       \/ Start(p) \/ Again(p) \/ Client(p)
       \/ Accept(p) \/ Close(p) \/ Exit(p) \/ Kill(p)
       \/ \E ok \in BOOLEAN, uri \in BOOLEAN : Create(p, ok, uri)

\* The lister's event loop runs, and clients do not stop half way.
Spec ==
  /\ Init /\ [][Next]_vars
  /\ WF_vars(Listen)
  /\ \A p \in Programs : WF_vars(Client(p)) /\ WF_vars(Accept(p))

-----------------------------------------------------------------------------
TypeOK ==
  /\ pc \in [Programs -> Positions]
  /\ lock \in Programs \cup {None}
  /\ server \in BOOLEAN
  /\ conn \in Programs \cup {None}
  /\ chan \subseteq {"poke", "bye"}
  /\ events \in Seq(Event)
  /\ handled \subseteq Programs

\* The lister never listens without the lock, and the lock's owner is the only lister.
OneLister ==
  /\ \A p \in Programs : pc[p] \in Lister <=> lock = p
  /\ server => lock # None /\ pc[lock] = "main"

Ends(s) == {i \in DOMAIN s : s[i].type = "IPC_DISCONNECT"}

\* A program that has left may have been started again.
Left == {"gone", "idle", "client", "asking"}

\* The connection is kept only while its program is still there or its end is under way.
\* The end is posted once, behind the request, and frees no other program's connection.
ConnectionHeld ==
  IF conn = None THEN chan = {} /\ Ends(events) = {}
  ELSE /\ server
       /\ \/ pc[conn] = "connected" /\ chan = {} /\ Ends(events) = {}
          \/ pc[conn] = "poked" /\ chan \subseteq {"poke"} /\ Ends(events) = {}
          \/ pc[conn] \in Left /\ "bye" \in chan /\ Ends(events) = {}
          \/ /\ pc[conn] \in Left /\ chan = {}
             /\ Ends(events) = {Len(events)} /\ events[Len(events)].from = conn

\* No connection is kept for ever, so that the refusals end.
Released == \A p \in Programs : conn = p ~> conn = None

\* A request that was sent through a connection is carried out, unless the lister ends.
Answered == \A p \in Programs : pc[p] = "poked" /\ conn = p ~> p \in handled \/ ~server

\* A connection ends and its request is carried out (CslIPC.cpp:32-50, 106-125).
Served == Released /\ Answered
=============================================================================
