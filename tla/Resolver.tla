------------------------------- MODULE Resolver -------------------------------
(***************************************************************************)
(* The host name resolver of the engine (src/engine/CslEngine.cpp,         *)
(* CslResolverThread, and CslEngine::OnResolveHost).                       *)
(*                                                                         *)
(* A worker thread takes lookup packets from m_packets, does the blocking  *)
(* lookup while it owns m_mutex, and posts the packet back to the GUI      *)
(* thread as a wxCSL_EVT_RESOLVE_HOST event.  The GUI thread adds packets  *)
(* under m_section, signals the condition only when TryLock gets m_mutex,  *)
(* and at shutdown sets m_terminate, signals and joins.                    *)
(*                                                                         *)
(* m_section guards queue operations only and is never held across one of  *)
(* them, so each critical section is one step.  The worker's tests of      *)
(* m_packets.length() are outside it and are steps of their own.           *)
(***************************************************************************)
EXTENDS Naturals, Sequences, SequencesExt

CONSTANTS
  Servers,     \* what operator== tells apart: host, game port and info port
  Hosts,       \* what a packet names: a game, a host and an info port
  HostOf,      \* the Host and Addr.Service() of each server
  IPs,         \* the hosts that are a dotted address (IsIP)
  MaxPackets   \* bound: number of packets the GUI thread ever adds

ASSUME ResolverAssumption ==
  HostOf \in [Servers -> Hosts] /\ IPs \subseteq Hosts /\ MaxPackets \in Nat

Worker == "worker"
Gui    == "gui"
Free   == "free"

\* A CslResolverPacket; n tells apart packets for the same host.
Packet == [n : 1..MaxPackets, host : Hosts]

VARIABLES
  mutex,       \* m_mutex: who owns it
  packets,     \* m_packets, the head is taken first
  terminate,   \* m_terminate
  wpc,         \* where the worker is in Entry()
  hand,        \* the packet the worker has removed from m_packets, as a set
  events,      \* posted wxCSL_EVT_RESOLVE_HOST events, oldest first
  gpc,         \* where the GUI thread is in AddPacket() or the shutdown
  made,        \* number of packets created
  handled,     \* packets deleted by OnResolveHost
  discarded,   \* packets deleted by the worker when it exits
  leaked,      \* the packet the worker abandons when it breaks at line 70
  servers,     \* m_servers of the games, in the order of AddServer
  pingable,    \* those with CslServerInfo::Pingable
  failed,      \* history: servers whose host's lookup gave 255.255.255.255
  unasked,     \* history: servers whose lookup was never asked for
  shadowed,    \* history: servers that were passed over by FindServerByAddr
  missed       \* history: a packet came while the worker was about to Wait()

workerVars == <<wpc, hand, discarded, leaked>>
gameVars   == <<servers, pingable, failed, unasked, shadowed>>
vars == <<mutex, packets, terminate, wpc, hand, events, gpc, made, handled, discarded,
          leaked, servers, pingable, failed, unasked, shadowed, missed>>

Elems(s) == {s[i] : i \in 1..Len(s)}

Listed == Elems(servers)

\* CslGame::FindServerByAddr(host, port): the first listed server of that host and info
\* port, as a set.  Others, with another game port, may be listed behind it.
Found(h) ==
  {servers[i] : i \in {i \in 1..Len(servers) :
                          /\ HostOf[servers[i]] = h
                          /\ \A j \in 1..(i - 1) : HostOf[servers[j]] # h}}

WorkerPCs == {"lock", "loop", "look", "wait", "asleep", "wake", "retest", "take",
              "resolve", "post", "drain", "unlock", "done"}
GuiPCs    == {"idle", "trylock", "signal", "unlock", "deinit", "termlock",
              "termsignal", "termunlock", "join", "gone"}

Init ==
  /\ mutex = Free
  /\ packets = <<>>
  /\ terminate = FALSE
  /\ wpc = "lock"
  /\ hand = {}
  /\ events = <<>>
  /\ gpc = "idle"
  /\ made = 0
  /\ handled = {}
  /\ discarded = {}
  /\ leaked = {}
  /\ servers = <<>>
  /\ pingable = {}
  /\ failed = {}
  /\ unasked = {}
  /\ shadowed = {}
  /\ missed = FALSE

-----------------------------------------------------------------------------
(* The worker: CslResolverThread::Entry().                                 *)

WorkerAt(from, to) == wpc = from /\ wpc' = to

\* m_mutex.Lock() on entry.
Lock ==
  /\ WorkerAt("lock", "loop")
  /\ mutex = Free
  /\ mutex' = Worker
  /\ UNCHANGED <<packets, terminate, hand, events, gpc, made, handled, discarded, leaked, gameVars, missed>>

\* Mutation: the loop condition is forgotten.
LoopForever ==
  /\ WorkerAt("loop", "look")
  /\ UNCHANGED <<mutex, packets, terminate, hand, events, gpc, made, handled, discarded, leaked, gameVars, missed>>

\* while (!m_terminate)
Loop ==
  /\ WorkerAt("loop", IF terminate THEN "drain" ELSE "look")
  /\ UNCHANGED <<mutex, packets, terminate, hand, events, gpc, made, handled, discarded, leaked, gameVars, missed>>

\* Mutation: the worker waits without looking at the queue.
LookNot ==
  /\ WorkerAt("look", "wait")
  /\ UNCHANGED <<mutex, packets, terminate, hand, events, gpc, made, handled, discarded, leaked, gameVars, missed>>

\* if (!m_packets.length()), read without m_section
Look ==
  /\ WorkerAt("look", IF packets = <<>> THEN "wait" ELSE "retest")
  /\ UNCHANGED <<mutex, packets, terminate, hand, events, gpc, made, handled, discarded, leaked, gameVars, missed>>

\* m_condition->Wait(): gives up m_mutex and becomes a waiter in one step
Wait ==
  /\ WorkerAt("wait", "asleep")
  /\ mutex' = Free
  /\ UNCHANGED <<packets, terminate, hand, events, gpc, made, handled, discarded, leaked, gameVars, missed>>

\* POSIX conditions may wake without a signal.
SpuriousWake ==
  /\ WorkerAt("asleep", "wake")
  /\ missed' = FALSE
  /\ UNCHANGED <<mutex, packets, terminate, hand, events, gpc, made, handled, discarded, leaked, gameVars>>

\* Wait() returns with m_mutex owned again.
Reacquire ==
  /\ WorkerAt("wake", "retest")
  /\ mutex = Free
  /\ mutex' = Worker
  /\ UNCHANGED <<packets, terminate, hand, events, gpc, made, handled, discarded, leaked, gameVars, missed>>

\* Mutation: the queue is not looked at again after Wait().
RetestNot ==
  /\ WorkerAt("retest", IF terminate THEN "loop" ELSE "take")
  /\ UNCHANGED <<mutex, packets, terminate, hand, events, gpc, made, handled, discarded, leaked, gameVars, missed>>

\* if (m_terminate || !m_packets.length()) continue;
Retest ==
  /\ WorkerAt("retest", IF terminate \/ packets = <<>> THEN "loop" ELSE "take")
  /\ UNCHANGED <<mutex, packets, terminate, hand, events, gpc, made, handled, discarded, leaked, gameVars, missed>>

\* Mutation: the packet is read and left in the queue.
TakeCopy ==
  /\ WorkerAt("take", "resolve")
  /\ hand' = {Head(packets)}
  /\ UNCHANGED <<mutex, packets, terminate, events, gpc, made, handled, discarded, leaked, gameVars, missed>>

\* The critical section that removes m_packets[0].
Take ==
  /\ WorkerAt("take", "resolve")
  /\ hand' = {Head(packets)}
  /\ packets' = Tail(packets)
  /\ UNCHANGED <<mutex, terminate, events, gpc, made, handled, discarded, leaked, gameVars, missed>>

\* The blocking lookup, then if (m_terminate) break; which drops the packet.
Resolve ==
  /\ WorkerAt("resolve", IF terminate THEN "drain" ELSE "post")
  /\ IF terminate
       THEN leaked' = hand /\ hand' = {}
       ELSE UNCHANGED <<leaked, hand>>
  /\ UNCHANGED <<mutex, packets, terminate, events, gpc, made, handled, discarded, gameVars, missed>>

\* Mutation: a failed lookup is not reported.
PostFound ==
  /\ WorkerAt("post", "loop")
  /\ \E p \in hand, found \in BOOLEAN :
       events' = IF p.host \in IPs \/ found
                   THEN Append(events, [pkt |-> p, found |-> TRUE]) ELSE events
  /\ hand' = {}
  /\ UNCHANGED <<mutex, packets, terminate, gpc, made, handled, discarded, leaked, gameVars, missed>>

\* wxPostEvent(m_evtHandler,evt); the lookup gave an address or 255.255.255.255
Post ==
  /\ WorkerAt("post", "loop")
  /\ \E p \in hand, found \in BOOLEAN :
       events' = Append(events, [pkt |-> p, found |-> p.host \in IPs \/ found])
  /\ hand' = {}
  /\ UNCHANGED <<mutex, packets, terminate, gpc, made, handled, discarded, leaked, gameVars, missed>>

\* loopv(m_packets) delete m_packets[i]; the entries stay in the vector, which
\* nobody reads again, so they leave the model here.
Drain ==
  /\ WorkerAt("drain", "unlock")
  /\ discarded' = discarded \cup Elems(packets)
  /\ packets' = <<>>
  /\ UNCHANGED <<mutex, terminate, hand, events, gpc, made, handled, leaked, gameVars, missed>>

WorkerUnlock ==
  /\ WorkerAt("unlock", "done")
  /\ mutex' = Free
  /\ UNCHANGED <<packets, terminate, hand, events, gpc, made, handled, discarded, leaked, gameVars, missed>>

WorkerStep ==
  \/ Lock \/ Loop \/ Look \/ Wait \/ Reacquire \/ Retest
  \/ Take \/ Resolve \/ Post \/ Drain \/ WorkerUnlock

-----------------------------------------------------------------------------
(* The GUI thread.                                                         *)

GuiAt(from, to) == gpc = from /\ gpc' = to

\* Mutation: every packet is added at the end.
EnqueueLast(p) == packets' = Append(packets, p)

\* m_packets.add for an address, m_packets.insert(0) for a name.
Enqueue(p) == packets' = IF p.host \in IPs THEN Append(packets, p) ELSE <<p>> \o packets

\* A server becomes known (a master's list, the saved list, the add dialog):
\* CslGame::AddServer, which knows servers by host and both ports, then
\* CslEngine::ResolveHost, whose packet has the host and the info port only, up to
\* the end of m_section.
Register(s) ==
  /\ GuiAt("idle", "trylock")
  /\ s \notin Listed
  /\ made < MaxPackets
  /\ made' = made + 1
  /\ Enqueue([n |-> made + 1, host |-> HostOf[s]])
  /\ servers' = Append(servers, s)
  /\ pingable' = IF HostOf[s] \in IPs THEN pingable \cup {s} ELSE pingable
  /\ UNCHANGED <<mutex, terminate, workerVars, events, handled, failed, unasked, shadowed, missed>>

\* OnIPC adds a server that another program names and nobody knows, and does not
\* ask for its address.  It looks for one with the address that the host has now,
\* which finds a listed one of the same dotted address.
AddNamed(s) ==
  /\ gpc = "idle"
  /\ s \notin Listed
  /\ HostOf[s] \in IPs => Found(HostOf[s]) = {}
  /\ servers' = Append(servers, s)
  /\ pingable' = IF HostOf[s] \in IPs THEN pingable \cup {s} ELSE pingable
  /\ unasked' = unasked \cup {s}
  /\ UNCHANGED <<mutex, packets, terminate, workerVars, events, gpc, made, handled, failed, shadowed, missed>>

\* Mutation: AddPacket never signals.
TryLockQuiet ==
  /\ GuiAt("trylock", "idle")
  /\ missed' = (missed \/ wpc = "wait")
  /\ UNCHANGED <<mutex, packets, terminate, workerVars, events, made, handled, gameVars>>

\* m_mutex.TryLock() in AddPacket; when the worker owns m_mutex nobody signals.
TryLock ==
  /\ gpc = "trylock"
  /\ IF mutex = Free
       THEN mutex' = Gui /\ gpc' = "signal" /\ UNCHANGED missed
       ELSE gpc' = "idle" /\ missed' = (missed \/ wpc = "wait") /\ UNCHANGED mutex
  /\ UNCHANGED <<packets, terminate, workerVars, events, made, handled, gameVars>>

\* m_condition->Signal(): wakes the worker if it waits, else does nothing.
Signal(from, to) ==
  /\ GuiAt(from, to)
  /\ IF wpc = "asleep"
       THEN wpc' = "wake" /\ missed' = FALSE
       ELSE UNCHANGED <<wpc, missed>>
  /\ UNCHANGED <<mutex, packets, terminate, hand, events, made, handled, discarded, leaked, gameVars>>

GuiUnlock(from, to) ==
  /\ GuiAt(from, to)
  /\ mutex' = Free
  /\ UNCHANGED <<packets, terminate, workerVars, events, made, handled, gameVars, missed>>

\* The list drops a server (CslGame::DeleteServer) while packets may be under way.
Unregister(s) ==
  /\ gpc = "idle"
  /\ \E i \in 1..Len(servers) : servers[i] = s /\ servers' = RemoveAt(servers, i)
  /\ pingable' = pingable \ {s}
  /\ failed' = failed \ {s}
  /\ unasked' = unasked \ {s}
  /\ shadowed' = shadowed \ {s}
  /\ UNCHANGED <<mutex, packets, terminate, workerVars, events, gpc, made, handled, missed>>

\* CslEngine::OnResolveHost.  The server is looked up again by host and info port,
\* which finds the first of that host; after DeInit there is no game and the packet
\* is only deleted.
OnResolveHost ==
  /\ gpc \in {"idle", "deinit"}
  /\ events # <<>>
  /\ LET e == Head(events)
         same == {s \in Listed : HostOf[s] = e.pkt.host}
     IN /\ pingable' = IF e.found THEN pingable \cup Found(e.pkt.host) ELSE pingable
        /\ failed' = IF e.found THEN failed ELSE failed \cup same
        /\ shadowed' = IF e.found THEN shadowed \cup (same \ Found(e.pkt.host)) ELSE shadowed
        /\ handled' = handled \cup {e.pkt}
  /\ events' = Tail(events)
  /\ UNCHANGED <<mutex, packets, terminate, workerVars, gpc, made, servers, unasked, missed>>

\* CslEngine::DeInit deletes the games and with them every server.
DeInit ==
  /\ GuiAt("idle", "deinit")
  /\ servers' = <<>> /\ pingable' = {} /\ failed' = {} /\ unasked' = {} /\ shadowed' = {}
  /\ UNCHANGED <<mutex, packets, terminate, workerVars, events, made, handled, missed>>

\* ~CslEngine, Terminate(): m_terminate=true, not under m_mutex.
SetTerminate ==
  /\ GuiAt("deinit", "termlock")
  /\ terminate' = TRUE
  /\ UNCHANGED <<mutex, packets, workerVars, events, made, handled, gameVars, missed>>

\* wxMutexLocker lock(m_mutex), which blocks.
TerminateLock ==
  /\ GuiAt("termlock", "termsignal")
  /\ mutex = Free
  /\ mutex' = Gui
  /\ UNCHANGED <<packets, terminate, workerVars, events, made, handled, gameVars, missed>>

\* m_resolveThread->Wait() returns once the worker has left Entry().
Join ==
  /\ GuiAt("join", "gone")
  /\ wpc = "done"
  /\ UNCHANGED <<mutex, packets, terminate, workerVars, events, made, handled, gameVars, missed>>

\* The part of the GUI thread that runs to its end once begun.
GuiStep ==
  \/ TryLock
  \/ Signal("signal", "unlock") \/ GuiUnlock("unlock", "idle")
  \/ SetTerminate \/ TerminateLock
  \/ Signal("termsignal", "termunlock") \/ GuiUnlock("termunlock", "join") \/ Join

Next ==
  \/ WorkerStep \/ SpuriousWake
  \/ GuiStep \/ OnResolveHost \/ DeInit
  \/ \E s \in Servers : Register(s) \/ AddNamed(s) \/ Unregister(s)

\* Both threads keep running; the user need not do anything and a condition
\* need not wake by itself.
Fairness == WF_vars(WorkerStep) /\ WF_vars(GuiStep) /\ WF_vars(OnResolveHost)

Spec == Init /\ [][Next]_vars /\ Fairness

-----------------------------------------------------------------------------
(* Properties.                                                             *)

\* No server is listed twice, and what is recorded of a server goes with it.
ListedOK ==
  /\ servers \in Seq(Servers)
  /\ \A i, j \in 1..Len(servers) : servers[i] = servers[j] => i = j
  /\ pingable \cup failed \cup unasked \cup shadowed \subseteq Listed

\* Types; m_packets[0] is read only when there is one, although the length was tested
\* outside m_section (CslEngine.cpp:58-62).
TypeOK ==
  /\ mutex \in {Worker, Gui, Free}
  /\ packets \in Seq(Packet)
  /\ terminate \in BOOLEAN
  /\ wpc \in WorkerPCs
  /\ wpc = "take" => packets # <<>>
  /\ hand \in SUBSET Packet
  /\ events \in Seq([pkt : Packet, found : BOOLEAN])
  /\ gpc \in GuiPCs
  /\ made \in 0..MaxPackets
  /\ handled \in SUBSET Packet
  /\ discarded \in SUBSET Packet
  /\ leaked \in SUBSET Packet
  /\ ListedOK
  /\ missed \in BOOLEAN

\* m_mutex is owned by exactly the thread whose position says so: the worker
\* keeps it through the whole lookup and loses it only inside Wait(), and the
\* two threads never own it together (CslEngine.cpp:45-105).
MutexInv ==
  /\ mutex = Worker <=> wpc \notin {"lock", "asleep", "wake", "done"}
  /\ mutex = Gui <=> gpc \in {"signal", "unlock", "termsignal", "termunlock"}

Posted == {e.pkt : e \in Elems(events)}
Gone   == handled \cup discarded \cup leaked

\* No packet is in two places: one that OnResolveHost or the worker's exit has
\* deleted is neither queued, nor in the worker's hand, nor posted again, so
\* nothing is deleted twice or used after it is deleted (CslEngine.cpp:61-77,1034).
PacketOnce ==
  /\ \A i, j \in 1..Len(packets) : packets[i] = packets[j] => i = j
  /\ \A i, j \in 1..Len(events) : events[i].pkt = events[j].pkt => i = j
  /\ Elems(packets) \cap (hand \cup Posted \cup Gone) = {}
  /\ hand \cap (Posted \cup Gone) = {}
  /\ Posted \cap Gone = {}
  /\ handled \cap (discarded \cup leaked) = {}
  /\ discarded \cap leaked = {}

Outstanding(h) == \E p \in Elems(packets) \cup hand \cup Posted : p.host = h

\* A listed server that cannot be pinged yet has its lookup under way or has seen it
\* fail: no request was dropped.  Two kinds are left out, the servers that other
\* programs name, for which nobody asks, and those that stood behind another one of the
\* same host and info port when an answer came, which went to that one although
\* AddServer keeps the two apart by their game ports
\* (CslEngine.cpp:171,1004-1031, CslGame.cpp:145-163,214-226, CslGame.h:271-274,
\* CslFrame.cpp:3009-3018).
NoRequestLost ==
  \A s \in Listed \ (pingable \cup unasked \cup shadowed) :
    s \in failed \/ Outstanding(HostOf[s])

\* The worker sleeps on a non-empty queue, with no signal about to come, only
\* when a packet was added between its length test and its Wait(), where
\* TryLock fails and AddPacket does not signal (CslEngine.cpp:51-54,93).
StrandedOnlyInWindow ==
  wpc = "asleep" /\ packets # <<>> /\ gpc \notin {"trylock", "signal"} => missed

\* Shutdown ends: once m_terminate is set the join in ~CslEngine returns,
\* wherever the worker was (CslEngine.cpp:100-105,113-124).
ShutdownEnds == terminate ~> gpc = "gone"

\* A worker that is awake goes through the whole queue before it sleeps again.
AwakeDrains == wpc = "retest" ~> (packets = <<>> \/ terminate)

\* The thread, its locks and its queue do what the lookup service promises: a
\* packet in m_packets is pending, the one in the worker's hand is looked up,
\* and the ones posted or handled are answered.
Service == INSTANCE LookupService WITH
  pending  <- Elems(packets),
  current  <- hand,
  answered <- Posted \cup handled,
  dropped  <- discarded \cup leaked,
  closed   <- terminate

ImplementsService == Service!Spec
=============================================================================
