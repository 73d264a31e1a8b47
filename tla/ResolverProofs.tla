---------------------------- MODULE ResolverProofs ----------------------------
(***************************************************************************)
(* Proofs about the resolver thread, for every set of servers and every      *)
(* number of packets.  They go in layers: types, who owns m_mutex, what    *)
(* the worker holds, and where each packet is.                             *)
(***************************************************************************)
EXTENDS Resolver, SequenceTheorems, TLAPS

-----------------------------------------------------------------------------
(* Sequences as the queue uses them.                                       *)

\* Appending puts one element behind the others.
LEMMA ElemsOfAppend ==
  ASSUME NEW S, NEW s \in Seq(S), NEW e \in S
  PROVE  /\ Append(s, e) \in Seq(S)
         /\ Append(s, e) # <<>>
         /\ Elems(Append(s, e)) = Elems(s) \cup {e}
BY DEF Elems

\* Inserting at the head puts one element before the others.
LEMMA ElemsOfPush ==
  ASSUME NEW S, NEW s \in Seq(S), NEW e \in S
  PROVE  /\ <<e>> \o s \in Seq(S)
         /\ <<e>> \o s # <<>>
         /\ Elems(<<e>> \o s) = Elems(s) \cup {e}
<1>1. <<e>> \in Seq(S) /\ Len(<<e>>) = 1 /\ <<e>>[1] = e
  OBVIOUS
<1>2. /\ <<e>> \o s \in Seq(S)
      /\ Len(<<e>> \o s) = 1 + Len(s)
      /\ \A i \in 1..(1 + Len(s)) :
           (<<e>> \o s)[i] = IF i <= 1 THEN <<e>>[i] ELSE s[i - 1]
  BY <1>1, ConcatProperties
<1>3. ASSUME NEW x \in Elems(s) PROVE x \in Elems(<<e>> \o s)
  <2>1. PICK i \in 1..Len(s) : x = s[i]
    BY DEF Elems
  <2>2. i + 1 \in 1..(1 + Len(s)) /\ (<<e>> \o s)[i + 1] = s[i]
    BY <1>2
  <2> QED BY <2>1, <2>2, <1>2 DEF Elems
<1>4. e \in Elems(<<e>> \o s)
  BY <1>1, <1>2 DEF Elems
<1>5. ASSUME NEW x \in Elems(<<e>> \o s) PROVE x \in Elems(s) \cup {e}
  BY <1>1, <1>2 DEF Elems
<1> QED BY <1>2, <1>3, <1>4, <1>5

\* Taking the head leaves the others.
LEMMA ElemsOfTail ==
  ASSUME NEW S, NEW s \in Seq(S), s # <<>>
  PROVE  /\ Head(s) \in S
         /\ Tail(s) \in Seq(S)
         /\ Elems(s) = {Head(s)} \cup Elems(Tail(s))
BY HeadTailProperties DEF Elems

\* Removing by position takes out one element; the others keep their order.
LEMMA RemoveAtProperties ==
  ASSUME NEW S, NEW s \in Seq(S), NEW i \in 1..Len(s)
  PROVE  /\ RemoveAt(s, i) \in Seq(S)
         /\ Len(RemoveAt(s, i)) = Len(s) - 1
         /\ \A k \in 1..(Len(s) - 1) : RemoveAt(s, i)[k] = IF k < i THEN s[k] ELSE s[k + 1]
<1> DEFINE a == SubSeq(s, 1, i - 1)
           b == SubSeq(s, i + 1, Len(s))
<1>1. a \in Seq(S) /\ Len(a) = i - 1 /\ \A k \in 1..(i - 1) : a[k] = s[k]
  <2>1. \A k \in 1..(i - 1) : s[k] \in S
    BY ElementOfSeq
  <2> QED BY <2>1, SubSeqProperties
<1>2. b \in Seq(S) /\ Len(b) = Len(s) - i /\ \A k \in 1..(Len(s) - i) : b[k] = s[k + i]
  <2>1. \A k \in (i + 1)..Len(s) : s[k] \in S
    BY ElementOfSeq
  <2> QED BY <2>1, SubSeqProperties
<1>3. RemoveAt(s, i) = a \o b
  BY DEF RemoveAt
<1> HIDE DEF a, b
<1>4. /\ a \o b \in Seq(S) /\ Len(a \o b) = Len(a) + Len(b)
      /\ \A k \in 1..(Len(a) + Len(b)) : (a \o b)[k] = IF k <= Len(a) THEN a[k] ELSE b[k - Len(a)]
  BY <1>1, <1>2, ConcatProperties
<1>5. Len(a) + Len(b) = Len(s) - 1 /\ Len(s) \in Nat
  BY <1>1, <1>2
<1>6. ASSUME NEW k \in 1..(Len(s) - 1)
      PROVE  (a \o b)[k] = IF k < i THEN s[k] ELSE s[k + 1]
  <2>1. CASE k < i
    BY <1>1, <1>4, <1>5, <2>1
  <2>2. CASE k >= i
    <3>1. k - Len(a) \in 1..(Len(s) - i) /\ k - Len(a) + i = k + 1
      BY <1>1, <2>2
    <3> QED BY <1>1, <1>2, <1>4, <1>5, <2>2, <3>1
  <2>3. k < i \/ k >= i
    BY <1>5
  <2> QED BY <2>1, <2>2, <2>3
<1> QED BY <1>3, <1>4, <1>5, <1>6

\* Of distinct elements the others are left, and distinct.
LEMMA ElemsOfRemove ==
  ASSUME NEW S, NEW s \in Seq(S), NEW i \in 1..Len(s),
         \A k, j \in 1..Len(s) : s[k] = s[j] => k = j
  PROVE  /\ Elems(RemoveAt(s, i)) = Elems(s) \ {s[i]}
         /\ \A k, j \in 1..Len(RemoveAt(s, i)) :
              RemoveAt(s, i)[k] = RemoveAt(s, i)[j] => k = j
<1> DEFINE t == RemoveAt(s, i)
<1>1. /\ Len(t) = Len(s) - 1 /\ Len(s) \in Nat
      /\ \A k \in 1..(Len(s) - 1) : t[k] = IF k < i THEN s[k] ELSE s[k + 1]
  <2>1. Len(s) \in Nat
    OBVIOUS
  <2> QED BY <2>1, RemoveAtProperties
<1> HIDE DEF t
<1>2. ASSUME NEW x \in Elems(s), x # s[i] PROVE x \in Elems(t)
  <2>1. PICK k \in 1..Len(s) : x = s[k]
    BY DEF Elems
  <2>2. CASE k < i
    <3>1. k \in 1..Len(t) /\ t[k] = x
      BY <1>1, <2>1, <2>2
    <3> QED BY <3>1 DEF Elems
  <2>3. CASE k > i
    <3>1. k - 1 \in 1..Len(t) /\ t[k - 1] = x
      BY <1>1, <2>1, <2>3
    <3> QED BY <3>1 DEF Elems
  <2> QED BY <1>2, <2>1, <2>2, <2>3
<1>3. ASSUME NEW k \in 1..Len(t)
      PROVE  \E j \in 1..Len(s) : t[k] = s[j] /\ j # i
  <2>1. CASE k < i
    BY <1>1, <2>1
  <2>2. CASE k >= i
    BY <1>1, <2>2
  <2> QED BY <1>1, <2>1, <2>2
<1>4. Elems(t) = Elems(s) \ {s[i]}
  BY <1>2, <1>3 DEF Elems
<1>5. \A k, j \in 1..Len(t) : t[k] = t[j] => k = j
  BY <1>1
<1> QED BY <1>4, <1>5 DEF t

-----------------------------------------------------------------------------
(* Types.                                                                  *)

\* FindServerByAddr finds a listed server of the host, if any.
LEMMA FoundListed ==
  ASSUME TypeOK, NEW h
  PROVE  Found(h) \subseteq {s \in Listed : HostOf[s] = h}
BY DEF Found, Listed, Elems

\* Distinct elements stay distinct when one more is added behind them.
LEMMA DistinctAppend ==
  ASSUME NEW S, NEW s \in Seq(S), NEW e \in S, e \notin Elems(s),
         \A i, j \in 1..Len(s) : s[i] = s[j] => i = j
  PROVE  \A i, j \in 1..Len(Append(s, e)) : Append(s, e)[i] = Append(s, e)[j] => i = j
BY DEF Elems

\* The steps that leave the servers alone.
LEMMA ListedStill == ListedOK /\ UNCHANGED gameVars => ListedOK'
BY DEF ListedOK, gameVars, Listed, Elems

\* A new server goes to the end of the list.
LEMMA ListedGrows ==
  ASSUME TypeOK, NEW s \in Servers \ Listed, servers' = Append(servers, s),
         failed' = failed, shadowed' = shadowed,
         pingable' \subseteq pingable \cup {s}, unasked' \subseteq unasked \cup {s}
  PROVE  ListedOK'
<1>1. /\ servers' \in Seq(Servers) /\ Elems(servers') = Elems(servers) \cup {s}
      /\ \A i, j \in 1..Len(servers') : servers'[i] = servers'[j] => i = j
  BY ElemsOfAppend, DistinctAppend DEF TypeOK, ListedOK, Listed
<1> QED BY <1>1 DEF TypeOK, ListedOK, Listed

\* Every step keeps the types, with what they say of the worker: it never takes from an
\* empty queue, since only the worker removes packets between its test of the length and
\* the removal (CslEngine.cpp:58-63).
LEMMA TypeStep == TypeOK /\ [Next]_vars => TypeOK'
<1> SUFFICES ASSUME TypeOK, [Next]_vars PROVE TypeOK'
  OBVIOUS
<1> USE ResolverAssumption DEF TypeOK, WorkerAt, GuiAt, workerVars, WorkerPCs, GuiPCs
<1>1. CASE Lock
  BY <1>1, ListedStill DEF Lock
<1>2. CASE Loop
  BY <1>2, ListedStill DEF Loop
<1>3. CASE Look
  BY <1>3, ListedStill DEF Look
<1>4. CASE Wait
  BY <1>4, ListedStill DEF Wait
<1>5. CASE Reacquire
  BY <1>5, ListedStill DEF Reacquire
<1>6. CASE Retest
  BY <1>6, ListedStill DEF Retest
<1>7. CASE Take
  <2>1. Head(packets) \in Packet /\ Tail(packets) \in Seq(Packet)
    BY <1>7, ElemsOfTail DEF Take
  <2> QED BY <1>7, <2>1, ListedStill DEF Take
<1>8. CASE Resolve
  BY <1>8, ListedStill DEF Resolve
<1>9. CASE Post
  <2>1. PICK p \in hand, found \in BOOLEAN :
          events' = Append(events, [pkt |-> p, found |-> p.host \in IPs \/ found])
    BY <1>9 DEF Post
  <2>2. [pkt |-> p, found |-> p.host \in IPs \/ found] \in [pkt : Packet, found : BOOLEAN]
    OBVIOUS
  <2>3. events' \in Seq([pkt : Packet, found : BOOLEAN])
    BY <2>1, <2>2, ElemsOfAppend
  <2> QED BY <1>9, <2>3, ListedStill DEF Post
<1>10. CASE Drain
  <2>1. Elems(packets) \subseteq Packet /\ <<>> \in Seq(Packet)
    BY DEF Elems
  <2> QED BY <1>10, <2>1, ListedStill DEF Drain
<1>11. CASE WorkerUnlock
  BY <1>11, ListedStill DEF WorkerUnlock
<1>12. CASE SpuriousWake
  BY <1>12, ListedStill DEF SpuriousWake
<1>13. CASE TryLock
  BY <1>13, ListedStill DEF TryLock
<1>14. ASSUME NEW from, NEW to \in GuiPCs, Signal(from, to) PROVE TypeOK'
  BY <1>14, ListedStill DEF Signal
<1>15. ASSUME NEW from, NEW to \in GuiPCs, GuiUnlock(from, to) PROVE TypeOK'
  BY <1>15, ListedStill DEF GuiUnlock
<1>16. CASE SetTerminate
  BY <1>16, ListedStill DEF SetTerminate
<1>17. CASE TerminateLock
  BY <1>17, ListedStill DEF TerminateLock
<1>18. CASE Join
  BY <1>18, ListedStill DEF Join
<1>19. CASE OnResolveHost
  <2>1. /\ Head(events) \in [pkt : Packet, found : BOOLEAN]
        /\ Tail(events) \in Seq([pkt : Packet, found : BOOLEAN])
    BY <1>19, ElemsOfTail DEF OnResolveHost
  <2>2. Head(events).pkt \in Packet
    BY <2>1
  <2>3. Found(Head(events).pkt.host) \subseteq Listed
    BY FoundListed
  <2>4. pingable' \cup failed' \cup unasked' \cup shadowed' \subseteq Listed'
    BY <1>19, <2>3 DEF OnResolveHost, Listed, ListedOK
  <2>5. ListedOK'
    BY <1>19, <2>4 DEF OnResolveHost, ListedOK
  <2> QED BY <1>19, <2>1, <2>2, <2>5 DEF OnResolveHost
<1>20. CASE DeInit
  BY <1>20 DEF DeInit, Listed, Elems, ListedOK
<1>21. ASSUME NEW s \in Servers, Register(s) PROVE TypeOK'
  <2> DEFINE p == [n |-> made + 1, host |-> HostOf[s]]
  <2>1. p \in Packet
    BY <1>21 DEF Register, Packet
  <2>2. packets' \in Seq(Packet) /\ packets' # <<>>
    BY <1>21, <2>1, ElemsOfAppend, ElemsOfPush DEF Register, Enqueue
  <2>3. made' \in 0..MaxPackets
    BY <1>21 DEF Register
  <2>4. ListedOK'
    BY <1>21, ListedGrows DEF Register
  <2> QED BY <1>21, <2>2, <2>3, <2>4 DEF Register
<1>22. ASSUME NEW s \in Servers, AddNamed(s) PROVE TypeOK'
  <2>1. ListedOK'
    BY <1>22, ListedGrows DEF AddNamed
  <2> QED BY <1>22, <2>1 DEF AddNamed
<1>24. ASSUME NEW s \in Servers, Unregister(s) PROVE TypeOK'
  <2>1. PICK i \in 1..Len(servers) : servers[i] = s /\ servers' = RemoveAt(servers, i)
    BY <1>24 DEF Unregister
  <2>2. /\ servers' \in Seq(Servers) /\ Elems(servers') = Elems(servers) \ {s}
        /\ \A k, j \in 1..Len(servers') : servers'[k] = servers'[j] => k = j
    <3>1. servers \in Seq(Servers) /\ \A k, j \in 1..Len(servers) : servers[k] = servers[j] => k = j
      BY DEF ListedOK
    <3>2. RemoveAt(servers, i) \in Seq(Servers)
      BY <3>1, RemoveAtProperties
    <3>3. /\ Elems(RemoveAt(servers, i)) = Elems(servers) \ {servers[i]}
          /\ \A k, j \in 1..Len(RemoveAt(servers, i)) :
               RemoveAt(servers, i)[k] = RemoveAt(servers, i)[j] => k = j
      BY <3>1, ElemsOfRemove
    <3> QED BY <2>1, <3>2, <3>3
  <2>3. ListedOK'
    BY <1>24, <2>2 DEF Unregister, Listed, ListedOK
  <2> QED BY <1>24, <2>3 DEF Unregister
<1>23. CASE UNCHANGED vars
  BY <1>23, ListedStill DEF vars, gameVars
<1> QED
  BY <1>1, <1>2, <1>3, <1>4, <1>5, <1>6, <1>7, <1>8, <1>9, <1>10, <1>11, <1>12, <1>13,
     <1>14, <1>15, <1>16, <1>17, <1>18, <1>19, <1>20, <1>21, <1>22, <1>23, <1>24
     DEF Next, WorkerStep, GuiStep

\* The types hold at the start.
LEMMA TypeInit == Init => TypeOK
<1>1. <<>> \in Seq(Packet) /\ <<>> \in Seq([pkt : Packet, found : BOOLEAN])
  OBVIOUS
<1>2. 0 \in 0..MaxPackets
  BY ResolverAssumption
<1>3. Init => ListedOK
  BY DEF Init, ListedOK, Listed, Elems
<1> QED BY <1>1, <1>2, <1>3 DEF Init, TypeOK, WorkerPCs, GuiPCs

\* The types hold in every state.
THEOREM TypeCorrect == Spec => []TypeOK
<1> QED BY TypeInit, TypeStep, PTL DEF Spec

-----------------------------------------------------------------------------
(* Who owns m_mutex.                                                       *)

\* A step of either thread keeps m_mutex with the thread whose position says
\* it owns it.
LEMMA MutexStep == TypeOK /\ MutexInv /\ [Next]_vars => MutexInv'
<1> SUFFICES ASSUME TypeOK, MutexInv, [Next]_vars PROVE MutexInv'
  OBVIOUS
<1> USE DEF MutexInv, TypeOK, WorkerAt, GuiAt, workerVars, gameVars,
        WorkerPCs, GuiPCs, Worker, Gui, Free
<1>1. CASE Lock
  BY <1>1 DEF Lock
<1>2. CASE Loop
  BY <1>2 DEF Loop
<1>3. CASE Look
  BY <1>3 DEF Look
<1>4. CASE Wait
  BY <1>4 DEF Wait
<1>5. CASE Reacquire
  BY <1>5 DEF Reacquire
<1>6. CASE Retest
  BY <1>6 DEF Retest
<1>7. CASE Take
  BY <1>7 DEF Take
<1>8. CASE Resolve
  BY <1>8 DEF Resolve
<1>9. CASE Post
  BY <1>9 DEF Post
<1>10. CASE Drain
  BY <1>10 DEF Drain
<1>11. CASE WorkerUnlock
  BY <1>11 DEF WorkerUnlock
<1>12. CASE SpuriousWake
  BY <1>12 DEF SpuriousWake
<1>13. CASE TryLock
  BY <1>13 DEF TryLock
<1>14. CASE SetTerminate
  BY <1>14 DEF SetTerminate
<1>15. CASE TerminateLock
  BY <1>15 DEF TerminateLock
<1>16. CASE Join
  BY <1>16 DEF Join
<1>17. CASE OnResolveHost
  BY <1>17 DEF OnResolveHost
<1>18. CASE DeInit
  BY <1>18 DEF DeInit
<1>19. CASE Signal("signal", "unlock") \/ Signal("termsignal", "termunlock")
  BY <1>19 DEF Signal
<1>20. CASE GuiUnlock("unlock", "idle") \/ GuiUnlock("termunlock", "join")
  BY <1>20 DEF GuiUnlock
<1>21. ASSUME NEW s \in Servers, Register(s) PROVE MutexInv'
  BY <1>21 DEF Register
<1>22. ASSUME NEW s \in Servers, Unregister(s) \/ AddNamed(s) PROVE MutexInv'
  BY <1>22 DEF Unregister, AddNamed
<1>23. CASE UNCHANGED vars
  BY <1>23 DEF vars
<1> QED
  BY <1>1, <1>2, <1>3, <1>4, <1>5, <1>6, <1>7, <1>8, <1>9, <1>10, <1>11,
     <1>12, <1>13, <1>14, <1>15, <1>16, <1>17, <1>18, <1>19, <1>20, <1>21,
     <1>22, <1>23
     DEF Next, WorkerStep, GuiStep

\* m_mutex has one owner at a time, the thread whose position says so.
THEOREM MutexCorrect == Spec => []MutexInv
<1>1. Init => TypeOK /\ MutexInv
  BY TypeInit DEF Init, MutexInv, Worker, Gui, Free
<1>2. TypeOK /\ MutexInv /\ [Next]_vars => (TypeOK /\ MutexInv)'
  BY TypeStep, MutexStep
<1> QED BY <1>1, <1>2, PTL DEF Spec

-----------------------------------------------------------------------------
(* The lost wakeup.                                                        *)

\* StrandedOnlyInWindow needs what is true a step earlier: a worker about to
\* Wait() has seen an empty queue, so a packet there now came after the test,
\* and AddPacket is either still at its TryLock or has missed the worker.
WindowInv ==
  /\ StrandedOnlyInWindow
  /\ wpc = "wait" /\ packets # <<>> /\ gpc # "trylock" => missed

\* Every step of the GUI thread or the worker keeps WindowInv.
LEMMA WindowStep == TypeOK /\ MutexInv /\ WindowInv /\ [Next]_vars => WindowInv'
<1> SUFFICES ASSUME TypeOK, MutexInv, WindowInv, [Next]_vars PROVE WindowInv'
  OBVIOUS
<1> USE DEF WindowInv, StrandedOnlyInWindow, MutexInv, TypeOK, WorkerAt, GuiAt,
        workerVars, gameVars, WorkerPCs, GuiPCs, Worker, Gui, Free
<1>1. CASE Lock
  BY <1>1 DEF Lock
<1>2. CASE Loop
  BY <1>2 DEF Loop
<1>3. CASE Look
  BY <1>3 DEF Look
<1>4. CASE Wait
  BY <1>4 DEF Wait
<1>5. CASE Reacquire
  BY <1>5 DEF Reacquire
<1>6. CASE Retest
  BY <1>6 DEF Retest
<1>7. CASE Take
  BY <1>7 DEF Take
<1>8. CASE Resolve
  BY <1>8 DEF Resolve
<1>9. CASE Post
  BY <1>9 DEF Post
<1>10. CASE Drain
  BY <1>10 DEF Drain
<1>11. CASE WorkerUnlock
  BY <1>11 DEF WorkerUnlock
<1>12. CASE SpuriousWake
  BY <1>12 DEF SpuriousWake
<1>13. CASE TryLock
  BY <1>13 DEF TryLock
<1>14. CASE SetTerminate
  BY <1>14 DEF SetTerminate
<1>15. CASE TerminateLock
  BY <1>15 DEF TerminateLock
<1>16. CASE Join
  BY <1>16 DEF Join
<1>17. CASE OnResolveHost
  BY <1>17 DEF OnResolveHost
<1>18. CASE DeInit
  BY <1>18 DEF DeInit
<1>19. CASE Signal("signal", "unlock") \/ Signal("termsignal", "termunlock")
  BY <1>19 DEF Signal
<1>20. CASE GuiUnlock("unlock", "idle") \/ GuiUnlock("termunlock", "join")
  BY <1>20 DEF GuiUnlock
<1>21. ASSUME NEW s \in Servers, Register(s) PROVE WindowInv'
  BY <1>21 DEF Register
<1>22. ASSUME NEW s \in Servers, Unregister(s) \/ AddNamed(s) PROVE WindowInv'
  BY <1>22 DEF Unregister, AddNamed
<1>23. CASE UNCHANGED vars
  BY <1>23 DEF vars
<1> QED
  BY <1>1, <1>2, <1>3, <1>4, <1>5, <1>6, <1>7, <1>8, <1>9, <1>10, <1>11,
     <1>12, <1>13, <1>14, <1>15, <1>16, <1>17, <1>18, <1>19, <1>20, <1>21,
     <1>22, <1>23
     DEF Next, WorkerStep, GuiStep

\* The only packets the worker sleeps on are those added between its test of
\* the queue and its Wait().
THEOREM OnlyWindowStrands == Spec => []StrandedOnlyInWindow
<1>1. Init => TypeOK /\ MutexInv /\ WindowInv
  BY TypeInit DEF Init, MutexInv, WindowInv, StrandedOnlyInWindow, Worker, Gui, Free
<1>2. TypeOK /\ MutexInv /\ WindowInv /\ [Next]_vars => (TypeOK /\ MutexInv /\ WindowInv)'
  BY TypeStep, MutexStep, WindowStep
<1>3. WindowInv => StrandedOnlyInWindow
  BY DEF WindowInv
<1> QED BY <1>1, <1>2, <1>3, PTL DEF Spec

-----------------------------------------------------------------------------
(* Where each packet is.                                                   *)

\* Distinct elements stay distinct when one more is added before them.
LEMMA DistinctPush ==
  ASSUME NEW S, NEW s \in Seq(S), NEW e \in S, e \notin Elems(s),
         \A i, j \in 1..Len(s) : s[i] = s[j] => i = j
  PROVE  \A i, j \in 1..Len(<<e>> \o s) : (<<e>> \o s)[i] = (<<e>> \o s)[j] => i = j
<1>1. <<e>> \in Seq(S) /\ Len(<<e>>) = 1 /\ <<e>>[1] = e
  OBVIOUS
<1>2. /\ Len(<<e>> \o s) = 1 + Len(s)
      /\ \A i \in 1..(1 + Len(s)) :
           (<<e>> \o s)[i] = IF i <= 1 THEN e ELSE s[i - 1]
  BY <1>1, ConcatProperties
<1>3. \A i \in 1..Len(s) : s[i] # e
  BY DEF Elems
<1> DEFINE t == <<e>> \o s
<1>4. t[1] = e /\ \A i \in 2..Len(t) : i - 1 \in 1..Len(s) /\ t[i] = s[i - 1]
  BY <1>2
<1> HIDE DEF t
<1>5. ASSUME NEW i \in 1..Len(t), NEW j \in 1..Len(t), t[i] = t[j] PROVE i = j
  <2>1. CASE i = 1 \/ j = 1
    BY <1>3, <1>4, <1>5, <2>1
  <2>2. CASE i \in 2..Len(t) /\ j \in 2..Len(t)
    <3>1. i - 1 = j - 1
      BY <1>4, <1>5, <2>2
    <3> QED BY <2>2, <3>1
  <2>3. Len(t) \in Nat
    BY <1>2 DEF t
  <2> QED BY <2>1, <2>2, <2>3
<1> QED BY <1>5 DEF t

\* Taking the head of distinct elements leaves distinct ones, without it.
LEMMA DistinctTail ==
  ASSUME NEW S, NEW s \in Seq(S), s # <<>>,
         \A i, j \in 1..Len(s) : s[i] = s[j] => i = j
  PROVE  /\ Head(s) \notin Elems(Tail(s))
         /\ \A i, j \in 1..Len(Tail(s)) : Tail(s)[i] = Tail(s)[j] => i = j
BY HeadTailProperties DEF Elems

\* The same for the events, which are told apart by their packets.
LEMMA DistinctEventTail ==
  ASSUME NEW S, NEW s \in Seq(S), s # <<>>,
         \A i, j \in 1..Len(s) : s[i].pkt = s[j].pkt => i = j
  PROVE  /\ Head(s).pkt \notin {e.pkt : e \in Elems(Tail(s))}
         /\ \A i, j \in 1..Len(Tail(s)) : Tail(s)[i].pkt = Tail(s)[j].pkt => i = j
<1>1. /\ Len(Tail(s)) = Len(s) - 1
      /\ \A i \in 1..Len(Tail(s)) : Tail(s)[i] = s[i + 1]
      /\ Head(s) = s[1]
      /\ Len(s) \in Nat \ {0}
  BY HeadTailProperties
<1>2. \A i \in 1..Len(Tail(s)) : Tail(s)[i].pkt # Head(s).pkt
  BY <1>1
<1> QED BY <1>1, <1>2 DEF Elems

Everywhere == Elems(packets) \cup hand \cup Posted \cup Gone

\* A packet is new when it is queued because every earlier one has a smaller
\* number; the worker holds a packet exactly from the removal to the post.
PlaceInv ==
  /\ PacketOnce
  /\ hand # {} <=> wpc \in {"resolve", "post"}
  /\ \A p, q \in hand : p = q
  /\ \A p \in Everywhere : p.n <= made

\* The steps that move no packet and leave the worker's side of the hand-over.
LEMMA PlaceStill ==
  ASSUME PlaceInv, UNCHANGED <<packets, hand, events, made, handled, discarded, leaked>>,
         wpc' \in {"resolve", "post"} <=> wpc \in {"resolve", "post"}
  PROVE  PlaceInv'
BY DEF PlaceInv, PacketOnce, Everywhere, Posted, Gone, Elems

\* Every step keeps each packet in one place.
LEMMA PlaceStep == TypeOK /\ PlaceInv /\ [Next]_vars => PlaceInv'
<1> SUFFICES ASSUME TypeOK, PlaceInv, [Next]_vars PROVE PlaceInv'
  OBVIOUS
<1> USE DEF WorkerAt, GuiAt, workerVars, gameVars
<1>1. CASE Take
  <2>1. packets \in Seq(Packet) /\ packets # <<>>
    BY <1>1 DEF Take, TypeOK
  <2>2. /\ Elems(packets) = {Head(packets)} \cup Elems(Tail(packets))
        /\ Head(packets) \notin Elems(Tail(packets))
        /\ \A i, j \in 1..Len(Tail(packets)) : Tail(packets)[i] = Tail(packets)[j] => i = j
    BY <2>1, ElemsOfTail, DistinctTail DEF PlaceInv, PacketOnce
  <2>3. /\ Elems(packets') \cup hand' = Elems(packets) /\ hand = {}
        /\ Posted' = Posted /\ Gone' = Gone /\ made' = made /\ events' = events
        /\ handled' = handled /\ discarded' = discarded /\ leaked' = leaked
    BY <1>1, <2>2 DEF Take, Posted, Gone, PlaceInv
  <2> QED BY <1>1, <2>2, <2>3 DEF Take, PlaceInv, PacketOnce, Everywhere
<1>2. CASE Resolve
  <2>1. CASE terminate
    <3>1. leaked' = hand /\ hand' = {} /\ wpc' = "drain"
      BY <1>2, <2>1 DEF Resolve
    <3>2. UNCHANGED <<packets, events, made, handled, discarded>>
      BY <1>2 DEF Resolve
    <3>3. Elems(packets)' = Elems(packets) /\ Posted' = Posted
      BY <3>2 DEF Elems, Posted
    <3>4. Everywhere' \subseteq Everywhere /\ Gone' \subseteq Gone \cup hand
      BY <3>1, <3>2, <3>3 DEF Everywhere, Gone
    <3>5. PacketOnce'
      BY <3>1, <3>2, <3>3, <3>4 DEF PlaceInv, PacketOnce, Gone
    <3> QED BY <3>1, <3>2, <3>4, <3>5 DEF PlaceInv
  <2>2. CASE ~terminate
    BY <1>2, <2>2, PlaceStill DEF Resolve
  <2> QED BY <2>1, <2>2
<1>3. CASE Post
  <2>1. PICK p \in hand, found \in BOOLEAN :
          events' = Append(events, [pkt |-> p, found |-> p.host \in IPs \/ found])
    BY <1>3 DEF Post
  <2> DEFINE E == [pkt : Packet, found : BOOLEAN]
             e == [pkt |-> p, found |-> p.host \in IPs \/ found]
  <2>2. e \in E /\ events \in Seq(E) /\ e.pkt = p
    BY DEF TypeOK
  <2>3. Posted' = Posted \cup {p} /\ hand = {p} /\ hand' = {} /\ p \notin Posted
    <3>1. Elems(events') = Elems(events) \cup {e}
      <4> HIDE DEF e, E
      <4> QED BY <2>1, <2>2, ElemsOfAppend DEF e
    <3>2. Posted' = Posted \cup {p}
      BY <2>2, <3>1 DEF Posted
    <3>3. hand = {p} /\ p \notin Posted
      BY DEF PlaceInv, PacketOnce
    <3>4. hand' = {}
      BY <1>3 DEF Post
    <3> QED BY <3>2, <3>3, <3>4
  <2>4. /\ Len(events') = Len(events) + 1 /\ Len(events) \in Nat
        /\ \A i \in 1..Len(events) : events'[i] = events[i]
        /\ events'[Len(events) + 1] = e
    BY <2>1, <2>2
  <2>5. \A i \in 1..Len(events) : events[i].pkt # p
    BY <2>3 DEF Posted, Elems
  <2>6. \A i, j \in 1..Len(events') : events'[i].pkt = events'[j].pkt => i = j
    BY <2>2, <2>4, <2>5 DEF PlaceInv, PacketOnce
  <2>7. UNCHANGED <<packets, made, handled, discarded, leaked>> /\ wpc' = "loop"
    BY <1>3 DEF Post
  <2>8. Elems(packets)' = Elems(packets) /\ Gone' = Gone
    BY <2>7 DEF Elems, Gone
  <2> QED BY <2>3, <2>6, <2>7, <2>8 DEF PlaceInv, PacketOnce, Everywhere
<1>4. CASE Drain
  <2>1. Elems(packets') = {} /\ discarded' = discarded \cup Elems(packets)
    BY <1>4 DEF Drain, Elems
  <2>2. Posted' = Posted
    BY <1>4 DEF Drain, Posted
  <2> QED BY <1>4, <2>1, <2>2 DEF Drain, PlaceInv, PacketOnce, Everywhere, Gone
<1>5. CASE OnResolveHost
  <2> DEFINE E == [pkt : Packet, found : BOOLEAN]
  <2>1. events \in Seq(E) /\ events # <<>>
    BY <1>5 DEF OnResolveHost, TypeOK
  <2>2. /\ Head(events).pkt \notin {e.pkt : e \in Elems(Tail(events))}
        /\ \A i, j \in 1..Len(Tail(events)) :
             Tail(events)[i].pkt = Tail(events)[j].pkt => i = j
        /\ Elems(events) = {Head(events)} \cup Elems(Tail(events))
    BY <2>1, ElemsOfTail, DistinctEventTail DEF PlaceInv, PacketOnce
  <2>3. /\ Posted = Posted' \cup {Head(events).pkt}
        /\ Head(events).pkt \notin Posted'
        /\ handled' = handled \cup {Head(events).pkt}
    BY <1>5, <2>2 DEF OnResolveHost, Posted
  <2> QED
    BY <1>5, <2>2, <2>3 DEF OnResolveHost, PlaceInv, PacketOnce, Everywhere, Gone, Elems
<1>6. ASSUME NEW s \in Servers, Register(s) PROVE PlaceInv'
  <2> DEFINE p == [n |-> made + 1, host |-> HostOf[s]]
  <2>1. p \in Packet /\ packets \in Seq(Packet) /\ made \in Nat
    BY <1>6, ResolverAssumption DEF Register, Packet, TypeOK
  <2>2. p \notin Everywhere
    BY <2>1 DEF PlaceInv
  <2>3. Elems(packets') = Elems(packets) \cup {p}
    BY <1>6, <2>1, ElemsOfAppend, ElemsOfPush DEF Register, Enqueue
  <2>4. \A i, j \in 1..Len(packets') : packets'[i] = packets'[j] => i = j
    <3>1. p \notin Elems(packets)
      BY <2>2 DEF Everywhere
    <3>2. \A i, j \in 1..Len(packets) : packets[i] = packets[j] => i = j
      BY DEF PlaceInv, PacketOnce
    <3> HIDE DEF p
    <3>3. CASE packets' = Append(packets, p)
      BY <2>1, <3>1, <3>2, <3>3, DistinctAppend
    <3>4. CASE packets' = <<p>> \o packets
      BY <2>1, <3>1, <3>2, <3>4, DistinctPush
    <3>5. packets' = Append(packets, p) \/ packets' = <<p>> \o packets
      BY <1>6 DEF Register, Enqueue, p
    <3> QED BY <3>3, <3>4, <3>5
  <2>5. /\ UNCHANGED <<hand, events, handled, discarded, leaked, wpc>>
        /\ made' = made + 1 /\ Posted' = Posted /\ Gone' = Gone
    BY <1>6 DEF Register, Posted, Gone
  <2>6. Everywhere' = Everywhere \cup {p}
    BY <2>3, <2>5 DEF Everywhere
  <2>7. \A q \in Everywhere' : q.n <= made'
    <3>1. \A q \in Everywhere : q \in Packet
      <4>1. Elems(packets) \subseteq Packet
        BY <2>1 DEF Elems
      <4>2. Posted \subseteq Packet
        <5>1. events \in Seq([pkt : Packet, found : BOOLEAN])
          BY DEF TypeOK
        <5>2. ASSUME NEW i \in 1..Len(events) PROVE events[i].pkt \in Packet
          <6>1. events[i] \in [pkt : Packet, found : BOOLEAN]
            BY <5>1, ElementOfSeq
          <6> QED BY <6>1
        <5>3. ASSUME NEW q \in Posted PROVE q \in Packet
          <6>1. PICK e \in Elems(events) : q = e.pkt
            BY DEF Posted
          <6>2. PICK i \in 1..Len(events) : e = events[i]
            BY DEF Elems
          <6> QED BY <5>2, <6>1, <6>2
        <5> QED BY <5>3
      <4>3. hand \subseteq Packet /\ Gone \subseteq Packet
        BY DEF TypeOK, Gone
      <4> QED BY <4>1, <4>2, <4>3 DEF Everywhere
    <3>2. \A q \in Everywhere : q.n \in Nat /\ q.n <= made
      BY <3>1 DEF PlaceInv, Packet
    <3>3. p.n = made + 1
      OBVIOUS
    <3>4. made' = made + 1 /\ made \in Nat
      BY <2>1, <2>5
    <3> HIDE DEF p
    <3>5. ASSUME NEW q \in Everywhere' PROVE q.n <= made'
      <4>1. CASE q = p
        BY <3>3, <3>4, <4>1
      <4>2. CASE q \in Everywhere
        BY <3>2, <3>4, <4>2
      <4> QED BY <2>6, <4>1, <4>2
    <3> QED BY <3>5
  <2> QED BY <2>2, <2>3, <2>4, <2>5, <2>7 DEF PlaceInv, PacketOnce, Everywhere
<1>7. CASE Lock \/ Loop \/ Look \/ Wait \/ Reacquire \/ Retest \/ WorkerUnlock \/ SpuriousWake
  BY <1>7, PlaceStill DEF Lock, Loop, Look, Wait, Reacquire, Retest, WorkerUnlock, SpuriousWake
<1>8. CASE TryLock \/ SetTerminate \/ TerminateLock \/ Join \/ DeInit
  BY <1>8, PlaceStill DEF TryLock, SetTerminate, TerminateLock, Join, DeInit
<1>9. CASE Signal("signal", "unlock") \/ Signal("termsignal", "termunlock")
  BY <1>9, PlaceStill DEF Signal
<1>10. CASE GuiUnlock("unlock", "idle") \/ GuiUnlock("termunlock", "join")
  BY <1>10, PlaceStill DEF GuiUnlock
<1>11. ASSUME NEW s \in Servers, Unregister(s) \/ AddNamed(s) PROVE PlaceInv'
  BY <1>11, PlaceStill DEF Unregister, AddNamed
<1>12. CASE UNCHANGED vars
  BY <1>12, PlaceStill DEF vars
<1> QED
  BY <1>1, <1>2, <1>3, <1>4, <1>5, <1>6, <1>7, <1>8, <1>9, <1>10, <1>11, <1>12
     DEF Next, WorkerStep, GuiStep

\* No packet is ever in two places, so none is deleted twice or used after it
\* is deleted.
THEOREM PacketsOnce == Spec => []PacketOnce
<1>1. Init => PlaceInv
  BY DEF Init, PlaceInv, PacketOnce, Everywhere, Posted, Gone, Elems
<1>2. TypeOK /\ PlaceInv /\ [Next]_vars => (TypeOK /\ PlaceInv)'
  BY TypeStep, PlaceStep
<1>3. PlaceInv => PacketOnce
  BY DEF PlaceInv
<1> QED BY <1>1, <1>2, <1>3, TypeInit, PTL DEF Spec
-----------------------------------------------------------------------------
(* No request is dropped.                                                  *)

\* Where a request is before OnResolveHost has seen it.
Held == Elems(packets) \cup hand \cup Posted

\* Packets are thrown away only when m_terminate is set, and then no server is left.
AskedInv ==
  /\ NoRequestLost
  /\ gpc \notin {"idle", "trylock", "signal", "unlock"} => servers = <<>>
  /\ terminate => gpc \notin {"idle", "trylock", "signal", "unlock", "deinit"}
  /\ wpc \in {"drain", "unlock", "done"} => terminate

\* The steps that leave the servers alone and lose no packet.
LEMMA AskedStill ==
  ASSUME NoRequestLost, UNCHANGED gameVars, Held \subseteq Held'
  PROVE  NoRequestLost'
BY DEF NoRequestLost, Outstanding, Held, gameVars, Listed

\* With no server left there is no request to lose.
LEMMA AskedNothing == servers' = <<>> => NoRequestLost'
BY DEF NoRequestLost, Listed, Elems

\* Every step keeps the requests.
LEMMA AskedStep == TypeOK /\ PlaceInv /\ AskedInv /\ [Next]_vars => AskedInv'
<1> SUFFICES ASSUME TypeOK, PlaceInv, AskedInv, [Next]_vars PROVE AskedInv'
  OBVIOUS
<1>a. NoRequestLost
  BY DEF AskedInv
<1> USE DEF WorkerAt, GuiAt, workerVars
<1>1. CASE Take
  <2>1. Elems(packets) = {Head(packets)} \cup Elems(Tail(packets))
    BY <1>1, ElemsOfTail DEF Take, TypeOK
  <2>2. hand = {} /\ hand' = {Head(packets)} /\ packets' = Tail(packets) /\ events' = events
    BY <1>1 DEF Take, PlaceInv
  <2>3. Held \subseteq Held'
    BY <2>1, <2>2 DEF Held, Posted
  <2>4. NoRequestLost'
    BY <1>1, <1>a, <2>3, AskedStill DEF Take
  <2> QED BY <1>1, <2>4 DEF Take, AskedInv, gameVars
<1>2. CASE Resolve
  <2>1. CASE terminate
    <3>1. servers = <<>> /\ servers' = servers
      BY <1>2, <2>1 DEF Resolve, AskedInv, gameVars, TypeOK, GuiPCs
    <3> QED BY <1>2, <2>1, <3>1, AskedNothing DEF Resolve, AskedInv
  <2>2. CASE ~terminate
    <3>1. Held \subseteq Held'
      BY <1>2, <2>2 DEF Resolve, Held, Posted
    <3>2. NoRequestLost'
      BY <1>2, <1>a, <3>1, AskedStill DEF Resolve
    <3> QED BY <1>2, <2>2, <3>2 DEF Resolve, AskedInv, gameVars
  <2> QED BY <2>1, <2>2
<1>3. CASE Post
  <2>1. PICK p \in hand, found \in BOOLEAN :
          events' = Append(events, [pkt |-> p, found |-> p.host \in IPs \/ found])
    BY <1>3 DEF Post
  <2> DEFINE E == [pkt : Packet, found : BOOLEAN]
             e == [pkt |-> p, found |-> p.host \in IPs \/ found]
  <2>2. e \in E /\ events \in Seq(E) /\ e.pkt = p
    BY DEF TypeOK
  <2>3. Elems(events') = Elems(events) \cup {e}
    <3> HIDE DEF e, E
    <3> QED BY <2>1, <2>2, ElemsOfAppend DEF e
  <2>4. hand = {p}
    BY DEF PlaceInv
  <2>5. Held \subseteq Held'
    <3> HIDE DEF e
    <3> QED BY <1>3, <2>2, <2>3, <2>4 DEF Post, Held, Posted
  <2>6. NoRequestLost'
    BY <1>3, <1>a, <2>5, AskedStill DEF Post
  <2> QED BY <1>3, <2>6 DEF Post, AskedInv, gameVars
<1>4. CASE Drain
  <2>1. servers = <<>> /\ servers' = servers
    BY <1>4 DEF Drain, AskedInv, gameVars, TypeOK, GuiPCs
  <2> QED BY <1>4, <2>1, AskedNothing DEF Drain, AskedInv
<1>5. CASE OnResolveHost
  <2> DEFINE e == Head(events)
  <2>1. Elems(events) = {e} \cup Elems(Tail(events))
    BY <1>5, ElemsOfTail DEF OnResolveHost, TypeOK
  <2>2. events' = Tail(events) /\ packets' = packets /\ hand' = hand
    BY <1>5 DEF OnResolveHost
  <2>3. Held \subseteq Held' \cup {e.pkt}
    BY <2>1, <2>2 DEF Held, Posted
  <2>4. \A s \in Listed : HostOf[s] = e.pkt.host => s \in pingable' \cup failed' \cup shadowed'
    BY <1>5 DEF OnResolveHost
  <2>5. pingable \subseteq pingable' /\ failed \subseteq failed' /\ shadowed \subseteq shadowed'
    BY <1>5 DEF OnResolveHost
  <2>6. servers' = servers /\ unasked' = unasked /\ gpc' = gpc /\ wpc' = wpc /\ terminate' = terminate
    BY <1>5 DEF OnResolveHost
  <2> HIDE DEF e
  <2>7. NoRequestLost'
    BY <1>a, <2>3, <2>4, <2>5, <2>6 DEF NoRequestLost, Outstanding, Held, Listed
  <2> QED BY <2>6, <2>7 DEF AskedInv
<1>6. ASSUME NEW s \in Servers, Register(s) PROVE AskedInv'
  <2> DEFINE p == [n |-> made + 1, host |-> HostOf[s]]
  <2>1. p \in Packet /\ p.host = HostOf[s]
    <3>1. made + 1 \in 1..MaxPackets
      BY <1>6, ResolverAssumption DEF Register, TypeOK
    <3> QED BY <3>1, ResolverAssumption DEF Packet
  <2>2. packets \in Seq(Packet)
    BY DEF TypeOK
  <2>3. Elems(packets') = Elems(packets) \cup {p}
    BY <1>6, <2>1, <2>2, ElemsOfAppend, ElemsOfPush DEF Register, Enqueue
  <2>4. p \in Held' /\ Held \subseteq Held'
    BY <1>6, <2>3 DEF Register, Held, Posted
  <2>5. Listed' = Listed \cup {s} /\ pingable \subseteq pingable'
        /\ failed' = failed /\ unasked' = unasked /\ shadowed' = shadowed
    BY <1>6, ElemsOfAppend DEF Register, Listed, TypeOK, ListedOK
  <2> HIDE DEF p
  <2>6. NoRequestLost'
    BY <1>a, <2>1, <2>4, <2>5 DEF NoRequestLost, Outstanding, Held
  <2> QED BY <1>6, <2>6 DEF Register, AskedInv
<1>7. ASSUME NEW s \in Servers, Unregister(s) \/ AddNamed(s) PROVE AskedInv'
  <2>1. Held' = Held
    BY <1>7 DEF Unregister, AddNamed, Held, Posted
  <2>2. CASE AddNamed(s)
    <3>1. Listed' = Listed \cup {s}
      BY <2>2, ElemsOfAppend DEF AddNamed, Listed, TypeOK, ListedOK
    <3>2. NoRequestLost'
      BY <2>2, <3>1, <1>a, <2>1 DEF AddNamed, NoRequestLost, Outstanding, Held
    <3> QED BY <2>2, <3>2 DEF AddNamed, AskedInv
  <2>3. CASE Unregister(s)
    <3>1. PICK i \in 1..Len(servers) : servers[i] = s /\ servers' = RemoveAt(servers, i)
      BY <2>3 DEF Unregister
    <3>2. Listed' = Listed \ {s}
      BY <3>1, ElemsOfRemove DEF Listed, TypeOK, ListedOK
    <3>3. NoRequestLost'
      BY <2>3, <3>2, <1>a, <2>1 DEF Unregister, NoRequestLost, Outstanding, Held
    <3> QED BY <2>3, <3>3 DEF Unregister, AskedInv
  <2> QED BY <1>7, <2>2, <2>3
<1>8. CASE Lock \/ Loop \/ Look \/ Wait \/ Reacquire \/ Retest \/ WorkerUnlock \/ SpuriousWake
  <2>1. Held' = Held /\ UNCHANGED gameVars
    BY <1>8 DEF Lock, Loop, Look, Wait, Reacquire, Retest, WorkerUnlock, SpuriousWake, Held, Posted
  <2>2. NoRequestLost'
    BY <1>a, <2>1, AskedStill
  <2> QED BY <1>8, <2>1, <2>2 DEF Lock, Loop, Look, Wait, Reacquire, Retest, WorkerUnlock, SpuriousWake,
                                  AskedInv, gameVars
<1>9. CASE TryLock \/ SetTerminate \/ TerminateLock \/ Join
  <2>1. Held' = Held /\ UNCHANGED gameVars
    BY <1>9 DEF TryLock, SetTerminate, TerminateLock, Join, Held, Posted
  <2>2. NoRequestLost'
    BY <1>a, <2>1, AskedStill
  <2> QED BY <1>9, <2>1, <2>2 DEF TryLock, SetTerminate, TerminateLock, Join, AskedInv, gameVars
<1>10. CASE DeInit
  BY <1>10, AskedNothing DEF DeInit, AskedInv
<1>11. CASE \/ Signal("signal", "unlock") \/ Signal("termsignal", "termunlock")
            \/ GuiUnlock("unlock", "idle") \/ GuiUnlock("termunlock", "join")
  <2>1. Held' = Held /\ UNCHANGED gameVars
    BY <1>11 DEF Signal, GuiUnlock, Held, Posted
  <2>2. NoRequestLost'
    BY <1>a, <2>1, AskedStill
  <2> QED BY <1>11, <2>1, <2>2 DEF Signal, GuiUnlock, AskedInv, gameVars
<1>12. CASE UNCHANGED vars
  <2>1. Held' = Held /\ UNCHANGED gameVars
    BY <1>12 DEF vars, Held, Posted, gameVars
  <2> QED BY <1>12, <1>a, <2>1, AskedStill DEF vars, AskedInv
<1> QED
  BY <1>1, <1>2, <1>3, <1>4, <1>5, <1>6, <1>7, <1>8, <1>9, <1>10, <1>11, <1>12
     DEF Next, WorkerStep, GuiStep

\* A listed server that cannot be pinged yet has its lookup under way or has seen it
\* fail, unless nobody asked for it or an answer for its host and info port came while
\* another server of the same two was listed before it (CslEngine.cpp:171,1004-1031,
\* CslGame.cpp:145-163,214-226).
THEOREM RequestsKept == Spec => []NoRequestLost
<1>1. Init => PlaceInv /\ AskedInv
  BY DEF Init, PlaceInv, PacketOnce, Everywhere, Posted, Gone, Elems, AskedInv, NoRequestLost, Listed
<1>2. TypeOK /\ PlaceInv /\ AskedInv /\ [Next]_vars => (TypeOK /\ PlaceInv /\ AskedInv)'
  BY TypeStep, PlaceStep, AskedStep
<1>3. AskedInv => NoRequestLost
  BY DEF AskedInv
<1> QED BY <1>1, <1>2, <1>3, TypeInit, PTL DEF Spec

-----------------------------------------------------------------------------
(* The thread and its queue implement the lookup service, step by step.    *)

\* Behind an address there are only addresses, asked for later.
OrderInv ==
  \A i, j \in 1..Len(packets) :
    i <= j /\ packets[i].host \in IPs => packets[j].host \in IPs /\ packets[i].n <= packets[j].n

\* The order is kept when a later packet is added at the end of the queue.
LEMMA OrderAppend ==
  ASSUME NEW s \in Seq(Packet), NEW p \in Packet, p.host \in IPs,
         \A i \in 1..Len(s) : s[i].n <= p.n,
         \A i, j \in 1..Len(s) :
           i <= j /\ s[i].host \in IPs => s[j].host \in IPs /\ s[i].n <= s[j].n
  PROVE  \A i, j \in 1..Len(Append(s, p)) :
           i <= j /\ Append(s, p)[i].host \in IPs =>
             Append(s, p)[j].host \in IPs /\ Append(s, p)[i].n <= Append(s, p)[j].n
<1>1. /\ Len(Append(s, p)) = Len(s) + 1 /\ Append(s, p)[Len(s) + 1] = p
      /\ \A i \in 1..Len(s) : Append(s, p)[i] = s[i]
  BY AppendProperties
<1>2. p.n \in Nat
  BY ResolverAssumption DEF Packet
<1> QED BY <1>1, <1>2

\* ... and when a name is put before all others.
LEMMA OrderPush ==
  ASSUME NEW s \in Seq(Packet), NEW p \in Packet, p.host \notin IPs,
         \A i, j \in 1..Len(s) :
           i <= j /\ s[i].host \in IPs => s[j].host \in IPs /\ s[i].n <= s[j].n
  PROVE  \A i, j \in 1..Len(<<p>> \o s) :
           i <= j /\ (<<p>> \o s)[i].host \in IPs =>
             (<<p>> \o s)[j].host \in IPs /\ (<<p>> \o s)[i].n <= (<<p>> \o s)[j].n
<1>1. <<p>> \in Seq(Packet) /\ Len(<<p>>) = 1 /\ <<p>>[1] = p
  OBVIOUS
<1>2. /\ Len(<<p>> \o s) = 1 + Len(s)
      /\ \A i \in 1..(1 + Len(s)) :
           (<<p>> \o s)[i] = IF i <= 1 THEN p ELSE s[i - 1]
  BY <1>1, ConcatProperties
<1>3. ASSUME NEW i \in 1..(1 + Len(s)), (<<p>> \o s)[i].host \in IPs
      PROVE  i - 1 \in 1..Len(s) /\ (<<p>> \o s)[i] = s[i - 1]
  BY <1>2, <1>3
<1> QED BY <1>2, <1>3

\* Every step keeps the order.
LEMMA OrderStep == TypeOK /\ PlaceInv /\ OrderInv /\ [Next]_vars => OrderInv'
<1> SUFFICES ASSUME TypeOK, PlaceInv, OrderInv, [Next]_vars PROVE OrderInv'
  OBVIOUS
<1> USE DEF WorkerAt, GuiAt, workerVars
<1>same. ASSUME packets' = packets PROVE OrderInv'
  BY <1>same DEF OrderInv
<1>1. CASE Take
  <2>1. packets \in Seq(Packet) /\ packets # <<>> /\ packets' = Tail(packets)
    BY <1>1 DEF Take, TypeOK
  <2>2. /\ Len(Tail(packets)) = Len(packets) - 1
        /\ \A i \in 1..Len(Tail(packets)) : Tail(packets)[i] = packets[i + 1]
    BY <2>1, HeadTailProperties
  <2>3. Len(packets) \in Nat
    BY <2>1
  <2> QED BY <2>1, <2>2, <2>3 DEF OrderInv
<1>2. CASE Drain
  BY <1>2 DEF Drain, OrderInv
<1>3. ASSUME NEW s \in Servers, Register(s) PROVE OrderInv'
  <2> DEFINE p == [n |-> made + 1, host |-> HostOf[s]]
  <2>1. p \in Packet /\ packets \in Seq(Packet) /\ made \in Nat /\ p.n = made + 1 /\ p.host = HostOf[s]
    <3>1. made + 1 \in 1..MaxPackets /\ made \in Nat
      BY <1>3, ResolverAssumption DEF Register, TypeOK
    <3> QED BY <3>1, ResolverAssumption DEF Packet, TypeOK
  <2>2. \A i \in 1..Len(packets) : packets[i].n <= p.n
    <3>1. ASSUME NEW i \in 1..Len(packets) PROVE packets[i].n \in Nat /\ packets[i].n <= made
      <4>1. packets[i] \in Packet
        BY <2>1, ElementOfSeq
      <4>2. packets[i] \in Everywhere
        BY DEF Everywhere, Elems
      <4> QED BY <4>1, <4>2, ResolverAssumption DEF PlaceInv, Packet
    <3> HIDE DEF p
    <3> QED BY <2>1, <3>1
  <2>3. packets' = IF HostOf[s] \in IPs THEN Append(packets, p) ELSE <<p>> \o packets
    BY <1>3 DEF Register, Enqueue
  <2> HIDE DEF p
  <2>4. CASE HostOf[s] \in IPs
    BY <2>1, <2>2, <2>3, <2>4, OrderAppend DEF OrderInv
  <2>5. CASE HostOf[s] \notin IPs
    BY <2>1, <2>3, <2>5, OrderPush DEF OrderInv
  <2> QED BY <2>4, <2>5
<1>4. CASE \/ Lock \/ Loop \/ Look \/ Wait \/ Reacquire \/ Retest \/ Resolve \/ Post
           \/ WorkerUnlock \/ SpuriousWake
  BY <1>4, <1>same DEF Lock, Loop, Look, Wait, Reacquire, Retest, Resolve, Post, WorkerUnlock,
                       SpuriousWake
<1>5. CASE TryLock \/ SetTerminate \/ TerminateLock \/ Join \/ DeInit \/ OnResolveHost
  BY <1>5, <1>same DEF TryLock, SetTerminate, TerminateLock, Join, DeInit, OnResolveHost
<1>6. CASE \/ Signal("signal", "unlock") \/ Signal("termsignal", "termunlock")
           \/ GuiUnlock("unlock", "idle") \/ GuiUnlock("termunlock", "join")
  BY <1>6, <1>same DEF Signal, GuiUnlock
<1>7. ASSUME NEW s \in Servers, Unregister(s) \/ AddNamed(s) PROVE OrderInv'
  BY <1>7, <1>same DEF Unregister, AddNamed
<1>8. CASE UNCHANGED vars
  BY <1>8, <1>same DEF vars
<1> QED
  BY <1>1, <1>2, <1>3, <1>4, <1>5, <1>6, <1>7, <1>8 DEF Next, WorkerStep, GuiStep

\* The worker drops a packet at most once, on its way out.
LeakInv == leaked # {} => wpc \in {"drain", "unlock", "done"}

LEMMA LeakStep == TypeOK /\ LeakInv /\ [Next]_vars => LeakInv'
<1> SUFFICES ASSUME TypeOK, LeakInv, [Next]_vars PROVE LeakInv'
  OBVIOUS
<1> USE DEF LeakInv, WorkerAt, GuiAt, workerVars
<1>1. CASE Lock \/ Loop \/ Look \/ Wait \/ Reacquire \/ Retest \/ SpuriousWake
  BY <1>1 DEF Lock, Loop, Look, Wait, Reacquire, Retest, SpuriousWake
<1>2. CASE Take \/ Resolve \/ Post \/ Drain \/ WorkerUnlock
  BY <1>2 DEF Take, Resolve, Post, Drain, WorkerUnlock
<1>3. CASE TryLock \/ SetTerminate \/ TerminateLock \/ Join \/ DeInit \/ OnResolveHost
  BY <1>3 DEF TryLock, SetTerminate, TerminateLock, Join, DeInit, OnResolveHost
<1>4. CASE \/ Signal("signal", "unlock") \/ Signal("termsignal", "termunlock")
           \/ GuiUnlock("unlock", "idle") \/ GuiUnlock("termunlock", "join")
  BY <1>4 DEF Signal, GuiUnlock
<1>5. ASSUME NEW s \in Servers, Register(s) \/ Unregister(s) \/ AddNamed(s) PROVE LeakInv'
  BY <1>5 DEF Register, Unregister, AddNamed
<1>6. CASE UNCHANGED vars
  BY <1>6 DEF vars
<1> QED
  BY <1>1, <1>2, <1>3, <1>4, <1>5, <1>6 DEF Next, WorkerStep, GuiStep

LEMMA SeenStill ==
  ASSUME UNCHANGED <<packets, hand, events, handled, discarded, leaked, terminate>>
  PROVE  UNCHANGED Service!svars
BY DEF Service!svars, Posted, Elems

LEMMA ServiceStep ==
  TypeOK /\ PlaceInv /\ AskedInv /\ OrderInv /\ LeakInv /\ [Next]_vars
    => [Service!Next]_(Service!svars)
<1> SUFFICES ASSUME TypeOK, PlaceInv, AskedInv, OrderInv, LeakInv, [Next]_vars
             PROVE  Service!Next \/ UNCHANGED Service!svars
  OBVIOUS
<1> USE DEF WorkerAt, GuiAt, workerVars
<1>1. CASE Take
  <2>1. packets \in Seq(Packet) /\ packets # <<>>
    BY <1>1 DEF Take, TypeOK
  <2>2. /\ Elems(packets) = {Head(packets)} \cup Elems(Tail(packets)) /\ Head(packets) \in Packet
        /\ Head(packets) \notin Elems(Tail(packets))
    BY <2>1, ElemsOfTail, DistinctTail DEF PlaceInv, PacketOnce
  <2>3. hand = {} /\ hand' = {Head(packets)} /\ Elems(packets)' = Elems(packets) \ {Head(packets)}
    BY <1>1, <2>2 DEF Take, PlaceInv
  <2>4. Head(packets).host \in IPs =>
          \A q \in Elems(packets) : q.host \in IPs /\ Head(packets).n <= q.n
    <3>1. Head(packets) = packets[1] /\ 1 \in 1..Len(packets) /\ Len(packets) \in Nat
      BY <2>1, HeadTailProperties
    <3>2. \A j \in 1..Len(packets) : 1 <= j
      BY <3>1
    <3> QED BY <3>1, <3>2 DEF OrderInv, Elems
  <2>5. UNCHANGED <<Posted, handled, discarded, leaked, terminate>>
    BY <1>1 DEF Take, Posted
  <2>6. Service!Begin(Head(packets))
    BY <2>2, <2>3, <2>4, <2>5 DEF Service!Begin, Service!Eligible
  <2> QED BY <2>2, <2>6 DEF Service!Next
<1>2. CASE Resolve
  <2>1. CASE terminate
    <3>1. /\ hand # {} /\ hand' = {} /\ leaked' = hand
          /\ UNCHANGED <<packets, events, handled, discarded, terminate>>
      BY <1>2, <2>1 DEF Resolve, PlaceInv
    <3>2. leaked = {}
      BY <1>2 DEF Resolve, LeakInv
    <3>3. Service!DropCurrent
      BY <2>1, <3>1, <3>2 DEF Service!DropCurrent, Posted, Elems
    <3> QED BY <3>3 DEF Service!Next
  <2>2. CASE ~terminate
    BY <1>2, <2>2, SeenStill DEF Resolve
  <2> QED BY <2>1, <2>2
<1>3. CASE Post
  <2>1. PICK p \in hand, found \in BOOLEAN :
          events' = Append(events, [pkt |-> p, found |-> p.host \in IPs \/ found])
    BY <1>3 DEF Post
  <2> DEFINE E == [pkt : Packet, found : BOOLEAN]
             e == [pkt |-> p, found |-> p.host \in IPs \/ found]
  <2>2. e \in E /\ events \in Seq(E) /\ e.pkt = p
    BY DEF TypeOK
  <2>3. Elems(events') = Elems(events) \cup {e}
    <3> HIDE DEF e, E
    <3> QED BY <2>1, <2>2, ElemsOfAppend DEF e
  <2>4. hand = {p} /\ hand' = {} /\ UNCHANGED <<packets, handled, discarded, leaked, terminate>>
    BY <1>3 DEF Post, PlaceInv
  <2>5. Posted' = Posted \cup {p}
    <3> HIDE DEF e
    <3> QED BY <2>2, <2>3 DEF Posted
  <2>6. Service!Answer
    BY <2>4, <2>5 DEF Service!Answer, Elems
  <2> QED BY <2>6 DEF Service!Next
<1>4. CASE Drain
  <2>1. terminate /\ hand = {}
    BY <1>4 DEF Drain, AskedInv, PlaceInv
  <2>2. /\ discarded' = discarded \cup Elems(packets) /\ Elems(packets)' = {}
        /\ UNCHANGED <<hand, events, handled, leaked, terminate, Posted>>
    BY <1>4 DEF Drain, Elems, Posted
  <2>3. Service!DropPending
    BY <2>1, <2>2 DEF Service!DropPending
  <2> QED BY <2>3 DEF Service!Next
<1>5. CASE OnResolveHost
  <2>1. events \in Seq([pkt : Packet, found : BOOLEAN]) /\ events # <<>>
    BY <1>5 DEF OnResolveHost, TypeOK
  <2>2. Elems(events) = {Head(events)} \cup Elems(Tail(events))
    BY <2>1, ElemsOfTail
  <2>3. /\ handled' = handled \cup {Head(events).pkt} /\ events' = Tail(events)
        /\ UNCHANGED <<packets, hand, discarded, leaked, terminate>>
    BY <1>5 DEF OnResolveHost
  <2>4. Posted = {Head(events).pkt} \cup Posted'
    BY <2>2, <2>3 DEF Posted
  <2> QED BY <2>3, <2>4 DEF Service!svars, Elems
<1>6. ASSUME NEW s \in Servers, Register(s) PROVE Service!Next
  <2> DEFINE p == [n |-> made + 1, host |-> HostOf[s]]
  <2>1. p \in Packet /\ packets \in Seq(Packet) /\ made \in Nat /\ p.n = made + 1
    <3>1. made + 1 \in 1..MaxPackets /\ made \in Nat
      BY <1>6, ResolverAssumption DEF Register, TypeOK
    <3> QED BY <3>1, ResolverAssumption DEF Packet, TypeOK
  <2>2. p \notin Everywhere
    BY <2>1 DEF PlaceInv
  <2>3. Elems(packets)' = Elems(packets) \cup {p}
    <3>1. Elems(packets') = Elems(packets) \cup {p}
      BY <1>6, <2>1, ElemsOfAppend, ElemsOfPush DEF Register, Enqueue
    <3> QED BY <3>1 DEF Elems
  <2>4. /\ ~terminate
        /\ UNCHANGED <<hand, Posted, handled, discarded, leaked, terminate>>
    BY <1>6 DEF Register, AskedInv, Posted
  <2> HIDE DEF p
  <2>5. Service!Ask(p)
    BY <2>2, <2>3, <2>4 DEF Service!Ask, Service!Known, Everywhere, Gone
  <2> QED BY <2>1, <2>5 DEF Service!Next
<1>7. CASE SetTerminate
  <2>1. Service!Close
    BY <1>7 DEF SetTerminate, Service!Close, Posted, Elems
  <2> QED BY <2>1 DEF Service!Next
<1>8. CASE Lock \/ Loop \/ Look \/ Wait \/ Reacquire \/ Retest \/ WorkerUnlock \/ SpuriousWake
  BY <1>8, SeenStill DEF Lock, Loop, Look, Wait, Reacquire, Retest, WorkerUnlock, SpuriousWake
<1>9. CASE TryLock \/ TerminateLock \/ Join \/ DeInit
  BY <1>9, SeenStill DEF TryLock, TerminateLock, Join, DeInit
<1>10. CASE \/ Signal("signal", "unlock") \/ Signal("termsignal", "termunlock")
            \/ GuiUnlock("unlock", "idle") \/ GuiUnlock("termunlock", "join")
  BY <1>10, SeenStill DEF Signal, GuiUnlock
<1>11. ASSUME NEW s \in Servers, Unregister(s) \/ AddNamed(s) PROVE UNCHANGED Service!svars
  BY <1>11, SeenStill DEF Unregister, AddNamed
<1>12. CASE UNCHANGED vars
  BY <1>12, SeenStill DEF vars
<1> QED
  BY <1>1, <1>2, <1>3, <1>4, <1>5, <1>6, <1>7, <1>8, <1>9, <1>10, <1>11, <1>12
     DEF Next, WorkerStep, GuiStep

\* Every behaviour of the thread, its locks and its queue is one of the lookup service:
\* each packet is looked up at most once and one at a time, names first and addresses in
\* the order of asking, and none is thrown away before the shutdown.
THEOREM StepsImplement == Spec => Service!Init /\ [][Service!Next]_(Service!svars)
<1> DEFINE Inv == TypeOK /\ PlaceInv /\ AskedInv /\ OrderInv /\ LeakInv
<1>1. Init => Inv
  <2>1. Init => PlaceInv /\ AskedInv
    BY DEF Init, PlaceInv, PacketOnce, Everywhere, Posted, Gone, Elems, AskedInv, NoRequestLost, Listed
  <2>2. Init => OrderInv /\ LeakInv
    BY DEF Init, OrderInv, LeakInv
  <2> QED BY <2>1, <2>2, TypeInit
<1>2. Init => Service!Init
  BY DEF Init, Service!Init, Elems, Posted
<1>3. Inv /\ [Next]_vars => Inv'
  BY TypeStep, PlaceStep, AskedStep, OrderStep, LeakStep
<1>4. Inv /\ [Next]_vars => [Service!Next]_(Service!svars)
  BY ServiceStep
<1> QED BY <1>1, <1>2, <1>3, <1>4, PTL DEF Spec

-----------------------------------------------------------------------------
(* No packet is forgotten.                                                 *)

\* Every packet that was ever made is queued, in the worker's hand, posted, deleted, or
\* is the one that the worker abandons at its end.
EveryPacket == {p.n : p \in Everywhere} = 1..made

\* A step moves packets, or adds the next one.
LEMMA EverywhereStep ==
  ASSUME TypeOK, PlaceInv, LeakInv, [Next]_vars
  PROVE  \/ Everywhere' = Everywhere /\ made' = made
         \/ /\ \E h \in Hosts : Everywhere' = Everywhere \cup {[n |-> made + 1, host |-> h]}
            /\ made' = made + 1
<1> USE DEF WorkerAt, GuiAt, workerVars, gameVars
<1> DEFINE Same == Everywhere' = Everywhere /\ made' = made
<1>s. ASSUME UNCHANGED <<packets, hand, events, made, handled, discarded, leaked>> PROVE Same
  BY <1>s DEF Everywhere, Posted, Gone, Elems
<1>1. CASE Take
  <2>1. packets \in Seq(Packet) /\ packets # <<>>
    BY <1>1 DEF Take, TypeOK
  <2>2. Elems(packets) = {Head(packets)} \cup Elems(Tail(packets)) /\ hand = {}
    BY <1>1, <2>1, ElemsOfTail DEF Take, PlaceInv
  <2>3. /\ Elems(packets)' = Elems(Tail(packets)) /\ hand' = {Head(packets)}
        /\ Posted' = Posted /\ Gone' = Gone /\ made' = made
    BY <1>1 DEF Take, Posted, Gone, Elems
  <2> QED BY <2>2, <2>3 DEF Everywhere
<1>2. CASE Resolve
  <2>1. CASE terminate
    <3>1. leaked = {}
      BY <1>2 DEF Resolve, LeakInv
    <3> QED BY <1>2, <2>1, <3>1 DEF Resolve, Everywhere, Posted, Gone, Elems
  <2>2. CASE ~terminate
    BY <1>2, <2>2, <1>s DEF Resolve
  <2> QED BY <2>1, <2>2
<1>3. CASE Post
  <2>1. PICK p \in hand, found \in BOOLEAN :
          events' = Append(events, [pkt |-> p, found |-> p.host \in IPs \/ found])
    BY <1>3 DEF Post
  <2> DEFINE E == [pkt : Packet, found : BOOLEAN]
             e == [pkt |-> p, found |-> p.host \in IPs \/ found]
  <2>2. e \in E /\ events \in Seq(E) /\ e.pkt = p
    BY DEF TypeOK
  <2>3. Elems(events') = Elems(events) \cup {e}
    <3> HIDE DEF e, E
    <3> QED BY <2>1, <2>2, ElemsOfAppend DEF e
  <2>4. Posted' = Posted \cup {p} /\ hand = {p} /\ hand' = {}
    BY <1>3, <2>2, <2>3 DEF Posted, Post, PlaceInv
  <2>5. Elems(packets)' = Elems(packets) /\ Gone' = Gone /\ made' = made
    BY <1>3 DEF Post, Elems, Gone
  <2> QED BY <2>4, <2>5 DEF Everywhere
<1>4. CASE Drain
  <2>1. Elems(packets)' = {} /\ discarded' = discarded \cup Elems(packets)
    BY <1>4 DEF Drain, Elems
  <2>2. UNCHANGED <<hand, events, made, handled, leaked>>
    BY <1>4 DEF Drain
  <2> QED BY <2>1, <2>2 DEF Everywhere, Posted, Gone
<1>5. CASE OnResolveHost
  <2>1. events \in Seq([pkt : Packet, found : BOOLEAN]) /\ events # <<>>
    BY <1>5 DEF OnResolveHost, TypeOK
  <2>2. Elems(events) = {Head(events)} \cup Elems(Tail(events))
    BY <2>1, ElemsOfTail
  <2>3. /\ Posted = Posted' \cup {Head(events).pkt}
        /\ handled' = handled \cup {Head(events).pkt}
        /\ UNCHANGED <<packets, hand, made, discarded, leaked>>
    BY <1>5, <2>2 DEF OnResolveHost, Posted
  <2> QED BY <2>3 DEF Everywhere, Gone, Elems
<1>6. ASSUME NEW s \in Servers, Register(s)
      PROVE  /\ Everywhere' = Everywhere \cup {[n |-> made + 1, host |-> HostOf[s]]}
             /\ made' = made + 1
  <2> DEFINE p == [n |-> made + 1, host |-> HostOf[s]]
  <2>1. p \in Packet /\ packets \in Seq(Packet)
    BY <1>6, ResolverAssumption DEF Register, Packet, TypeOK
  <2>2. Elems(packets)' = Elems(packets) \cup {p}
    BY <1>6, <2>1, ElemsOfAppend, ElemsOfPush DEF Register, Enqueue
  <2>3. hand' = hand /\ Posted' = Posted /\ Gone' = Gone /\ made' = made + 1
    BY <1>6 DEF Register, Posted, Gone
  <2> QED BY <2>2, <2>3 DEF Everywhere
<1>7. CASE Lock \/ Loop \/ Look \/ Wait \/ Reacquire \/ Retest \/ WorkerUnlock \/ SpuriousWake
  BY <1>7, <1>s DEF Lock, Loop, Look, Wait, Reacquire, Retest, WorkerUnlock, SpuriousWake
<1>8. CASE TryLock \/ SetTerminate \/ TerminateLock \/ Join \/ DeInit
  BY <1>8, <1>s DEF TryLock, SetTerminate, TerminateLock, Join, DeInit
<1>9. CASE Signal("signal", "unlock") \/ Signal("termsignal", "termunlock")
  BY <1>9, <1>s DEF Signal
<1>10. CASE GuiUnlock("unlock", "idle") \/ GuiUnlock("termunlock", "join")
  BY <1>10, <1>s DEF GuiUnlock
<1>11. ASSUME NEW s \in Servers, Unregister(s) \/ AddNamed(s) PROVE Same
  BY <1>11, <1>s DEF Unregister, AddNamed
<1>12. CASE UNCHANGED vars
  BY <1>12, <1>s DEF vars
<1> QED
  BY <1>1, <1>2, <1>3, <1>4, <1>5, <1>6, <1>7, <1>8, <1>9, <1>10, <1>11, <1>12, ResolverAssumption
     DEF Next, WorkerStep, GuiStep

\* Nothing that was asked for disappears: with PacketOnce, each packet is in one place
\* from the moment it is made (CslEngine.cpp:61-77, 113-124, 1034).
THEOREM NoneForgotten == Spec => []EveryPacket
<1>1. Init => TypeOK /\ PlaceInv /\ LeakInv /\ EveryPacket
  <2>1. Init => PlaceInv
    BY DEF Init, PlaceInv, PacketOnce, Everywhere, Posted, Gone, Elems
  <2>2. Init => Everywhere = {} /\ made = 0
    BY DEF Init, Everywhere, Posted, Gone, Elems
  <2> QED BY <2>1, <2>2, TypeInit DEF EveryPacket, LeakInv, Init
<1>2. TypeOK /\ PlaceInv /\ LeakInv /\ EveryPacket /\ [Next]_vars => EveryPacket'
  <2> SUFFICES ASSUME TypeOK, PlaceInv, LeakInv, EveryPacket, [Next]_vars PROVE EveryPacket'
    OBVIOUS
  <2>1. made \in Nat
    BY ResolverAssumption DEF TypeOK
  <2>2. CASE Everywhere' = Everywhere /\ made' = made
    BY <2>2 DEF EveryPacket
  <2>3. ASSUME NEW h \in Hosts, Everywhere' = Everywhere \cup {[n |-> made + 1, host |-> h]},
               made' = made + 1
        PROVE  EveryPacket'
    <3>1. {q.n : q \in Everywhere'} = {q.n : q \in Everywhere} \cup {made + 1}
      <4> DEFINE p == [n |-> made + 1, host |-> h]
                 old == Everywhere
                 new == Everywhere'
      <4>1. new = old \cup {p} /\ p.n = made + 1
        BY <2>3
      <4> HIDE DEF p, old, new
      <4>2. {q.n : q \in new} = {q.n : q \in old} \cup {made + 1}
        BY <4>1
      <4> QED BY <4>2 DEF old, new
    <3>2. 1..(made + 1) = (1..made) \cup {made + 1}
      BY <2>1
    <3> QED BY <2>3, <3>1, <3>2 DEF EveryPacket
  <2> QED BY <2>2, <2>3, EverywhereStep
<1>3. TypeOK /\ PlaceInv /\ LeakInv /\ [Next]_vars => (TypeOK /\ PlaceInv /\ LeakInv)'
  BY TypeStep, PlaceStep, LeakStep
<1> QED BY <1>1, <1>2, <1>3, PTL DEF Spec

-----------------------------------------------------------------------------
(* The end is not missed.                                                  *)

\* Terminate's signal is not lost, unlike AddPacket's: when the GUI thread goes on to the
\* join, the worker does not sleep and will not sleep again.
TerminateHeard ==
  gpc \in {"termunlock", "join", "gone"} =>
    wpc \in {"lock", "loop", "wake", "retest", "drain", "unlock", "done"}

\* After m_terminate is set the loop is only left.
TerminateSet == gpc \in {"termlock", "termsignal", "termunlock", "join", "gone"} => terminate

LEMMA HeardStep ==
  TypeOK /\ MutexInv /\ TerminateSet /\ TerminateHeard /\ [Next]_vars =>
    TerminateSet' /\ TerminateHeard'
<1> SUFFICES ASSUME TypeOK, MutexInv, TerminateSet, TerminateHeard, [Next]_vars
             PROVE  TerminateSet' /\ TerminateHeard'
  OBVIOUS
<1> USE DEF TerminateSet, TerminateHeard, MutexInv, TypeOK, WorkerAt, GuiAt,
        workerVars, gameVars, WorkerPCs, GuiPCs, Worker, Gui, Free
<1>1. CASE Lock \/ Loop \/ Look \/ Wait \/ Reacquire
  BY <1>1 DEF Lock, Loop, Look, Wait, Reacquire
<1>2. CASE Retest \/ Take \/ Resolve \/ Post
  BY <1>2 DEF Retest, Take, Resolve, Post
<1>3. CASE Drain \/ WorkerUnlock \/ SpuriousWake
  BY <1>3 DEF Drain, WorkerUnlock, SpuriousWake
<1>4. CASE TryLock \/ SetTerminate \/ TerminateLock \/ Join
  BY <1>4 DEF TryLock, SetTerminate, TerminateLock, Join
<1>5. CASE OnResolveHost \/ DeInit
  BY <1>5 DEF OnResolveHost, DeInit
<1>6. CASE Signal("signal", "unlock") \/ Signal("termsignal", "termunlock")
  BY <1>6 DEF Signal
<1>7. CASE GuiUnlock("unlock", "idle") \/ GuiUnlock("termunlock", "join")
  BY <1>7 DEF GuiUnlock
<1>8. ASSUME NEW s \in Servers, Register(s) \/ Unregister(s) \/ AddNamed(s)
      PROVE  TerminateSet' /\ TerminateHeard'
  BY <1>8 DEF Register, Unregister, AddNamed
<1>9. CASE UNCHANGED vars
  BY <1>9 DEF vars
<1> QED
  BY <1>1, <1>2, <1>3, <1>4, <1>5, <1>6, <1>7, <1>8, <1>9 DEF Next, WorkerStep, GuiStep

\* The join in ~CslEngine waits for a worker that is on its way to its end: it does not
\* sleep on the condition and nobody else has m_mutex, which is what ShutdownEnds rests on
\* (CslEngine.cpp:45-80, 100-105, 118-122).
THEOREM EndIsHeard == Spec => [](TerminateHeard /\ (gpc = "join" => terminate /\ mutex # Gui))
<1>1. Init => TypeOK /\ MutexInv /\ TerminateSet /\ TerminateHeard
  BY TypeInit DEF Init, MutexInv, TerminateSet, TerminateHeard, Worker, Gui, Free
<1>2. TypeOK /\ MutexInv /\ [Next]_vars => (TypeOK /\ MutexInv)'
  BY TypeStep, MutexStep
<1>3. MutexInv /\ TerminateSet => (gpc = "join" => terminate /\ mutex # Gui)
  BY DEF MutexInv, TerminateSet
<1> QED BY <1>1, <1>2, <1>3, HeardStep, PTL DEF Spec
=============================================================================
