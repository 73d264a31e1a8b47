---------------------------- MODULE IrcThreadProofs ----------------------------
(***************************************************************************)
(* Proofs about the IRC client, for every set of networks and addresses,   *)
(* every number of rounds after m_terminate and of events under way.       *)
(*                                                                         *)
(* That m_section is never left entered rests on the order RemoveContext   *)
(* does things in: a context leaves the list before its handle is freed,   *)
(* so whatever address irc_create_session returns, no context has it.      *)
(***************************************************************************)
EXTENDS IrcThread, SequenceTheorems, TLAPS

-----------------------------------------------------------------------------
(* Sequences.                                                              *)

\* Removing one element leaves a sequence of the other elements.
LEMMA WithoutOne ==
  ASSUME contexts \in Seq(Context), NEW i \in 1..Len(contexts)
  PROVE  /\ Without(i) \in Seq(Context)
         /\ Len(Without(i)) = Len(contexts) - 1
         /\ \A k \in 1..Len(Without(i)) :
              Without(i)[k] = contexts[IF k < i THEN k ELSE k + 1]
<1> DEFINE n == Len(contexts) - 1
<1>1. n \in Nat /\ Len(contexts) = n + 1
  OBVIOUS
<1>2. \A k \in 1..n : (IF k < i THEN k ELSE k + 1) \in 1..Len(contexts)
  BY <1>1
<1>3. \A k \in 1..n : contexts[IF k < i THEN k ELSE k + 1] \in Context
  BY <1>2
<1>4. Without(i) = [k \in 1..n |-> contexts[IF k < i THEN k ELSE k + 1]]
  BY DEF Without
<1> HIDE DEF n
<1> QED BY <1>1, <1>3, <1>4

-----------------------------------------------------------------------------
(* Types.                                                                  *)

\* A posted event is one more event of its session.
LEMMA PostType ==
  ASSUME TypeOK, NEW s \in Sessions, NEW e \in {"connect", "lost", "resolv"}, Post(s, e)
  PROVE  events' \in [Sessions -> Seq({"connect", "lost", "resolv"})]
BY DEF TypeOK, Post

\* Initially the types are right and nothing is in the list.
LEMMA InitType == Init => TypeOK
<1> SUFFICES ASSUME Init PROVE TypeOK
  OBVIOUS
<1>1. contexts \in Seq(Context) /\ pos \in Nat /\ lib \in [Handles -> LibStates]
  BY DEF Init, LibStates
<1>2. cur \in [h : Handles \cup {NoHandle}, s : Sessions \cup {NoSession}, err : {"none", "resolv", "lost", "state"}]
  BY DEF Init, NoCurrent
<1>3. term \in 0..TermCount
  BY IrcThreadAssumption DEF Init, IrcThreadAssumption
<1>4. events \in [Sessions -> Seq({"connect", "lost", "resolv"})]
  BY DEF Init
<1>5. /\ state \in [Sessions -> {"disconnected", "connecting", "connected"}]
      /\ mine \in [Sessions -> Handles \cup {NoHandle}]
      /\ overlap \in [Sessions -> BOOLEAN]
  BY DEF Init
<1> QED BY <1>1, <1>2, <1>3, <1>4, <1>5 DEF Init, TypeOK

\* The part of TypeOK that says where the worker is.
AtType ==
  /\ wpc \in {"start", "loop", "look", "wait", "asleep", "serve", "select", "errno", "remove", "post", "done"}
  /\ cur \in [h : Handles \cup {NoHandle}, s : Sessions \cup {NoSession}, err : {"none", "resolv", "lost", "state"}]
  /\ wpc \in {"serve", "select", "errno", "remove", "post"} => cur.h \in Handles /\ cur.s \in Sessions
  /\ wpc = "errno" => cur.err # "none"
  /\ wpc \in {"remove", "post"} => cur.err \in {"resolv", "lost"}

\* The part that says where the GUI thread is.
GuiAtType ==
  /\ gpc \in {"idle", "signal", "mark", "lock", "join", "over"} /\ gs \in Sessions \cup {NoSession}
  /\ gpc \in {"signal", "mark"} => gs \in Sessions

\* The parts of the contexts and the sessions.
DataType ==
  /\ contexts \in Seq(Context) /\ pos \in Nat /\ lib \in [Handles -> LibStates]
  /\ term \in 0..TermCount /\ terminate \in BOOLEAN /\ section \in {"free", "gui"}
  /\ state \in [Sessions -> {"disconnected", "connecting", "connected"}]
  /\ mine \in [Sessions -> Handles \cup {NoHandle}]
  /\ events \in [Sessions -> Seq({"connect", "lost", "resolv"})]
  /\ closing \in BOOLEAN /\ crashed \in BOOLEAN /\ missed \in BOOLEAN /\ masked \subseteq Handles
  /\ overlap \in [Sessions -> BOOLEAN]

\* The parts are the whole, before a step and after it.
LEMMA TypeParts ==
  /\ TypeOK <=> AtType /\ GuiAtType /\ DataType
  /\ TypeOK' <=> AtType' /\ GuiAtType' /\ DataType'
<1>1. TypeOK <=> AtType /\ GuiAtType /\ DataType
  BY Zenon DEF TypeOK, AtType, GuiAtType, DataType
<1>2. TypeOK' <=> AtType' /\ GuiAtType' /\ DataType'
  BY Zenon DEF TypeOK, AtType, GuiAtType, DataType
<1> QED BY <1>1, <1>2, Zenon

\* Every step of the worker keeps the types.
LEMMA WorkerType == ASSUME TypeOK, Worker \/ SpuriousWake PROVE TypeOK'
<1> USE DEF TypeOK, guiVars, Goto
<1>1. CASE Start \/ End \/ Look \/ Wait \/ SpuriousWake
  <2> USE <1>1 DEF Start, End, Look, Wait, SpuriousWake
  <2> HIDE DEF TypeOK
  <2>1. cur' = cur /\ wpc' \in {"loop", "done", "wait", "asleep"}
    OBVIOUS
  <2>2. AtType'
    BY <2>1, TypeParts DEF AtType
  <2>3. UNCHANGED <<contexts, pos, lib, term, terminate, section, state, mine, events, closing,
                    crashed, masked, overlap, gpc, gs>> /\ missed' \in {missed, FALSE}
    OBVIOUS
  <2>4. GuiAtType'
    BY <2>3, TypeParts DEF GuiAtType
  <2>5. DataType'
    BY <2>3, TypeParts DEF DataType
  <2> QED BY <2>2, <2>4, <2>5, TypeParts
<1>2. CASE Pick
  <2>1. CASE Len(contexts) = 0
    <3>1. term' \in 0..TermCount
      BY <1>2, IrcThreadAssumption DEF Pick, IrcThreadAssumption
    <3> QED BY <1>2, <2>1, <3>1 DEF Pick
  <2>2. CASE Len(contexts) # 0
    <3>1. term' \in 0..TermCount
      BY <1>2, IrcThreadAssumption DEF Pick, IrcThreadAssumption
    <3>2. pos' \in Nat /\ pos' + 1 \in 1..Len(contexts)
      BY <1>2, <2>2 DEF Pick
    <3>3. contexts[pos' + 1] \in Context
      BY <3>2
    <3>4. cur' = [h |-> contexts[pos' + 1].h, s |-> contexts[pos' + 1].s, err |-> "none"]
      BY <1>2, <2>2 DEF Pick
    <3>5. cur'.h \in Handles /\ cur'.s \in Sessions
          /\ cur' \in [h : Handles \cup {NoHandle}, s : Sessions \cup {NoSession},
                       err : {"none", "resolv", "lost", "state"}]
      BY <3>3, <3>4 DEF Context
    <3> QED BY <1>2, <2>2, <3>1, <3>2, <3>5 DEF Pick
  <2> QED BY <2>1, <2>2
<1>3. CASE Serve
  <2>1. CASE cur' = cur /\ wpc' = "select"
    <3>1. \/ lib' = [lib EXCEPT ![cur.h] = "connecting"] /\ masked' = masked \ {cur.h}
          \/ UNCHANGED <<lib, masked>>
      BY <1>3, <2>1 DEF Serve
    <3>2. lib' \in [Handles -> LibStates] /\ masked' \subseteq Handles
      BY <3>1 DEF LibStates
    <3>3. UNCHANGED <<contexts, terminate, section, events, missed, pos, term, guiVars>> /\ wpc = "serve"
      BY <1>3 DEF Serve
    <3> QED BY <2>1, <3>2, <3>3
  <2>2. ASSUME NEW e \in {"resolv", "lost", "state"},
               wpc' = "errno", cur' = [cur EXCEPT !.err = e], UNCHANGED <<lib, masked>>
        PROVE  TypeOK'
    <3>1. UNCHANGED <<contexts, terminate, section, events, missed, pos, term, guiVars>> /\ wpc = "serve"
      BY <1>3 DEF Serve
    <3> QED BY <2>2, <3>1
  <2>3. \/ cur' = cur /\ wpc' = "select"
        \/ \E e \in {"resolv", "lost", "state"} :
             wpc' = "errno" /\ cur' = [cur EXCEPT !.err = e] /\ UNCHANGED <<lib, masked>>
    BY <1>3 DEF Serve
  <2> QED BY <2>1, <2>2, <2>3
<1>4. CASE Select
  <2>1. NoCurrent \in [h : Handles \cup {NoHandle}, s : Sessions \cup {NoSession},
                       err : {"none", "resolv", "lost", "state"}]
    BY DEF NoCurrent
  <2>2. events' \in [Sessions -> Seq({"connect", "lost", "resolv"})]
    BY <1>4, PostType DEF Select
  <2> HIDE DEF TypeOK
  <2>3. /\ \/ wpc' = "loop" /\ cur' = NoCurrent
           \/ wpc' = "errno" /\ cur' = [cur EXCEPT !.err = "lost"]
        /\ wpc = "select"
    BY <1>4 DEF Select
  <2>4. lib' = lib \/ \E l \in LibStates : lib' = [lib EXCEPT ![cur.h] = l]
    <3>1. \/ lib' = lib \/ lib' = [lib EXCEPT ![cur.h] = "connected"]
          \/ lib' = [lib EXCEPT ![cur.h] = "welcome"] \/ lib' = [lib EXCEPT ![cur.h] = "closed"]
      BY <1>4 DEF Select
    <3>2. "connected" \in LibStates /\ "welcome" \in LibStates /\ "closed" \in LibStates
      BY DEF LibStates
    <3> QED BY <3>1, <3>2, Zenon
  <2>5. UNCHANGED <<contexts, terminate, section, missed, pos, term, masked, state, mine, gpc, gs,
                    closing, crashed, overlap>>
    BY <1>4 DEF Select
  <2>6. AtType'
    BY <2>1, <2>3, TypeParts DEF AtType
  <2>7. GuiAtType'
    BY <2>5, TypeParts DEF GuiAtType
  <2>8. DataType'
    BY <2>2, <2>4, <2>5, TypeParts DEF DataType
  <2> QED BY <2>6, <2>7, <2>8, TypeParts
<1>5. CASE ReadErrno
  <2>1. CASE cur.err = "state"
    BY <1>5, <2>1 DEF ReadErrno, NoCurrent
  <2>2. CASE cur.err # "state"
    <3>1. cur.err \in {"resolv", "lost"}
      BY <1>5, <2>2 DEF ReadErrno
    <3> QED BY <1>5, <2>2, <3>1 DEF ReadErrno
  <2> QED BY <2>1, <2>2
<1>6. CASE Remove
  <2>1. PICK i \in 1..Len(contexts) : contexts' = Without(i)
    BY <1>6 DEF Remove, Known
  <2>2. contexts' \in Seq(Context)
    BY <2>1, WithoutOne
  <2> QED BY <1>6, <2>2 DEF Remove, LibStates
<1>7. CASE PostError
  <2>1. cur.err \in {"connect", "lost", "resolv"} /\ cur.s \in Sessions
    BY <1>7 DEF PostError
  <2>2. NoCurrent \in [h : Handles \cup {NoHandle}, s : Sessions \cup {NoSession},
                       err : {"none", "resolv", "lost", "state"}]
    BY DEF NoCurrent
  <2>3. events' \in [Sessions -> Seq({"connect", "lost", "resolv"})]
    BY <1>7, <2>1, PostType DEF PostError
  <2> QED BY <1>7, <2>2, <2>3 DEF PostError
<1> QED BY <1>1, <1>2, <1>3, <1>4, <1>5, <1>6, <1>7 DEF Worker

\* A library call changes at most the lasterror of the handle the worker is at.
LEMMA UseType ==
  ASSUME TypeOK, NEW s \in Sessions, Use(s) \/ UNCHANGED <<cur, masked>>, wpc' = wpc
  PROVE  /\ cur' \in [h : Handles \cup {NoHandle}, s : Sessions \cup {NoSession},
                       err : {"none", "resolv", "lost", "state"}]
         /\ masked' \subseteq Handles
         /\ wpc' \in {"serve", "select", "errno", "remove", "post"} => cur'.h \in Handles /\ cur'.s \in Sessions
         /\ wpc' = "errno" => cur'.err # "none"
         /\ wpc' \in {"remove", "post"} => cur'.err \in {"resolv", "lost"}
         /\ cur'.h = cur.h
<1>1. CASE UNCHANGED <<cur, masked>>
  BY <1>1 DEF TypeOK
<1>2. CASE /\ wpc = "errno" /\ cur.h = mine[s] /\ cur.err # "state"
           /\ cur' = [cur EXCEPT !.err = "state"] /\ masked' = masked \cup {cur.h}
  BY <1>2 DEF TypeOK
<1> QED BY <1>1, <1>2 DEF Use

\* Every step of the GUI thread keeps the types.
LEMMA GuiType ==
  ASSUME TypeOK,
         \/ \E s \in Sessions : Connect(s) \/ Disconnect(s) \/ Command(s) \/ OnEvent(s)
         \/ Signal \/ Mark \/ Deinit \/ Shutdown
  PROVE  TypeOK'
<1> USE DEF TypeOK, workerVars
<1>1. ASSUME NEW s \in Sessions, Connect(s) PROVE TypeOK'
  <2>1. PICK h \in Handles :
          /\ lib' = [lib EXCEPT ![h] = "init"]
          /\ mine' = [mine EXCEPT ![s] = h]
          /\ overlap' = [overlap EXCEPT ![s] = Owned(s) # {} \/ ErrorUnderWay(s)]
          /\ IF Known(h) # {}
               THEN section' = "gui" /\ UNCHANGED <<contexts, gpc, gs>>
               ELSE /\ contexts' = Append(contexts, [h |-> h, s |-> s, leaving |-> FALSE])
                    /\ gpc' = "signal" /\ gs' = s
                    /\ UNCHANGED section
    BY <1>1 DEF Connect
  <2>2. lib' \in [Handles -> LibStates] /\ mine' \in [Sessions -> Handles \cup {NoHandle}]
    BY <2>1 DEF LibStates
  <2>3. overlap' \in [Sessions -> BOOLEAN]
    <3> DEFINE b == Owned(s) # {} \/ ErrorUnderWay(s)
    <3>1. b \in BOOLEAN /\ overlap' = [overlap EXCEPT ![s] = b]
      BY <2>1
    <3> HIDE DEF b
    <3> QED BY <3>1
  <2>4. [h |-> h, s |-> s, leaving |-> FALSE] \in Context
    BY DEF Context
  <2>5. contexts' \in Seq(Context)
    <3> DEFINE c == [h |-> h, s |-> s, leaving |-> FALSE]
    <3>1. contexts' = contexts \/ contexts' = Append(contexts, c)
      BY <2>1
    <3>2. c \in Context /\ contexts \in Seq(Context)
      BY <2>4
    <3> HIDE DEF c
    <3>3. Append(contexts, c) \in Seq(Context)
      BY <3>2, AppendProperties
    <3> QED BY <3>1, <3>2, <3>3
  <2> HIDE DEF Known, Owned, ErrorUnderWay
  <2>6. section' \in {"free", "gui"} /\ gs' \in Sessions \cup {NoSession}
        /\ gpc' \in {"idle", "signal", "mark", "lock", "join", "over"}
        /\ (gpc' \in {"signal", "mark"} => gs' \in Sessions)
    BY <2>1
  <2> QED BY <1>1, <2>2, <2>3, <2>5, <2>6 DEF Connect
<1>2. ASSUME NEW s \in Sessions, Disconnect(s) \/ Command(s) PROVE TypeOK'
  <2>1. crashed' \in BOOLEAN
    BY <1>2 DEF Disconnect, Command, Use
  <2>2. state' \in [Sessions -> {"disconnected", "connecting", "connected"}]
    BY <1>2 DEF Disconnect, Command
  <2>3. gpc' \in {"idle", "signal", "mark", "lock", "join", "over"}
        /\ gs' \in Sessions \cup {NoSession}
        /\ (gpc' \in {"signal", "mark"} => gs' \in Sessions)
    BY <1>2 DEF Disconnect, Command
  <2>4. UNCHANGED <<contexts, lib, terminate, section, events, missed, pos, wpc, term, mine, closing,
                    overlap>>
    BY <1>2 DEF Disconnect, Command
  <2>5. Use(s)
    BY <1>2 DEF Disconnect, Command
  <2> QED BY <2>1, <2>2, <2>3, <2>4, <2>5, UseType
<1>3. ASSUME NEW s \in Sessions, OnEvent(s) PROVE TypeOK'
  <2>1. PICK e : TakeEvent(s, e) /\ (OnConnect(s) \/ OnError(s, e))
    BY <1>3 DEF OnEvent, OnConnect, OnError
  <2>2. events' \in [Sessions -> Seq({"connect", "lost", "resolv"})]
    BY <2>1 DEF TakeEvent
  <2>3. state' \in [Sessions -> {"disconnected", "connecting", "connected"}]
    BY <2>1 DEF OnConnect, OnError
  <2>4. crashed' \in BOOLEAN /\ UNCHANGED <<pos, wpc, term>>
    BY <2>1 DEF OnConnect, OnError, TakeEvent, Use
  <2>5. Use(s) \/ UNCHANGED <<cur, masked>>
    BY <2>1 DEF OnConnect, OnError
  <2> QED BY <2>1, <2>2, <2>3, <2>4, <2>5, UseType DEF TakeEvent
<1>4. CASE Signal
  <2> USE <1>4 DEF Signal
  <2> HIDE DEF TypeOK
  <2>1. cur' = cur /\ wpc' \in {wpc, "loop"} /\ gpc' = "idle" /\ gs' = NoSession
    OBVIOUS
  <2>2. state' = [state EXCEPT ![gs] = "connecting"] /\ missed' \in {FALSE, missed, TRUE}
    OBVIOUS
  <2>3. UNCHANGED <<contexts, pos, lib, term, terminate, section, mine, events, closing, crashed,
                    masked, overlap>>
    OBVIOUS
  <2> HIDE <1>4 DEF Signal
  <2>4. AtType' /\ GuiAtType'
    BY <2>1, TypeParts DEF AtType, GuiAtType
  <2>5. DataType'
    BY <2>2, <2>3, TypeParts DEF DataType
  <2> QED BY <2>4, <2>5, TypeParts
<1>5. CASE Mark
  <2>1. ASSUME NEW i \in 1..Len(contexts)
        PROVE  [contexts[i] EXCEPT !.leaving = TRUE] \in Context
    <3>1. contexts[i] \in Context
      OBVIOUS
    <3>2. \A c \in Context : [c EXCEPT !.leaving = TRUE] \in Context
      BY DEF Context
    <3> QED BY <3>1, <3>2
  <2>2. contexts' \in Seq(Context)
    <3> DEFINE n == Len(contexts)
               f(i) == IF i \in Known(mine[gs]) THEN [contexts[i] EXCEPT !.leaving = TRUE]
                       ELSE contexts[i]
    <3> HIDE DEF TypeOK, Known
    <3>0. contexts \in Seq(Context)
      BY DEF TypeOK
    <3>1. n \in Nat /\ \A i \in 1..n : f(i) \in Context
      BY <2>1, <3>0
    <3>2. contexts' = [i \in 1..n |-> f(i)]
      BY <1>5 DEF Mark
    <3> HIDE DEF n, f
    <3> QED BY <3>1, <3>2
  <2> QED BY <1>5, <2>2 DEF Mark
<1>6. CASE Deinit \/ Shutdown
  <2>1. CASE Deinit
    BY <2>1 DEF Deinit
  <2>2. CASE Terminate
    BY <2>2 DEF Terminate
  <2>3. CASE TerminateSignal
    <3> USE <2>3 DEF TerminateSignal
    <3> HIDE DEF TypeOK
    <3>1. cur' = cur /\ wpc' \in {wpc, "loop"} /\ gpc' = "join" /\ gs' = gs
      OBVIOUS
    <3>2. UNCHANGED <<contexts, pos, lib, term, terminate, section, state, mine, events, closing,
                      crashed, masked, overlap>> /\ missed' = FALSE
      OBVIOUS
    <3> HIDE <2>3 DEF TerminateSignal
    <3>3. AtType' /\ GuiAtType'
      BY <3>1, TypeParts DEF AtType, GuiAtType
    <3>4. DataType'
      BY <3>2, TypeParts DEF DataType
    <3> QED BY <3>3, <3>4, TypeParts
  <2>4. CASE Join
    BY <2>4 DEF Join
  <2> QED BY <1>6, <2>1, <2>2, <2>3, <2>4 DEF Shutdown
<1> QED BY <1>1, <1>2, <1>3, <1>4, <1>5, <1>6

\* Every step keeps the types.
LEMMA StepType == TypeOK /\ [Next]_vars => TypeOK'
<1> SUFFICES ASSUME TypeOK, [Next]_vars PROVE TypeOK'
  OBVIOUS
<1>1. CASE Next
  BY <1>1, WorkerType, GuiType DEF Next
<1>2. CASE UNCHANGED vars
  BY <1>2 DEF vars, workerVars, guiVars, TypeOK
<1> QED BY <1>1, <1>2

\* Every variable keeps its type.
THEOREM TypeCorrect == Spec => []TypeOK
BY InitType, StepType, PTL DEF Spec

-----------------------------------------------------------------------------
(* m_section.                                                              *)

\* SectionFree needs that no two contexts have one address and that a context's
\* handle is not free: then a free address is not in the list.
ListInv ==
  /\ \A i, j \in 1..Len(contexts) : contexts[i].h = contexts[j].h => i = j
  /\ \A i \in 1..Len(contexts) : lib[contexts[i].h] # "free"

SectionInv == TypeOK /\ ListInv /\ SectionFree

\* The addresses of the list.
LEMMA Addresses ==
  ASSUME SectionInv, NEW i \in 1..Len(contexts)
  PROVE  contexts[i].h \in Handles /\ lib[contexts[i].h] # "free"
<1>1. contexts[i] \in Context
  BY DEF SectionInv, TypeOK
<1>2. contexts[i].h \in Handles
  BY <1>1 DEF Context
<1> QED BY <1>2 DEF SectionInv, ListInv

\* A step that keeps every context's address where it is and frees none, and
\* leaves the worker at a context it had or at none, keeps the invariant.
LEMMA SameList ==
  ASSUME SectionInv,
         Len(contexts') = Len(contexts),
         \A i \in 1..Len(contexts) : contexts'[i].h = contexts[i].h,
         \A i \in 1..Len(contexts) : lib'[contexts[i].h] # "free",
         section' = section,
         wpc' \in {"serve", "select", "errno", "remove"} =>
           \E i \in 1..Len(contexts) : contexts[i].h = cur'.h
  PROVE  ListInv' /\ SectionFree'
BY DEF SectionInv, TypeOK, ListInv, SectionFree, Known

\* Every step of the worker keeps the list in order.
LEMMA WorkerSection ==
  ASSUME SectionInv, Worker \/ SpuriousWake PROVE ListInv' /\ SectionFree'
<1> USE DEF Goto
<1>1. CASE Start \/ End \/ Look \/ Wait \/ SpuriousWake \/ PostError
  BY <1>1, SameList DEF Start, End, Look, Wait, SpuriousWake, PostError, SectionInv, ListInv
<1>2. CASE Pick
  <2>1. wpc' \in {"serve", "select", "errno", "remove"} => \E i \in 1..Len(contexts) : contexts[i].h = cur'.h
    <3> SUFFICES ASSUME wpc' = "serve" PROVE \E i \in 1..Len(contexts) : contexts[i].h = cur'.h
      BY <1>2 DEF Pick
    <3>1. Len(contexts) # 0 /\ pos' = IF pos + 1 >= Len(contexts) THEN 0 ELSE pos + 1
      BY <1>2 DEF Pick, SectionInv, TypeOK
    <3>2. pos' + 1 \in 1..Len(contexts)
      BY <3>1 DEF SectionInv, TypeOK
    <3>3. cur'.h = contexts[pos' + 1].h
      BY <1>2, <3>1 DEF Pick
    <3> QED BY <3>2, <3>3
  <2>2. contexts' = contexts /\ lib' = lib /\ section' = section
    BY <1>2 DEF Pick
  <2> QED BY <2>1, <2>2, SameList DEF SectionInv, ListInv
<1>3. CASE Serve \/ Select
  <2>1. contexts' = contexts /\ section' = section
    BY <1>3 DEF Serve, Select
  <2>2. PICK x \in LibStates \ {"free"} : lib' = lib \/ lib' = [lib EXCEPT ![cur.h] = x]
    BY <1>3 DEF Serve, Select, LibStates
  <2>3. \A i \in 1..Len(contexts) : lib'[contexts[i].h] # "free"
    <3>1. lib \in [Handles -> LibStates] /\ x # "free"
      BY DEF SectionInv, TypeOK
    <3>2. \A h \in Handles : lib[h] # "free" => lib'[h] # "free"
      BY <2>2, <3>1
    <3> QED BY <3>2, Addresses
  <2>4. wpc \in {"serve", "select"} /\ (wpc' \in {"serve", "select", "errno", "remove"} => cur'.h = cur.h)
    BY <1>3 DEF Serve, Select, SectionInv, TypeOK
  <2>5. \E i \in 1..Len(contexts) : contexts[i].h = cur.h
    BY <2>4 DEF SectionInv, SectionFree, Known
  <2> QED BY <2>1, <2>3, <2>4, <2>5, SameList
<1>4. CASE Remove
  <2>1. PICK i \in 1..Len(contexts) : contexts[i].h = cur.h /\ contexts' = Without(i)
    BY <1>4 DEF Remove, Known
  <2>2. /\ Len(contexts') = Len(contexts) - 1
        /\ \A k \in 1..Len(contexts') : contexts'[k] = contexts[IF k < i THEN k ELSE k + 1]
    <3>1. contexts \in Seq(Context)
      BY DEF SectionInv, TypeOK
    <3> QED BY <2>1, <3>1, WithoutOne
  <2> DEFINE o(k) == IF k < i THEN k ELSE k + 1
  <2>3. \A k \in 1..Len(contexts') : /\ o(k) \in 1..Len(contexts) /\ o(k) # i
                                    /\ contexts'[k] = contexts[o(k)]
    <3>1. Len(contexts) \in Nat
      BY DEF SectionInv, TypeOK
    <3>2. \A n \in Nat : \A k \in 1..(n - 1) : o(k) \in 1..n /\ o(k) # i
      OBVIOUS
    <3> QED BY <2>2, <3>1, <3>2
  <2>4. \A j, k \in 1..Len(contexts') : o(j) = o(k) => j = k
    BY <2>2 DEF SectionInv, TypeOK
  <2> HIDE DEF o
  <2>5. \A j, k \in 1..Len(contexts') : contexts'[j].h = contexts'[k].h => j = k
    <3> TAKE j, k \in 1..Len(contexts')
    <3> HAVE contexts'[j].h = contexts'[k].h
    <3>1. o(j) \in 1..Len(contexts) /\ o(k) \in 1..Len(contexts)
      BY <2>3
    <3>2. contexts[o(j)].h = contexts[o(k)].h
      BY <2>3
    <3>3. \A m, n \in 1..Len(contexts) : contexts[m].h = contexts[n].h => m = n
      BY DEF SectionInv, ListInv
    <3>4. o(j) = o(k)
      BY <3>1, <3>2, <3>3
    <3> QED BY <2>4, <3>4
  <2>6. \A k \in 1..Len(contexts') : lib'[contexts'[k].h] # "free"
    <3>1. \A k \in 1..Len(contexts') : contexts[o(k)].h # cur.h
      BY <2>1, <2>3 DEF SectionInv, ListInv
    <3>2. lib' = [lib EXCEPT ![cur.h] = "free"] /\ lib \in [Handles -> LibStates]
      BY <1>4 DEF Remove, SectionInv, TypeOK
    <3>3. \A h \in Handles : h # cur.h /\ lib[h] # "free" => lib'[h] # "free"
      BY <3>2
    <3> QED BY <2>3, <3>1, <3>3, Addresses
  <2> QED BY <1>4, <2>5, <2>6 DEF Remove, ListInv, SectionFree, SectionInv
<1>5. CASE ReadErrno
  <2>1. UNCHANGED <<contexts, lib, section>> /\ wpc = "errno"
    BY <1>5 DEF ReadErrno
  <2>2. wpc' = "loop" \/ (wpc' = "remove" /\ cur' = cur)
    BY <1>5 DEF ReadErrno
  <2>3. \E i \in 1..Len(contexts) : contexts[i].h = cur.h
    BY <2>1 DEF SectionInv, SectionFree, Known
  <2> QED BY <2>1, <2>2, <2>3, SameList DEF SectionInv, ListInv
<1> QED BY <1>1, <1>2, <1>3, <1>4, <1>5 DEF Worker

\* Connect finds no context with the new address and adds one at the end.
LEMMA ConnectSection ==
  ASSUME SectionInv, NEW s \in Sessions, Connect(s) PROVE ListInv' /\ SectionFree'
<1>1. PICK h \in Handles :
        /\ lib[h] = "free" /\ lib' = [lib EXCEPT ![h] = "init"]
        /\ IF Known(h) # {}
             THEN section' = "gui" /\ UNCHANGED <<contexts, gpc, gs>>
             ELSE /\ contexts' = Append(contexts, [h |-> h, s |-> s, leaving |-> FALSE])
                  /\ gpc' = "signal" /\ gs' = s
                  /\ UNCHANGED section
  BY DEF Connect
<1>2. \A i \in 1..Len(contexts) : contexts[i].h # h
  BY <1>1 DEF SectionInv, ListInv
<1>3. Known(h) = {}
  BY <1>2 DEF Known
<1> DEFINE c == [h |-> h, s |-> s, leaving |-> FALSE]
           n == Len(contexts)
<1>4. contexts' = Append(contexts, c) /\ section' = section /\ c.h = h /\ c \in Context
  BY <1>1, <1>3 DEF Context
<1> HIDE DEF c
<1>5. n \in Nat /\ Len(contexts') = n + 1 /\ contexts'[n + 1] = c
      /\ \A i \in 1..n : contexts'[i] = contexts[i]
  BY <1>4, AppendProperties DEF SectionInv, TypeOK
<1> HIDE DEF n
<1>6. \A i \in 1..(n + 1) : i \in 1..n \/ i = n + 1
  BY <1>5
<1>7. \A i, j \in 1..Len(contexts') : contexts'[i].h = contexts'[j].h => i = j
  BY <1>2, <1>4, <1>5, <1>6 DEF SectionInv, ListInv, n
<1>8. \A i \in 1..Len(contexts') : lib'[contexts'[i].h] # "free"
  <2>1. \A i \in 1..n : contexts[i].h \in Handles /\ lib[contexts[i].h] # "free"
    BY Addresses DEF n
  <2>2. lib'[h] = "init" /\ \A g \in Handles : lib'[g] \in {lib[g], "init"}
    BY <1>1 DEF SectionInv, TypeOK
  <2> QED BY <2>1, <2>2, <1>4, <1>5, <1>6
<1>9. UNCHANGED <<wpc, cur>>
  BY DEF Connect, workerVars
<1>10. wpc \in {"serve", "select", "errno", "remove"} => \E i \in 1..Len(contexts') : contexts'[i].h = cur.h
  <2>1. ASSUME wpc \in {"serve", "select", "errno", "remove"}
        PROVE  \E i \in 1..n : contexts[i].h = cur.h
    BY <2>1 DEF SectionInv, SectionFree, Known, n
  <2>2. \A i \in 1..n : i \in 1..Len(contexts')
    BY <1>5
  <2> QED BY <2>1, <2>2, <1>5
<1> QED BY <1>4, <1>7, <1>8, <1>9, <1>10 DEF ListInv, SectionFree, Known, SectionInv

\* Every other step of the GUI thread keeps the list in order.
LEMMA GuiSection ==
  ASSUME SectionInv,
         \/ \E s \in Sessions : Disconnect(s) \/ Command(s) \/ OnEvent(s)
         \/ Signal \/ Mark \/ Deinit \/ Shutdown
  PROVE  ListInv' /\ SectionFree'
<1>1. lib' = lib /\ section' = section /\ cur'.h = cur.h
  BY DEF Use, SectionInv, TypeOK, Disconnect, Command, OnEvent, OnConnect, OnError, TakeEvent, Signal, Mark, Deinit,
         Shutdown, Terminate, TerminateSignal, Join, workerVars
<1>2. wpc' = wpc \/ (wpc = "asleep" /\ wpc' = "loop")
  BY DEF Disconnect, Command, OnEvent, OnConnect, OnError, TakeEvent, Signal, Mark, Deinit,
         Shutdown, Terminate, TerminateSignal, Join, workerVars
<1>3. Len(contexts') = Len(contexts) /\ \A i \in 1..Len(contexts) : contexts'[i].h = contexts[i].h
  <2>1. CASE Mark
    <3>1. \A i \in 1..Len(contexts) : contexts[i] \in Context
      BY DEF SectionInv, TypeOK
    <3>2. \A c \in Context : [c EXCEPT !.leaving = TRUE].h = c.h
      BY DEF Context
    <3> DEFINE n == Len(contexts)
               f(i) == IF i \in Known(mine[gs]) THEN [contexts[i] EXCEPT !.leaving = TRUE]
                       ELSE contexts[i]
    <3>3. n \in Nat /\ \A i \in 1..n : f(i).h = contexts[i].h
      BY <3>1, <3>2 DEF SectionInv, TypeOK
    <3>4. contexts' = [i \in 1..n |-> f(i)]
      BY <2>1 DEF Mark
    <3> HIDE DEF n, f
    <3>5. Len(contexts') = n /\ \A i \in 1..n : contexts'[i].h = contexts[i].h
      BY <3>3, <3>4
    <3> QED BY <3>5 DEF n
  <2>2. CASE contexts' = contexts
    BY <2>2
  <2>3. Mark \/ contexts' = contexts
    BY DEF Disconnect, Command, OnEvent, OnConnect, OnError, TakeEvent, Signal, Deinit,
           Shutdown, Terminate, TerminateSignal, Join
  <2> QED BY <2>1, <2>2, <2>3
<1>4. wpc' \in {"serve", "select", "errno", "remove"} => \E i \in 1..Len(contexts) : contexts[i].h = cur'.h
  BY <1>1, <1>2 DEF SectionInv, SectionFree, Known
<1> QED BY <1>1, <1>3, <1>4, SameList DEF SectionInv, ListInv

\* Every step keeps the types and the list in order.
LEMMA StepSection == SectionInv /\ [Next]_vars => SectionInv'
<1> SUFFICES ASSUME SectionInv, [Next]_vars PROVE SectionInv'
  OBVIOUS
<1>1. CASE Next
  BY <1>1, StepType, WorkerSection, ConnectSection, GuiSection DEF Next, SectionInv
<1>2. CASE UNCHANGED vars
  BY <1>2, StepType, SameList DEF vars, workerVars, SectionInv, ListInv, SectionFree, Known
<1> QED BY <1>1, <1>2

\* CslIrcThread::Connect never returns with m_section entered, and the context
\* the worker serves stays in the list until the worker takes it out.
THEOREM SectionCorrect == Spec => []SectionFree
<1>1. Init => ListInv /\ SectionFree
  BY DEF Init, ListInv, SectionFree
<1>2. SectionInv => SectionFree
  BY DEF SectionInv
<1>3. Init => SectionInv
  BY <1>1, InitType DEF SectionInv
<1>4. SectionInv /\ [Next]_vars => SectionInv'
  BY StepSection
<1> QED BY <1>2, <1>3, <1>4, PTL DEF Spec

-----------------------------------------------------------------------------
(* Whose connections there are.                                            *)

\* Session s has a connection with handle h; and one that is not to be left.
Has(h, s)  == \E i \in 1..Len(contexts) : contexts[i].h = h /\ contexts[i].s = s
Live(h, s) == \E i \in 1..Len(contexts) :
                contexts[i].h = h /\ contexts[i].s = s /\ ~contexts[i].leaving

Served    == wpc \in {"serve", "select", "errno", "remove"}
Posting(s) == wpc = "post" /\ cur.s = s
IsError(e) == e \in {"lost", "resolv"}
Backed(s) == Has(mine[s], s) \/ (overlap[s] /\ \E h \in Handles : Has(h, s))

\* The context served is its session's.
CurInv == Served => Has(cur.h, cur.s)

\* A session that has not connected too soon has one connection at most, its own, and
\* with it no error under way.
OneInv ==
  \A s \in Sessions, h \in Handles :
    Has(h, s) /\ ~overlap[s] => h = mine[s] /\ ~ErrorUnderWay(s)

\* A session that believes to be connected, or is about to, has a connection or an error
\* under way.
StateInv ==
  \A s \in Sessions :
    state[s] # "disconnected" \/ (gpc = "signal" /\ gs = s) => Backed(s) \/ ErrorUnderWay(s)

\* An event that makes a session believe so is followed by an error if the connection is gone.
EventInv ==
  \A s \in Sessions : \A i \in 1..Len(events[s]) :
    events[s][i] = "connect" =>
      Backed(s) \/ Posting(s) \/ \E j \in 1..Len(events[s]) : i < j /\ IsError(events[s][j])

\* A connection that is not to be left is that of a session that knows it.
LeaveInv ==
  \A s \in Sessions, h \in Handles :
    Live(h, s) /\ ~overlap[s] =>
      state[s] # "disconnected" \/ (gpc \in {"signal", "mark"} /\ gs = s)

OwnInv == CurInv /\ OneInv /\ StateInv /\ EventInv /\ LeaveInv

\* A context of the list is a context, and only one has its handle.
LEMMA HasFacts ==
  ASSUME SectionInv, NEW h, NEW s, Has(h, s)
  PROVE  /\ h \in Handles /\ s \in Sessions /\ lib[h] # "free"
         /\ \A r : Has(h, r) => r = s
<1>1. PICK i \in 1..Len(contexts) : contexts[i].h = h /\ contexts[i].s = s
  BY DEF Has
<1>2. contexts[i] \in Context
  BY DEF SectionInv, TypeOK
<1>3. lib[h] # "free"
  BY <1>1 DEF SectionInv, ListInv
<1>4. ASSUME NEW r, Has(h, r) PROVE r = s
  <2>1. PICK j \in 1..Len(contexts) : contexts[j].h = h /\ contexts[j].s = r
    BY <1>4 DEF Has
  <2>2. i = j
    BY <1>1, <2>1 DEF SectionInv, ListInv
  <2> QED BY <1>1, <2>1, <2>2
<1> QED BY <1>1, <1>2, <1>3, <1>4 DEF Context

LEMMA LiveHas == \A h, s : Live(h, s) => Has(h, s)
BY DEF Live, Has

\* The errors under way, by where they are.
LEMMA ErrorsSplit ==
  \A s : ErrorUnderWay(s) <=>
        Posting(s) \/ \E i \in 1..Len(events[s]) : IsError(events[s][i])
BY DEF ErrorUnderWay, Posting, IsError

\* The steps that concern no connection.
LEMMA OwnStill ==
  ASSUME OwnInv, UNCHANGED <<contexts, state, mine, events, overlap>>,
         gpc' \in {"signal", "mark"} \/ gpc \in {"signal", "mark"} => gpc' = gpc /\ gs' = gs,
         \A s : Posting(s)' <=> Posting(s), CurInv'
  PROVE  OwnInv'
<1>1. \A h, s : (Has(h, s)' <=> Has(h, s)) /\ (Live(h, s)' <=> Live(h, s))
  BY DEF Has, Live
<1>2. \A s : ErrorUnderWay(s)' <=> ErrorUnderWay(s)
  <2>1. \A s : ErrorUnderWay(s)' <=>
          (Posting(s)' \/ \E i \in 1..Len(events[s]) : IsError(events[s][i]))
    BY DEF ErrorUnderWay, Posting, IsError
  <2> QED BY <2>1, ErrorsSplit
<1>3. \A s : Backed(s)' <=> Backed(s)
  BY <1>1 DEF Backed
<1>4. OneInv'
  BY <1>1, <1>2 DEF OwnInv, OneInv
<1>5. StateInv'
  BY <1>2, <1>3 DEF OwnInv, StateInv
<1>6. EventInv'
  BY <1>3 DEF OwnInv, EventInv
<1>7. LeaveInv'
  BY <1>1 DEF OwnInv, LeaveInv
<1> QED BY <1>4, <1>5, <1>6, <1>7 DEF OwnInv

\* Pick finds a context of the list.
LEMMA PickOwn ==
  ASSUME SectionInv, OwnInv, Pick PROVE CurInv'
<1> SUFFICES ASSUME contexts # <<>> PROVE Has(cur'.h, cur'.s)
  BY DEF Pick, Goto, CurInv, Served, Has
<1>1. pos' + 1 \in 1..Len(contexts)
  BY DEF Pick, SectionInv, TypeOK
<1>2. cur' = [h |-> contexts[pos' + 1].h, s |-> contexts[pos' + 1].s, err |-> "none"]
  BY DEF Pick
<1> QED BY <1>1, <1>2 DEF Has

\* The steps of the worker that concern no connection.
LEMMA QuietWorker ==
  ASSUME SectionInv, OwnInv,
         Start \/ Pick \/ End \/ Look \/ Wait \/ SpuriousWake \/ Serve \/ ReadErrno
  PROVE  OwnInv'
<1>1. UNCHANGED <<contexts, state, mine, events, overlap, gpc, gs>>
  BY DEF Start, Pick, End, Look, Wait, SpuriousWake, Serve, ReadErrno, guiVars
<1>2. wpc # "post" /\ wpc' # "post"
  BY DEF Start, Pick, End, Look, Wait, SpuriousWake, Serve, ReadErrno, Goto
<1>3. CurInv'
  <2>1. CASE Pick
    BY <2>1, PickOwn
  <2>2. CASE Start \/ End \/ Look \/ Wait \/ SpuriousWake
    BY <2>2 DEF Start, End, Look, Wait, SpuriousWake, Goto, CurInv, Served
  <2>3. CASE Serve \/ ReadErrno
    <3>1. Served /\ (Served' => cur'.h = cur.h /\ cur'.s = cur.s)
      BY <2>3 DEF Serve, ReadErrno, Served, NoCurrent, SectionInv, TypeOK
    <3>2. Has(cur.h, cur.s)
      BY <3>1 DEF OwnInv, CurInv
    <3> QED BY <1>1, <3>1, <3>2 DEF CurInv, Has
  <2> QED BY <2>1, <2>2, <2>3
<1> QED BY <1>1, <1>2, <1>3, OwnStill DEF Posting

\* The steps of the GUI thread that concern no connection.
LEMMA QuietGui ==
  ASSUME SectionInv, OwnInv,
         (\E s \in Sessions : Command(s)) \/ Deinit \/ Shutdown
  PROVE  OwnInv'
<1>1. UNCHANGED <<contexts, state, mine, events, overlap, gs>>
  BY DEF Command, Deinit, Shutdown, Terminate, TerminateSignal, Join
<1>2. gpc \in {"idle", "lock", "join"} /\ gpc' \in {"idle", "lock", "join", "over"}
  BY DEF Command, GuiIdle, Deinit, Shutdown, Terminate, TerminateSignal, Join
<1>3. cur'.h = cur.h /\ cur'.s = cur.s
  BY DEF Command, Use, Deinit, Shutdown, Terminate, TerminateSignal, Join, workerVars, SectionInv, TypeOK
<1>4. wpc' = wpc \/ (wpc = "asleep" /\ wpc' = "loop")
  BY DEF Command, Deinit, Shutdown, Terminate, TerminateSignal, Join, workerVars
<1>5. CurInv'
  BY <1>1, <1>3, <1>4 DEF OwnInv, CurInv, Served, Has
<1>6. \A s : Posting(s)' <=> Posting(s)
  BY <1>3, <1>4 DEF Posting
<1> QED BY <1>1, <1>2, <1>5, <1>6, OwnStill

\* A step of the GUI thread that leaves the worker where it is, or wakes it.
LEMMA GuiStill ==
  ASSUME SectionInv, OwnInv, UNCHANGED wpc \/ (wpc = "asleep" /\ wpc' = "loop"),
         cur'.h = cur.h, cur'.s = cur.s,
         \A h, s : Has(h, s) => Has(h, s)'
  PROVE  CurInv' /\ \A s : Posting(s)' <=> Posting(s)
BY DEF OwnInv, CurInv, Served, Posting

\* The signal: from here on the session believes to connect.
LEMMA SignalOwn == ASSUME SectionInv, OwnInv, Signal PROVE OwnInv'
<1>1. /\ UNCHANGED <<contexts, mine, events, overlap, cur>>
      /\ gpc = "signal" /\ gpc' = "idle" /\ gs \in Sessions
      /\ state' = [state EXCEPT ![gs] = "connecting"] /\ DOMAIN state = Sessions
      /\ UNCHANGED wpc \/ (wpc = "asleep" /\ wpc' = "loop")
  BY DEF Signal, SectionInv, TypeOK
<1>2. \A h, s : (Has(h, s)' <=> Has(h, s)) /\ (Live(h, s)' <=> Live(h, s))
  BY <1>1 DEF Has, Live
<1>3. CurInv' /\ \A s : Posting(s)' <=> Posting(s)
  BY <1>1, <1>2, GuiStill
<1>4. \A s : ErrorUnderWay(s)' <=> ErrorUnderWay(s)
  BY <1>1, <1>3 DEF ErrorUnderWay, Posting
<1>5. \A s : Backed(s)' <=> Backed(s)
  BY <1>1, <1>2 DEF Backed
<1>6. OneInv'
  BY <1>1, <1>2, <1>4 DEF OwnInv, OneInv
<1>7. StateInv'
  BY <1>1, <1>4, <1>5 DEF OwnInv, StateInv
<1>8. EventInv'
  BY <1>1, <1>3, <1>5 DEF OwnInv, EventInv
<1>9. LeaveInv'
  BY <1>1, <1>2 DEF OwnInv, LeaveInv
<1> QED BY <1>3, <1>6, <1>7, <1>8, <1>9 DEF OwnInv

\* The session is shown as disconnected, its connection is about to be marked.
LEMMA DisconnectOwn ==
  ASSUME SectionInv, OwnInv, NEW r \in Sessions, Disconnect(r) PROVE OwnInv'
<1>1. /\ UNCHANGED <<contexts, mine, events, overlap, wpc>>
      /\ gpc = "idle" /\ gpc' = "mark" /\ gs' = r
      /\ state' = [state EXCEPT ![r] = "disconnected"] /\ DOMAIN state = Sessions
      /\ cur'.h = cur.h /\ cur'.s = cur.s
  BY DEF Disconnect, Use, SectionInv, TypeOK
<1>2. \A h, s : (Has(h, s)' <=> Has(h, s)) /\ (Live(h, s)' <=> Live(h, s))
  BY <1>1 DEF Has, Live
<1>3. CurInv' /\ \A s : Posting(s)' <=> Posting(s)
  BY <1>1, <1>2, GuiStill
<1>4. \A s : ErrorUnderWay(s)' <=> ErrorUnderWay(s)
  BY <1>1, <1>3 DEF ErrorUnderWay, Posting
<1>5. \A s : Backed(s)' <=> Backed(s)
  BY <1>1, <1>2 DEF Backed
<1>6. OneInv'
  BY <1>1, <1>2, <1>4 DEF OwnInv, OneInv
<1>7. StateInv'
  BY <1>1, <1>4, <1>5 DEF OwnInv, StateInv
<1>8. EventInv'
  BY <1>1, <1>3, <1>5 DEF OwnInv, EventInv
<1>9. LeaveInv'
  BY <1>1, <1>2 DEF OwnInv, LeaveInv
<1> QED BY <1>3, <1>6, <1>7, <1>8, <1>9 DEF OwnInv

\* Mark: only the connection with the session's handle is to be left from now on.
LEMMA MarkOwn == ASSUME SectionInv, OwnInv, Mark PROVE OwnInv'
<1>1. /\ UNCHANGED <<mine, events, overlap, wpc, cur, state>>
      /\ gpc = "mark" /\ gpc' = "idle"
  BY DEF Mark, workerVars
<1>2. /\ Len(contexts') = Len(contexts) /\ Len(contexts) \in Nat
      /\ \A i \in 1..Len(contexts) :
           /\ contexts'[i].h = contexts[i].h /\ contexts'[i].s = contexts[i].s
           /\ ~contexts'[i].leaving => ~contexts[i].leaving /\ contexts[i].h # mine[gs]
  <2> DEFINE n == Len(contexts)
             f(i) == IF i \in Known(mine[gs]) THEN [contexts[i] EXCEPT !.leaving = TRUE]
                     ELSE contexts[i]
  <2>1. n \in Nat /\ \A i \in 1..n : contexts[i] \in Context
    BY DEF SectionInv, TypeOK
  <2>2. \A c \in Context : /\ [c EXCEPT !.leaving = TRUE].h = c.h
                           /\ [c EXCEPT !.leaving = TRUE].s = c.s
                           /\ [c EXCEPT !.leaving = TRUE].leaving = TRUE
    BY DEF Context
  <2>3. \A i \in 1..n : i \in Known(mine[gs]) <=> contexts[i].h = mine[gs]
    BY DEF Known
  <2>4. \A i \in 1..n : /\ f(i).h = contexts[i].h /\ f(i).s = contexts[i].s
                        /\ ~f(i).leaving => ~contexts[i].leaving /\ contexts[i].h # mine[gs]
    BY <2>1, <2>2, <2>3
  <2>5. contexts' = [i \in 1..n |-> f(i)]
    BY DEF Mark
  <2> HIDE DEF n, f
  <2>6. Len(contexts') = n /\ \A i \in 1..n : contexts'[i] = f(i)
    BY <2>1, <2>5
  <2> QED BY <2>1, <2>4, <2>6 DEF n
<1>3. \A h, s : (Has(h, s)' <=> Has(h, s)) /\ (Live(h, s)' => Live(h, s) /\ h # mine[gs])
  BY <1>2 DEF Has, Live
<1>4. CurInv' /\ \A s : Posting(s)' <=> Posting(s)
  BY <1>1, <1>3, GuiStill
<1>5. \A s : ErrorUnderWay(s)' <=> ErrorUnderWay(s)
  BY <1>1 DEF ErrorUnderWay
<1>6. \A s : Backed(s)' <=> Backed(s)
  BY <1>1, <1>3 DEF Backed
<1>7. OneInv'
  BY <1>1, <1>3, <1>5 DEF OwnInv, OneInv
<1>8. StateInv'
  BY <1>1, <1>5, <1>6 DEF OwnInv, StateInv
<1>9. EventInv'
  BY <1>1, <1>4, <1>6 DEF OwnInv, EventInv
<1>10. LeaveInv'
  <2> SUFFICES ASSUME NEW s \in Sessions, NEW h \in Handles, Live(h, s)', ~overlap[s]
               PROVE  state[s] # "disconnected"
    BY <1>1 DEF LeaveInv
  <2>1. Live(h, s) /\ h # mine[gs] /\ Has(h, s)
    BY <1>3, LiveHas
  <2>2. h = mine[s]
    BY <2>1 DEF OwnInv, OneInv
  <2> QED BY <2>1, <2>2 DEF OwnInv, LeaveInv
<1> QED BY <1>4, <1>7, <1>8, <1>9, <1>10 DEF OwnInv

\* RemoveContext takes the one context with the worker's handle away; its session is going
\* to be told.
LEMMA RemoveOwn == ASSUME SectionInv, OwnInv, Remove PROVE OwnInv'
<1>1. /\ UNCHANGED <<mine, events, overlap, state, gpc, gs, cur>>
      /\ wpc = "remove" /\ wpc' = "post"
  BY DEF Remove, Goto, guiVars
<1>2. PICK i \in 1..Len(contexts) : contexts[i].h = cur.h /\ contexts' = Without(i)
  BY DEF Remove, Known
<1>3. /\ Len(contexts) \in Nat /\ Len(contexts') = Len(contexts) - 1
      /\ \A k \in 1..Len(contexts') : contexts'[k] = contexts[IF k < i THEN k ELSE k + 1]
  <2>1. contexts \in Seq(Context)
    BY DEF SectionInv, TypeOK
  <2> QED BY <1>2, <2>1, WithoutOne
<1> DEFINE o(k) == IF k < i THEN k ELSE k + 1
<1>4. \A k \in 1..Len(contexts') : o(k) \in 1..Len(contexts) /\ o(k) # i
  <2>1. \A n \in Nat : \A k \in 1..(n - 1) : o(k) \in 1..n /\ o(k) # i
    OBVIOUS
  <2> QED BY <1>3, <2>1
<1>5. \A k \in 1..Len(contexts') : contexts'[k] = contexts[o(k)]
  BY <1>3
<1> HIDE DEF o
<1>6. \A h, s : (Has(h, s)' => Has(h, s) /\ h # cur.h) /\ (Live(h, s)' => Live(h, s))
  <2>1. \A k \in 1..Len(contexts) : contexts[k].h = cur.h => k = i
    BY <1>2 DEF SectionInv, ListInv
  <2> QED BY <1>4, <1>5, <2>1 DEF Has, Live
<1>7. \A h, s : Has(h, s) /\ h # cur.h => Has(h, s)'
  <2> SUFFICES ASSUME NEW h, NEW s, Has(h, s), h # cur.h PROVE Has(h, s)'
    OBVIOUS
  <2>1. PICK j \in 1..Len(contexts) : contexts[j].h = h /\ contexts[j].s = s
    BY DEF Has
  <2>2. j # i
    BY <1>2, <2>1
  <2>3. PICK k \in 1..Len(contexts') : o(k) = j
    <3>1. CASE j < i
      <4>1. j \in 1..Len(contexts') /\ o(j) = j
        BY <1>3, <3>1 DEF o
      <4> QED BY <4>1
    <3>2. CASE ~(j < i)
      <4>1. (j - 1) \in 1..Len(contexts') /\ o(j - 1) = j
        BY <1>3, <2>2, <3>2 DEF o
      <4> QED BY <4>1
    <3> QED BY <3>1, <3>2
  <2>4. contexts'[k] = contexts[j]
    BY <1>5, <2>3
  <2> QED BY <2>1, <2>3, <2>4 DEF Has
<1>8. Has(cur.h, cur.s) /\ \A s : Has(cur.h, s) => s = cur.s
  <2>1. Has(cur.h, cur.s)
    BY <1>1 DEF OwnInv, CurInv, Served
  <2> QED BY <2>1, HasFacts
<1>9. \A s : Posting(s)' <=> s = cur.s
  BY <1>1 DEF Posting
<1>10. \A s : ~Posting(s)
  BY <1>1 DEF Posting
<1>11. \A s : ErrorUnderWay(s)' <=> ErrorUnderWay(s) \/ s = cur.s
  BY <1>1, <1>9, <1>10 DEF ErrorUnderWay, Posting
<1>12. \A s : s # cur.s => (Backed(s) => Backed(s)')
  <2> SUFFICES ASSUME NEW s, s # cur.s, Backed(s) PROVE Backed(s)'
    OBVIOUS
  <2>1. \A h : Has(h, s) => Has(h, s)'
    BY <1>7, <1>8
  <2> QED BY <1>1, <2>1 DEF Backed
<1>13. CurInv'
  BY <1>1 DEF CurInv, Served
<1>14. OneInv'
  <2> SUFFICES ASSUME NEW s \in Sessions, NEW h \in Handles, Has(h, s)', ~overlap[s]
               PROVE  h = mine[s] /\ ~ErrorUnderWay(s)'
    BY <1>1 DEF OneInv
  <2>1. Has(h, s) /\ h # cur.h
    BY <1>6
  <2>2. h = mine[s] /\ ~ErrorUnderWay(s)
    BY <2>1 DEF OwnInv, OneInv
  <2>3. s # cur.s
    <3> SUFFICES ASSUME s = cur.s PROVE FALSE
      OBVIOUS
    <3>1. cur.h \in Handles
      BY <1>8, HasFacts
    <3>2. cur.h = mine[s]
      BY <1>8, <3>1 DEF OwnInv, OneInv
    <3> QED BY <2>1, <2>2, <3>2
  <2> QED BY <1>11, <2>2, <2>3
<1>15. StateInv'
  BY <1>1, <1>11, <1>12 DEF OwnInv, StateInv
<1>16. EventInv'
  BY <1>1, <1>9, <1>10, <1>12 DEF OwnInv, EventInv
<1>17. LeaveInv'
  BY <1>1, <1>6 DEF OwnInv, LeaveInv
<1> QED BY <1>13, <1>14, <1>15, <1>16, <1>17 DEF OwnInv

\* A posted event comes after the others.
LEMMA Posted ==
  ASSUME SectionInv, NEW r \in Sessions, NEW e \in {"connect", "lost", "resolv"}, Post(r, e)
  PROVE  /\ \A s \in Sessions : s # r => events'[s] = events[s]
         /\ Len(events[r]) \in Nat /\ Len(events'[r]) = Len(events[r]) + 1
         /\ events'[r][Len(events[r]) + 1] = e
         /\ \A i \in 1..Len(events[r]) : events'[r][i] = events[r][i]
<1>1. events \in [Sessions -> Seq({"connect", "lost", "resolv"})]
  BY DEF SectionInv, TypeOK
<1>2. events' = [events EXCEPT ![r] = Append(events[r], e)]
  BY DEF Post
<1>3. events'[r] = Append(events[r], e) /\ \A s \in Sessions : s # r => events'[s] = events[s]
  BY <1>1, <1>2
<1> QED BY <1>1, <1>3, AppendProperties

\* The error of a removed connection is posted.
LEMMA PostErrorOwn == ASSUME SectionInv, OwnInv, PostError PROVE OwnInv'
<1>a. PICK r : r = cur.s
  OBVIOUS
<1>b. PICK n : n = Len(events[r])
  OBVIOUS
<1>1. /\ UNCHANGED <<contexts, mine, overlap, state, gpc, gs>>
      /\ wpc = "post" /\ wpc' = "loop" /\ Post(r, cur.err)
  BY <1>a DEF PostError, Goto, guiVars
<1>2. r \in Sessions /\ cur.err \in {"lost", "resolv"}
  BY <1>1, <1>a DEF SectionInv, TypeOK
<1>3. /\ \A s \in Sessions : s # r => events'[s] = events[s]
      /\ n \in Nat /\ Len(events'[r]) = n + 1 /\ events'[r][n + 1] = cur.err
      /\ \A i \in 1..n : events'[r][i] = events[r][i]
  BY <1>1, <1>2, <1>b, Posted
<1>4. \A s : (Posting(s) <=> s = r) /\ ~Posting(s)'
  BY <1>1, <1>a DEF Posting
<1>5. \A h, s : (Has(h, s)' <=> Has(h, s)) /\ (Live(h, s)' <=> Live(h, s))
  BY <1>1 DEF Has, Live
<1>6. \A s : Backed(s)' <=> Backed(s)
  BY <1>1, <1>5 DEF Backed
<1>7. IsError(events'[r][n + 1]) /\ n + 1 \in 1..Len(events'[r])
  BY <1>2, <1>3 DEF IsError
<1>8. \A s \in Sessions : ErrorUnderWay(s)' <=> ErrorUnderWay(s)
  <2>1. ErrorUnderWay(r) /\ ErrorUnderWay(r)'
    BY <1>4, <1>7 DEF ErrorUnderWay, Posting, IsError
  <2>2. \A s \in Sessions : s # r => (ErrorUnderWay(s)' <=> ErrorUnderWay(s))
    BY <1>3, <1>4 DEF ErrorUnderWay, Posting
  <2> QED BY <2>1, <2>2
<1>9. CurInv'
  BY <1>1 DEF CurInv, Served
<1>10. OneInv'
  BY <1>1, <1>5, <1>8 DEF OwnInv, OneInv
<1>11. StateInv'
  BY <1>1, <1>6, <1>8 DEF OwnInv, StateInv
<1>12. EventInv'
  <2> SUFFICES ASSUME NEW s \in Sessions, NEW i \in 1..Len(events'[s]), events'[s][i] = "connect"
               PROVE  Backed(s) \/ \E j \in 1..Len(events'[s]) : i < j /\ IsError(events'[s][j])
    BY <1>6 DEF EventInv
  <2>1. CASE s # r
    BY <2>1, <1>3, <1>4 DEF OwnInv, EventInv
  <2>2. CASE s = r
    <3>1. i # n + 1
      BY <2>2, <1>7 DEF IsError
    <3>2. i < n + 1
      BY <3>1, <2>2, <1>3
    <3> QED BY <3>2, <2>2, <1>7
  <2> QED BY <2>1, <2>2
<1>13. LeaveInv'
  BY <1>1, <1>5 DEF OwnInv, LeaveInv
<1> QED BY <1>9, <1>10, <1>11, <1>12, <1>13 DEF OwnInv

\* What the worker reads from the connection: if it is the end of the MOTD the session is
\* told so, which has the connection.
LEMMA SelectOwn == ASSUME SectionInv, OwnInv, Select PROVE OwnInv'
<1>a. PICK r : r = cur.s
  OBVIOUS
<1>b. PICK n : n = Len(events[r])
  OBVIOUS
<1>1. /\ UNCHANGED <<contexts, mine, overlap, state, gpc, gs>>
      /\ wpc = "select" /\ wpc' \in {"loop", "errno"}
      /\ wpc' = "errno" => cur'.h = cur.h /\ cur'.s = cur.s
      /\ UNCHANGED events \/ Post(r, "connect")
  BY <1>a DEF Select, guiVars, SectionInv, TypeOK
<1>2. r \in Sessions /\ Has(cur.h, r)
  BY <1>1, <1>a DEF SectionInv, TypeOK, OwnInv, CurInv, Served
<1>3. Post(r, "connect") =>
      /\ \A s \in Sessions : s # r => events'[s] = events[s]
      /\ n \in Nat /\ Len(events'[r]) = n + 1 /\ events'[r][n + 1] = "connect"
      /\ \A i \in 1..n : events'[r][i] = events[r][i]
  BY <1>2, <1>b, Posted
<1>4. \A s : ~Posting(s) /\ ~Posting(s)'
  BY <1>1 DEF Posting
<1>5. cur.h \in Handles
  BY <1>2, HasFacts
<1>6. \A h, s : (Has(h, s)' <=> Has(h, s)) /\ (Live(h, s)' <=> Live(h, s))
  BY <1>1 DEF Has, Live
<1>7. \A s : Backed(s)' <=> Backed(s)
  BY <1>1, <1>6 DEF Backed
<1>8. Backed(r)
  BY <1>2, <1>5 DEF OwnInv, OneInv, Backed
<1>9. \A s \in Sessions : ErrorUnderWay(s)' <=> ErrorUnderWay(s)
  <2>1. CASE UNCHANGED events
    BY <2>1, <1>4 DEF ErrorUnderWay, Posting
  <2>2. CASE Post(r, "connect")
    <3>1. \A s \in Sessions : s # r => (ErrorUnderWay(s)' <=> ErrorUnderWay(s))
      BY <2>2, <1>3, <1>4 DEF ErrorUnderWay, Posting
    <3>2. (\E i \in 1..(n + 1) : IsError(events'[r][i])) <=> \E i \in 1..n : IsError(events[r][i])
      <4>1. ~IsError(events'[r][n + 1])
        BY <2>2, <1>3 DEF IsError
      <4>2. n \in Nat /\ \A i \in 1..n : events'[r][i] = events[r][i]
        BY <2>2, <1>3
      <4>3. \A i \in 1..(n + 1) : i \in 1..n \/ i = n + 1
        BY <4>2
      <4>4. \A i \in 1..n : i \in 1..(n + 1)
        BY <4>2
      <4> QED BY <4>1, <4>2, <4>3, <4>4
    <3>3. ErrorUnderWay(r)' <=> ErrorUnderWay(r)
      BY <2>2, <1>3, <1>4, <1>b, <3>2 DEF ErrorUnderWay, Posting, IsError
    <3> QED BY <3>1, <3>3
  <2> QED BY <1>1, <2>1, <2>2
<1>10. CurInv'
  BY <1>1, <1>2, <1>6, <1>a DEF CurInv, Served
<1>11. OneInv'
  BY <1>1, <1>6, <1>9 DEF OwnInv, OneInv
<1>12. StateInv'
  BY <1>1, <1>7, <1>9 DEF OwnInv, StateInv
<1>13. EventInv'
  <2>1. CASE UNCHANGED events
    BY <2>1, <1>4, <1>7 DEF OwnInv, EventInv
  <2>2. CASE Post(r, "connect")
    BY <2>2, <1>3, <1>4, <1>7, <1>8, <1>b DEF OwnInv, EventInv
  <2> QED BY <1>1, <2>1, <2>2
<1>14. LeaveInv'
  BY <1>1, <1>6 DEF OwnInv, LeaveInv
<1> QED BY <1>10, <1>11, <1>12, <1>13, <1>14 DEF OwnInv

\* The event handled is the first, the others move up.
LEMMA Taken ==
  ASSUME SectionInv, NEW r \in Sessions, NEW e, TakeEvent(r, e)
  PROVE  /\ \A s \in Sessions : s # r => events'[s] = events[s]
         /\ Len(events'[r]) \in Nat /\ Len(events[r]) = Len(events'[r]) + 1
         /\ events[r][1] = e
         /\ \A i \in 1..Len(events'[r]) : events'[r][i] = events[r][i + 1]
         /\ \A i \in 1..Len(events[r]) : i = 1 \/ (i - 1) \in 1..Len(events'[r])
         /\ \A i \in 1..Len(events'[r]) : i + 1 \in 1..Len(events[r])
<1> DEFINE q == events[r]
<1>1. events \in [Sessions -> Seq({"connect", "lost", "resolv"})]
  BY DEF SectionInv, TypeOK
<1>2. q \in Seq({"connect", "lost", "resolv"}) /\ q # <<>> /\ Head(q) = e
  BY <1>1 DEF TakeEvent
<1>3. events' = [events EXCEPT ![r] = Tail(q)]
  BY DEF TakeEvent
<1>4. events'[r] = Tail(q) /\ \A s \in Sessions : s # r => events'[s] = events[s]
  BY <1>1, <1>3
<1> HIDE DEF q
<1>5. Len(q) \in Nat /\ Len(Tail(q)) \in Nat /\ Len(q) = Len(Tail(q)) + 1 /\ q[1] = e
      /\ \A i \in 1..Len(Tail(q)) : Tail(q)[i] = q[i + 1]
  BY <1>2
<1>6. /\ \A i \in 1..Len(q) : i = 1 \/ (i - 1) \in 1..Len(Tail(q))
      /\ \A i \in 1..Len(Tail(q)) : i + 1 \in 1..Len(q)
  BY <1>5
<1> QED BY <1>4, <1>5, <1>6 DEF q

\* What an event of session r leaves as it is.
LEMMA EventStill ==
  ASSUME SectionInv, OwnInv, NEW r \in Sessions, NEW e, TakeEvent(r, e),
         Use(r) \/ UNCHANGED <<crashed, cur, masked>>
  PROVE  /\ \A h, s : (Has(h, s)' <=> Has(h, s)) /\ (Live(h, s)' <=> Live(h, s))
         /\ CurInv' /\ \A s : Posting(s)' <=> Posting(s)
         /\ \A s : Backed(s)' <=> Backed(s)
         /\ \A s \in Sessions : s # r => (ErrorUnderWay(s)' <=> ErrorUnderWay(s))
         /\ ErrorUnderWay(r)' => ErrorUnderWay(r)
         /\ ErrorUnderWay(r) => ErrorUnderWay(r)' \/ IsError(e)
         /\ EventInv'
<1>1. UNCHANGED <<contexts, mine, overlap, gpc, gs, wpc>> /\ cur'.h = cur.h /\ cur'.s = cur.s
  BY DEF TakeEvent, Use, SectionInv, TypeOK
<1>2. \A h, s : (Has(h, s)' <=> Has(h, s)) /\ (Live(h, s)' <=> Live(h, s))
  BY <1>1 DEF Has, Live
<1>3. CurInv' /\ \A s : Posting(s)' <=> Posting(s)
  BY <1>1, <1>2, GuiStill
<1>4. \A s : Backed(s)' <=> Backed(s)
  BY <1>1, <1>2 DEF Backed
<1>5. PICK n \in Nat :
        /\ Len(events[r]) = n + 1 /\ Len(events'[r]) = n /\ events[r][1] = e
        /\ \A i \in 1..n : events'[r][i] = events[r][i + 1]
        /\ \A i \in 1..(n + 1) : i = 1 \/ (i - 1) \in 1..n
        /\ \A i \in 1..n : i + 1 \in 1..(n + 1)
        /\ \A s \in Sessions : s # r => events'[s] = events[s]
  BY Taken
<1>6. \A s \in Sessions : s # r => (ErrorUnderWay(s)' <=> ErrorUnderWay(s))
  BY <1>3, <1>5 DEF ErrorUnderWay, Posting
<1>7. /\ ErrorUnderWay(r) <=> Posting(r) \/ \E i \in 1..(n + 1) : IsError(events[r][i])
      /\ ErrorUnderWay(r)' <=> Posting(r) \/ \E i \in 1..n : IsError(events'[r][i])
  BY <1>3, <1>5 DEF ErrorUnderWay, Posting, IsError
<1>8. (\E i \in 1..n : IsError(events'[r][i])) => \E i \in 1..(n + 1) : IsError(events[r][i])
  BY <1>5
<1>9. ASSUME NEW i \in 1..(n + 1), IsError(events[r][i]), ~IsError(e)
      PROVE  \E k \in 1..n : IsError(events'[r][k])
  <2>1. i # 1
    BY <1>5, <1>9
  <2>2. (i - 1) \in 1..n /\ (i - 1) + 1 = i
    BY <2>1, <1>5
  <2>3. events'[r][i - 1] = events[r][i]
    BY <2>2, <1>5
  <2> QED BY <1>9, <2>2, <2>3
<1>10. EventInv'
  <2> SUFFICES ASSUME NEW s \in Sessions, NEW i \in 1..Len(events'[s]), events'[s][i] = "connect"
               PROVE  Backed(s) \/ Posting(s)
                      \/ \E j \in 1..Len(events'[s]) : i < j /\ IsError(events'[s][j])
    BY <1>3, <1>4 DEF EventInv
  <2>1. CASE s # r
    BY <2>1, <1>5 DEF OwnInv, EventInv
  <2>2. CASE s = r
    <3>1. i \in 1..n /\ i + 1 \in 1..(n + 1) /\ events[r][i + 1] = "connect"
      BY <2>2, <1>5
    <3>2. Backed(r) \/ Posting(r) \/ \E j \in 1..(n + 1) : i + 1 < j /\ IsError(events[r][j])
      BY <3>1, <1>5 DEF OwnInv, EventInv
    <3>3. ASSUME NEW j \in 1..(n + 1), i + 1 < j, IsError(events[r][j])
          PROVE  \E k \in 1..n : i < k /\ IsError(events'[r][k])
      <4>1. (j - 1) \in 1..n /\ i < j - 1 /\ (j - 1) + 1 = j
        BY <3>1, <3>3
      <4>2. events'[r][j - 1] = events[r][j]
        BY <4>1, <1>5
      <4> QED BY <3>3, <4>1, <4>2
    <3> QED BY <2>2, <3>2, <3>3, <1>5
  <2> QED BY <2>1, <2>2
<1> QED BY <1>2, <1>3, <1>4, <1>6, <1>7, <1>8, <1>9, <1>10

\* The end of the MOTD: the session believes to be connected.
LEMMA OnConnectOwn ==
  ASSUME SectionInv, OwnInv, NEW r \in Sessions, OnConnect(r) PROVE OwnInv'
<1>1. TakeEvent(r, "connect") /\ (Use(r) \/ UNCHANGED <<crashed, cur, masked>>)
  BY DEF OnConnect
<1>2. /\ \A h, s : (Has(h, s)' <=> Has(h, s)) /\ (Live(h, s)' <=> Live(h, s))
      /\ CurInv' /\ \A s : Posting(s)' <=> Posting(s)
      /\ \A s : Backed(s)' <=> Backed(s)
      /\ \A s \in Sessions : s # r => (ErrorUnderWay(s)' <=> ErrorUnderWay(s))
      /\ ErrorUnderWay(r)' => ErrorUnderWay(r)
      /\ ErrorUnderWay(r) => ErrorUnderWay(r)' \/ IsError("connect")
      /\ EventInv'
  BY <1>1, EventStill
<1>3. \A s \in Sessions : ErrorUnderWay(s)' <=> ErrorUnderWay(s)
  BY <1>2 DEF IsError
<1>4. /\ UNCHANGED <<mine, overlap, gpc, gs>>
      /\ state' = [state EXCEPT ![r] = "connected"] /\ DOMAIN state = Sessions
  BY <1>1 DEF OnConnect, TakeEvent, SectionInv, TypeOK
<1>5. Backed(r) \/ ErrorUnderWay(r)
  <2>1. events[r][1] = "connect" /\ 1 \in 1..Len(events[r])
    BY <1>1, Taken
  <2>2. Backed(r) \/ Posting(r) \/ \E j \in 1..Len(events[r]) : IsError(events[r][j])
    BY <2>1 DEF OwnInv, EventInv
  <2> QED BY <2>2, ErrorsSplit
<1>6. OneInv'
  BY <1>2, <1>3, <1>4 DEF OwnInv, OneInv
<1>7. StateInv'
  BY <1>2, <1>3, <1>4, <1>5 DEF OwnInv, StateInv
<1>8. LeaveInv'
  BY <1>2, <1>4 DEF OwnInv, LeaveInv
<1> QED BY <1>2, <1>6, <1>7, <1>8 DEF OwnInv

\* An error: unless it connected too soon the session has no connection by now.
LEMMA OnErrorOwn ==
  ASSUME SectionInv, OwnInv, NEW r \in Sessions, NEW e \in {"lost", "resolv"}, OnError(r, e)
  PROVE  OwnInv'
<1>1. TakeEvent(r, e) /\ UNCHANGED <<crashed, cur, masked>>
  BY DEF OnError
<1>2. /\ \A h, s : (Has(h, s)' <=> Has(h, s)) /\ (Live(h, s)' <=> Live(h, s))
      /\ CurInv' /\ \A s : Posting(s)' <=> Posting(s)
      /\ \A s : Backed(s)' <=> Backed(s)
      /\ \A s \in Sessions : s # r => (ErrorUnderWay(s)' <=> ErrorUnderWay(s))
      /\ ErrorUnderWay(r)' => ErrorUnderWay(r)
      /\ EventInv'
  BY <1>1, EventStill
<1>3. /\ UNCHANGED <<mine, overlap, gpc, gs>> /\ gpc = "idle"
      /\ state' = [state EXCEPT ![r] = "disconnected"] /\ DOMAIN state = Sessions
  BY <1>1 DEF OnError, TakeEvent, GuiIdle, SectionInv, TypeOK
<1>4. ErrorUnderWay(r)
  <2>1. events[r][1] = e /\ 1 \in 1..Len(events[r])
    BY <1>1, Taken
  <2> QED BY <2>1 DEF ErrorUnderWay
<1>5. \A h \in Handles : Has(h, r) => overlap[r]
  BY <1>4 DEF OwnInv, OneInv
<1>6. OneInv'
  BY <1>2, <1>3 DEF OwnInv, OneInv
<1>7. StateInv'
  BY <1>2, <1>3 DEF OwnInv, StateInv
<1>8. LeaveInv'
  BY <1>2, <1>3, <1>5, LiveHas DEF OwnInv, LeaveInv
<1> QED BY <1>2, <1>6, <1>7, <1>8 DEF OwnInv

\* A new connection is the only one the session has, or it connected too soon.
LEMMA ConnectOwn ==
  ASSUME SectionInv, OwnInv, NEW r \in Sessions, Connect(r) PROVE OwnInv'
<1>1. PICK h \in Handles :
        /\ lib[h] = "free"
        /\ mine' = [mine EXCEPT ![r] = h]
        /\ overlap' = [overlap EXCEPT ![r] = Owned(r) # {} \/ ErrorUnderWay(r)]
        /\ IF Known(h) # {}
             THEN section' = "gui" /\ UNCHANGED <<contexts, gpc, gs>>
             ELSE /\ contexts' = Append(contexts, [h |-> h, s |-> r, leaving |-> FALSE])
                  /\ gpc' = "signal" /\ gs' = r
                  /\ UNCHANGED section
  BY DEF Connect
<1>2. UNCHANGED <<events, state, wpc, cur>> /\ gpc = "idle"
  BY DEF Connect, workerVars, GuiIdle
<1>3. \A s : ~Has(h, s)
  BY <1>1, HasFacts
<1>4. Known(h) = {}
  BY <1>3 DEF Known, Has
<1> DEFINE c == [h |-> h, s |-> r, leaving |-> FALSE]
           n == Len(contexts)
<1>5. contexts' = Append(contexts, c) /\ gpc' = "signal" /\ gs' = r /\ c \in Context
      /\ c.h = h /\ c.s = r
  BY <1>1, <1>4 DEF Context
<1> HIDE DEF c
<1>6. n \in Nat /\ Len(contexts') = n + 1 /\ contexts'[n + 1] = c
      /\ \A i \in 1..n : contexts'[i] = contexts[i]
  BY <1>5, AppendProperties DEF SectionInv, TypeOK
<1>7. \A i \in 1..(n + 1) : i \in 1..n \/ i = n + 1
  BY <1>6
<1>8. n + 1 \in 1..(n + 1) /\ \A i \in 1..n : i \in 1..(n + 1)
  BY <1>6
<1>9. \A g, s : Has(g, s)' <=> Has(g, s) \/ (g = h /\ s = r)
  BY <1>5, <1>6, <1>7, <1>8 DEF Has
<1>10. \A g, s : Live(g, s)' => Live(g, s) \/ (g = h /\ s = r)
  BY <1>5, <1>6, <1>7 DEF Live
<1> HIDE DEF n
<1>11. /\ mine'[r] = h /\ \A s \in Sessions : s # r => mine'[s] = mine[s] /\ overlap'[s] = overlap[s]
       /\ overlap'[r] <=> Owned(r) # {} \/ ErrorUnderWay(r)
  <2>1. mine \in [Sessions -> Handles \cup {NoHandle}] /\ overlap \in [Sessions -> BOOLEAN]
    BY DEF SectionInv, TypeOK
  <2> HIDE DEF Owned, ErrorUnderWay
  <2> QED BY <1>1, <2>1
<1>12. \A s : (Posting(s)' <=> Posting(s)) /\ (ErrorUnderWay(s)' <=> ErrorUnderWay(s))
  BY <1>2 DEF Posting, ErrorUnderWay
<1>13. Backed(r)' /\ \A s \in Sessions : s # r => (Backed(s) => Backed(s)')
  BY <1>9, <1>11 DEF Backed
<1>14. CurInv'
  BY <1>2, <1>9 DEF OwnInv, CurInv, Served
<1>15. OneInv'
  <2> SUFFICES ASSUME NEW s \in Sessions, NEW g \in Handles, Has(g, s)', ~overlap'[s]
               PROVE  g = mine'[s] /\ ~ErrorUnderWay(s)
    BY <1>12 DEF OneInv
  <2>1. CASE s # r
    BY <2>1, <1>9, <1>11 DEF OwnInv, OneInv
  <2>2. CASE s = r
    <3>1. ~Has(g, r)
      BY <2>2, <1>11 DEF Has, Owned
    <3> QED BY <2>2, <3>1, <1>9, <1>11
  <2> QED BY <2>1, <2>2
<1>16. StateInv'
  BY <1>2, <1>5, <1>12, <1>13 DEF OwnInv, StateInv
<1>17. EventInv'
  BY <1>2, <1>12, <1>13 DEF OwnInv, EventInv
<1>18. LeaveInv'
  BY <1>2, <1>5, <1>10, <1>11 DEF OwnInv, LeaveInv
<1> QED BY <1>14, <1>15, <1>16, <1>17, <1>18 DEF OwnInv

\* Initially there is no connection and no session.
LEMMA InitOwn == Init => OwnInv
BY DEF Init, OwnInv, CurInv, OneInv, StateInv, EventInv, LeaveInv, Served, Has, Live

\* Every step keeps the connections in order.
LEMMA StepOwn == ASSUME SectionInv, OwnInv, [Next]_vars PROVE OwnInv'
<1>1. CASE UNCHANGED vars
  <2>1. UNCHANGED <<contexts, state, mine, events, overlap, gpc, gs, wpc, cur>>
    BY <1>1 DEF vars, workerVars, guiVars
  <2> QED BY <2>1, OwnStill DEF Posting, CurInv, Served, Has, OwnInv
<1>2. CASE Worker \/ SpuriousWake
  BY <1>2, QuietWorker, SelectOwn, RemoveOwn, PostErrorOwn DEF Worker
<1>3. ASSUME NEW s \in Sessions, Connect(s) \/ Disconnect(s) \/ Command(s) \/ OnEvent(s)
      PROVE  OwnInv'
  BY <1>3, ConnectOwn, DisconnectOwn, QuietGui, OnConnectOwn, OnErrorOwn DEF OnEvent
<1>4. CASE Signal \/ Mark \/ Deinit \/ Shutdown
  BY <1>4, SignalOwn, MarkOwn, QuietGui
<1> QED BY <1>1, <1>2, <1>3, <1>4 DEF Next

\* The invariant of the connections holds with that of the list.
THEOREM OwnCorrect == Spec => [](SectionInv /\ OwnInv)
<1>1. Init => SectionInv
  BY InitType DEF Init, SectionInv, ListInv, SectionFree
<1>2. SectionInv /\ [Next]_vars => SectionInv'
  BY StepSection
<1>3. SectionInv /\ OwnInv /\ [Next]_vars => OwnInv'
  BY StepOwn
<1> QED BY <1>1, <1>2, <1>3, InitOwn, PTL DEF Spec

\* The library is called with a destroyed handle only while an error is under way, or while
\* an older connection lasts (CslIRCEngine.cpp:460-476, 485-520, 659).
THEOREM HandlesCorrect == Spec => []KnownIsLive
<1>1. OwnInv => KnownIsLive
  <2> SUFFICES ASSUME OwnInv, NEW s \in Sessions, state[s] # "disconnected", ~Alive(s)
               PROVE  ErrorUnderWay(s) \/ (overlap[s] /\ Owned(s) # {})
    BY DEF KnownIsLive
  <2>1. ~Has(mine[s], s)
    BY DEF Has, Alive, Own, Owned, Known
  <2>2. \A h : Has(h, s) => Owned(s) # {}
    BY DEF Has, Owned
  <2> QED BY <2>1, <2>2 DEF OwnInv, StateInv, Backed
<1> QED BY <1>1, OwnCorrect, PTL

\* A connection that is not to be left is its session's, which is not shown as disconnected.
THEOREM LiveCorrect == Spec => []LiveIsKnown
<1>1. SectionInv /\ OwnInv => LiveIsKnown
  <2> SUFFICES ASSUME SectionInv, OwnInv, gpc = "idle", NEW i \in 1..Len(contexts),
                      ~contexts[i].leaving, ~overlap[contexts[i].s]
               PROVE  contexts[i].h = mine[contexts[i].s] /\ state[contexts[i].s] # "disconnected"
    BY DEF LiveIsKnown
  <2> DEFINE h == contexts[i].h
             s == contexts[i].s
  <2>1. Has(h, s) /\ Live(h, s)
    BY DEF Has, Live
  <2>2. h \in Handles /\ s \in Sessions
    BY <2>1, HasFacts
  <2> HIDE DEF h, s
  <2>3. ~overlap[s]
    BY DEF s
  <2>4. h = mine[s] /\ state[s] # "disconnected"
    BY <2>1, <2>2, <2>3 DEF OwnInv, OneInv, LeaveInv
  <2> QED BY <2>4 DEF h, s
<1> QED BY <1>1, OwnCorrect, PTL

-----------------------------------------------------------------------------
(* What the worker does not miss.                                          *)

\* The worker sleeps although there is a connection to serve only if Connect's signal was
\* skipped while it went to sleep, or is about to come.
AsleepInv == wpc = "asleep" /\ contexts # <<>> => missed \/ gpc = "signal"

\* The same a step or two earlier, when the worker has found no connection.
LookInv == wpc \in {"look", "wait"} /\ contexts # <<>> => missed \/ gpc = "signal"

\* Terminate's signal is not skipped: the worker that is waited for does not sleep.
HeardInv ==
  /\ gpc \in {"lock", "join", "over"} => terminate
  /\ gpc \in {"join", "over"} => wpc \notin {"wait", "asleep"}

\* A connection that has ended is being taken out, unless a command hid its error.
ClosedInv ==
  \A h \in Handles :
    lib[h] = "closed" /\ h \notin masked =>
      cur.h = h /\ cur.err = "lost" /\ wpc \in {"errno", "remove"}

WakeInv == AsleepInv /\ LookInv /\ HeardInv

LEMMA StepWake == ASSUME TypeOK, WakeInv, [Next]_vars PROVE WakeInv'
<1> USE DEF WakeInv, AsleepInv, LookInv, HeardInv, Goto, workerVars, guiVars
<1>1. CASE Start \/ Pick \/ End \/ Look \/ Wait \/ SpuriousWake
  BY <1>1 DEF Start, Pick, End, Look, Wait, SpuriousWake
<1>2. CASE Serve \/ Select \/ ReadErrno \/ Remove \/ PostError
  BY <1>2 DEF Serve, Select, ReadErrno, Remove, PostError
<1>3. ASSUME NEW s \in Sessions, Connect(s) \/ Disconnect(s) \/ Command(s) PROVE WakeInv'
  BY <1>3 DEF Connect, GuiIdle, Disconnect, Command
<1>4. ASSUME NEW s \in Sessions, OnEvent(s) PROVE WakeInv'
  <2>1. UNCHANGED <<contexts, terminate, missed, wpc, gpc>>
    BY <1>4 DEF OnEvent, OnConnect, OnError, TakeEvent
  <2> QED BY <2>1
<1>5. CASE Signal
  BY <1>5 DEF Signal, MutexFree, TypeOK
<1>6. CASE Mark
  <2>1. UNCHANGED <<terminate, missed, wpc>> /\ gpc = "mark" /\ gpc' = "idle"
    BY <1>6 DEF Mark
  <2>2. contexts = <<>> => contexts' = <<>>
    BY <1>6 DEF Mark
  <2> QED BY <2>1, <2>2
<1>7. CASE Deinit \/ Shutdown
  BY <1>7 DEF Deinit, Shutdown, Terminate, TerminateSignal, Join, MutexFree
<1>8. CASE UNCHANGED vars
  BY <1>8 DEF vars
<1> QED BY <1>1, <1>2, <1>3, <1>4, <1>5, <1>6, <1>7, <1>8 DEF Next, Worker

LEMMA StepClosed == ASSUME TypeOK, ClosedInv, [Next]_vars PROVE ClosedInv'
<1> USE DEF ClosedInv, Goto, workerVars, guiVars
<1>0. lib \in [Handles -> LibStates]
  BY DEF TypeOK
<1>s. ASSUME UNCHANGED <<lib, masked, cur>>, wpc \in {"errno", "remove"} => wpc' = wpc PROVE ClosedInv'
  BY <1>s
<1>1. CASE Start \/ Pick \/ End \/ Look \/ Wait \/ SpuriousWake
  BY <1>1 DEF Start, Pick, End, Look, Wait, SpuriousWake
<1>2. CASE Serve
  BY <1>0, <1>2 DEF Serve
<1>3. CASE Select
  <2>1. wpc = "select" /\ masked' = masked
    BY <1>3 DEF Select
  <2>2. cur.h \in Handles /\ cur \in [h : Handles \cup {NoHandle}, s : Sessions \cup {NoSession},
                                      err : {"none", "resolv", "lost", "state"}]
    BY <2>1 DEF TypeOK
  <2>3. \A h \in Handles : lib[h] = "closed" => h \in masked
    BY <2>1
  <2>4. CASE wpc' = "errno"
    <3>1. lib' = [lib EXCEPT ![cur.h] = "closed"] /\ cur' = [cur EXCEPT !.err = "lost"]
      BY <1>3, <2>4 DEF Select
    <3>2. cur'.h = cur.h /\ cur'.err = "lost"
      BY <2>2, <3>1
    <3>3. \A h \in Handles : h # cur.h => lib'[h] = lib[h]
      BY <1>0, <3>1
    <3> QED BY <2>1, <2>3, <2>4, <3>2, <3>3
  <2>5. CASE wpc' # "errno"
    <3>1. \A h \in Handles : lib'[h] = lib[h] \/ lib'[h] \in {"connected", "welcome"}
      BY <1>0, <1>3, <2>5, <2>2 DEF Select
    <3> QED BY <2>1, <2>3, <3>1
  <2> QED BY <2>4, <2>5
<1>4. CASE ReadErrno
  BY <1>0, <1>4 DEF ReadErrno
<1>5. CASE Remove
  BY <1>0, <1>5 DEF Remove
<1>6. CASE PostError
  BY <1>6 DEF PostError
<1>7. ASSUME NEW s \in Sessions, Connect(s) PROVE ClosedInv'
  BY <1>0, <1>7 DEF Connect
<1>8. ASSUME NEW s \in Sessions, Use(s), lib' = lib, wpc' = wpc PROVE ClosedInv'
  <2>1. CASE UNCHANGED <<cur, masked>>
    BY <1>8, <2>1
  <2>2. CASE ~UNCHANGED <<cur, masked>>
    <3>1. wpc = "errno" /\ masked' = masked \cup {cur.h}
      BY <1>8, <2>2 DEF Use
    <3>2. ASSUME NEW h \in Handles, lib'[h] = "closed", h \notin masked' PROVE FALSE
      BY <1>8, <3>1, <3>2
    <3> QED BY <3>2
  <2> QED BY <2>1, <2>2
<1>9. ASSUME NEW s \in Sessions, Disconnect(s) \/ Command(s) PROVE ClosedInv'
  BY <1>8, <1>9 DEF Disconnect, Command
<1>10. ASSUME NEW s \in Sessions, OnEvent(s) PROVE ClosedInv'
  <2>1. lib' = lib /\ wpc' = wpc
    BY <1>10 DEF OnEvent, OnConnect, OnError, TakeEvent
  <2>2. Use(s) \/ UNCHANGED <<cur, masked>>
    BY <1>10 DEF OnEvent, OnConnect, OnError
  <2> QED BY <1>8, <2>1, <2>2
<1>11. CASE Signal \/ Mark
  BY <1>11 DEF Signal, Mark
<1>12. CASE Deinit \/ Shutdown
  BY <1>12 DEF Deinit, Shutdown, Terminate, TerminateSignal, Join
<1>13. CASE UNCHANGED vars
  BY <1>13 DEF vars
<1> QED
  BY <1>1, <1>2, <1>3, <1>4, <1>5, <1>6, <1>7, <1>9, <1>10, <1>11, <1>12, <1>13 DEF Next, Worker

\* The only connections the worker sleeps on are those whose signal was skipped between its
\* look at the list and its wait; and it is awake when the program waits for its end, so that
\* neither a connection nor the shutdown waits for a signal that has gone
\* (CslIRCEngine.cpp:360-373, 438-441, 478-483).
THEOREM WakeCorrect == Spec => [](AsleepInv /\ HeardInv)
<1>1. Init => WakeInv
  BY DEF Init, WakeInv, AsleepInv, LookInv, HeardInv
<1>2. TypeOK /\ WakeInv /\ [Next]_vars => WakeInv'
  BY StepWake
<1>3. WakeInv => AsleepInv /\ HeardInv
  BY DEF WakeInv
<1> QED BY <1>1, <1>2, <1>3, TypeCorrect, PTL DEF Spec

\* No connection that has ended stays in the list unnoticed, unless a command replaced its
\* error before the worker read it: the thread is at that context, on its way to remove it
\* (CslIRCEngine.cpp:400-402, 485-520).
THEOREM EndsAreServed == Spec => []ClosedInv
<1>1. Init => ClosedInv
  BY DEF Init, ClosedInv
<1>2. TypeOK /\ ClosedInv /\ [Next]_vars => ClosedInv'
  BY StepClosed
<1> QED BY <1>1, <1>2, TypeCorrect, PTL DEF Spec
=============================================================================
