------------------------- MODULE GameConnectionProofs -------------------------
(***************************************************************************)
(* Proofs about starting games, for every set of servers, every waiting    *)
(* time and any number of dialogs, games and overlapping handlers.         *)
(*                                                                         *)
(* What a handler does to the singleton is a few operators on a record, so *)
(* each operator gets its lemmas: that it keeps the record's type, and     *)
(* that it keeps it Sound.  The steps then follow case by case.            *)
(***************************************************************************)
EXTENDS GameConnection, SequenceTheorems, TLAPS

-----------------------------------------------------------------------------
(* Types.                                                                  *)

\* Reset leaves a singleton that is neither locked nor playing.
LEMMA ResetType ==
  ASSUME NEW c \in Conn, NEW s \in Servers \cup {NoServer}
  PROVE  /\ Reset(c, s) \in Conn
         /\ Reset(c, s).info = s
         /\ ~Reset(c, s).locked /\ ~Reset(c, s).playing
BY DEF Conn, Reset

\* Lock locks the server of the singleton once more.
LEMMA LockType ==
  ASSUME NEW c \in Conn, c.info # NoServer
  PROVE  /\ Lock(c) \in Conn
         /\ Lock(c).info = c.info /\ Lock(c).locked
         /\ Lock(c).cmd = c.cmd /\ Lock(c).playing = c.playing
         /\ Lock(c).wait = c.wait
         /\ Lock(c).lock[c.info] = c.lock[c.info] + 1
         /\ \A s \in Servers \ {c.info} : Lock(c).lock[s] = c.lock[s]
<1> DEFINE f == [c.lock EXCEPT ![c.info] = @ + 1]
<1>1. c.info \in Servers /\ c.lock \in [Servers -> Nat]
  BY DEF Conn
<1>2. /\ f \in [Servers -> Nat]
      /\ f[c.info] = c.lock[c.info] + 1
      /\ \A s \in Servers \ {c.info} : f[s] = c.lock[s]
  BY <1>1
<1>3. Lock(c) = [c EXCEPT !.locked = TRUE, !.lock = f]
  BY DEF Conn, Lock
<1> HIDE DEF f
<1> QED BY <1>2, <1>3 DEF Conn

\* The singleton may say that its server is locked only if the server is.
Held(c) == c.locked => c.info # NoServer /\ c.lock[c.info] > 0

Shape ==
  /\ conn \in Conn /\ Held(conn)
  /\ games \in Seq(Game) /\ dialogs \in Seq(Dialog)
  /\ crashed \in BOOLEAN

\* A dialog is shown over the suspended handlers.
LEMMA ShowShape ==
  ASSUME Shape, NEW c \in Conn, Held(c), NEW rest \in Seq(Dialog),
         NEW kind \in {"password", "full", "failed"}, NEW s \in Servers \cup {NoServer},
         Show(kind, s, c, rest)
  PROVE  Shape'
<1>1. [kind |-> kind, server |-> s] \in Dialog
  BY DEF Dialog
<1> QED BY <1>1 DEF Shape, Show, Held

\* A game is started, or a box reports that it was not.
LEMMA ExecuteShape ==
  ASSUME Shape, NEW c \in Conn, Held(c), c.info # NoServer, NEW rest \in Seq(Dialog),
         Execute(c, rest)
  PROVE  Shape'
<1>1. CASE Show("failed", c.info, c, rest)
  <2>1. c.info \in Servers \cup {NoServer}
    BY DEF Conn
  <2> QED BY <1>1, <2>1, ShowShape
<1>2. CASE /\ games' = Append(games, [server |-> c.info, cmd |-> c.cmd])
           /\ conn' = [c EXCEPT !.playing = TRUE, !.wait[c.info] = 0]
           /\ dialogs' = rest
           /\ UNCHANGED crashed
  <2>1. [server |-> c.info, cmd |-> c.cmd] \in Game
    BY DEF Conn, Game
  <2>2. conn' \in Conn /\ Held(conn')
    BY <1>2 DEF Conn, Held
  <2> QED BY <1>2, <2>1, <2>2 DEF Shape, Held
<1> QED BY <1>1, <1>2 DEF Execute

\* Connect waits, asks, starts a game, or finds no server.
LEMMA ConnectShape ==
  ASSUME Shape, NEW c \in Conn, Held(c), NEW rest \in Seq(Dialog), Connect(c, rest)
  PROVE  Shape'
<1>1. CASE c.info = NoServer
  BY <1>1 DEF Connect, Crash, Shape, Held
<1>2. CASE c.info # NoServer /\ Done(c, rest)
  BY <1>2 DEF Done, Shape, Held
<1>3. CASE c.info # NoServer /\ Show("full", c.info, c, rest)
  <2>1. c.info \in Servers \cup {NoServer}
    BY DEF Conn
  <2> QED BY <1>3, <2>1, ShowShape
<1>4. CASE c.info # NoServer /\ c.locked /\ Execute(c, rest)
  BY <1>4, ExecuteShape
<1>5. CASE c.info # NoServer /\ ~c.locked /\ Execute(Lock(c), rest)
  <2>1. c.info \in Servers /\ c.lock[c.info] \in Nat
    BY <1>5 DEF Conn
  <2>2. Lock(c) \in Conn /\ Lock(c).info = c.info /\ Held(Lock(c))
    BY <1>5, <2>1, LockType DEF Held
  <2> QED BY <1>5, <2>2, ExecuteShape
<1> QED BY <1>1, <1>2, <1>3, <1>4, <1>5 DEF Connect

\* Prepare ends in Connect, a box, or a reset.
LEMMA StartShape ==
  ASSUME Shape, NEW c \in Conn, Held(c), NEW s \in Servers \cup {NoServer},
         NEW rest \in Seq(Dialog), Start(c, s, rest)
  PROVE  Shape'
<1>1. CASE Connect([c EXCEPT !.cmd = s], rest)
  <2> DEFINE d == [c EXCEPT !.cmd = s]
  <2>1. d \in Conn /\ Held(d)
    BY DEF Conn, Held
  <2> HIDE DEF d
  <2> QED BY <1>1, <2>1, ConnectShape DEF d
<1>2. CASE Show("failed", s, c, rest)
  BY <1>2, ShowShape
<1>3. CASE Done(Reset(c, NoServer), rest)
  BY <1>3, ResetType DEF Done, Shape, Held
<1> QED BY <1>1, <1>2, <1>3 DEF Start

\* A part of a sequence.
LEMMA PartOfSeq ==
  ASSUME NEW S, NEW s \in Seq(S), NEW m \in Nat \ {0}, NEW n \in Nat, n <= Len(s)
  PROVE  /\ SubSeq(s, m, n) \in Seq(S)
         /\ Len(SubSeq(s, m, n)) = IF m <= n THEN n - m + 1 ELSE 0
<1>1. ASSUME NEW i \in m..n PROVE s[i] \in S
  <2>1. i \in 1..Len(s)
    BY LenProperties
  <2> QED BY <2>1, ElementOfSeq
<1> QED BY <1>1, SubSeqProperties

\* A sequence without its last element, and that element.
LEMMA FrontOfSeq ==
  ASSUME NEW S, NEW s \in Seq(S), Len(s) > 0
  PROVE  /\ SubSeq(s, 1, Len(s) - 1) \in Seq(S)
         /\ Len(SubSeq(s, 1, Len(s) - 1)) = Len(s) - 1
         /\ s[Len(s)] \in S
<1>1. Len(s) \in Nat /\ Len(s) - 1 \in Nat /\ Len(s) \in 1..Len(s)
  BY LenProperties
<1>2. s[Len(s)] \in S
  BY <1>1, ElementOfSeq
<1>3. SubSeq(s, 1, Len(s) - 1) \in Seq(S) /\ Len(SubSeq(s, 1, Len(s) - 1)) = Len(s) - 1
  <2> DEFINE n == Len(s) - 1
  <2>1. n \in Nat
    BY <1>1
  <2>3. n <= Len(s)
    BY <1>1
  <2> HIDE DEF n
  <2>2. SubSeq(s, 1, n) \in Seq(S) /\ Len(SubSeq(s, 1, n)) = n
    BY <2>1, <2>3, PartOfSeq
  <2> QED BY <2>2 DEF n
<1> QED BY <1>2, <1>3

\* The suspended handlers below the last one, and the last one's server.
LEMMA DialogsFront ==
  ASSUME NEW d \in Seq(Dialog), d # <<>>
  PROVE  /\ SubSeq(d, 1, Len(d) - 1) \in Seq(Dialog)
         /\ Len(SubSeq(d, 1, Len(d) - 1)) = Len(d) - 1
         /\ d[Len(d)].server \in Servers \cup {NoServer}
<1>1. Len(d) > 0
  BY EmptySeq, LenProperties
<1>2. d[Len(d)] \in Dialog
  BY <1>1, FrontOfSeq
<1>3. d[Len(d)].server \in Servers \cup {NoServer}
  BY <1>2 DEF Dialog
<1> QED BY <1>1, <1>3, FrontOfSeq

\* An element leaves a sequence.
LEMMA WithoutOne ==
  ASSUME NEW S, NEW s \in Seq(S), NEW i \in 1..Len(s)
  PROVE  /\ SubSeq(s, 1, i - 1) \o SubSeq(s, i + 1, Len(s)) \in Seq(S)
         /\ Len(SubSeq(s, 1, i - 1) \o SubSeq(s, i + 1, Len(s))) = Len(s) - 1
<1>1. Len(s) \in Nat
  BY LenProperties
<1>2. /\ SubSeq(s, 1, i - 1) \in Seq(S)
      /\ Len(SubSeq(s, 1, i - 1)) = i - 1
  BY <1>1, PartOfSeq
<1>3. /\ SubSeq(s, i + 1, Len(s)) \in Seq(S)
      /\ Len(SubSeq(s, i + 1, Len(s))) = Len(s) - i
  BY <1>1, PartOfSeq
<1>4. ASSUME NEW l \in Seq(S), NEW r \in Seq(S), Len(l) = i - 1, Len(r) = Len(s) - i
      PROVE  l \o r \in Seq(S) /\ Len(l \o r) = Len(s) - 1
  <2>1. l \o r \in Seq(S) /\ Len(l \o r) = Len(l) + Len(r)
    BY ConcatProperties
  <2>2. (i - 1) + (Len(s) - i) = Len(s) - 1
    BY <1>1
  <2> QED BY <1>4, <2>1, <2>2
<1> QED BY <1>2, <1>3, <1>4

\* The handlers keep the shape of everything they change.
LEMMA HandlerShape ==
  ASSUME Shape, [Next]_vars PROVE Shape'
<1>1. ASSUME NEW s \in Servers, ConnectToServer(s) PROVE Shape'
  <2>1. Reset(conn, s) \in Conn /\ Held(Reset(conn, s))
    BY ResetType DEF Shape, Held
  <2>2. dialogs \in Seq(Dialog)
    BY DEF Shape
  <2>3. CASE Show("password", s, Reset(conn, s), dialogs)
    BY <2>1, <2>2, <2>3, ShowShape
  <2>4. CASE Start(Reset(conn, s), s, dialogs)
    BY <2>1, <2>2, <2>4, StartShape
  <2> QED BY <1>1, <2>3, <2>4 DEF ConnectToServer
<1>2. CASE Close
  <2> DEFINE d    == dialogs[Len(dialogs)]
             rest == SubSeq(dialogs, 1, Len(dialogs) - 1)
  <2>1. rest \in Seq(Dialog) /\ d.server \in Servers \cup {NoServer}
    BY <1>2, DialogsFront DEF Close, Shape
  <2>2. \/ Done(Reset(conn, NoServer), rest)
        \/ Start(conn, d.server, rest)
        \/ conn.info = NoServer /\ Crash(conn, rest)
        \/ conn.info # NoServer /\ Done([Lock(conn) EXCEPT !.wait[conn.info] = WaitTime], rest)
        \/ conn.info # NoServer /\ Execute(Lock(conn), rest)
    BY <1>2 DEF Close
  <2> HIDE DEF d, rest
  <2>3. CASE Done(Reset(conn, NoServer), rest)
    BY <2>1, <2>3, ResetType DEF Done, Shape, Held
  <2>4. CASE Start(conn, d.server, rest)
    BY <2>1, <2>4, StartShape DEF Shape
  <2>5. CASE conn.info = NoServer /\ Crash(conn, rest)
    BY <2>1, <2>5 DEF Crash, Shape, Held
  <2>6. CASE conn.info # NoServer
    <3>1. conn.info \in Servers /\ conn.lock[conn.info] \in Nat
      BY <2>6 DEF Shape, Conn
    <3>2. Lock(conn) \in Conn /\ Lock(conn).info = conn.info /\ Held(Lock(conn))
      BY <2>6, <3>1, LockType DEF Shape, Held
    <3>3. CASE Done([Lock(conn) EXCEPT !.wait[conn.info] = WaitTime], rest)
      <4> DEFINE l == Lock(conn)
                 w == [l EXCEPT !.wait[conn.info] = WaitTime]
      <4> HIDE DEF l
      <4>1. w \in Conn /\ Held(w)
        BY <3>1, <3>2, GameConnectionAssumption DEF Conn, Held, l, GameConnectionAssumption
      <4> QED BY <2>1, <3>3, <4>1 DEF Done, Shape, Held, l
    <3>4. CASE Execute(Lock(conn), rest)
      BY <2>1, <2>6, <3>2, <3>4, ExecuteShape
    <3> QED BY <2>2, <2>3, <2>4, <2>6, <3>3, <3>4
  <2> QED BY <2>2, <2>3, <2>4, <2>5, <2>6
<1>3. ASSUME NEW tick \in 0..3, OnTimer(tick) PROVE Shape'
  <2>1. conn.info \in Servers /\ conn.wait[conn.info] \in Nat /\ conn.wait[conn.info] > 0
    BY <1>3 DEF OnTimer, Waiting, Shape, Conn
  <2> DEFINE c == [conn EXCEPT !.wait[conn.info] = @ - 1]
  <2>2. CASE Connect(conn, dialogs)
    BY <2>2, ConnectShape DEF Shape
  <2>3. CASE Done(IF Waiting(c) THEN c ELSE Reset(c, NoServer), dialogs)
    <3>1. c \in Conn /\ Held(c)
      <4>1. conn \in Conn /\ Held(conn) /\ conn.wait[conn.info] - 1 \in Nat
        BY <2>1 DEF Shape
      <4>2. [conn.wait EXCEPT ![conn.info] = @ - 1] \in [Servers -> Nat]
        BY <2>1, <4>1 DEF Conn
      <4>3. c = [conn EXCEPT !.wait = [conn.wait EXCEPT ![conn.info] = @ - 1]]
        BY <4>1 DEF Conn
      <4> HIDE DEF c
      <4>4. c \in Conn /\ c.locked = conn.locked /\ c.info = conn.info /\ c.lock = conn.lock
        BY <4>1, <4>2, <4>3 DEF Conn
      <4> QED BY <4>1, <4>4 DEF Held
    <3> HIDE DEF c
    <3>2. Reset(c, NoServer) \in Conn /\ Held(Reset(c, NoServer))
      BY <3>1, ResetType DEF Held
    <3> QED BY <2>3, <3>1, <3>2 DEF Done, Shape, Held
  <2> QED BY <1>3, <2>2, <2>3 DEF OnTimer
<1>4. CASE OnKeypress \/ OnEndProcess
  BY <1>4, ResetType DEF OnKeypress, OnEndProcess, Done, Shape, Held
<1>5. CASE OnTerminate
  BY <1>5, WithoutOne DEF OnTerminate, Shape, Held
<1>6. CASE (\E s \in Servers : Players(s)) \/ UNCHANGED vars
  BY <1>6 DEF Players, vars, Shape, Held
<1> QED BY <1>1, <1>2, <1>3, <1>4, <1>5, <1>6 DEF Next, Activate, OnIPC

\* The counters and the servers without a slot.
Counts == ended \in Nat /\ full \subseteq Servers /\ nested \in 0..MaxNested

\* Every handler keeps the counters and the set of full servers in their ranges.
LEMMA HandlerCounts ==
  ASSUME Shape, Counts, [Next]_vars PROVE Counts'
<1>1. CASE Next
  BY <1>1 DEF Next, Counts, Activate, OnIPC, ConnectToServer, Enter, Close, OnTimer, OnKeypress,
              OnTerminate, OnEndProcess, Players
<1>2. CASE UNCHANGED vars
  BY <1>2 DEF vars, Counts
<1> QED BY <1>1, <1>2

\* Initially nothing is locked or open.
LEMMA InitShape == Init => Shape /\ Counts
<1> SUFFICES ASSUME Init PROVE Shape /\ Counts
  OBVIOUS
<1>1. conn \in Conn /\ Held(conn)
  BY DEF Init, Conn, Held
<1>2. games \in Seq(Game) /\ dialogs \in Seq(Dialog)
  BY EmptySeq DEF Init
<1>3. ended = 0 /\ nested = 0 /\ full \subseteq Servers /\ crashed \in BOOLEAN
  BY DEF Init
<1>4. Counts
  BY <1>3, GameConnectionAssumption DEF Counts, GameConnectionAssumption
<1> QED BY <1>1, <1>2, <1>3, <1>4 DEF Shape

\* In every reachable state the variables have their types and the counts their bounds.
LEMMA ShapeAlways == Spec => [](Shape /\ Counts)
<1>1. Shape /\ Counts /\ [Next]_vars => (Shape /\ Counts)'
  BY HandlerShape, HandlerCounts
<1> QED BY <1>1, InitShape, PTL DEF Spec

\* Every variable keeps its type, whatever overlaps.
THEOREM TypeCorrect == Spec => []TypeOK
<1>1. Shape /\ Counts => TypeOK
  BY DEF Shape, Counts, TypeOK
<1> QED BY <1>1, ShapeAlways, PTL

\* While the singleton says that its server is locked, the server is, whatever
\* overlaps: no reset, by whichever handler, takes away a lock another relies on.
THEOREM HeldCorrect == Spec => []LockedIsHeld
<1>1. Shape => LockedIsHeld
  BY DEF Shape, Held, LockedIsHeld
<1> QED BY <1>1, ShapeAlways, PTL

-----------------------------------------------------------------------------
(* While no handler overlaps another.                                      *)

\* Locks, waiting times and the game agree with the singleton.
Sound(c) ==
  /\ \A s \in Servers : c.lock[s] = IF c.info = s /\ c.locked THEN 1 ELSE 0
  /\ \A s \in Servers : c.wait[s] > 0 => c.info = s /\ c.locked /\ ~c.playing /\ c.cmd = s
  /\ c.playing => c.info # NoServer /\ c.locked

\* What a suspended handler relies on when it goes on.
Relies(d) ==
  /\ conn.info # NoServer
  /\ d.kind = "password" => d.server = conn.info /\ ~conn.locked
  /\ d.kind = "full" => ~conn.locked /\ conn.cmd = conn.info

\* A game is played or has just ended, or nothing runs and at most one handler
\* is suspended.
Undisturbed ==
  /\ ~crashed /\ Sound(conn)
  /\ conn.playing => /\ Len(dialogs) = 0
                     /\ Len(games) + ended = 1
                     /\ \A i \in 1..Len(games) : games[i].server = conn.info /\ games[i].cmd = conn.info
  /\ ~conn.playing => Len(games) = 0 /\ ended = 0
  /\ Len(dialogs) <= 1
  /\ \A i \in 1..Len(dialogs) : Relies(dialogs[i])

\* What Connect and its end need: nothing runs, and the command is for m_info.
Ready(c) ==
  /\ c \in Conn /\ Sound(c)
  /\ c.info # NoServer /\ c.cmd = c.info /\ ~c.playing

Idle == ~crashed /\ Len(games) = 0 /\ ended' = 0 /\ Shape

\* Reset (CslGameConnection.cpp) leaves a sound connection, and no server
\* waited for or locked: what the handlers after it start from.
LEMMA ResetSound ==
  ASSUME NEW c \in Conn, Sound(c), NEW s \in Servers \cup {NoServer}
  PROVE  /\ Sound(Reset(c, s))
         /\ \A t \in Servers : Reset(c, s).wait[t] = 0 /\ Reset(c, s).lock[t] = 0
<1> DEFINE r == Reset(c, s)
<1>1. r.info = s /\ ~r.locked /\ ~r.playing /\ r \in Conn
  BY ResetType
<1>2. ASSUME NEW t \in Servers PROVE r.lock[t] = 0
  <2>1. c.lock \in [Servers -> Nat] /\ c.lock[t] = IF c.info = t /\ c.locked THEN 1 ELSE 0
    BY DEF Conn, Sound
  <2>2. CASE c.info # NoServer /\ c.locked
    <3>1. r.lock = [c.lock EXCEPT ![c.info] = IF @ > 0 THEN @ - 1 ELSE 0]
      BY <2>2 DEF Reset
    <3> QED BY <2>1, <2>2, <3>1
  <2>3. CASE ~(c.info # NoServer /\ c.locked)
    <3>1. r.lock = c.lock
      BY <2>3 DEF Reset
    <3>2. c.info # t \/ ~c.locked
      BY <2>3, GameConnectionAssumption DEF GameConnectionAssumption
    <3> QED BY <2>1, <3>1, <3>2
  <2> QED BY <2>2, <2>3
<1>3. ASSUME NEW t \in Servers PROVE r.wait[t] = 0
  <2>1. c.wait \in [Servers -> Nat] /\ c.wait[t] \in Nat /\ (c.wait[t] > 0 => c.info = t)
    BY DEF Conn, Sound
  <2>2. CASE c.info # NoServer
    <3>1. r.wait = [c.wait EXCEPT ![c.info] = 0]
      BY <2>2 DEF Reset
    <3> QED BY <2>1, <2>2, <3>1
  <2>3. CASE c.info = NoServer
    <3>1. r.wait = c.wait
      BY <2>3 DEF Reset
    <3>2. c.info # t
      BY <2>3, GameConnectionAssumption DEF GameConnectionAssumption
    <3> QED BY <2>1, <3>1, <3>2
  <2> QED BY <2>2, <2>3
<1> HIDE DEF r
<1>4. Sound(r)
  BY <1>1, <1>2, <1>3 DEF Sound
<1> QED BY <1>2, <1>3, <1>4 DEF r

\* Locking the server of a singleton that is not locked.
LEMMA LockReady ==
  ASSUME NEW c, Ready(c), ~c.locked
  PROVE  Ready(Lock(c)) /\ Lock(c).locked /\ Lock(c).wait = c.wait /\ Lock(c).info = c.info
<1> DEFINE l == Lock(c)
<1>1. /\ l \in Conn /\ l.info = c.info /\ l.locked /\ l.cmd = c.cmd
      /\ l.playing = c.playing /\ l.wait = c.wait
      /\ l.lock[c.info] = c.lock[c.info] + 1
      /\ \A s \in Servers \ {c.info} : l.lock[s] = c.lock[s]
  BY LockType DEF Ready
<1> HIDE DEF l
<1>2. c.info \in Servers /\ c.lock[c.info] = 0
  BY DEF Ready, Conn, Sound
<1>3. ASSUME NEW s \in Servers PROVE l.lock[s] = IF l.info = s /\ l.locked THEN 1 ELSE 0
  BY <1>1, <1>2 DEF Ready, Sound
<1>4. ASSUME NEW s \in Servers, l.wait[s] > 0
      PROVE l.info = s /\ l.locked /\ ~l.playing /\ l.cmd = s
  BY <1>1, <1>4 DEF Ready, Sound
<1>5. Sound(l)
  BY <1>1, <1>3, <1>4 DEF Ready, Sound
<1> QED BY <1>1, <1>5 DEF Ready, l

\* Appending to nothing.
LEMMA AppendToNone ==
  ASSUME NEW S, NEW s \in Seq(S), Len(s) = 0, NEW e \in S
  PROVE  /\ Append(s, e) \in Seq(S) /\ Len(Append(s, e)) = 1
         /\ \A i \in 1..Len(Append(s, e)) : Append(s, e)[i] = e
<1>1. /\ Append(s, e) \in Seq(S) /\ Len(Append(s, e)) = Len(s) + 1
      /\ Append(s, e)[Len(s) + 1] = e
  BY AppendProperties
<1>2. Len(Append(s, e)) = 1 /\ Append(s, e)[1] = e
  BY <1>1
<1>3. 1..1 = {1}
  OBVIOUS
<1> QED BY <1>1, <1>2, <1>3

\* A handler that ends with nothing running, whatever it leaves in m_info.
LEMMA DoneQuiet ==
  ASSUME Idle, NEW c \in Conn, Sound(c), ~c.playing, NEW rest \in Seq(Dialog), Len(rest) = 0,
         Done(c, rest)
  PROVE  Undisturbed'
<1>1. conn' = c /\ Len(dialogs') = 0 /\ ~crashed' /\ Len(games') = 0 /\ ended' = 0
  BY DEF Done, Idle
<1> QED BY <1>1 DEF Undisturbed, Sound

\* A handler that is suspended and relies on what it leaves.
LEMMA ShowQuiet ==
  ASSUME Idle, NEW c \in Conn, Sound(c), ~c.playing, c.info # NoServer,
         NEW rest \in Seq(Dialog), Len(rest) = 0,
         NEW kind \in {"password", "full", "failed"}, NEW s \in Servers \cup {NoServer},
         kind = "password" => s = c.info /\ ~c.locked,
         kind = "full" => ~c.locked /\ c.cmd = c.info,
         Show(kind, s, c, rest)
  PROVE  Undisturbed'
<1> DEFINE d == [kind |-> kind, server |-> s]
<1>1. d \in Dialog /\ d.kind = kind /\ d.server = s
  BY DEF Dialog
<1>2. conn' = c /\ dialogs' = Append(rest, d) /\ ~crashed' /\ Len(games') = 0 /\ ended' = 0
  BY DEF Show, Idle
<1> HIDE DEF d
<1>3. Len(dialogs') = 1 /\ \A i \in 1..Len(dialogs') : dialogs'[i] = d
  BY <1>1, <1>2, AppendToNone
<1>4. Relies(d)'
  BY <1>1, <1>2 DEF Relies
<1>5. \A i \in 1..Len(dialogs') : Relies(dialogs[i])'
  BY <1>3, <1>4 DEF Relies
<1> QED BY <1>2, <1>3, <1>5 DEF Undisturbed, Sound

\* Execute, entered by no other handler, starts the game it holds the lock
\* for, or shows its failure.
LEMMA ExecuteQuiet ==
  ASSUME Idle, NEW c, Ready(c), c.locked, NEW rest \in Seq(Dialog), Len(rest) = 0,
         Execute(c, rest)
  PROVE  Undisturbed'
<1>1. CASE Show("failed", c.info, c, rest)
  <2>1. c \in Conn /\ Sound(c) /\ c.info # NoServer /\ ~c.playing /\ c.info \in Servers \cup {NoServer}
    BY DEF Ready, Conn
  <2> QED BY <1>1, <2>1, ShowQuiet
<1>2. CASE /\ games' = Append(games, [server |-> c.info, cmd |-> c.cmd])
           /\ conn' = [c EXCEPT !.playing = TRUE, !.wait[c.info] = 0]
           /\ dialogs' = rest
           /\ UNCHANGED crashed
  <2> DEFINE g == [server |-> c.info, cmd |-> c.cmd]
             p == [c EXCEPT !.playing = TRUE, !.wait[c.info] = 0]
  <2>1. g \in Game /\ g.server = c.info /\ g.cmd = c.info
    BY DEF Ready, Conn, Game
  <2>2. c \in Conn /\ c.info \in Servers
    BY DEF Ready, Conn
  <2>3. /\ p.info = c.info /\ p.locked = c.locked /\ p.lock = c.lock /\ p.playing
        /\ \A s \in Servers : p.wait[s] = IF s = c.info THEN 0 ELSE c.wait[s]
    BY <2>2 DEF Conn
  <2>4. games' = Append(games, g) /\ conn' = p
    BY <1>2
  <2> HIDE DEF g, p
  <2>5. Len(games') = 1 /\ \A i \in 1..Len(games') : games'[i] = g
    BY <2>1, <2>4, AppendToNone DEF Idle, Shape
  <2>6. Sound(p)
    BY <2>2, <2>3 DEF Ready, Sound
  <2>7. ~crashed' /\ ended' = 0 /\ Len(dialogs') = 0
    BY <1>2 DEF Idle
  <2>8. Sound(conn)' /\ conn'.playing /\ conn'.info = c.info
    BY <2>3, <2>4, <2>6 DEF Sound
  <2> QED BY <2>1, <2>5, <2>7, <2>8 DEF Undisturbed
<1> QED BY <1>1, <1>2 DEF Execute

\* Connect, entered by no other handler: done, waiting, or on to Execute.
LEMMA ConnectQuiet ==
  ASSUME Idle, NEW c, Ready(c), Waiting(c) \/ ~c.locked,
         NEW rest \in Seq(Dialog), Len(rest) = 0, Connect(c, rest)
  PROVE  Undisturbed'
<1>1. c \in Conn /\ Sound(c) /\ c.info # NoServer /\ ~c.playing /\ c.cmd = c.info /\ c.info \in Servers
  BY DEF Ready, Conn
<1>2. CASE Done(c, rest)
  BY <1>1, <1>2, DoneQuiet
<1>3. CASE ~Waiting(c) /\ Show("full", c.info, c, rest)
  <2>1. c.info \in Servers \cup {NoServer}
    BY <1>1
  <2> QED BY <1>1, <1>3, <2>1, ShowQuiet
<1>4. CASE c.locked /\ Execute(c, rest)
  BY <1>4, ExecuteQuiet
<1>5. CASE ~c.locked /\ Execute(Lock(c), rest)
  BY <1>5, LockReady, ExecuteQuiet
<1> QED BY <1>1, <1>2, <1>3, <1>4, <1>5 DEF Connect

\* Start on a connection that is free leads to a state of Undisturbed.
LEMMA StartQuiet ==
  ASSUME Idle, NEW c \in Conn, Sound(c), NEW s \in Servers, c.info = s, ~c.locked, ~c.playing,
         NEW rest \in Seq(Dialog), Len(rest) = 0, Start(c, s, rest)
  PROVE  Undisturbed'
<1>0. s # NoServer /\ s \in Servers \cup {NoServer}
  BY GameConnectionAssumption DEF GameConnectionAssumption
<1>1. CASE Connect([c EXCEPT !.cmd = s], rest)
  <2> DEFINE d == [c EXCEPT !.cmd = s]
  <2>1. /\ d \in Conn /\ d.info = s /\ d.cmd = s /\ ~d.locked /\ ~d.playing
        /\ d.lock = c.lock /\ d.wait = c.wait
    BY DEF Conn
  <2> HIDE DEF d
  <2>2. Ready(d)
    BY <1>0, <2>1 DEF Ready, Sound
  <2> QED BY <1>1, <2>1, <2>2, ConnectQuiet DEF d
<1>2. CASE Show("failed", s, c, rest)
  BY <1>0, <1>2, ShowQuiet
<1>3. CASE Done(Reset(c, NoServer), rest)
  <2>1. Reset(c, NoServer) \in Conn /\ Sound(Reset(c, NoServer)) /\ ~Reset(c, NoServer).playing
    BY ResetType, ResetSound
  <2> QED BY <1>3, <2>1, DoneQuiet
<1> QED BY <1>1, <1>2, <1>3 DEF Start

\* Every step that is not the first to overlap keeps things undisturbed.
LEMMA UndisturbedStep ==
  ASSUME Shape, Counts, Undisturbed, nested = 0, nested' = 0, [Next]_vars
  PROVE  Undisturbed'
<1>0. conn \in Conn /\ Sound(conn) /\ dialogs \in Seq(Dialog) /\ Len(dialogs) \in Nat
  BY LenProperties DEF Shape, Undisturbed
<1>1. ASSUME NEW s \in Servers, ConnectToServer(s) PROVE Undisturbed'
  <2> DEFINE r == Reset(conn, s)
  <2>1. /\ r \in Conn /\ Sound(r) /\ r.info = s /\ ~r.locked /\ ~r.playing
    BY <1>0, ResetType, ResetSound
  <2>2. Idle
    BY <1>1 DEF ConnectToServer, Undisturbed, Idle
  <2>3. Len(dialogs) = 0
    <3>1. dialogs = <<>>
      BY <1>1 DEF ConnectToServer, Enter
    <3> QED BY <3>1
  <2>4. s # NoServer
    BY GameConnectionAssumption DEF GameConnectionAssumption
  <2>5. Show("password", s, r, dialogs) \/ Start(r, s, dialogs)
    BY <1>1 DEF ConnectToServer
  <2> HIDE DEF r
  <2>6. CASE Show("password", s, r, dialogs)
    BY <1>0, <2>1, <2>2, <2>3, <2>4, <2>6, ShowQuiet
  <2>7. CASE Start(r, s, dialogs)
    BY <1>0, <2>1, <2>2, <2>3, <2>7, StartQuiet
  <2> QED BY <2>5, <2>6, <2>7
<1>2. CASE Close
  <2> DEFINE d    == dialogs[Len(dialogs)]
             rest == SubSeq(dialogs, 1, Len(dialogs) - 1)
  <2>1. Len(dialogs) = 1
    <3>1. Len(dialogs) # 0
      BY <1>0, <1>2, EmptySeq DEF Close
    <3>2. Len(dialogs) \in Nat /\ Len(dialogs) <= 1
      BY <1>0 DEF Undisturbed
    <3>3. \A n \in Nat : n # 0 /\ n <= 1 => n = 1
      OBVIOUS
    <3> QED BY <3>1, <3>2, <3>3
  <2>2. rest \in Seq(Dialog) /\ Len(rest) = 0 /\ d \in Dialog
    <3>1. Len(dialogs) > 0 /\ Len(dialogs) - 1 = 0
      BY <2>1
    <3> QED BY <1>0, <3>1, FrontOfSeq
  <2>3. Relies(d) /\ ~conn.playing
    BY <2>1 DEF Undisturbed
  <2>4. Idle
    BY <1>2, <2>3 DEF Close, Undisturbed, Idle
  <2>5. conn.info \in Servers
    BY <1>0, <2>3 DEF Relies, Conn
  <2>6. \/ Done(Reset(conn, NoServer), rest)
        \/ d.kind = "password" /\ Start(conn, d.server, rest)
        \/ d.kind = "full" /\ Done([Lock(conn) EXCEPT !.wait[conn.info] = WaitTime], rest)
        \/ d.kind = "full" /\ Execute(Lock(conn), rest)
    BY <1>2, <2>3 DEF Close, Relies
  <2> HIDE DEF d, rest
  <2>7. CASE Done(Reset(conn, NoServer), rest)
    <3>1. Reset(conn, NoServer) \in Conn /\ Sound(Reset(conn, NoServer)) /\ ~Reset(conn, NoServer).playing
      BY <1>0, ResetType, ResetSound
    <3> QED BY <2>2, <2>4, <2>7, <3>1, DoneQuiet
  <2>8. CASE d.kind = "password" /\ Start(conn, d.server, rest)
    <3>1. d.server = conn.info /\ ~conn.locked
      BY <2>3, <2>8 DEF Relies
    <3> QED BY <1>0, <2>2, <2>3, <2>4, <2>5, <2>8, <3>1, StartQuiet
  <2>9. CASE d.kind = "full"
    <3>1. Ready(conn) /\ ~conn.locked
      BY <1>0, <2>3, <2>9 DEF Relies, Ready
    <3>2. Ready(Lock(conn)) /\ Lock(conn).locked /\ Lock(conn).info = conn.info
      BY <3>1, LockReady
    <3>3. CASE Execute(Lock(conn), rest)
      BY <2>2, <2>4, <3>2, <3>3, ExecuteQuiet
    <3>4. CASE Done([Lock(conn) EXCEPT !.wait[conn.info] = WaitTime], rest)
      <4> DEFINE l == Lock(conn)
                 w == [l EXCEPT !.wait[conn.info] = WaitTime]
      <4> HIDE DEF l
      <4>1. l \in Conn /\ Sound(l) /\ l.info = conn.info /\ l.locked /\ l.cmd = l.info /\ ~l.playing
        BY <3>2 DEF Ready, l
      <4>2. /\ w \in Conn /\ w.info = l.info /\ w.locked /\ w.lock = l.lock /\ w.cmd = l.cmd
            /\ ~w.playing
            /\ \A s \in Servers : w.wait[s] = IF s = conn.info THEN WaitTime ELSE l.wait[s]
        BY <2>5, <4>1, GameConnectionAssumption DEF Conn, GameConnectionAssumption
      <4>3. Done(w, rest)
        BY <3>4 DEF l
      <4> HIDE DEF w
      <4>4. Sound(w)
        BY <4>1, <4>2 DEF Sound
      <4> QED BY <2>2, <2>4, <4>2, <4>3, <4>4, DoneQuiet
    <3> QED BY <2>3, <2>6, <2>7, <2>9, <3>3, <3>4
  <2> QED BY <2>6, <2>7, <2>8, <2>9
<1>3. ASSUME NEW tick \in 0..3, OnTimer(tick) PROVE Undisturbed'
  <2>1. /\ conn.info \in Servers /\ conn.wait[conn.info] \in Nat /\ conn.wait[conn.info] > 0
        /\ conn.info # NoServer
    BY <1>0, <1>3 DEF OnTimer, Waiting, Conn
  <2>2. conn.locked /\ ~conn.playing /\ conn.cmd = conn.info
    BY <1>0, <2>1 DEF Sound
  <2>3. Idle
    BY <1>3, <2>2 DEF OnTimer, Undisturbed, Idle
  <2>4. Len(dialogs) = 0
    <3>1. dialogs = <<>>
      BY <1>3 DEF OnTimer, Enter
    <3> QED BY <3>1
  <2> DEFINE c == [conn EXCEPT !.wait[conn.info] = @ - 1]
  <2>5. CASE Connect(conn, dialogs)
    <3>1. Ready(conn) /\ Waiting(conn)
      BY <1>0, <1>3, <2>1, <2>2 DEF Ready, OnTimer
    <3> QED BY <1>0, <2>3, <2>4, <2>5, <3>1, ConnectQuiet
  <2>6. CASE Done(IF Waiting(c) THEN c ELSE Reset(c, NoServer), dialogs)
    <3>1. conn.wait[conn.info] - 1 \in Nat
      BY <2>1
    <3>2. /\ c.info = conn.info /\ c.locked = conn.locked /\ c.lock = conn.lock
          /\ c.cmd = conn.cmd /\ c.playing = conn.playing
          /\ c \in Conn
          /\ \A s \in Servers \ {conn.info} : c.wait[s] = conn.wait[s]
      <4>1. [conn.wait EXCEPT ![conn.info] = @ - 1] \in [Servers -> Nat]
        BY <1>0, <2>1, <3>1 DEF Conn
      <4>2. c = [conn EXCEPT !.wait = [conn.wait EXCEPT ![conn.info] = @ - 1]]
        BY <1>0 DEF Conn
      <4>3. \A s \in Servers \ {conn.info} : [conn.wait EXCEPT ![conn.info] = @ - 1][s] = conn.wait[s]
        BY <1>0, <2>1 DEF Conn
      <4> HIDE DEF c
      <4> QED BY <1>0, <4>1, <4>2, <4>3 DEF Conn
    <3> HIDE DEF c
    <3>3. Sound(c)
      BY <1>0, <2>2, <3>2 DEF Sound
    <3>4. /\ Reset(c, NoServer) \in Conn /\ Sound(Reset(c, NoServer))
          /\ ~Reset(c, NoServer).playing
      BY <3>2, <3>3, ResetType, ResetSound
    <3>5. CASE Waiting(c)
      BY <1>0, <2>2, <2>3, <2>4, <2>6, <3>2, <3>3, <3>5, DoneQuiet
    <3>6. CASE ~Waiting(c)
      BY <1>0, <2>3, <2>4, <2>6, <3>4, <3>6, DoneQuiet
    <3> QED BY <3>5, <3>6
  <2> QED BY <1>3, <2>5, <2>6 DEF OnTimer
<1>4. CASE OnKeypress \/ OnEndProcess
  <2>1. /\ Reset(conn, NoServer) \in Conn /\ Sound(Reset(conn, NoServer))
        /\ ~Reset(conn, NoServer).playing
    BY <1>0, ResetType, ResetSound
  <2>2. Len(dialogs) = 0
    <3>1. CASE OnKeypress
      BY <3>1 DEF OnKeypress
    <3>2. CASE OnEndProcess
      BY <3>2 DEF OnEndProcess, Undisturbed
    <3> QED BY <1>4, <3>1, <3>2
  <2>3. Idle
    <3>1. CASE OnKeypress
      <4>1. conn.info \in Servers /\ conn.wait[conn.info] > 0
        BY <1>0, <3>1 DEF OnKeypress, Waiting, Conn
      <4>2. ~conn.playing
        BY <1>0, <4>1 DEF Sound
      <4> QED BY <3>1, <4>2 DEF OnKeypress, Undisturbed, Idle
    <3>2. CASE OnEndProcess
      <4>1. Len(games) \in Nat /\ ended \in Nat /\ ended > 0 /\ ended' = ended - 1
        BY <3>2, LenProperties DEF OnEndProcess, Shape, Counts
      <4>2. Len(games) + ended = 1
        BY <4>1 DEF Undisturbed
      <4>3. Len(games) = 0 /\ ended' = 0
        BY <4>1, <4>2
      <4> QED BY <4>3 DEF Undisturbed, Idle
    <3> QED BY <1>4, <3>1, <3>2
  <2>4. Done(Reset(conn, NoServer), dialogs)
    BY <1>4 DEF OnKeypress, OnEndProcess
  <2> QED BY <1>0, <2>1, <2>2, <2>3, <2>4, DoneQuiet
<1>5. CASE OnTerminate
  <2>1. PICK i \in 1..Len(games) :
          games' = SubSeq(games, 1, i - 1) \o SubSeq(games, i + 1, Len(games))
    BY <1>5 DEF OnTerminate
  <2>2. Len(games) \in Nat /\ Len(games') = Len(games) - 1 /\ Len(games) >= 1
    <3>1. games \in Seq(Game)
      BY DEF Shape
    <3>2. Len(games') = Len(games) - 1
      BY <2>1, <3>1, WithoutOne
    <3>3. Len(games) \in Nat
      BY <3>1, LenProperties
    <3>4. Len(games) >= 1
      BY <3>3
    <3> QED BY <3>2, <3>3, <3>4
  <2>3. conn.playing
    BY <2>2 DEF Undisturbed
  <2>4. ended' = ended + 1 /\ ended \in Nat
    BY <1>5 DEF OnTerminate, Counts
  <2>5. Len(games') = 0 /\ ended' = 1
    <3>1. Len(games) + ended = 1
      BY <2>3 DEF Undisturbed
    <3> QED BY <2>2, <2>4, <3>1
  <2>6. conn' = conn /\ dialogs' = dialogs /\ crashed' = crashed
    BY <1>5 DEF OnTerminate
  <2> QED BY <2>3, <2>5, <2>6 DEF Undisturbed, Sound, Relies
<1>6. CASE (\E s \in Servers : Players(s)) \/ UNCHANGED vars
  BY <1>6 DEF Players, vars, Undisturbed, Sound, Relies
<1> QED BY <1>1, <1>2, <1>3, <1>4, <1>5, <1>6 DEF Next, Activate, OnIPC

\* The inductive invariant.
ConnectionInv == Shape /\ Counts /\ (nested = 0 => Undisturbed)

\* The count of handlers run inside a dialog never falls, so a state without
\* one has only such states before it.
LEMMA NestedGrows == ASSUME Counts, [Next]_vars, nested' = 0 PROVE nested = 0
<1>1. nested \in Nat /\ (nested' = nested \/ nested' = nested + 1)
  BY DEF Counts, Next, vars, Activate, OnIPC, ConnectToServer, Enter, Close, OnTimer, OnKeypress,
         OnTerminate, OnEndProcess, Players
<1> QED BY <1>1

\* The initial states have no game, no dialog and a sound connection.
LEMMA InitUndisturbed == Init => Undisturbed
<1> SUFFICES ASSUME Init PROVE Undisturbed
  OBVIOUS
<1>1. Sound(conn) /\ ~conn.playing /\ ~crashed
  BY DEF Init, Sound
<1>2. Len(games) = 0 /\ Len(dialogs) = 0 /\ ended = 0
  BY DEF Init
<1> QED BY <1>1, <1>2 DEF Undisturbed

\* The inductive invariant behind the theorems below.
LEMMA ConnectionAlways == Spec => []ConnectionInv
<1>1. Init => ConnectionInv
  BY InitShape, InitUndisturbed DEF ConnectionInv
<1>2. ConnectionInv /\ [Next]_vars => ConnectionInv'
  BY HandlerShape, HandlerCounts, UndisturbedStep, NestedGrows DEF ConnectionInv
<1> QED BY <1>1, <1>2, PTL DEF Spec

\* What the singleton has locked is locked, and until handlers overlap once and
\* nothing else.
THEOREM LocksCorrect == Spec => []LockMatches
<1>1. ConnectionInv => LockMatches
  <2>1. Shape => LockedIsHeld
    BY DEF Shape, Held, LockedIsHeld
  <2> QED BY <2>1 DEF ConnectionInv, Undisturbed, Sound, LockMatches
<1> QED BY <1>1, ConnectionAlways, PTL

\* The null pointer is never used before handlers overlap.
LEMMA NoCrash == ConnectionInv => CrashOnlyNested
  BY DEF ConnectionInv, Counts, Undisturbed, CrashOnlyNested

\* There is one game, for the server it was prepared for, until handlers overlap, and
\* no null pointer is used.
THEOREM OneGameCorrect == Spec => []OneGame
<1>1. ConnectionInv => OneGame
  <2> SUFFICES ASSUME ConnectionInv, nested = 0
               PROVE  /\ Len(games) + ended = IF conn.playing THEN 1 ELSE 0
                      /\ \A i \in 1..Len(games) : games[i].server = conn.info /\ games[i].cmd = conn.info
    BY NoCrash DEF OneGame
  <2>1. Undisturbed
    BY DEF ConnectionInv
  <2> QED BY <2>1 DEF Undisturbed
<1> QED BY <1>1, ConnectionAlways, PTL

\* Waiting is for one server and excludes playing, until handlers overlap.
LEMMA OneWait == ConnectionInv => WaitsForOne
  BY DEF ConnectionInv, Undisturbed, Sound, WaitsForOne

\* Who is waited for or played on cannot be deleted from a list, until handlers
\* overlap.
THEOREM BusyCorrect == Spec => []BusyIsLocked
<1>1. ConnectionInv => BusyIsLocked
  <2> SUFFICES ASSUME ConnectionInv, nested = 0
               PROVE  /\ \A i \in 1..Len(games) : conn.lock[games[i].server] > 0
                      /\ \A s \in Servers : conn.wait[s] > 0 => conn.lock[s] > 0
    BY OneWait DEF BusyIsLocked
  <2>1. Undisturbed /\ Sound(conn) /\ conn \in Conn
    BY DEF ConnectionInv, Undisturbed, Shape
  <2>2. ASSUME NEW i \in 1..Len(games) PROVE conn.lock[games[i].server] > 0
    <3>1. conn.playing /\ games[i].server = conn.info
      BY <2>1 DEF Undisturbed
    <3>2. conn.info \in Servers /\ conn.locked
      BY <2>1, <3>1 DEF Sound, Conn
    <3> QED BY <2>1, <3>1, <3>2 DEF Sound
  <2>3. ASSUME NEW s \in Servers, conn.wait[s] > 0 PROVE conn.lock[s] > 0
    BY <2>1, <2>3 DEF Sound
  <2> QED BY <2>2, <2>3
<1> QED BY <1>1, ConnectionAlways, PTL

-----------------------------------------------------------------------------
(* A wait is counted down.                                                 *)

\* Only the server in m_info is waited for.  Nothing changes m_info but Reset, which clears
\* the wait it gives up, so that this holds whatever overlaps.
WaitOne(c) == \A s \in Servers : c.wait[s] > 0 => c.info = s

\* No wait is longer in d than in c.
Shorter(d, c) == \A s \in Servers : d.wait[s] <= c.wait[s]

\* While no dialog is open no wait grows.  Unless a game is played every fourth timer
\* shortens the wait there is, or the handler opens a dialog; while one is played no timer
\* shortens it, though it may start another game.
WaitCounted ==
  /\ dialogs = <<>> => Shorter(conn', conn)
  /\ \A tick \in 0..3 : OnTimer(tick) /\ conn.playing /\ games' = games => conn'.wait = conn.wait
  /\ OnTimer(0) => \A s \in Servers :
       conn.wait[s] > 0 => conn'.wait[s] < conn.wait[s] \/ Len(dialogs') = Len(dialogs) + 1

\* Reset leaves nobody who is waited for.
LEMMA ResetWait ==
  ASSUME NEW c \in Conn, WaitOne(c), NEW s \in Servers \cup {NoServer}
  PROVE  \A t \in Servers : Reset(c, s).wait[t] = 0
<1> SUFFICES ASSUME NEW t \in Servers PROVE Reset(c, s).wait[t] = 0
  OBVIOUS
<1>1. c.wait \in [Servers -> Nat] /\ t # NoServer
  BY GameConnectionAssumption DEF Conn, GameConnectionAssumption
<1>2. c.info # t => c.wait[t] = 0
  BY <1>1 DEF WaitOne
<1> QED BY <1>1, <1>2 DEF Reset

LEMMA ResetShorter ==
  ASSUME NEW c \in Conn, WaitOne(c), NEW s \in Servers \cup {NoServer}
  PROVE  WaitOne(Reset(c, s)) /\ Shorter(Reset(c, s), c)
<1>1. \A t \in Servers : c.wait[t] \in Nat
  BY DEF Conn
<1>2. \A t \in Servers : Reset(c, s).wait[t] = 0
  BY ResetWait
<1> QED BY <1>1, <1>2 DEF WaitOne, Shorter

LEMMA ShorterSelf == ASSUME NEW c \in Conn PROVE Shorter(c, c)
<1>1. \A t \in Servers : c.wait[t] \in Nat
  BY DEF Conn
<1> QED BY <1>1 DEF Shorter

\* A game that starts ends the wait; a box changes nothing.
LEMMA ExecuteWait ==
  ASSUME NEW c \in Conn, WaitOne(c), c.info # NoServer, NEW rest, Execute(c, rest)
  PROVE  /\ WaitOne(conn') /\ Shorter(conn', c)
         /\ dialogs' = Append(rest, [kind |-> "failed", server |-> c.info])
              \/ \A t \in Servers : conn'.wait[t] = 0
<1>1. CASE Show("failed", c.info, c, rest)
  BY <1>1, ShorterSelf DEF Show
<1>2. CASE conn' = [c EXCEPT !.playing = TRUE, !.wait[c.info] = 0]
  <2> DEFINE w == [c.wait EXCEPT ![c.info] = 0]
  <2>1. c.wait \in [Servers -> Nat]
    BY DEF Conn
  <2>2. conn'.wait = w
    BY <1>2 DEF Conn
  <2>3. \A t \in Servers : w[t] = 0
    BY <2>1 DEF WaitOne
  <2> HIDE DEF w
  <2>4. \A t \in Servers : conn'.wait[t] = 0 /\ c.wait[t] \in Nat
    BY <2>1, <2>2, <2>3
  <2> QED BY <2>4 DEF WaitOne, Shorter
<1> QED BY <1>1, <1>2 DEF Execute

\* Connect does not lengthen a wait.
LEMMA ConnectWait ==
  ASSUME NEW c \in Conn, WaitOne(c), NEW rest, Connect(c, rest)
  PROVE  WaitOne(conn') /\ Shorter(conn', c)
<1>1. CASE conn' = c
  BY <1>1, ShorterSelf
<1>2. CASE c.info # NoServer /\ Execute(c, rest)
  BY <1>2, ExecuteWait
<1>3. CASE c.info # NoServer /\ Execute(Lock(c), rest)
  <2>1. Lock(c) \in Conn /\ Lock(c).info = c.info /\ Lock(c).wait = c.wait
    BY <1>3, LockType
  <2>2. WaitOne(Lock(c))
    BY <2>1 DEF WaitOne
  <2>3. WaitOne(conn') /\ Shorter(conn', Lock(c))
    BY <1>3, <2>1, <2>2, ExecuteWait
  <2> QED BY <2>1, <2>3 DEF Shorter
<1> QED BY <1>1, <1>2, <1>3 DEF Connect, Crash, Done, Show

LEMMA StartWait ==
  ASSUME NEW c \in Conn, WaitOne(c), NEW s \in Servers \cup {NoServer}, NEW rest, Start(c, s, rest)
  PROVE  WaitOne(conn') /\ Shorter(conn', c)
<1>1. CASE Connect([c EXCEPT !.cmd = s], rest)
  <2> DEFINE d == [c EXCEPT !.cmd = s]
  <2>1. d \in Conn /\ d.info = c.info /\ d.wait = c.wait
    BY DEF Conn
  <2> HIDE DEF d
  <2>2. WaitOne(d)
    BY <2>1 DEF WaitOne
  <2>3. WaitOne(conn') /\ Shorter(conn', d)
    BY <1>1, <2>1, <2>2, ConnectWait DEF d
  <2> QED BY <2>1, <2>3 DEF Shorter
<1>2. CASE Show("failed", s, c, rest)
  BY <1>2, ShorterSelf DEF Show
<1>3. CASE Done(Reset(c, NoServer), rest)
  BY <1>3, ResetShorter DEF Done
<1> QED BY <1>1, <1>2, <1>3 DEF Start

\* Each handler leaves one wait at most, and only a dialog's answer can lengthen it.
LEMMA StepWait ==
  ASSUME Shape, WaitOne(conn), [Next]_vars
  PROVE  WaitOne(conn') /\ (dialogs = <<>> => Shorter(conn', conn))
<1>0. conn \in Conn
  BY DEF Shape
<1>1. ASSUME NEW s \in Servers, ConnectToServer(s) PROVE WaitOne(conn') /\ Shorter(conn', conn)
  <2> DEFINE c == Reset(conn, s)
  <2>1. c \in Conn /\ WaitOne(c) /\ Shorter(c, conn)
    BY <1>0, ResetType, ResetShorter
  <2>2. \/ Show("password", s, c, dialogs)
        \/ Start(c, s, dialogs)
    BY <1>1 DEF ConnectToServer
  <2> HIDE DEF c
  <2>3. WaitOne(conn') /\ Shorter(conn', c)
    BY <2>1, <2>2, StartWait, ShorterSelf DEF Show
  <2>4. conn' \in Conn
    BY HandlerShape DEF Shape
  <2>5. \A t \in Servers : c.wait[t] \in Nat /\ conn.wait[t] \in Nat /\ conn'.wait[t] \in Nat
    BY <1>0, <2>1, <2>4 DEF Conn
  <2> QED BY <2>1, <2>3, <2>5 DEF Shorter
<1>2. CASE Close
  <2> DEFINE d    == dialogs[Len(dialogs)]
             rest == SubSeq(dialogs, 1, Len(dialogs) - 1)
  <2>1. dialogs # <<>> /\ d.server \in Servers \cup {NoServer}
    BY <1>2, DialogsFront DEF Close, Shape
  <2>2. \/ Done(Reset(conn, NoServer), rest)
        \/ Start(conn, d.server, rest)
        \/ Crash(conn, rest)
        \/ conn.info # NoServer /\ Done([Lock(conn) EXCEPT !.wait[conn.info] = WaitTime], rest)
        \/ conn.info # NoServer /\ Execute(Lock(conn), rest)
    BY <1>2 DEF Close
  <2> HIDE DEF d, rest
  <2>3. CASE Done(Reset(conn, NoServer), rest)
    BY <1>0, <2>1, <2>3, ResetShorter DEF Done
  <2>4. CASE Start(conn, d.server, rest)
    BY <1>0, <2>1, <2>4, StartWait
  <2>5. CASE Crash(conn, rest)
    BY <2>1, <2>5 DEF Crash
  <2>6. CASE conn.info # NoServer
    <3>1. Lock(conn) \in Conn /\ Lock(conn).info = conn.info /\ Lock(conn).wait = conn.wait
      BY <1>0, <2>6, LockType
    <3>2. WaitOne(Lock(conn))
      BY <3>1 DEF WaitOne
    <3>3. CASE Done([Lock(conn) EXCEPT !.wait[conn.info] = WaitTime], rest)
      <4> DEFINE w == [conn.wait EXCEPT ![conn.info] = WaitTime]
      <4>1. conn'.wait = w /\ conn'.info = conn.info
        BY <3>1, <3>3 DEF Done, Conn
      <4>2. \A t \in Servers : t # conn.info => w[t] = conn.wait[t]
        BY <1>0 DEF Conn
      <4> HIDE DEF w
      <4> QED BY <2>1, <4>1, <4>2 DEF WaitOne
    <3>4. CASE Execute(Lock(conn), rest)
      BY <2>1, <2>6, <3>1, <3>2, <3>4, ExecuteWait
    <3> QED BY <2>2, <2>3, <2>4, <2>5, <3>3, <3>4
  <2> QED BY <2>2, <2>3, <2>4, <2>5, <2>6
<1>3. ASSUME NEW tick \in 0..3, OnTimer(tick) PROVE WaitOne(conn') /\ Shorter(conn', conn)
  <2>1. conn.info \in Servers /\ conn.wait[conn.info] \in Nat /\ conn.wait[conn.info] > 0
    BY <1>0, <1>3 DEF OnTimer, Waiting, Conn
  <2> DEFINE c == [conn EXCEPT !.wait[conn.info] = @ - 1]
             w == [conn.wait EXCEPT ![conn.info] = @ - 1]
  <2>2. CASE Connect(conn, dialogs)
    BY <1>0, <2>2, ConnectWait
  <2>3. CASE Done(IF Waiting(c) THEN c ELSE Reset(c, NoServer), dialogs)
    <3>1. conn.wait \in [Servers -> Nat] /\ conn.wait[conn.info] - 1 \in Nat
      BY <1>0, <2>1 DEF Conn
    <3>2. w \in [Servers -> Nat] /\ \A t \in Servers : w[t] <= conn.wait[t]
      BY <2>1, <3>1
    <3>3. c.wait = w /\ c.info = conn.info /\ c = [conn EXCEPT !.wait = w]
      BY <1>0 DEF Conn
    <3> HIDE DEF c, w
    <3>4. c \in Conn
      BY <1>0, <3>2, <3>3 DEF Conn
    <3>5. WaitOne(c) /\ Shorter(c, conn)
      BY <3>1, <3>2, <3>3 DEF WaitOne, Shorter
    <3>6. WaitOne(Reset(c, NoServer)) /\ \A t \in Servers : Reset(c, NoServer).wait[t] = 0
      BY <3>4, <3>5, ResetShorter, ResetWait
    <3> QED BY <2>3, <3>1, <3>5, <3>6 DEF Done, Shorter
  <2> QED BY <1>3, <2>2, <2>3 DEF OnTimer
<1>4. CASE OnKeypress \/ OnEndProcess
  BY <1>0, <1>4, ResetShorter DEF OnKeypress, OnEndProcess, Done
<1>5. CASE OnTerminate \/ (\E s \in Servers : Players(s)) \/ UNCHANGED vars
  BY <1>0, <1>5, ShorterSelf DEF OnTerminate, Players, vars
<1>6. ASSUME Close PROVE dialogs # <<>>
  BY <1>6 DEF Close
<1> QED BY <1>1, <1>2, <1>3, <1>4, <1>5, <1>6 DEF Next, Activate, OnIPC

\* While a game is played a timer that starts no other one leaves the wait as it was.
LEMMA TimerPlaying ==
  ASSUME Shape, NEW tick \in 0..3, OnTimer(tick), conn.playing, games' = games
  PROVE  conn'.wait = conn.wait
<1>0. conn \in Conn /\ games \in Seq(Game)
  BY DEF Shape
<1>1. Connect(conn, dialogs)
  BY DEF OnTimer
<1>2. CASE Done(conn, dialogs) \/ Crash(conn, dialogs)
  BY <1>2 DEF Done, Crash
<1>3. ASSUME NEW e, e.info = conn.info, e.wait = conn.wait, Execute(e, dialogs)
      PROVE  conn'.wait = conn.wait
  <2>1. Append(games, [server |-> e.info, cmd |-> e.cmd]) # games
    <3> DEFINE g == [server |-> e.info, cmd |-> e.cmd]
    <3> HIDE DEF g
    <3>1. Len(Append(games, g)) = Len(games) + 1 /\ Len(games) \in Nat
      BY <1>0, LenProperties
    <3> QED BY <3>1 DEF g
  <2> QED BY <1>3, <2>1 DEF Execute, Show
<1>4. CASE conn.info # NoServer
  <2>1. LET e == IF conn.locked THEN conn ELSE Lock(conn) IN e.info = conn.info /\ e.wait = conn.wait
    BY <1>0, <1>4, LockType
  <2> QED BY <1>1, <1>2, <1>3, <1>4, <2>1 DEF Connect, Show
<1> QED BY <1>1, <1>2, <1>4 DEF Connect

\* Every fourth timer does not leave a wait as it was.
LEMMA TimerWait ==
  ASSUME Shape, WaitOne(conn), OnTimer(0), NEW s \in Servers, conn.wait[s] > 0
  PROVE  conn'.wait[s] < conn.wait[s] \/ Len(dialogs') = Len(dialogs) + 1
<1>0. conn \in Conn /\ dialogs \in Seq(Dialog)
  BY DEF Shape
<1>1. s = conn.info /\ conn.info \in Servers /\ conn.wait \in [Servers -> Nat] /\ conn.info # NoServer
  BY <1>0, GameConnectionAssumption DEF WaitOne, Conn, GameConnectionAssumption
<1> DEFINE c == [conn EXCEPT !.wait[conn.info] = @ - 1]
           w == [conn.wait EXCEPT ![conn.info] = @ - 1]
<1>2. CASE conn.info \in full
  <2>1. conn' = IF Waiting(c) THEN c ELSE Reset(c, NoServer)
    BY <1>2 DEF OnTimer, Done
  <2>2. c.wait = w /\ c.info = conn.info /\ w[s] = conn.wait[s] - 1
    BY <1>0, <1>1 DEF Conn
  <2> HIDE DEF c, w
  <2>3. CASE Waiting(c)
    BY <1>1, <2>1, <2>2, <2>3
  <2>4. CASE ~Waiting(c)
    <3>1. conn'.wait = [c.wait EXCEPT ![c.info] = 0]
      BY <1>1, <2>1, <2>2, <2>4 DEF Reset
    <3>2. conn'.wait[s] = 0
      BY <1>1, <2>2, <3>1 DEF w
    <3> QED BY <1>1, <3>2
  <2> QED BY <2>3, <2>4
<1>3. CASE conn.info \notin full
  <2> DEFINE e == IF conn.locked THEN conn ELSE Lock(conn)
  <2>1. Execute(e, dialogs)
    BY <1>1, <1>3 DEF OnTimer, Connect
  <2>2. e \in Conn /\ e.info = conn.info /\ e.wait = conn.wait
    BY <1>0, <1>1, LockType
  <2> HIDE DEF e
  <2>3. WaitOne(e)
    BY <2>2 DEF WaitOne
  <2>4. \/ dialogs' = Append(dialogs, [kind |-> "failed", server |-> e.info])
        \/ \A t \in Servers : conn'.wait[t] = 0
    BY <1>1, <2>1, <2>2, <2>3, ExecuteWait
  <2>5. [kind |-> "failed", server |-> e.info] \in Dialog
    BY <1>1, <2>2 DEF Dialog
  <2>6. dialogs' = Append(dialogs, [kind |-> "failed", server |-> e.info])
          => Len(dialogs') = Len(dialogs) + 1
    BY <1>0, <2>5, AppendProperties
  <2> QED BY <1>1, <2>4, <2>6
<1> QED BY <1>2, <1>3

\* One server at most is waited for, whatever handlers overlap.
THEOREM OneWaitAlways == Spec => [](\A s \in Servers : conn.wait[s] > 0 => conn.info = s)
<1>1. Init => WaitOne(conn)
  BY DEF Init, WaitOne
<1>2. Shape /\ Counts /\ WaitOne(conn) /\ [Next]_vars => WaitOne(conn)'
  BY StepWait DEF WaitOne
<1>3. WaitOne(conn) => \A s \in Servers : conn.wait[s] > 0 => conn.info = s
  BY DEF WaitOne
<1> QED BY <1>1, <1>2, <1>3, ShapeAlways, PTL DEF Spec

\* Every wait runs out unless a game is played: what WaitEnds rests on besides the timer's
\* fairness.  A wait over a running game is not counted down, because the timers that count
\* are all even (CslFrame.cpp:1999-2022, CslGameConnection.cpp:50-86).
THEOREM WaitRunsOut == Spec => [][WaitCounted]_vars
<1>1. Init => WaitOne(conn)
  BY DEF Init, WaitOne
<1>2. Shape /\ Counts /\ WaitOne(conn) /\ [Next]_vars => WaitOne(conn)'
  BY StepWait DEF WaitOne
<1>3. Shape /\ WaitOne(conn) /\ [Next]_vars => [WaitCounted]_vars
  BY StepWait, TimerPlaying, TimerWait DEF WaitCounted
<1> QED BY <1>1, <1>2, <1>3, ShapeAlways, PTL DEF Spec
=============================================================================
