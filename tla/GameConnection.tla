---------------------------- MODULE GameConnection ----------------------------
(***************************************************************************)
(* Starting a game and waiting for a free slot (src/CslGameConnection.cpp, *)
(* src/CslGameProcess.cpp, CslFrame::ConnectToServer, OnTimer, OnKeypress, *)
(* OnEndProcess).                                                          *)
(*                                                                         *)
(* Everything runs in the GUI thread, but a dialog or a message box runs   *)
(* an event loop of its own: the handler that opened it is suspended, and  *)
(* timers, ended processes and requests of other programs (OnIPC) are      *)
(* handled before it goes on.  dialogs is the stack of those handlers; the *)
(* last one opened is the first to go on.  CslGameConnection is a          *)
(* singleton that all of them use.                                         *)
(***************************************************************************)
EXTENDS Integers, Sequences, FiniteSets

CONSTANTS
  Servers,
  NoServer,     \* the null pointer
  WaitTime,     \* the seconds the user waits for a slot (the settings allow 10 to 600)
  MaxDialogs,   \* bound: dialogs open at once
  MaxGames,     \* bound: game processes at once
  MaxNested     \* bound: handlers that use the singleton while another is suspended

ASSUME GameConnectionAssumption ==
  /\ NoServer \notin Servers
  /\ WaitTime \in Nat \ {0} /\ MaxDialogs \in Nat /\ MaxGames \in Nat /\ MaxNested \in Nat

VARIABLES
  conn,      \* the singleton and the fields it keeps in the servers, see Conn
  games,     \* the game processes: the server in CslGameProcess, the one in the command
  ended,     \* wxCSL_EVT_PROCESS events posted and not yet handled
  dialogs,   \* the handlers suspended in a dialog, the last one opened last
  full,      \* the servers without a free slot
  crashed,   \* the null pointer was used
  nested     \* history: how many handlers used the singleton while another was suspended

vars == <<conn, games, ended, dialogs, full, crashed, nested>>

\* m_info, m_locked, m_playing, the server m_cmd connects to, and of each server
\* m_lock and ConnectWait
Conn == [info : Servers \cup {NoServer}, locked : BOOLEAN, playing : BOOLEAN,
         cmd : Servers \cup {NoServer}, lock : [Servers -> Nat], wait : [Servers -> Nat]]

Game   == [server : Servers, cmd : Servers \cup {NoServer}]
Dialog == [kind : {"password", "full", "failed"}, server : Servers \cup {NoServer}]

Init ==
  /\ conn = [info |-> NoServer, locked |-> FALSE, playing |-> FALSE, cmd |-> NoServer,
             lock |-> [s \in Servers |-> 0], wait |-> [s \in Servers |-> 0]]
  /\ games = <<>> /\ ended = 0 /\ dialogs = <<>>
  /\ full \in SUBSET Servers
  /\ crashed = FALSE /\ nested = 0

-----------------------------------------------------------------------------
(* CslGameConnection.                                                      *)

Waiting(c) == IF c.info = NoServer THEN FALSE ELSE c.wait[c.info] > 0

\* Mutation: the server is unlocked whether or not it was locked.
ResetUnguarded(c, s) ==
  [info |-> s, locked |-> FALSE, playing |-> FALSE, cmd |-> NoServer,
   lock |-> IF c.info # NoServer THEN [c.lock EXCEPT ![c.info] = @ - 1] ELSE c.lock,
   wait |-> IF c.info # NoServer THEN [c.wait EXCEPT ![c.info] = 0] ELSE c.wait]

\* Mutation: the server stays locked.
ResetKeepsLock(c, s) ==
  [info |-> s, locked |-> FALSE, playing |-> FALSE, cmd |-> NoServer, lock |-> c.lock,
   wait |-> IF c.info # NoServer THEN [c.wait EXCEPT ![c.info] = 0] ELSE c.wait]

Reset(c, s) ==
  [info |-> s, locked |-> FALSE, playing |-> FALSE, cmd |-> NoServer,
   lock |-> IF c.info # NoServer /\ c.locked
              THEN [c.lock EXCEPT ![c.info] = IF @ > 0 THEN @ - 1 ELSE 0] ELSE c.lock,
   wait |-> IF c.info # NoServer THEN [c.wait EXCEPT ![c.info] = 0] ELSE c.wait]

Lock(c) == [c EXCEPT !.locked = TRUE, !.lock[c.info] = @ + 1]

\* The handler shows a dialog, over the suspended handlers rest.
Show(kind, s, c, rest) ==
  /\ Len(rest) < MaxDialogs
  /\ conn' = c
  /\ dialogs' = Append(rest, [kind |-> kind, server |-> s])
  /\ UNCHANGED <<games, crashed>>

\* The handler returns to rest and leaves c.
Done(c, rest) ==
  /\ conn' = c
  /\ dialogs' = rest
  /\ UNCHANGED <<games, crashed>>

Crash(c, rest) ==
  /\ conn' = c
  /\ dialogs' = rest
  /\ crashed' = TRUE
  /\ UNCHANGED games

\* The end of Connect: wxExecute starts the game or fails.  The box that reports
\* the failure comes before the Reset.
Execute(c, rest) ==
  \/ /\ Len(games) < MaxGames
     /\ games' = Append(games, [server |-> c.info, cmd |-> c.cmd])
     /\ conn' = [c EXCEPT !.playing = TRUE, !.wait[c.info] = 0]
     /\ dialogs' = rest
     /\ UNCHANGED crashed
  \/ Show("failed", c.info, c, rest)

\* Mutation: the game starts without locking its server.
ConnectUnlocked(c, rest) ==
  IF c.info = NoServer THEN Crash(c, rest)
  ELSE IF c.info \in full
         THEN IF Waiting(c) THEN Done(c, rest) ELSE Show("full", c.info, c, rest)
         ELSE Execute(c, rest)

Connect(c, rest) ==
  IF c.info = NoServer THEN Crash(c, rest)
  ELSE IF c.info \in full
         THEN IF Waiting(c) THEN Done(c, rest) ELSE Show("full", c.info, c, rest)
         ELSE Execute(IF c.locked THEN c ELSE Lock(c), rest)

\* The end of Prepare, and Connect after it: GameStart makes the command or
\* fails, with a box or without one, or the game's directory is not there.
Start(c, s, rest) ==
  \/ Connect([c EXCEPT !.cmd = s], rest)
  \/ Show("failed", s, c, rest)
  \/ Done(Reset(c, NoServer), rest)

-----------------------------------------------------------------------------
(* CslFrame's handlers.                                                    *)

\* A handler that is going to use the singleton starts.
Enter ==
  /\ nested' = IF dialogs = <<>> THEN nested ELSE nested + 1
  /\ nested' <= MaxNested

\* Mutation: a second game may be started.
ConnectToServerAnyway(s) ==
  /\ \/ Show("password", s, Reset(conn, s), dialogs)
     \/ Start(Reset(conn, s), s, dialogs)
  /\ Enter
  /\ UNCHANGED <<ended, full>>

\* ConnectToServer(s): refused while a game is played; whether a password is
\* asked for depends on the server and on how the user connects.
ConnectToServer(s) ==
  /\ ~conn.playing
  /\ \/ Show("password", s, Reset(conn, s), dialogs)
     \/ Start(Reset(conn, s), s, dialogs)
  /\ Enter
  /\ UNCHANGED <<ended, full>>

\* The user cannot reach the lists while a dialog is open; another program can.
Activate(s) == dialogs = <<>> /\ ConnectToServer(s)
OnIPC(s)    == ConnectToServer(s)

\* The user closes the last dialog.
Close ==
  /\ dialogs # <<>>
  /\ LET d    == dialogs[Len(dialogs)]
         rest == SubSeq(dialogs, 1, Len(dialogs) - 1)
     IN \/ Done(Reset(conn, NoServer), rest)                    \* cancelled, or read
        \/ d.kind = "password" /\ Start(conn, d.server, rest)
        \/ /\ d.kind = "full"
           /\ IF conn.info = NoServer THEN Crash(conn, rest)
              ELSE \/ Done([Lock(conn) EXCEPT !.wait[conn.info] = WaitTime], rest)
                   \/ Execute(Lock(conn), rest)
  /\ UNCHANGED <<ended, full, nested>>

\* Mutation: the seconds are not counted.
OnTimerForever(tick) ==
  /\ Waiting(conn)
  /\ ~(conn.playing /\ tick % 2 = 0)
  /\ IF tick % 4 = 0 /\ conn.info \in full THEN Done(conn, dialogs) ELSE Connect(conn, dialogs)
  /\ Enter
  /\ UNCHANGED <<ended, full>>

\* OnTimer while waiting, tick being m_timerCount modulo 4: connect if there is a slot,
\* and when there is none count down at every fourth timer.  While playing every even
\* timer only reads the game's output, which leaves all this as it is, so that nothing
\* counts down then.
OnTimer(tick) ==
  /\ Waiting(conn)
  /\ ~(conn.playing /\ tick % 2 = 0)
  /\ IF tick % 4 = 0 /\ conn.info \in full
       THEN LET c == [conn EXCEPT !.wait[conn.info] = @ - 1]
            IN Done(IF Waiting(c) THEN c ELSE Reset(c, NoServer), dialogs)
       ELSE Connect(conn, dialogs)
  /\ Enter
  /\ UNCHANGED <<ended, full>>

\* Escape gives up the wait.
OnKeypress ==
  /\ dialogs = <<>>
  /\ Waiting(conn)
  /\ Done(Reset(conn, NoServer), dialogs)
  /\ UNCHANGED <<ended, full, nested>>

\* A game ends and CslGameProcess::OnTerminate posts the event; OnEndProcess
\* handles it.
OnTerminate ==
  /\ \E i \in 1..Len(games) : games' = SubSeq(games, 1, i - 1) \o SubSeq(games, i + 1, Len(games))
  /\ ended' = ended + 1
  /\ UNCHANGED <<conn, dialogs, full, crashed, nested>>

OnEndProcess ==
  /\ ended > 0
  /\ ended' = ended - 1
  /\ Done(Reset(conn, NoServer), dialogs)
  /\ UNCHANGED <<full, nested>>

\* A pong says how many players there are.
Players(s) ==
  /\ full' = IF s \in full THEN full \ {s} ELSE full \cup {s}
  /\ UNCHANGED <<conn, games, ended, dialogs, crashed, nested>>

Next ==
  /\ ~crashed
  /\ \/ \E s \in Servers : Activate(s) \/ OnIPC(s) \/ Players(s)
     \/ \E tick \in 0..3 : OnTimer(tick)
     \/ Close \/ OnKeypress \/ OnTerminate \/ OnEndProcess

\* The timer runs all the time and comes to every fourth; posted events are handled.
Fairness == WF_vars(~crashed /\ OnTimer(0)) /\ WF_vars(~crashed /\ OnEndProcess)

Spec == Init /\ [][Next]_vars /\ Fairness

-----------------------------------------------------------------------------
(* Properties.  Most hold only until one handler uses the singleton while  *)
(* another is suspended in a dialog, which nothing in the code prevents.   *)

TypeOK ==
  /\ conn \in Conn
  /\ games \in Seq(Game) /\ dialogs \in Seq(Dialog)
  /\ ended \in Nat /\ full \subseteq Servers
  /\ crashed \in BOOLEAN /\ nested \in 0..MaxNested

\* While the singleton says that its server is locked, it is, even if handlers
\* overlap: what overlapping leaves behind is a lock too many, never one too few.
LockedIsHeld == conn.locked => conn.info # NoServer /\ conn.lock[conn.info] > 0

\* A server that the singleton has locked is locked; and until handlers overlap it is
\* locked once, and only while it is waited for, played on, or reported as not
\* started: no path forgets to unlock it or locks it twice
\* (CslGameConnection.cpp:50-86,166-224).
LockMatches ==
  /\ LockedIsHeld
  /\ nested = 0 => \A s \in Servers :
       conn.lock[s] = IF conn.info = s /\ conn.locked THEN 1 ELSE 0

\* Nobody waits and plays at once, and only the server in m_info is waited for.
WaitsForOne ==
  nested = 0 => \A s \in Servers : conn.wait[s] > 0 => conn.info = s /\ ~conn.playing

\* The server the game process belongs to, or the one that is waited for, is locked,
\* so that the lists refuse to delete it (CslListCtrlServer.cpp:393).
BusyIsLocked ==
  /\ WaitsForOne
  /\ nested = 0 =>
       /\ \A i \in 1..Len(games) : conn.lock[games[i].server] > 0
       /\ \A s \in Servers : conn.wait[s] > 0 => conn.lock[s] > 0

\* The null pointer is used only by a handler whose dialog another one outlived.
CrashOnlyNested == crashed => nested > 0

\* There is one game at a time, exactly while m_playing is set, and it is the
\* game that was prepared for the server it is booked to; nothing crashes.
OneGame ==
  /\ CrashOnlyNested
  /\ nested = 0 =>
       /\ Len(games) + ended = IF conn.playing THEN 1 ELSE 0
       /\ \A i \in 1..Len(games) : games[i].server = conn.info /\ games[i].cmd = conn.info

\* A wait ends: with a free slot, with the time, with the user, or with a dialog.  Only a
\* wait that was begun over a running game, out of a dialog that was open when the game
\* started, is not counted down: it goes on until that game is over.
WaitEnds ==
  \A s \in Servers : conn.wait[s] > 0 ~>
    (conn.wait[s] = 0 \/ dialogs # <<>> \/ (conn.playing /\ games # <<>>))

\* A game that has ended is noticed, so that another can be started.
EndNoticed == (ended > 0) ~> (~conn.playing \/ crashed)

\* Whatever the singleton is busy with comes to an end (CslFrame.cpp:1999-2022, 2901-2910).
BusyEnds == WaitEnds /\ EndNoticed
=============================================================================
