------------------------------- MODULE IrcThread -------------------------------
(***************************************************************************)
(* The IRC client (src/irc/CslIRCEngine.cpp, src/CslIRC.cpp): one worker   *)
(* thread serves the contexts of all sessions round robin; the GUI thread  *)
(* adds contexts, uses the library's handles for commands, and learns from *)
(* posted events what became of a connection.                              *)
(* A context is destroyed by the worker only, but the GUI keeps a copy of  *)
(* its handle, and the allocator may give the same address out again.      *)
(* Channels, nicks and texts are left out; m_section is held for one step. *)
(***************************************************************************)
EXTENDS Integers, Sequences, FiniteSets

CONSTANTS
  Sessions,    \* the networks the user may connect to (CslIrcSession)
  Handles,     \* addresses irc_create_session may return
  TermCount,   \* rounds the worker makes after m_terminate (termcount)
  MaxEvents,   \* bound: events of one session under way when it connects
  NoHandle, NoSession

ASSUME IrcThreadAssumption ==
  /\ TermCount \in Nat /\ MaxEvents \in Nat
  /\ NoHandle \notin Handles /\ NoSession \notin Sessions

VARIABLES
  contexts,   \* m_contexts
  pos,        \* pos of Entry()
  lib,        \* the state of each irc_session_t
  wpc,        \* where the worker is; it owns m_mutex unless it waits or has ended
  cur,        \* the context it serves, and the lasterror of a call that failed
  term,       \* termcount
  terminate,  \* m_terminate
  section,    \* m_section: "free", or "gui" if a return left it entered
  state,      \* m_state of each session
  mine,       \* m_context.Session of each session
  events,     \* wxCSL_EVT_IRC posted to each session, not yet handled
  gpc,        \* where the GUI thread is
  gs,         \* the session it deals with
  closing,    \* DeinitEngine has begun
  crashed,    \* a destroyed handle was used and the process died of it
  masked,     \* history: handles whose lasterror a command replaced before the worker read it
  missed,     \* history: Connect's signal was skipped while the worker went to sleep
  overlap     \* history: the session connected before its earlier ones were reported ended

workerVars == <<pos, wpc, cur, term>>
guiVars    == <<state, mine, gpc, gs, closing, crashed, overlap>>
vars == <<contexts, lib, terminate, section, events, missed, masked, workerVars, guiVars>>

LibStates == {"free", "init", "connecting", "connected", "welcome", "closed"}
Context   == [h : Handles, s : Sessions, leaving : BOOLEAN]

Owned(s)   == {i \in 1..Len(contexts) : contexts[i].s = s}
Known(h)   == {i \in 1..Len(contexts) : contexts[i].h = h}
Own(s)     == Owned(s) \cap Known(mine[s])
Alive(s)   == Own(s) # {}
MutexFree  == wpc \in {"start", "asleep", "done"}
NoCurrent  == [h |-> NoHandle, s |-> NoSession, err |-> "none"]

Init ==
  /\ contexts = <<>> /\ pos = 0
  /\ lib = [h \in Handles |-> "free"]
  /\ wpc = "start" /\ cur = NoCurrent /\ term = TermCount
  /\ terminate = FALSE /\ section = "free"
  /\ state = [s \in Sessions |-> "disconnected"]
  /\ mine = [s \in Sessions |-> NoHandle]
  /\ events = [s \in Sessions |-> <<>>]
  /\ gpc = "idle" /\ gs = NoSession /\ closing = FALSE /\ crashed = FALSE
  /\ missed = FALSE /\ masked = {} /\ overlap = [s \in Sessions |-> FALSE]

-----------------------------------------------------------------------------
(* The worker: CslIrcThread::Entry().                                      *)

Goto(from, to) == wpc = from /\ wpc' = to

Start ==
  /\ Goto("start", "loop")
  /\ UNCHANGED <<contexts, lib, terminate, section, events, missed, pos, cur, term, masked, guiVars>>

\* Mutation: the loop condition is not tested.
PickPast ==
  /\ section = "free"
  /\ term' = IF terminate THEN term - 1 ELSE term
  /\ IF contexts = <<>>
       THEN Goto("loop", "look") /\ UNCHANGED <<pos, cur>>
       ELSE /\ Goto("loop", "serve")
            /\ pos' = IF pos + 1 >= Len(contexts) THEN 0 ELSE pos + 1
            /\ cur' = [h |-> contexts[pos' + 1].h, s |-> contexts[pos' + 1].s, err |-> "none"]
  /\ UNCHANGED <<contexts, lib, terminate, section, events, missed, masked, guiVars>>

\* Mutation: the position is never advanced.
PickFirst ==
  /\ term > 0
  /\ section = "free"
  /\ term' = IF terminate THEN term - 1 ELSE term
  /\ IF contexts = <<>>
       THEN Goto("loop", "look") /\ UNCHANGED <<pos, cur>>
       ELSE /\ Goto("loop", "serve")
            /\ pos' = 0
            /\ cur' = [h |-> contexts[pos' + 1].h, s |-> contexts[pos' + 1].s, err |-> "none"]
  /\ UNCHANGED <<contexts, lib, terminate, section, events, missed, masked, guiVars>>

\* while (termcount), and under m_section the next context, if there is one.
Pick ==
  /\ term > 0
  /\ section = "free"
  /\ term' = IF terminate THEN term - 1 ELSE term
  /\ IF contexts = <<>>
       THEN Goto("loop", "look") /\ UNCHANGED <<pos, cur>>
       ELSE /\ Goto("loop", "serve")
            /\ pos' = IF pos + 1 >= Len(contexts) THEN 0 ELSE pos + 1
            /\ cur' = [h |-> contexts[pos' + 1].h, s |-> contexts[pos' + 1].s, err |-> "none"]
  /\ UNCHANGED <<contexts, lib, terminate, section, events, missed, masked, guiVars>>

End ==
  /\ term = 0
  /\ Goto("loop", "done")
  /\ UNCHANGED <<contexts, lib, terminate, section, events, missed, pos, cur, term, masked, guiVars>>

\* No context: if (!m_terminate)
Look ==
  /\ Goto("look", IF terminate THEN "loop" ELSE "wait")
  /\ UNCHANGED <<contexts, lib, terminate, section, events, missed, pos, cur, term, masked, guiVars>>

\* m_condition->Wait() gives up m_mutex.
Wait ==
  /\ Goto("wait", "asleep")
  /\ UNCHANGED <<contexts, lib, terminate, section, events, missed, pos, cur, term, masked, guiVars>>

\* POSIX conditions may wake without a signal.
SpuriousWake ==
  /\ Goto("asleep", "loop")
  /\ missed' = FALSE
  /\ UNCHANGED <<contexts, lib, terminate, section, events, pos, cur, term, masked, guiVars>>

Leaving(h) == \E i \in Known(h) : contexts[i].leaving

\* irc_connect for a context that is not connected and not to be left: it goes
\* on in the background, or the host is not found, or there is no socket; it
\* refuses a handle that was connected before.
Serve ==
  /\ wpc = "serve"
  /\ IF lib[cur.h] \in {"init", "closed"} /\ ~Leaving(cur.h)
       THEN \/ /\ lib[cur.h] = "init"
               /\ wpc' = "select" /\ lib' = [lib EXCEPT ![cur.h] = "connecting"] /\ masked' = masked \ {cur.h}
               /\ UNCHANGED cur
            \/ \E e \in IF lib[cur.h] = "init" THEN {"resolv", "lost"} ELSE {"state"} :
                 wpc' = "errno" /\ cur' = [cur EXCEPT !.err = e] /\ UNCHANGED <<lib, masked>>
       ELSE wpc' = "select" /\ UNCHANGED <<lib, masked, cur>>
  /\ UNCHANGED <<contexts, terminate, section, events, missed, pos, term, guiVars>>

Post(s, e) == events' = [events EXCEPT ![s] = Append(@, e)]

\* select and irc_process_select_descriptors.  Nothing may have happened, and
\* nothing does to a handle that was never connected.
Select ==
  /\ wpc = "select"
  /\ \/ wpc' = "loop" /\ cur' = NoCurrent /\ UNCHANGED <<lib, events>>
     \/ /\ lib[cur.h] = "connecting"
        /\ lib' = [lib EXCEPT ![cur.h] = "connected"]
        /\ wpc' = "loop" /\ cur' = NoCurrent /\ UNCHANGED events
     \/ /\ lib[cur.h] = "connected"                        \* the end of the MOTD
        /\ lib' = [lib EXCEPT ![cur.h] = "welcome"]
        /\ Post(cur.s, "connect")
        /\ wpc' = "loop" /\ cur' = NoCurrent
     \/ /\ lib[cur.h] \in {"connecting", "connected", "welcome"}
        /\ lib' = [lib EXCEPT ![cur.h] = "closed"]
        /\ cur' = [cur EXCEPT !.err = "lost"]
        /\ wpc' = "errno" /\ UNCHANGED events
  /\ UNCHANGED <<contexts, terminate, section, missed, pos, term, masked, guiVars>>

\* Mutation: the switch has no case for a connection that ended.
ReadErrnoResolv ==
  /\ wpc = "errno"
  /\ IF cur.err # "resolv" THEN wpc' = "loop" /\ cur' = NoCurrent ELSE wpc' = "remove" /\ UNCHANGED cur
  /\ UNCHANGED <<contexts, lib, terminate, section, events, missed, pos, term, masked, guiVars>>

\* irc_errno, and the switch of LibIrcError.  LIBIRC_ERR_STATE removes nothing,
\* and no session heeds its event.
ReadErrno ==
  /\ wpc = "errno"
  /\ IF cur.err = "state" THEN wpc' = "loop" /\ cur' = NoCurrent ELSE wpc' = "remove" /\ UNCHANGED cur
  /\ UNCHANGED <<contexts, lib, terminate, section, events, missed, pos, term, masked, guiVars>>

\* m_contexts.RemoveAt(i)
Without(i) == [k \in 1..(Len(contexts) - 1) |-> contexts[IF k < i THEN k ELSE k + 1]]

\* Mutation: the context stays in the list.
RemoveNot ==
  /\ Goto("remove", "post")
  /\ section = "free"
  /\ contexts' = contexts
  /\ lib' = [lib EXCEPT ![cur.h] = "free"]
  /\ masked' = masked \ {cur.h}
  /\ UNCHANGED <<terminate, section, events, missed, pos, cur, term, guiVars>>

\* RemoveContext, from LibIrcError.
Remove ==
  /\ Goto("remove", "post")
  /\ section = "free"
  /\ \E i \in Known(cur.h) : contexts' = Without(i)
  /\ lib' = [lib EXCEPT ![cur.h] = "free"]
  /\ masked' = masked \ {cur.h}
  /\ UNCHANGED <<terminate, section, events, missed, pos, cur, term, guiVars>>

\* The end of LibIrcError.
PostError ==
  /\ Goto("post", "loop")
  /\ Post(cur.s, cur.err)
  /\ cur' = NoCurrent
  /\ UNCHANGED <<contexts, lib, terminate, section, missed, pos, term, masked, guiVars>>

Worker == Start \/ Pick \/ End \/ Look \/ Wait \/ Serve \/ Select \/ ReadErrno \/ Remove \/ PostError

-----------------------------------------------------------------------------
\* The session is going to learn that a connection of its has ended.
ErrorUnderWay(s) ==
  \/ wpc = "post" /\ cur.s = s
  \/ \E i \in 1..Len(events[s]) : events[s][i] \in {"lost", "resolv"}

(* The GUI thread.                                                         *)

GuiIdle(s) == gpc = "idle" /\ ~closing /\ s \in Sessions

\* A library call with the session's copy of the handle.  If that is not connected
\* the call fails and sets lasterror, whatever the worker was about to read there.
Use(s) ==
  /\ crashed' \in IF mine[s] # NoHandle /\ lib[mine[s]] = "free" THEN BOOLEAN ELSE {FALSE}
  /\ IF wpc = "errno" /\ cur.h = mine[s] /\ cur.err # "state"
       THEN cur' = [cur EXCEPT !.err = "state"] /\ masked' = masked \cup {cur.h}
       ELSE UNCHANGED <<cur, masked>>

\* The user chooses a network (OnCommandEvent, CslIrcSession::Connect and, under
\* m_section, CslIrcThread::Connect).  A new handle is at any free address.  If
\* the context is known the return leaves m_section entered.
Connect(s) ==
  /\ GuiIdle(s)
  /\ state[s] = "disconnected"
  /\ Len(events[s]) + 2 * Cardinality(Owned(s)) + 2 <= MaxEvents
  /\ section = "free"
  /\ \E h \in Handles :
       /\ lib[h] = "free"
       /\ lib' = [lib EXCEPT ![h] = "init"]
       /\ mine' = [mine EXCEPT ![s] = h]
       /\ overlap' = [overlap EXCEPT ![s] = Owned(s) # {} \/ ErrorUnderWay(s)]
       /\ IF Known(h) # {}
            THEN section' = "gui" /\ UNCHANGED <<contexts, gpc, gs>>
            ELSE /\ contexts' = Append(contexts, [h |-> h, s |-> s, leaving |-> FALSE])
                 /\ gpc' = "signal" /\ gs' = s
                 /\ UNCHANGED section
  /\ UNCHANGED <<terminate, events, missed, workerVars, state, closing, crashed, masked>>

\* The end of Connect: TryLock fails while the worker owns m_mutex.
Signal ==
  /\ gpc = "signal"
  /\ gpc' = "idle" /\ gs' = NoSession
  /\ state' = [state EXCEPT ![gs] = "connecting"]
  /\ IF MutexFree
       THEN missed' = FALSE /\ wpc' = IF wpc = "asleep" THEN "loop" ELSE wpc
       ELSE missed' = (missed \/ wpc \in {"look", "wait"}) /\ UNCHANGED wpc
  /\ UNCHANGED <<contexts, lib, terminate, section, events, pos, cur, term, mine, closing,
                 crashed, overlap, masked>>

\* CslIrcSession::Disconnect up to CslIrcThread::Disconnect: from EndIrcSession
\* for a connected session, from DeinitEngine for any that is not disconnected.
Disconnect(s) ==
  /\ gpc = "idle"
  /\ IF closing THEN state[s] # "disconnected" ELSE state[s] = "connected"
  /\ state' = [state EXCEPT ![s] = "disconnected"]
  /\ Use(s)
  /\ gpc' = "mark" /\ gs' = s
  /\ UNCHANGED <<contexts, lib, terminate, section, events, missed, pos, wpc, term, mine,
                 closing, overlap>>

\* Mutation: the context is not marked.
MarkNot ==
  /\ gpc = "mark"
  /\ section = "free"
  /\ gpc' = "idle" /\ gs' = NoSession
  /\ UNCHANGED contexts
  /\ UNCHANGED <<lib, terminate, section, events, missed, workerVars, state, mine, closing,
                 crashed, overlap, masked>>

\* CslIrcThread::Disconnect finds the context by the handle alone.
Mark ==
  /\ gpc = "mark"
  /\ section = "free"
  /\ gpc' = "idle" /\ gs' = NoSession
  /\ contexts' = [i \in 1..Len(contexts) |->
                    IF i \in Known(mine[gs]) THEN [contexts[i] EXCEPT !.leaving = TRUE] ELSE contexts[i]]
  /\ UNCHANGED <<lib, terminate, section, events, missed, workerVars, state, mine, closing,
                 crashed, overlap, masked>>

\* A command of the user, or the automatic joining after the MOTD.  ChangeNick is
\* possible while the session connects.
Command(s) ==
  /\ GuiIdle(s)
  /\ state[s] # "disconnected"
  /\ Use(s)
  /\ UNCHANGED <<contexts, lib, terminate, section, events, missed, pos, wpc, term, state,
                 mine, gpc, gs, closing, overlap>>

\* The event is handled by the session and, if it skips it, by the panel.
TakeEvent(s, e) ==
  /\ GuiIdle(s)
  /\ events[s] # <<>>
  /\ Head(events[s]) = e
  /\ events' = [events EXCEPT ![s] = Tail(@)]
  /\ UNCHANGED <<contexts, lib, terminate, section, missed, pos, wpc, term, mine, gpc, gs, closing, overlap>>

\* OnAutojoin joins the first of the channels, if there are any.
OnConnect(s) ==
  /\ TakeEvent(s, "connect")
  /\ state' = [state EXCEPT ![s] = "connected"]
  /\ Use(s) \/ UNCHANGED <<crashed, cur, masked>>

\* Mutation: an unresolved host does not end the session.
OnErrorOnlyLost(s, e) ==
  /\ TakeEvent(s, e)
  /\ state' = IF e = "lost" THEN [state EXCEPT ![s] = "disconnected"] ELSE state
  /\ UNCHANGED <<crashed, cur, masked>>

\* An error ends the session whatever connection it comes from.
OnError(s, e) ==
  /\ TakeEvent(s, e)
  /\ state' = [state EXCEPT ![s] = "disconnected"]
  /\ UNCHANGED <<crashed, cur, masked>>

\* DeinitEngine: every session is disconnected, the worker told to end and
\* waited for; no event is handled any more.
Deinit ==
  /\ gpc = "idle" /\ ~closing
  /\ closing' = TRUE
  /\ UNCHANGED <<contexts, lib, terminate, section, events, missed, workerVars, state, mine, gpc,
                 gs, crashed, overlap, masked>>

Terminate ==
  /\ gpc = "idle" /\ closing
  /\ \A s \in Sessions : state[s] = "disconnected"
  /\ terminate' = TRUE
  /\ gpc' = "lock"
  /\ UNCHANGED <<contexts, lib, section, events, missed, workerVars, state, mine, gs, closing,
                 crashed, overlap, masked>>

\* Mutation: Terminate does not signal.
TerminateNoSignal ==
  /\ gpc = "lock"
  /\ MutexFree
  /\ gpc' = "join"
  /\ UNCHANGED wpc
  /\ missed' = FALSE
  /\ UNCHANGED <<contexts, lib, terminate, section, events, pos, cur, term, state, mine, gs,
                 closing, crashed, overlap, masked>>

\* Terminate, under m_mutex.
TerminateSignal ==
  /\ gpc = "lock"
  /\ MutexFree
  /\ gpc' = "join"
  /\ wpc' = IF wpc = "asleep" THEN "loop" ELSE wpc
  /\ missed' = FALSE
  /\ UNCHANGED <<contexts, lib, terminate, section, events, pos, cur, term, state, mine, gs,
                 closing, crashed, overlap, masked>>

\* m_thread->Wait(); DestroySession then finds every session disconnected.
Join ==
  /\ gpc = "join"
  /\ wpc = "done"
  /\ gpc' = "over"
  /\ UNCHANGED <<contexts, lib, terminate, section, events, missed, workerVars, state, mine, gs,
                 closing, crashed, overlap, masked>>

OnEvent(s) == OnConnect(s) \/ \E e \in {"lost", "resolv"} : OnError(s, e)
Shutdown   == Terminate \/ TerminateSignal \/ Join
Gui        == Signal \/ Mark \/ (closing /\ \E s \in Sessions : Disconnect(s)) \/ Shutdown

-----------------------------------------------------------------------------
Next ==
  /\ ~crashed
  /\ \/ Worker \/ SpuriousWake
     \/ \E s \in Sessions : Connect(s) \/ Disconnect(s) \/ Command(s) \/ OnEvent(s)
     \/ Signal \/ Mark \/ Deinit \/ Shutdown

\* The worker runs, a handler that has begun goes on, and the event loop gets to
\* every posted event, however often the user does something in between.
Fairness ==
  /\ WF_vars(~crashed /\ Worker)
  /\ WF_vars(~crashed /\ Gui)
  /\ \A s \in Sessions : SF_vars(~crashed /\ OnEvent(s))

Spec == Init /\ [][Next]_vars /\ Fairness

-----------------------------------------------------------------------------
(* Properties.                                                             *)

TypeOK ==
  /\ contexts \in Seq(Context) /\ pos \in Nat /\ lib \in [Handles -> LibStates]
  /\ wpc \in {"start", "loop", "look", "wait", "asleep", "serve", "select", "errno", "remove", "post", "done"}
  /\ cur \in [h : Handles \cup {NoHandle}, s : Sessions \cup {NoSession}, err : {"none", "resolv", "lost", "state"}]
  /\ wpc \in {"serve", "select", "errno", "remove", "post"} => cur.h \in Handles /\ cur.s \in Sessions
  /\ wpc = "errno" => cur.err # "none"
  /\ wpc \in {"remove", "post"} => cur.err \in {"resolv", "lost"}
  /\ term \in 0..TermCount /\ terminate \in BOOLEAN /\ section \in {"free", "gui"}
  /\ state \in [Sessions -> {"disconnected", "connecting", "connected"}]
  /\ mine \in [Sessions -> Handles \cup {NoHandle}]
  /\ events \in [Sessions -> Seq({"connect", "lost", "resolv"})]
  /\ gpc \in {"idle", "signal", "mark", "lock", "join", "over"} /\ gs \in Sessions \cup {NoSession}
  /\ gpc \in {"signal", "mark"} => gs \in Sessions
  /\ closing \in BOOLEAN /\ crashed \in BOOLEAN /\ missed \in BOOLEAN /\ masked \subseteq Handles
  /\ overlap \in [Sessions -> BOOLEAN]

\* The return of CslIrcThread::Connect that keeps m_section (CslIRCEngine.cpp:429)
\* is never taken: no address is given out while a context still has it.  And
\* the context the worker serves is there until the worker removes it.
SectionFree ==
  /\ section = "free"
  /\ wpc \in {"serve", "select", "errno", "remove"} => Known(cur.h) # {}

\* The GUI calls the library with a destroyed handle, or one that is another
\* session's by now, only while the error that says so is under way - or, if the
\* user connected again before the old connection was gone, while an older
\* connection lasts (CslIRCEngine.cpp:460-476, 485-520, 659).
KnownIsLive ==
  \A s \in Sessions :
    state[s] # "disconnected" /\ ~Alive(s) =>
      ErrorUnderWay(s) \/ (overlap[s] /\ Owned(s) # {})

\* A connection that is not to be left is its session's and that session is not
\* shown as disconnected, unless the user connected too soon.
LiveIsKnown ==
  gpc = "idle" =>
    \A i \in 1..Len(contexts) :
      LET s == contexts[i].s
      IN ~contexts[i].leaving /\ ~overlap[s] => contexts[i].h = mine[s] /\ state[s] # "disconnected"

\* A connection the user asked for is tried, unless the signal was skipped while
\* the worker went to sleep, another session marked it with a stale handle, or a
\* command hid from the worker that trying failed.
Untried(s) == state[s] = "connecting" /\ Alive(s) /\ lib[mine[s]] = "init"
ConnectTried ==
  \A s \in Sessions :
    Untried(s) ~> (~Untried(s) \/ missed \/ Leaving(mine[s]) \/ mine[s] \in masked \/ closing \/ crashed)

\* A session whose connection ended learns of it, unless a command called the
\* library in the moment between (libircclient.c:775, 841; CslIRCEngine.cpp:402).
LossNoticed ==
  \A s \in Sessions :
    (Alive(s) /\ lib[mine[s]] = "closed") ~> (state[s] = "disconnected" \/ mine[s] \in masked \/ closing \/ crashed)

\* The program ends whatever the worker was doing when it was told to.
ShutdownEnds == closing ~> (gpc = "over" \/ crashed)

\* "Connecting lost. Reconnecting..." (CslIRC.cpp:762), the user is told of a
\* lost connection: the session gets one again.
Lost(s) ==
  events[s] # <<>> /\ Head(events[s]) = "lost" /\ state[s] # "disconnected" /\ Owned(s) = {}
Reconnects == \A s \in Sessions : Lost(s) ~> (Owned(s) # {} \/ closing \/ crashed)
=============================================================================
