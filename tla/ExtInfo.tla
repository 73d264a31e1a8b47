-------------------------------- MODULE ExtInfo --------------------------------
(***************************************************************************)
(* The extended information protocol for one server, as the client sees it *)
(* (src/engine/CslEngine.cpp: PingExPlayerInfo, PingEx, CheckResends, the  *)
(* uptime and player cases of ParsePong; src/CslFrame.cpp: OnPong).        *)
(*                                                                         *)
(* The client asks for the list; the server sends one datagram with the    *)
(* client numbers and one per player.  Nothing in a datagram says which    *)
(* request it answers, except the number of a player asked for again.      *)
(* A request and the server's answer are one step: the client cannot see   *)
(* the difference, since the roster may change before any request.         *)
(***************************************************************************)
EXTENDS PlayerStats, SequencesExt

CONSTANTS
  Faults,   \* what the network may do: subset of {"lose", "reorder", "garble"}
  MaxNet    \* bound: datagrams under way at once

ASSUME ExtInfoAssumption ==
  /\ Players \subseteq Nat /\ IsFiniteSet(Players) /\ MaxNet \in Nat
  /\ Faults \subseteq {"lose", "reorder", "garble"}

NoRid == -1         \* the id of a list request, echoed in its answers

VARIABLES
  slow,       \* answers may take longer than the client's timers, until calm
  roster,     \* who is on the server
  calm,       \* the network has stopped misbehaving and the roster changing
  ext,        \* ExtInfoStatus
  table,      \* PlayerStats
  fresh,      \* m_lastPong >= m_lastPing
  net,        \* answers under way, oldest first
  notice,     \* a wxCSL_EVT_PONG of type PLAYERSTATS is posted, not yet handled
  shown,      \* the players the player list displays; history: the ones it should
  clean,      \* history: the round began with an empty m_ids and was not reset
  announced   \* history: in a clean round, the ids listed and not reported gone

vars == <<slow, roster, calm, ext, table, fresh, net, notice, shown, announced, clean>>

Msg == [kind : {"ids"}, rid : Players \cup {NoRid}, list : Seq(Players)]
       \cup [kind : {"stats"}, rid : Players \cup {NoRid}, id : Players]
       \cup [kind : {"error"}, rid : Players]

\* A slow network has no other faults here.
Init ==
  /\ slow \in BOOLEAN
  /\ roster \in SUBSET Players
  /\ calm = FALSE
  /\ ext = "false"
  /\ table = NewTable
  /\ fresh = TRUE
  /\ net = <<>>
  /\ notice = FALSE
  /\ shown = [rows |-> {}, whole |-> {}]
  /\ announced = {}
  /\ clean = FALSE

Allowed(f) == f \in Faults /\ ~calm /\ ~slow

-----------------------------------------------------------------------------
(* The game server and the network.                                        *)

\* The numbers of those who play, each once, in some order.
Numbers == SetToSeq(roster)

\* What the server answers to a list request, and to one for a player.
ListAnswer ==
  <<[kind |-> "ids", rid |-> NoRid, list |-> Numbers]>>
  \o [i \in 1..Cardinality(roster) |-> [kind |-> "stats", rid |-> NoRid, id |-> Numbers[i]]]

PlayerAnswer(k) ==
  IF k \in roster
    THEN <<[kind |-> "ids", rid |-> k, list |-> <<k>>], [kind |-> "stats", rid |-> k, id |-> k]>>
    ELSE <<[kind |-> "error", rid |-> k]>>

\* Players come and go.
Roster ==
  /\ ~calm
  /\ roster' \in SUBSET Players
  /\ UNCHANGED <<slow, calm, ext, table, fresh, net, notice, shown, announced, clean>>

CalmDown ==
  /\ ~calm
  /\ calm' = TRUE
  /\ UNCHANGED <<slow, roster, ext, table, fresh, net, notice, shown, announced, clean>>

-----------------------------------------------------------------------------
(* What the client sends.                                                  *)

\* The timers are seconds apart (the update interval, twice the ping): unless
\* slow, everything a request caused has been handled before the next one.
Quiet == (slow /\ ~calm) \/ (net = <<>> /\ ~notice)

\* The ways to keep n of l datagrams in their order.
Increasing(n, l) == {f \in [1..n -> 1..l] : \A i, j \in 1..n : i < j => f[i] < f[j]}

\* SendPing hands the requests to the network, which may lose any of them or of
\* their answers, or it fails, which leaves m_lastPing.
Send(answer) ==
  \/ \E n \in IF Allowed("lose") THEN 0..Len(answer) ELSE {Len(answer)} :
       /\ Len(net) + n <= MaxNet
       /\ \E kept \in Increasing(n, Len(answer)) :
            net' = net \o [i \in 1..n |-> answer[kept[i]]]
       /\ fresh' = FALSE
  \/ Allowed("lose") /\ UNCHANGED <<net, fresh>>

\* PingEx and PingExPlayerInfo(-1): on the timer when the server is known to
\* answer, and at any time when the user opens a view of its players or searches
\* for a player (force).
PingList(force) ==
  /\ force \/ ext = "ok"
  /\ Quiet
  /\ table' = Reset(table)
  /\ Send(ListAnswer)
  /\ clean' = (table'.ids = <<>>)
  /\ announced' = {}
  /\ UNCHANGED <<slow, roster, calm, ext, notice, shown>>

\* CheckResends for a server that answers pings: every expected id is asked for
\* again once an answer has come after the last request.
Resend ==
  /\ ext = "ok"
  /\ table.ids # <<>>
  /\ fresh
  /\ Quiet
  /\ Send(FlattenSeq([i \in 1..Len(table.ids) |-> PlayerAnswer(table.ids[i])]))
  /\ UNCHANGED <<slow, roster, calm, ext, table, notice, shown, announced, clean>>

\* CheckResends for a server whose default pings have stayed unanswered.
PingTimeout ==
  /\ ~calm
  /\ ext = "ok"
  /\ table' = Reset(table)
  /\ ext' = "false"
  /\ clean' = FALSE
  /\ announced' = {}
  /\ UNCHANGED <<slow, roster, calm, fresh, net, notice, shown>>

-----------------------------------------------------------------------------
(* ParsePong.                                                              *)

\* Mutation: the answer counts only while the server is known to answer.
UptimePongIfOk ==
  /\ ext = "ok"
  /\ ext' \in IF Allowed("garble") THEN {"ok", "false", "error"} ELSE {"ok"}
  /\ UNCHANGED <<slow, roster, calm, table, fresh, net, notice, shown, announced, clean>>

\* The answer to the uptime request each Ping sends; a garbled one lacks its
\* acknowledgement or has a bad version or length.
UptimePong ==
  /\ ext' \in IF Allowed("garble") THEN {"ok", "false", "error"} ELSE {"ok"}
  /\ UNCHANGED <<slow, roster, calm, table, fresh, net, notice, shown, announced, clean>>

\* One datagram leaves the network; m_lastPong is now.
Receive(m) ==
  /\ \E i \in 1..Len(net) :
       /\ i = 1 \/ Allowed("reorder")
       /\ m = net[i]
       /\ net' = Without(net, i)
  /\ fresh' = TRUE
  /\ UNCHANGED <<slow, roster, calm, shown>>

\* Mutation: the notice is posted for every row.
BecomesEager(t, ann, cln, posts) ==
  /\ table' = t
  /\ announced' = IF cln THEN ann ELSE {}
  /\ clean' = cln
  /\ notice' = (notice \/ posts)

\* The table after a branch and whether the round is still clean; a branch that
\* posts a notice does so when no id is expected any more.
Becomes(t, ann, cln, posts) ==
  /\ table' = t
  /\ announced' = IF cln THEN ann ELSE {}
  /\ clean' = cln
  /\ notice' = (notice \/ (posts /\ t.ids = <<>>))

\* err>0: the player asked for again has left.
PongError(m) ==
  /\ m.kind = "error"
  /\ Receive(m)
  /\ ext' = "ok"
  /\ Becomes(RemoveId(table, m.rid), announced \ {m.rid}, clean, TRUE)

\* Subcommand -10 with rid -1: the list of client numbers.
PongIds(m) ==
  /\ m.kind = "ids" /\ m.rid = NoRid
  /\ Receive(m)
  /\ ext' = "ok"
  /\ LET refused == m.list # <<>> /\ (table.status # "need_ids" \/
                      \E k \in Members(m.list) : k \in Members(table.ids))
     IN Becomes(IF m.list = <<>> THEN SetWaitForStats(table) ELSE AddIds(table, m.list),
                announced \cup Members(m.list),
                clean /\ ~refused, TRUE)

\* Subcommand -10 for a player asked for again: its ids are skipped.  If the id
\* is not expected the status set at the top of the case, error, stays.
PongIdsAgain(m) ==
  /\ m.kind = "ids" /\ m.rid # NoRid
  /\ Receive(m)
  /\ IF m.rid \in Members(table.ids)
       THEN ext' = "ok" /\ Becomes(SetWaitForStats(table), announced, clean, FALSE)
       ELSE ext' = "error" /\ Becomes(table, announced, clean, FALSE)

\* Subcommand -11: one player.  A row nobody waits for resets the table.
PongStats(m) ==
  /\ m.kind = "stats"
  /\ Receive(m)
  /\ ext' = "ok"
  /\ IF Accepts(table, m.id)
       THEN Becomes(AddStats(table, m.id), announced, clean, TRUE)
       ELSE Becomes(Reset(table), announced, FALSE, FALSE)

\* A datagram that cannot be read: no acknowledgement (false), a version or a
\* header that is wrong (error), and for a player's row also one that ends
\* before the address (error) or in the row (false), which reset the table.
PongGarbled(m) ==
  /\ Allowed("garble")
  /\ Receive(m)
  /\ \/ ext' \in {"false", "error"} /\ Becomes(table, announced, clean, FALSE)
     \/ /\ m.kind = "stats"
        /\ ext' \in {"false", "error"}
        /\ Becomes(Reset(table), announced, FALSE, FALSE)

Pong ==
  \E m \in Members(net) :
    PongError(m) \/ PongIds(m) \/ PongIdsAgain(m) \/ PongStats(m) \/ PongGarbled(m)

\* CslFrame::OnPong, PLAYERSTATS: the open player lists are updated.
GuiPong ==
  /\ notice
  /\ notice' = FALSE
  /\ shown' = [rows |-> Displayed(table), whole |-> IF clean THEN announced ELSE Filled(table)]
  /\ UNCHANGED <<slow, roster, calm, ext, table, fresh, net, announced, clean>>

-----------------------------------------------------------------------------
Next ==
  \/ Roster \/ CalmDown
  \/ \E force \in BOOLEAN : PingList(force)
  \/ Resend \/ PingTimeout \/ UptimePong \/ Pong \/ GuiPong

\* The timer, the socket and the event loop go on; the network need not calm.
Fairness ==
  /\ WF_vars(PingList(FALSE)) /\ WF_vars(Resend)
  /\ WF_vars(UptimePong) /\ WF_vars(Pong) /\ WF_vars(GuiPong)

Spec == Init /\ [][Next]_vars /\ Fairness

-----------------------------------------------------------------------------
(* Properties.                                                             *)

TypeOK ==
  /\ slow \in BOOLEAN /\ roster \subseteq Players
  /\ calm \in BOOLEAN /\ fresh \in BOOLEAN /\ notice \in BOOLEAN /\ clean \in BOOLEAN
  /\ ext \in {"error", "false", "ok"}
  /\ table.status \in {"need_ids", "need_stats"}
  /\ Members(table.ids) \subseteq Players
  /\ Members(table.rows) \subseteq Players \cup {FreeRow}
  /\ \A m \in Members(net) : m.kind \in {"ids", "stats", "error"}
  /\ shown.rows \subseteq Players /\ shown.whole \subseteq Players
  /\ announced \subseteq Players

\* The table never waits for rows of nobody: with m_status NEED_STATS and m_ids
\* empty no list would be taken and no notice posted again (CslExtendedInfo.cpp).
Awaited == table.status = "need_stats" => table.ids # <<>>

\* And no id is expected twice, or its second row would never come.
NoWedge == Awaited /\ Distinct(table.ids)

\* What the notice of a round makes the player list show, if the round began
\* with nothing left over and was not reset, is the whole list: every player
\* announced and not reported gone, and nobody else.  In any other round it is
\* at least every row there is, although the list stops at the first free one
\* (CslEngine.cpp:652-790, CslListCtrlPlayer.cpp:372-379).
CompleteReport == ~slow => shown.rows = shown.whole

\* The table never gets stuck; no player has two rows, and free rows are used again, so
\* that there are never more rows than the server ever had players at once.
RowsSound ==
  /\ NoWedge
  /\ ~slow =>
      /\ \A i, j \in 1..Len(table.rows) :
           table.rows[i] = table.rows[j] /\ i # j => table.rows[i] = FreeRow
      /\ Len(table.rows) <= Cardinality(Players)

\* Whatever was lost, swapped or garbled before, once the network is calm and
\* the roster fixed, the list ends up showing exactly the players there are.
Recovers == <>calm => <>[](shown.rows = roster)
=============================================================================
