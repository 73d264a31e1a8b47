-------------------------------- MODULE Views --------------------------------
(***************************************************************************)
(* Who keeps a pointer to a server: the lists, the player panels, the      *)
(* extended dialog, the player search, the country view, the connection    *)
(* and the events under way (src/CslFrame.cpp), while servers are deleted  *)
(* by the user or by the cleanup before an update from a master.  Each     *)
(* server counts in m_pingExt those who want its players, and has one flag *)
(* Search for the search and the country view.  One action per handler of  *)
(* the GUI thread.                                                         *)
(***************************************************************************)
EXTENDS Integers, FiniteSets

CONSTANTS
  Servers,    \* the CslServerInfo objects of the game
  None,       \* NULL
  MaxViews,   \* bound: player panels next to the main one; if 0, no dialog either
  MaxAsked,   \* bound: servers a search or the country view asks
  MaxPings,   \* bound: m_pingExt
  MaxPongs,   \* bound: pongs posted and not handled
  MaxDels     \* bound: deletions of one server posted and not handled

ASSUME ViewsAssumption ==
  /\ None \notin Servers /\ IsFiniteSet(Servers)
  /\ MaxViews \in Nat /\ MaxAsked \in Nat /\ MaxPings \in Nat
  /\ MaxPongs \in Nat /\ MaxDels \in Nat

VARIABLES
  alive,      \* the servers that are not deleted
  rows,       \* the servers of the server lists' rows
  selected,   \* m_oldSelectedInfo
  panel,      \* the server of each player panel; 0 is the main one
  dialog,     \* the extended dialog: [info, shown]
  results,    \* the servers of the player search's rows
  searched,   \* m_searchedServers
  gauge,      \* the value of gauge_search
  country,    \* m_countryServers
  mode,       \* of the country panel
  conn,       \* the server the game connection has locked
  pongs,      \* posted pongs
  dels,       \* posted MENU_DEL events of each server
  pings,      \* m_pingExt of each server
  search,     \* the servers whose Search is set
  history     \* [stray, cleaned, twice, shared, crash], see below

frame == <<rows, selected, panel, dialog, results>>
asked == <<searched, gauge, country, mode>>
posted == <<pongs, dels>>
vars == <<alive, frame, asked, conn, posted, pings, search, history>>

Panels == 0..MaxViews
Views  == 1..MaxViews
Holder == Servers \cup {None}
Pong   == [type : {"ping", "playerstats", "teamstats"}, info : Servers]
Modes  == {"server", "player single", "player multi"}

\* stray: something still pointed to a server when it was deleted.
\* cleaned: servers deleted by the cleanup.  twice: servers whose ping the main
\* panel gave back twice.  shared: the running search has had a server in common
\* with the country view.  crash: what was used that must not be.
History == [stray : BOOLEAN, cleaned : SUBSET Servers, twice : SUBSET Servers,
            shared : BOOLEAN, crash : {"none", "deleted", "null"}]

-----------------------------------------------------------------------------
(* CslExtendedInfo::PingExt.                                               *)

Wanted(p, S) == [s \in Servers |-> IF s \in S THEN p[s] + 1 ELSE p[s]]

\* Mutation: the counter is taken for a flag.
GivenUpWholly(p, S) == [s \in Servers |-> IF s \in S THEN 0 ELSE p[s]]

\* Mutation: zero is not tested for.
GivenUpBelow(p, S) == [s \in Servers |-> IF s \in S THEN p[s] - 1 ELSE p[s]]

GivenUp(p, S) == [s \in Servers |-> IF s \in S /\ p[s] > 0 THEN p[s] - 1 ELSE p[s]]

MayWant(S) == \A s \in S : pings[s] < MaxPings

\* The handler reads the servers in S.
Reads(S) ==
  IF S \subseteq alive THEN history ELSE [history EXCEPT !.crash = "deleted"]

-----------------------------------------------------------------------------
(* The lists and the panels.                                               *)

Init ==
  /\ alive = Servers
  /\ rows = {} /\ results = {} /\ searched = {} /\ country = {}
  /\ selected = None /\ conn = None
  /\ panel = [p \in Panels |-> None]
  /\ dialog = [info |-> None, shown |-> FALSE]
  /\ gauge = 0 /\ mode = "server"
  /\ pongs = {} /\ dels = [s \in Servers |-> 0]
  /\ pings = [s \in Servers |-> 0] /\ search = {}
  /\ history = [stray |-> FALSE, cleaned |-> {}, twice |-> {}, shared |-> FALSE, crash |-> "none"]

\* OnTimer: the lists get a row for each server of the game or the master, and
\* sorting and counting may read any of them; so may CountDown the connection's.
Display(S) ==
  /\ rows' = rows \cup S
  /\ \E R \in SUBSET rows' :
       history' = Reads((R \cup {panel[p] : p \in Panels} \cup {conn}) \ {None})
  /\ UNCHANGED <<alive, selected, panel, dialog, results, asked, conn, posted, pings, search>>

\* OnTreeSelChanged empties the list of the game, not the favourites.
SelectGame(kept) ==
  /\ rows' = kept
  /\ UNCHANGED <<alive, selected, panel, dialog, results, asked, conn, posted, pings, search, history>>

\* OnListItemSelected.  Closing the main panel has given up the ping of the selected
\* server and does not unselect it.
Select(s) ==
  /\ s \in rows \cup results /\ MayWant({s})
  /\ LET old == {selected} \ {None} IN
       /\ pings' = Wanted(GivenUp(pings, old), {s})
       /\ history' = [Reads({s} \cup old) EXCEPT
                        !.twice = IF panel[0] = selected THEN @ ELSE @ \cup old]
  /\ selected' = s
  /\ mode' = "player single"
  /\ panel' = [panel EXCEPT ![0] = s]
  /\ UNCHANGED <<alive, rows, dialog, results, searched, gauge, country, conn, posted, search>>

\* PlayerListCreateView
OpenView(s, v) ==
  /\ s \in rows /\ panel[v] = None /\ MayWant({s})
  /\ panel' = [panel EXCEPT ![v] = s]
  /\ pings' = Wanted(pings, {s})
  /\ history' = Reads({s})
  /\ UNCHANGED <<alive, rows, selected, dialog, results, asked, conn, posted, search>>

\* OnPaneClose
ClosePanel(p) ==
  /\ panel[p] # None
  /\ pings' = GivenUp(pings, {panel[p]})
  /\ panel' = [panel EXCEPT ![p] = None]
  /\ history' = Reads({panel[p]})
  /\ UNCHANGED <<alive, rows, selected, dialog, results, asked, conn, posted, search>>

\* MENU_SERVER_EXT_FULL and DoShow: the server shown before keeps its ping.
OpenDialog(s) ==
  /\ s \in rows /\ MayWant({s}) /\ MaxViews > 0
  /\ dialog' = [info |-> s, shown |-> TRUE]
  /\ pings' = Wanted(pings, {s})
  /\ history' = Reads({s})
  /\ UNCHANGED <<alive, rows, selected, panel, results, asked, conn, posted, search>>

\* CslDlgExtended::OnClose: the dialog keeps its server.
CloseDialog ==
  /\ dialog.shown
  /\ dialog' = [dialog EXCEPT !.shown = FALSE]
  /\ UNCHANGED <<alive, rows, selected, panel, results, asked, conn, posted, pings, search, history>>

\* CslDlgExtended::OnCommandEvent
UpdateDialog ==
  /\ dialog.shown
  /\ history' = Reads({dialog.info})
  /\ UNCHANGED <<alive, frame, asked, conn, posted, pings, search>>

\* A server is locked while one waits for it or plays on it.
Connect(s) ==
  /\ conn = None
  /\ s \in alive \cup rows
  /\ conn' = s
  /\ history' = Reads({s})
  /\ UNCHANGED <<alive, frame, asked, posted, pings, search>>

EndConnect ==
  /\ conn # None
  /\ conn' = None
  /\ history' = Reads({conn})
  /\ UNCHANGED <<alive, frame, asked, posted, pings, search>>

-----------------------------------------------------------------------------
(* The search and the country view.                                        *)

MayAsk(p, S) == Cardinality(S) <= MaxAsked /\ \A s \in S : p[s] < MaxPings

\* Mutation: the new search goes on with the old one's gauge.
PlayerSearchOn(S) ==
  /\ MayAsk(GivenUp(pings, searched), S)
  /\ pings' = Wanted(GivenUp(pings, searched), S)
  /\ searched' = S /\ search' = search \cup S
  /\ results' = {}
  /\ history' = [Reads(searched) EXCEPT !.shared = S \cap country # {}]
  /\ UNCHANGED <<alive, rows, selected, panel, dialog, country, mode, gauge, conn, posted>>

\* CSL_BUTTON_SEARCH: S are the game's servers and the favourites that answer.
PlayerSearch(S) ==
  /\ MayAsk(GivenUp(pings, searched), S)
  /\ pings' = Wanted(GivenUp(pings, searched), S)
  /\ searched' = S /\ search' = search \cup S
  /\ gauge' = 0 /\ results' = {}
  /\ history' = [Reads(searched) EXCEPT !.shared = S \cap country # {}]
  /\ UNCHANGED <<alive, rows, selected, panel, dialog, country, mode, conn, posted>>

\* MENU_GAME_SERVER_COUNTRY: the pings and the flags stay as they are.
ServerCountry ==
  /\ country' = {} /\ mode' = "server"
  /\ UNCHANGED <<alive, frame, searched, gauge, conn, posted, pings, search, history>>

\* MENU_GAME_PLAYER_COUNTRY
PlayerCountry(S) ==
  /\ MayAsk(GivenUp(pings, country), S)
  /\ pings' = Wanted(GivenUp(pings, country), S)
  /\ country' = S /\ search' = search \cup S
  /\ mode' = "player multi"
  /\ history' = [Reads(country) EXCEPT !.shared = @ \/ S \cap searched # {}]
  /\ UNCHANGED <<alive, frame, searched, gauge, conn, posted>>

-----------------------------------------------------------------------------
(* Pongs.                                                                  *)

\* Mutation: a pong finds a server that is no longer there.
PostPongLate(m) ==
  /\ Cardinality(pongs) < MaxPongs
  /\ pongs' = pongs \cup {m}
  /\ UNCHANGED <<alive, frame, asked, conn, dels, pings, search, history>>

\* CslEngine::ParsePong and ParseDefaultPong: the pong carries the pointer.
PostPong(m) ==
  /\ m.info \in alive
  /\ Cardinality(pongs) < MaxPongs
  /\ pongs' = pongs \cup {m}
  /\ UNCHANGED <<alive, frame, asked, conn, dels, pings, search, history>>

\* OnPong for the notifications and for the dialog.
OnOtherPong(m) ==
  /\ m \in pongs /\ m.type # "playerstats"
  /\ pongs' = pongs \ {m}
  /\ history' = IF m.type = "ping" \/ dialog = [info |-> m.info, shown |-> TRUE]
                THEN Reads({m.info}) ELSE history
  /\ UNCHANGED <<alive, frame, asked, conn, dels, pings, search>>

\* The country view takes a server off its list, and gives up its ping if the flag
\* is still set.
CountryTakes(s) == mode = "player multi" /\ s \in country

\* The flag as the search finds it: the country view comes first.
StillSearched(s) == s \in searched /\ s \in search /\ ~CountryTakes(s)

\* OnPong for players; player says whether the search bar is set to players.
OnPlayerPong(m, player, found) ==
  LET s == m.info
      counts == player /\ StillSearched(s)
      ends   == counts /\ gauge + 1 = Cardinality(searched)
      given  == IF CountryTakes(s) /\ s \in search THEN GivenUp(pings, {s}) ELSE pings
      used   == (IF s \in {selected} \cup country \cup searched \cup {panel[p] : p \in Panels}
                      \cup (IF dialog.shown THEN {dialog.info} ELSE {})
                 THEN {s} ELSE {}) \cup (IF ends THEN searched ELSE {})
  IN /\ m \in pongs /\ m.type = "playerstats"
     /\ pongs' = pongs \ {m}
     /\ search' = IF CountryTakes(s) \/ counts THEN search \ {s} ELSE search
     /\ country' = IF CountryTakes(s) THEN country \ {s} ELSE country
     /\ gauge' = IF counts THEN gauge + 1 ELSE gauge
     /\ results' = IF counts /\ found THEN results \cup {s} ELSE results
     /\ searched' = IF ends THEN {} ELSE searched
     /\ pings' = IF ends THEN GivenUp(given, searched) ELSE given
     /\ history' = Reads(used)
     /\ UNCHANGED <<alive, rows, selected, panel, dialog, mode, conn, dels>>

-----------------------------------------------------------------------------
(* Deletion.                                                               *)

PongInfos == {m.info : m \in pongs}

\* CslListCtrlServer::ListDeleteServers asks whether the server is locked, removes
\* the row and posts MENU_DEL.
AskDelete(s) ==
  /\ s \in rows /\ s # conn
  /\ dels[s] < MaxDels
  /\ rows' = rows \ {s}
  /\ dels' = [dels EXCEPT ![s] = @ + 1]
  /\ history' = Reads({s})
  /\ UNCHANGED <<alive, selected, panel, dialog, results, asked, conn, pongs, pings, search>>

\* What is left of the servers in gone, which no longer exist.
Destroy(gone) ==
  /\ alive' = alive \ gone
  /\ pings' = [s \in Servers |-> IF s \in gone THEN 0 ELSE pings[s]]
  /\ search' = search \ gone

\* MENU_DEL of a server deleted before.
DeleteAgain(s) ==
  /\ dels[s] > 0 /\ s \notin alive
  /\ dels' = [dels EXCEPT ![s] = @ - 1]
  /\ history' = Reads({s})
  /\ UNCHANGED <<alive, frame, asked, conn, pongs, pings, search>>

\* Mutation: the loop ends at the first panel that shows a server.
HideFirst(gone) ==
  [p \in Panels |-> IF panel[p] \in gone /\ \A q \in Panels : q > p => panel[q] \notin gone
                    THEN None ELSE panel[p]]

Hide(gone) == [p \in Panels |-> IF panel[p] \in gone THEN None ELSE panel[p]]

\* MENU_DEL.  DoShow(NULL) hides the dialog if it is shown; if it is not, it goes on
\* to read what NULL points to.
Delete(s) ==
  /\ dels[s] > 0 /\ s \in alive
  /\ dels' = [dels EXCEPT ![s] = @ - 1]
  /\ selected' = IF selected = s THEN None ELSE selected
  /\ dialog' = IF dialog.info = s THEN [info |-> None, shown |-> FALSE] ELSE dialog
  /\ results' = results \ {s}
  /\ panel' = Hide({s})
  /\ Destroy({s})
  /\ history' = [history EXCEPT
                   !.stray = @ \/ s \in rows \cup searched \cup country \cup PongInfos \cup {conn}
                               \/ dels[s] > 1,
                   !.twice = @ \ {s},
                   !.crash = IF dialog = [info |-> s, shown |-> FALSE] THEN "null" ELSE @]
  /\ UNCHANGED <<rows, asked, conn, pongs>>

\* UpdateMaster: the servers not seen for long, except those in a panel that is not
\* the main one.  The list is emptied if the master answers.
Cleanup(gone, kept) ==
  /\ gone # {} /\ gone \subseteq alive /\ gone \cap {panel[v] : v \in Views} = {}
  /\ kept = rows \/ kept \subseteq rows \ gone
  /\ rows' = kept
  /\ panel' = Hide(gone)
  /\ Destroy(gone)
  /\ history' = [history EXCEPT
                   !.cleaned = @ \cup gone,
                   !.twice = @ \ gone,
                   !.stray = @ \/ \E s \in gone :
                      \/ s \in kept \cup results \cup searched \cup country \cup PongInfos
                      \/ s \in {selected, dialog.info, conn}
                      \/ dels[s] > 0]
  /\ UNCHANGED <<selected, dialog, results, asked, conn, posted>>

-----------------------------------------------------------------------------
Step(s) ==
  \/ Select(s) \/ OpenDialog(s) \/ Connect(s)
  \/ AskDelete(s) \/ Delete(s) \/ DeleteAgain(s)
  \/ \E v \in Views : OpenView(s, v)
  \/ \E t \in {"ping", "playerstats", "teamstats"} : PostPong([type |-> t, info |-> s])

\* Once a deleted server or NULL has been used anything may follow.
Next ==
  /\ history.crash = "none"
  /\ \/ \E s \in Servers : Step(s)
     \/ \E p \in Panels : ClosePanel(p)
     \/ CloseDialog \/ UpdateDialog \/ EndConnect \/ ServerCountry
     \/ \E S \in SUBSET alive : Display(S) \/ PlayerSearch(S) \/ PlayerCountry(S)
     \/ \E m \in pongs : OnOtherPong(m)
     \/ \E m \in pongs, player \in BOOLEAN, found \in BOOLEAN : OnPlayerPong(m, player, found)
     \/ \E kept \in SUBSET rows : SelectGame(kept)
     \/ \E gone \in SUBSET Servers, kept \in SUBSET rows : Cleanup(gone, kept)

Spec == Init /\ [][Next]_vars

-----------------------------------------------------------------------------
TypeOK ==
  /\ alive \subseteq Servers /\ rows \subseteq Servers /\ results \subseteq Servers
  /\ selected \in Holder /\ conn \in Holder
  /\ panel \in [Panels -> Holder]
  /\ dialog \in [info : Holder, shown : BOOLEAN]
  /\ searched \subseteq Servers /\ country \subseteq Servers /\ search \subseteq Servers
  /\ gauge \in Nat /\ mode \in Modes
  /\ pongs \subseteq Pong
  /\ dels \in [Servers -> Nat] /\ pings \in [Servers -> Nat]
  /\ history \in History

\* No panel ever shows a deleted server; the selection, the dialog and the rows of
\* the search only one that the cleanup deleted.
ViewsLive ==
  history.crash = "none" =>
    \A s \in Servers \ alive :
      /\ \A p \in Panels : panel[p] # s
      /\ s \in results \cup {selected, dialog.info} => s \in history.cleaned

In(s, S) == IF s \in S THEN 1 ELSE 0

Showing(f, s) == {p \in Panels : f[p] = s}

\* How many want the players of a server.
Wanting(s) ==
  Cardinality(Showing(panel, s)) + In(s, {dialog.info}) + In(s, searched) + In(s, country)

\* A server is asked for its players as long as a panel, the dialog, the search or
\* the country view wants them (the counter never drops below their number), unless
\* closing the main panel gave up a ping that the next selection gave up again.
WantedIsPinged ==
  history.crash = "none" =>
    \A s \in alive \ history.twice : pings[s] >= Wanting(s)

\* The gauge counts the servers that have answered the running search, and the search
\* ends with the last of them, unless the country view took one's flag or set it again.
SearchProgress ==
  history.crash = "none" /\ ~history.shared /\ searched # {} =>
    LET answered == searched \ search IN
    searched \subseteq alive => gauge = Cardinality(answered) /\ answered # searched

\* A deleted server is used only if, when it was deleted, a row, the search, the country
\* view, the connection or an event still pointed to it, or it fell to the cleanup.
OnlyStraysUsed == history.crash = "deleted" => history.stray

\* "Server \"%s\" is currently locked, so deletion is not possible!" (CslListCtrlServer.cpp):
\* the user cannot delete the server of the connection.
LockedKept == history.crash = "none" /\ conn # None => conn \in alive \cup history.cleaned
=============================================================================
