----------------------------- MODULE ViewsProofs -----------------------------
(***************************************************************************)
(* Which pointers to a deleted server can remain, for any servers and      *)
(* bounds.                                                                 *)
(***************************************************************************)
EXTENDS Views, FiniteSetTheorems, TLAPS

LEMMA PingsTyped ==
  ASSUME NEW p \in [Servers -> Nat], NEW S
  PROVE  Wanted(p, S) \in [Servers -> Nat] /\ GivenUp(p, S) \in [Servers -> Nat]
BY DEF Wanted, GivenUp

LEMMA ReadsTyped ==
  ASSUME history \in History, NEW S
  PROVE  Reads(S) \in History
BY DEF Reads, History

\* Reading changes nothing but crash, and that only for a deleted server.
LEMMA ReadsFacts ==
  ASSUME history \in History, NEW S
  PROVE  /\ Reads(S).stray = history.stray /\ Reads(S).cleaned = history.cleaned
         /\ Reads(S).twice = history.twice /\ Reads(S).shared = history.shared
         /\ Reads(S).crash = IF S \subseteq alive THEN history.crash ELSE "deleted"
BY DEF Reads, History

THEOREM InitTyped == Init => TypeOK
BY ViewsAssumption DEF Init, TypeOK, History, Holder, Modes, Panels

LEMMA StepTyped == TypeOK /\ [Next]_vars => TypeOK'
<1> SUFFICES ASSUME TypeOK, [Next]_vars PROVE TypeOK'
  OBVIOUS
<1> USE DEF TypeOK, Holder, frame, asked, posted
<1>1. ASSUME NEW s \in Servers, Select(s) PROVE TypeOK'
  <2>1. history' \in History
    <3>1. Reads({s} \cup ({selected} \ {None})) \in History
      BY ReadsTyped
    <3> QED BY <1>1, <3>1, ViewsAssumption DEF Select, History
  <2> QED BY <1>1, <2>1, PingsTyped DEF Select, Panels, Modes
<1>2. ASSUME NEW s \in Servers, OpenDialog(s) PROVE TypeOK'
  BY <1>2, PingsTyped, ReadsTyped DEF OpenDialog
<1>18. ASSUME NEW s \in Servers, Connect(s) PROVE TypeOK'
  BY <1>18, ReadsTyped DEF Connect
<1>3. ASSUME NEW s \in Servers, AskDelete(s) \/ DeleteAgain(s) PROVE TypeOK'
  BY <1>3, ReadsTyped DEF AskDelete, DeleteAgain
<1>4. ASSUME NEW s \in Servers, Delete(s) PROVE TypeOK'
  <2>1. history' \in History
    BY <1>4 DEF Delete, History
  <2> QED BY <1>4, <2>1 DEF Delete, Destroy, Hide
<1>5. ASSUME NEW s \in Servers, NEW v \in Views, OpenView(s, v) PROVE TypeOK'
  BY <1>5, PingsTyped, ReadsTyped DEF OpenView, Views, Panels
<1>6. ASSUME NEW s \in Servers, NEW t \in {"ping", "playerstats", "teamstats"},
             PostPong([type |-> t, info |-> s])
      PROVE  TypeOK'
  BY <1>6 DEF PostPong, Pong
<1>7. ASSUME NEW p \in Panels, ClosePanel(p) PROVE TypeOK'
  BY <1>7, PingsTyped, ReadsTyped DEF ClosePanel
<1>8. CASE CloseDialog \/ UpdateDialog \/ EndConnect
  BY <1>8, ReadsTyped DEF CloseDialog, UpdateDialog, EndConnect
<1>9. CASE ServerCountry
  BY <1>9 DEF ServerCountry, Modes
<1>10. ASSUME NEW S \in SUBSET alive, Display(S) PROVE TypeOK'
  BY <1>10, ReadsTyped DEF Display
<1>11. ASSUME NEW S \in SUBSET alive, PlayerSearch(S) PROVE TypeOK'
  <2>1. history' \in History
    <3>1. Reads(searched) \in History
      BY ReadsTyped
    <3> QED BY <1>11, <3>1 DEF PlayerSearch, History
  <2> QED BY <1>11, <2>1, PingsTyped DEF PlayerSearch
<1>12. ASSUME NEW S \in SUBSET alive, PlayerCountry(S) PROVE TypeOK'
  <2>1. history' \in History
    <3>1. Reads(country) \in History
      BY ReadsTyped
    <3> QED BY <1>12, <3>1 DEF PlayerCountry, History
  <2> QED BY <1>12, <2>1, PingsTyped DEF PlayerCountry, Modes
<1>13. ASSUME NEW m \in pongs, OnOtherPong(m) PROVE TypeOK'
  <2>1. history' \in History
    BY <1>13, ReadsTyped DEF OnOtherPong
  <2> QED BY <1>13, <2>1 DEF OnOtherPong
<1>14. ASSUME NEW m \in pongs, NEW player \in BOOLEAN, NEW found \in BOOLEAN,
              OnPlayerPong(m, player, found)
       PROVE  TypeOK'
  <2>1. m.info \in Servers
    BY DEF Pong
  <2>2. history' \in History
    BY <1>14, ReadsTyped DEF OnPlayerPong
  <2>3. pings' \in [Servers -> Nat]
    BY <1>14, PingsTyped DEF OnPlayerPong
  <2>4. gauge' \in Nat
    BY <1>14 DEF OnPlayerPong
  <2>5. /\ searched' \subseteq Servers /\ country' \subseteq Servers
        /\ search' \subseteq Servers /\ results' \subseteq Servers
    BY <1>14, <2>1 DEF OnPlayerPong
  <2>6. /\ pongs' \subseteq pongs
        /\ UNCHANGED <<alive, rows, selected, panel, dialog, mode, conn, dels>>
    BY <1>14 DEF OnPlayerPong
  <2> QED BY <2>2, <2>3, <2>4, <2>5, <2>6
<1>15. ASSUME NEW kept \in SUBSET rows, SelectGame(kept) PROVE TypeOK'
  BY <1>15 DEF SelectGame
<1>16. ASSUME NEW gone \in SUBSET Servers, NEW kept \in SUBSET rows, Cleanup(gone, kept)
       PROVE  TypeOK'
  <2>1. history' \in History
    BY <1>16 DEF Cleanup, History
  <2> QED BY <1>16, <2>1 DEF Cleanup, Destroy, Hide
<1>17. CASE UNCHANGED vars
  BY <1>17 DEF vars
<1> QED
  BY <1>1, <1>2, <1>3, <1>4, <1>5, <1>6, <1>7, <1>8, <1>9, <1>10, <1>11, <1>12, <1>13,
     <1>14, <1>15, <1>16, <1>17, <1>18 DEF Next, Step

\* The variables keep their types; no counter drops below zero.
THEOREM Types == Spec => []TypeOK
BY InitTyped, StepTyped, PTL DEF Spec

-----------------------------------------------------------------------------
(* Pointers to deleted servers.                                            *)

Dead == Servers \ alive

\* What MENU_DEL and the cleanup do not clear.
LooselyHeld(s) ==
  \/ s \in rows \cup searched \cup country \cup PongInfos \/ s = conn \/ dels[s] > 0

\* As long as nothing has gone wrong: no panel shows a deleted server; what the
\* cleanup leaves alone is deleted by the cleanup only; and without a stray nothing at
\* all points to a deleted server.
Pointers ==
  /\ dialog.shown => dialog.info \in Servers
  /\ \A s \in Dead :
       /\ \A p \in Panels : panel[p] # s
       /\ s \in results \cup {selected, dialog.info} => s \in history.cleaned
       /\ ~history.stray => ~LooselyHeld(s) /\ s \notin results \cup {selected, dialog.info}

LiveInv == (history.crash = "none" => Pointers) /\ OnlyStraysUsed

THEOREM InitLive == Init => LiveInv
BY DEF Init, LiveInv, Pointers, OnlyStraysUsed, Dead, Panels

LEMMA StepLive == TypeOK /\ LiveInv /\ [Next]_vars => LiveInv'
<1> SUFFICES ASSUME TypeOK, LiveInv, [Next]_vars PROVE LiveInv'
  OBVIOUS
<1> USE DEF LiveInv, Pointers, OnlyStraysUsed, LooselyHeld, Dead, PongInfos, frame, asked, posted
<1>0. /\ history \in History /\ alive \subseteq Servers
      /\ selected \in Servers \cup {None} /\ conn \in Servers \cup {None}
      /\ panel \in [Panels -> Servers \cup {None}]
      /\ None \notin Servers /\ dels \in [Servers -> Nat]
      /\ dialog \in [info : Servers \cup {None}, shown : BOOLEAN]
  BY ViewsAssumption DEF TypeOK, Holder
<1>1. ASSUME NEW s \in Servers, Select(s), history.crash = "none" PROVE LiveInv'
  <2> DEFINE R == Reads({s} \cup ({selected} \ {None}))
  <2>1. history'.stray = R.stray /\ history'.cleaned = R.cleaned /\ history'.crash = R.crash
    <3>1. R \in History
      BY <1>0, ReadsTyped
    <3> QED BY <1>1, <3>1 DEF Select, History
  <2>2. /\ R.stray = history.stray /\ R.cleaned = history.cleaned
        /\ R.crash = IF {s} \cup ({selected} \ {None}) \subseteq alive THEN history.crash ELSE "deleted"
    BY <1>0, ReadsFacts
  <2>3. CASE {s} \cup ({selected} \ {None}) \subseteq alive
    BY <1>0, <1>1, <2>1, <2>2, <2>3 DEF Select
  <2>4. CASE ~({s} \cup ({selected} \ {None}) \subseteq alive)
    BY <1>0, <1>1, <2>1, <2>2, <2>4 DEF Select
  <2> QED BY <2>3, <2>4
<1>2. ASSUME NEW s \in Servers, OpenDialog(s), history.crash = "none" PROVE LiveInv'
  <2>1. /\ history'.stray = history.stray /\ history'.cleaned = history.cleaned
        /\ history'.crash = IF {s} \subseteq alive THEN history.crash ELSE "deleted"
    BY <1>0, <1>2, ReadsFacts DEF OpenDialog
  <2> QED BY <1>0, <1>2, <2>1 DEF OpenDialog
<1>3. ASSUME NEW s \in Servers, Connect(s), history.crash = "none" PROVE LiveInv'
  <2>1. /\ history'.stray = history.stray /\ history'.cleaned = history.cleaned
        /\ history'.crash = IF {s} \subseteq alive THEN history.crash ELSE "deleted"
    BY <1>0, <1>3, ReadsFacts DEF Connect
  <2> QED BY <1>0, <1>3, <2>1 DEF Connect
<1>4. ASSUME NEW s \in Servers, AskDelete(s), history.crash = "none" PROVE LiveInv'
  <2>1. /\ history'.stray = history.stray /\ history'.cleaned = history.cleaned
        /\ history'.crash = IF {s} \subseteq alive THEN history.crash ELSE "deleted"
    BY <1>0, <1>4, ReadsFacts DEF AskDelete
  <2> QED BY <1>0, <1>4, <2>1 DEF AskDelete
<1>5. ASSUME NEW s \in Servers, DeleteAgain(s), history.crash = "none" PROVE LiveInv'
  <2>1. /\ history'.stray = history.stray /\ history'.cleaned = history.cleaned
        /\ history'.crash = IF {s} \subseteq alive THEN history.crash ELSE "deleted"
    BY <1>0, <1>5, ReadsFacts DEF DeleteAgain
  <2> QED BY <1>0, <1>5, <2>1 DEF DeleteAgain
<1>6. ASSUME NEW s \in Servers, Delete(s), history.crash = "none" PROVE LiveInv'
  <2>1. /\ history'.stray = (history.stray \/ s \in rows \cup searched \cup country \cup PongInfos \cup {conn}
                            \/ dels[s] > 1)
        /\ history'.cleaned = history.cleaned /\ history'.crash \in {"none", "null"}
    BY <1>0, <1>6 DEF Delete, History
  <2>2. panel' = Hide({s}) /\ alive' = alive \ {s} /\ dels' = [dels EXCEPT ![s] = @ - 1]
    BY <1>6 DEF Delete, Destroy
  <2>3. \A q \in Dead' : \A p \in Panels : panel'[p] # q
    BY <1>0, <1>6, <2>2 DEF Hide
  <2>4. \A q \in Dead' : q \notin results' \cup {selected', dialog'.info} \/ (q \in Dead /\ q # s)
    BY <1>0, <1>6, <2>2 DEF Delete
  <2>5. \A q \in Dead' : q = s \/ q \in Dead
    BY <2>2
  <2>6. UNCHANGED <<rows, searched, country, conn, pongs>>
    BY <1>6 DEF Delete
  <2>7. ASSUME NEW q \in Dead', q # s, LooselyHeld(q)' PROVE LooselyHeld(q)
    <3>1. dels'[q] = dels[q]
      BY <1>0, <2>2, <2>7
    <3> QED BY <2>7, <2>6, <3>1
  <2>8. ASSUME ~history'.stray PROVE ~LooselyHeld(s)'
    <3>1. s \notin rows \cup searched \cup country \cup PongInfos \cup {conn} /\ ~(dels[s] > 1)
      BY <2>1, <2>8
    <3>2. dels'[s] = dels[s] - 1 /\ dels[s] \in Nat
      BY <1>0, <2>2
    <3>3. ~(dels'[s] > 0)
      BY <3>1, <3>2
    <3> QED BY <2>6, <3>1, <3>3
  <2>9. dialog'.shown => dialog'.info \in Servers
    BY <1>0, <1>6 DEF Delete
  <2> QED BY <1>0, <1>6, <2>1, <2>3, <2>4, <2>5, <2>7, <2>8, <2>9 DEF Delete
<1>7. ASSUME NEW s \in Servers, NEW v \in Views, OpenView(s, v), history.crash = "none" PROVE LiveInv'
  <2>1. /\ history'.stray = history.stray /\ history'.cleaned = history.cleaned
        /\ history'.crash = IF {s} \subseteq alive THEN history.crash ELSE "deleted"
    BY <1>0, <1>7, ReadsFacts DEF OpenView
  <2> QED BY <1>0, <1>7, <2>1 DEF OpenView, Views, Panels
<1>8. ASSUME NEW m, m.info \in alive, PostPong(m), history.crash = "none" PROVE LiveInv'
  BY <1>0, <1>8 DEF PostPong
<1>9. ASSUME NEW p \in Panels, ClosePanel(p), history.crash = "none" PROVE LiveInv'
  <2>1. /\ history'.stray = history.stray /\ history'.cleaned = history.cleaned
        /\ history'.crash = IF {panel[p]} \subseteq alive THEN history.crash ELSE "deleted"
    BY <1>0, <1>9, ReadsFacts DEF ClosePanel
  <2> QED BY <1>0, <1>9, <2>1 DEF ClosePanel
<1>10. CASE CloseDialog /\ history.crash = "none"
  BY <1>0, <1>10 DEF CloseDialog
<1>11. ASSUME UpdateDialog, history.crash = "none" PROVE LiveInv'
  <2>1. /\ history'.stray = history.stray /\ history'.cleaned = history.cleaned
        /\ history'.crash = IF {dialog.info} \subseteq alive THEN history.crash ELSE "deleted"
    BY <1>0, <1>11, ReadsFacts DEF UpdateDialog
  <2> QED BY <1>0, <1>11, <2>1 DEF UpdateDialog
<1>12. ASSUME EndConnect, history.crash = "none" PROVE LiveInv'
  <2>1. /\ history'.stray = history.stray /\ history'.cleaned = history.cleaned
        /\ history'.crash = IF {conn} \subseteq alive THEN history.crash ELSE "deleted"
    BY <1>0, <1>12, ReadsFacts DEF EndConnect
  <2> QED BY <1>0, <1>12, <2>1 DEF EndConnect
<1>13. CASE ServerCountry /\ history.crash = "none"
  BY <1>0, <1>13 DEF ServerCountry
<1>14. ASSUME NEW S \in SUBSET alive, Display(S), history.crash = "none" PROVE LiveInv'
  <2>1. PICK R \in SUBSET rows' :
          history' = Reads((R \cup {panel[p] : p \in Panels} \cup {conn}) \ {None})
    BY <1>14 DEF Display
  <2> DEFINE used == (R \cup {panel[p] : p \in Panels} \cup {conn}) \ {None}
  <2>2. /\ history'.stray = history.stray /\ history'.cleaned = history.cleaned
        /\ history'.crash = IF used \subseteq alive THEN history.crash ELSE "deleted"
    BY <1>0, <2>1, ReadsFacts
  <2>3. ASSUME ~(used \subseteq alive) PROVE history.stray
    <3>1. PICK q \in used : q \notin alive
      BY <2>3
    <3>2. q \in Dead /\ (q \in rows \/ q = conn)
      BY <1>0, <1>14, <3>1 DEF Display, TypeOK
    <3> QED BY <1>14, <3>2
  <2>4. alive' = alive /\ rows' = rows \cup S
    BY <1>14 DEF Display
  <2>5. UNCHANGED <<panel, dialog, results, selected, searched, country, conn, pongs, dels>>
    BY <1>14 DEF Display
  <2> HIDE DEF used
  <2> QED BY <1>0, <1>14, <2>2, <2>3, <2>4, <2>5
<1>15. ASSUME NEW S \in SUBSET alive, PlayerSearch(S), history.crash = "none" PROVE LiveInv'
  <2>1. /\ history'.stray = history.stray /\ history'.cleaned = history.cleaned
        /\ history'.crash = IF searched \subseteq alive THEN history.crash ELSE "deleted"
    <3>1. Reads(searched) \in History
      BY <1>0, ReadsTyped
    <3>2. history' = [Reads(searched) EXCEPT !.shared = S \cap country # {}]
      BY <1>15 DEF PlayerSearch
    <3> QED BY <1>0, <3>1, <3>2, ReadsFacts DEF History
  <2> QED BY <1>0, <1>15, <2>1 DEF PlayerSearch, TypeOK
<1>16. ASSUME NEW S \in SUBSET alive, PlayerCountry(S), history.crash = "none" PROVE LiveInv'
  <2>1. /\ history'.stray = history.stray /\ history'.cleaned = history.cleaned
        /\ history'.crash = IF country \subseteq alive THEN history.crash ELSE "deleted"
    <3>1. Reads(country) \in History
      BY <1>0, ReadsTyped
    <3>2. history' = [Reads(country) EXCEPT !.shared = @ \/ S \cap searched # {}]
      BY <1>16 DEF PlayerCountry
    <3> QED BY <1>0, <3>1, <3>2, ReadsFacts DEF History
  <2> QED BY <1>0, <1>16, <2>1 DEF PlayerCountry, TypeOK
<1>17. ASSUME NEW m \in pongs, OnOtherPong(m), history.crash = "none" PROVE LiveInv'
  <2>1. /\ history'.stray = history.stray /\ history'.cleaned = history.cleaned
        /\ history'.crash = history.crash \/ (m.info \notin alive /\ history'.crash = "deleted")
    BY <1>0, <1>17, ReadsFacts DEF OnOtherPong
  <2>2. m.info \in Servers
    BY DEF TypeOK, Pong
  <2>3. /\ pongs' \subseteq pongs
        /\ UNCHANGED <<alive, rows, selected, panel, dialog, results, searched, country, conn, dels>>
    BY <1>17 DEF OnOtherPong
  <2>4. ~(m.info \in alive) => history.stray
    BY <1>17, <2>2
  <2> QED BY <1>0, <1>17, <2>1, <2>2, <2>3, <2>4
<1>18. ASSUME NEW m \in pongs, NEW player \in BOOLEAN, NEW found \in BOOLEAN,
              OnPlayerPong(m, player, found), history.crash = "none"
       PROVE  LiveInv'
  <2>1. m.info \in Servers
    BY DEF TypeOK, Pong
  <2>2. PICK used \in SUBSET (Servers \cup {None}) :
          /\ history' = Reads(used)
          /\ used \subseteq {m.info} \cup searched
          /\ m.info \in searched => m.info \in used
    <3> DEFINE s == m.info
               ends == (player /\ StillSearched(s)) /\ gauge + 1 = Cardinality(searched)
               used == (IF s \in {selected} \cup country \cup searched \cup {panel[p] : p \in Panels}
                             \cup (IF dialog.shown THEN {dialog.info} ELSE {})
                        THEN {s} ELSE {}) \cup (IF ends THEN searched ELSE {})
    <3>1. history' = Reads(used)
      BY <1>18 DEF OnPlayerPong
    <3>2. used \subseteq {s} \cup searched /\ (s \in searched => s \in used)
      OBVIOUS
    <3>3. used \in SUBSET (Servers \cup {None})
      BY <2>1, <3>2 DEF TypeOK
    <3> HIDE DEF used
    <3> QED BY <3>1, <3>2, <3>3
  <2>3. /\ history'.stray = history.stray /\ history'.cleaned = history.cleaned
        /\ history'.crash = IF used \subseteq alive THEN history.crash ELSE "deleted"
    BY <1>0, <2>2, ReadsFacts
  <2>4. /\ pongs' \subseteq pongs /\ searched' \subseteq searched /\ country' \subseteq country
        /\ results' \subseteq results \cup (searched \cap {m.info})
        /\ UNCHANGED <<alive, rows, selected, panel, dialog, conn, dels>>
    BY <1>18 DEF OnPlayerPong, StillSearched
  <2>5. ~(used \subseteq alive) => history.stray
    BY <1>0, <1>18, <2>1, <2>2 DEF TypeOK
  <2> QED BY <1>0, <1>18, <2>1, <2>2, <2>3, <2>4, <2>5
<1>19. ASSUME NEW kept \in SUBSET rows, SelectGame(kept), history.crash = "none" PROVE LiveInv'
  BY <1>0, <1>19 DEF SelectGame
<1>20. ASSUME NEW gone \in SUBSET Servers, NEW kept \in SUBSET rows, Cleanup(gone, kept),
              history.crash = "none"
       PROVE  LiveInv'
  <2> DEFINE held == \E s \in gone :
                      \/ s \in kept \cup results \cup searched \cup country \cup PongInfos
                      \/ s \in {selected, dialog.info, conn}
                      \/ dels[s] > 0
  <2>1. /\ history'.stray = (history.stray \/ held)
        /\ history'.cleaned = history.cleaned \cup gone /\ history'.crash = history.crash
    BY <1>0, <1>20 DEF Cleanup, History
  <2>2. /\ alive' = alive \ gone /\ panel' = Hide(gone) /\ rows' = kept
        /\ UNCHANGED <<selected, dialog, results, searched, country, conn, pongs, dels>>
    BY <1>20 DEF Cleanup, Destroy
  <2>3. \A q \in Dead' : \A p \in Panels : panel'[p] # q
    BY <1>0, <1>20, <2>2 DEF Hide
  <2>4. \A q \in Dead' : q \in gone \/ q \in Dead
    BY <2>2
  <2>5. ASSUME NEW q \in gone, ~history'.stray
        PROVE  ~LooselyHeld(q)' /\ q \notin results' \cup {selected', dialog'.info}
    BY <1>0, <2>1, <2>2, <2>5
  <2> HIDE DEF held
  <2> QED BY <1>0, <1>20, <2>1, <2>2, <2>3, <2>4, <2>5
<1>21. CASE UNCHANGED vars
  BY <1>21 DEF vars
<1>22. ASSUME NEW s \in Servers, Step(s), history.crash = "none" PROVE LiveInv'
  <2>1. ASSUME NEW t \in {"ping", "playerstats", "teamstats"}, PostPong([type |-> t, info |-> s])
        PROVE  LiveInv'
    <3>1. s \in alive
      BY <2>1 DEF PostPong
    <3> QED BY <1>8, <1>22, <2>1, <3>1
  <2> QED BY <1>1, <1>2, <1>3, <1>4, <1>5, <1>6, <1>7, <1>22, <2>1 DEF Step
<1> QED
  BY <1>9, <1>10, <1>11, <1>12, <1>13, <1>14, <1>15, <1>16, <1>17, <1>18, <1>19, <1>20,
     <1>21, <1>22 DEF Next

LEMMA AlwaysLive == Spec => [](TypeOK /\ LiveInv)
BY InitTyped, StepTyped, InitLive, StepLive, PTL DEF Spec

\* MENU_DEL and the cleanup leave no panel that shows a deleted server, and only the
\* cleanup leaves one in the selection, the dialog or the rows of the search.
THEOREM PanelsLive == Spec => []ViewsLive
<1>1. TypeOK /\ LiveInv => ViewsLive
  BY DEF LiveInv, Pointers, ViewsLive, Dead
<1> QED BY <1>1, AlwaysLive, PTL

\* Every use of a deleted server goes back to a deletion while something that the
\* deletion does not clear still pointed to the server.
THEOREM OnlyStrays == Spec => []OnlyStraysUsed
<1>1. LiveInv => OnlyStraysUsed
  BY DEF LiveInv
<1> QED BY <1>1, AlwaysLive, PTL

-----------------------------------------------------------------------------
(* The counters of pings.                                                  *)

LEMMA InValues ==
  ASSUME NEW s, NEW S
  PROVE  In(s, S) \in {0, 1} /\ (s \in S <=> In(s, S) = 1)
BY DEF In

LEMMA ShowingFinite ==
  ASSUME NEW f, NEW s
  PROVE  IsFiniteSet(Showing(f, s)) /\ Cardinality(Showing(f, s)) \in Nat
<1>1. IsFiniteSet(Panels)
  BY FS_Interval, ViewsAssumption DEF Panels
<1>2. Showing(f, s) \subseteq Panels
  BY DEF Showing
<1> QED BY <1>1, <1>2, FS_Subset, FS_CardinalityType

\* What changing one panel does to the number of panels that show a server.
LEMMA ShowingPut ==
  ASSUME NEW f, NEW g, NEW p \in Panels, \A q \in Panels \ {p} : g[q] = f[q], NEW s
  PROVE  Cardinality(Showing(g, s)) + In(s, {f[p]}) = Cardinality(Showing(f, s)) + In(s, {g[p]})
<1> DEFINE rest == Showing(f, s) \ {p}
<1>1. IsFiniteSet(rest) /\ Cardinality(rest) \in Nat
  BY ShowingFinite, FS_Subset, FS_CardinalityType
<1>2. Cardinality(rest \cup {p}) = Cardinality(rest) + 1
  BY <1>1, FS_AddElement
<1>3. Showing(f, s) = IF f[p] = s THEN rest \cup {p} ELSE rest
  BY DEF Showing
<1>4. Showing(g, s) = IF g[p] = s THEN rest \cup {p} ELSE rest
  BY DEF Showing
<1> HIDE DEF rest
<1> QED BY <1>1, <1>2, <1>3, <1>4, InValues

LEMMA PingsFacts ==
  ASSUME NEW p \in [Servers -> Nat], NEW S, NEW s \in Servers
  PROVE  /\ Wanted(p, S)[s] = p[s] + In(s, S)
         /\ GivenUp(p, S)[s] + In(s, S) >= p[s] /\ GivenUp(p, S)[s] \in Nat
BY InValues DEF Wanted, GivenUp

\* Reading and what a handler notes of itself, in terms of the parts of history.
LEMMA Noted ==
  ASSUME history \in History, NEW S, NEW T, NEW b \in BOOLEAN
  PROVE  /\ [Reads(S) EXCEPT !.twice = T].twice = T
         /\ [Reads(S) EXCEPT !.twice = T].crash = Reads(S).crash
         /\ [Reads(S) EXCEPT !.twice = T].shared = history.shared
         /\ [Reads(S) EXCEPT !.shared = b].shared = b
         /\ [Reads(S) EXCEPT !.shared = b].crash = Reads(S).crash
         /\ [Reads(S) EXCEPT !.shared = b].twice = history.twice
BY DEF Reads, History

\* The counter covers those who want the server's players.
Covered(s) == pings[s] >= Wanting(s)

LEMMA WantingTyped ==
  ASSUME NEW s \in Servers
  PROVE  Wanting(s) \in Nat
BY ShowingFinite, InValues DEF Wanting

\* A handler that leaves panel, dialog, searched and country alone changes no one's wants.
LEMMA SameWanting ==
  ASSUME UNCHANGED <<panel, dialog, searched, country>>, NEW s
  PROVE  Wanting(s)' = Wanting(s)
BY DEF Wanting, Showing

LEMMA HiddenWanting ==
  ASSUME NEW gone, NEW s \in Servers \ gone, panel' = Hide(gone), None \notin Servers
  PROVE  Showing(panel, s)' = Showing(panel, s)
BY DEF Hide, Showing

LEMMA StepCovered ==
  ASSUME TypeOK, [Next]_vars, history.crash = "none", history'.crash = "none",
         NEW s \in Servers, s \in alive', s \notin history'.twice,
         s \in alive /\ s \notin history.twice => Covered(s)
  PROVE  Covered(s)'
<1> USE DEF frame, asked, posted
<1>0. /\ history \in History /\ alive \subseteq Servers /\ pings \in [Servers -> Nat]
      /\ panel \in [Panels -> Servers \cup {None}] /\ None \notin Servers /\ None # s
      /\ dialog \in [info : Servers \cup {None}, shown : BOOLEAN] /\ pings[s] \in Nat
      /\ country \subseteq Servers /\ searched \subseteq Servers
  BY ViewsAssumption DEF TypeOK, Holder
<1> DEFINE W == Cardinality(Showing(panel, s))
<1>n. W \in Nat /\ W' \in Nat
  BY ShowingFinite
<1>k. ASSUME alive' \subseteq alive, history.twice \subseteq history'.twice
      PROVE  pings[s] >= W + In(s, {dialog.info}) + In(s, searched) + In(s, country)
  BY <1>k DEF Covered, Wanting
<1>same. ASSUME UNCHANGED <<alive, panel, dialog, searched, country, pings>>,
                history'.twice = history.twice
         PROVE  Covered(s)'
  BY <1>same, SameWanting DEF Covered
<1>1. ASSUME NEW r \in Servers, Select(r) PROVE Covered(s)'
  <2> DEFINE old == {selected} \ {None}
             R == Reads({r} \cup old)
             T == IF panel[0] = selected THEN R.twice ELSE R.twice \cup old
  <2>1. history' = [R EXCEPT !.twice = T] /\ R.twice = history.twice
    BY <1>0, <1>1, ReadsFacts DEF Select
  <2>2. history'.twice = T
    BY <1>0, <2>1, Noted
  <2>3. UNCHANGED <<alive, dialog, searched, country>> /\ panel' = [panel EXCEPT ![0] = r]
    BY <1>1 DEF Select
  <2>4. 0 \in Panels
    BY ViewsAssumption DEF Panels
  <2>5. W' + In(s, {panel[0]}) = W + In(s, {r})
    <3>1. panel'[0] = r /\ \A q \in Panels \ {0} : panel'[q] = panel[q]
      BY <1>0, <2>3, <2>4
    <3>2. Cardinality(Showing(panel', s)) + In(s, {panel[0]})
            = Cardinality(Showing(panel, s)) + In(s, {panel'[0]})
      BY <2>4, <3>1, ShowingPut
    <3> QED BY <3>1, <3>2 DEF Showing
  <2>6. pings'[s] = GivenUp(pings, old)[s] + In(s, {r})
        /\ GivenUp(pings, old)[s] + In(s, old) >= pings[s] /\ GivenUp(pings, old)[s] \in Nat
    BY <1>0, <1>1, PingsFacts, PingsTyped DEF Select
  <2>7. s \in old => panel[0] = s
    BY <2>1, <2>2
  <2>8. pings[s] >= W + In(s, {dialog.info}) + In(s, searched) + In(s, country)
    BY <1>k, <2>1, <2>2, <2>3
  <2> HIDE DEF W
  <2>9. pings'[s] >= W' + In(s, {dialog.info}) + In(s, searched) + In(s, country)
    <3>1. In(s, old) <= In(s, {panel[0]}) /\ In(s, old) \in Nat /\ In(s, {panel[0]}) \in Nat
      BY <2>7, InValues
    <3>2. In(s, {r}) \in Nat /\ In(s, {dialog.info}) \in Nat /\ In(s, searched) \in Nat /\ In(s, country) \in Nat
      BY InValues
    <3> HIDE DEF old
    <3> QED BY <1>0, <1>n, <2>5, <2>6, <2>8, <3>1, <3>2
  <2> QED BY <2>3, <2>9 DEF Covered, Wanting, W
<1>2. ASSUME NEW r \in Servers, OpenDialog(r) PROVE Covered(s)'
  <2>1. history'.twice = history.twice
    BY <1>0, <1>2, ReadsFacts DEF OpenDialog
  <2>2. UNCHANGED <<alive, panel, searched, country>> /\ dialog'.info = r /\ W' = W
    BY <1>2 DEF OpenDialog, Showing
  <2>3. pings'[s] = pings[s] + In(s, {r})
    BY <1>0, <1>2, PingsFacts DEF OpenDialog
  <2>4. pings[s] >= W + In(s, {dialog.info}) + In(s, searched) + In(s, country)
    BY <1>k, <2>1, <2>2
  <2> HIDE DEF W
  <2>5. pings'[s] >= W' + In(s, {dialog'.info}) + In(s, searched) + In(s, country)
    BY <1>0, <1>n, <2>2, <2>3, <2>4, InValues
  <2> QED BY <2>2, <2>5 DEF Covered, Wanting, W
<1>3. ASSUME NEW r \in Servers, NEW v \in Views, OpenView(r, v) PROVE Covered(s)'
  <2>1. history'.twice = history.twice
    BY <1>0, <1>3, ReadsFacts DEF OpenView
  <2>2. /\ UNCHANGED <<alive, dialog, searched, country>> /\ panel[v] = None
        /\ panel' = [panel EXCEPT ![v] = r]
    BY <1>3 DEF OpenView
  <2>3. v \in Panels
    BY ViewsAssumption DEF Views, Panels
  <2>4. W' = W + In(s, {r})
    <3>1. panel'[v] = r /\ \A q \in Panels \ {v} : panel'[q] = panel[q]
      BY <1>0, <2>2, <2>3
    <3>2. Cardinality(Showing(panel', s)) + In(s, {panel[v]})
            = Cardinality(Showing(panel, s)) + In(s, {panel'[v]})
      BY <2>3, <3>1, ShowingPut
    <3>3. Showing(panel', s) = Showing(panel, s)'
      BY DEF Showing
    <3> HIDE DEF W
    <3>4. W' + In(s, {None}) = W + In(s, {r})
      BY <1>0, <2>2, <3>1, <3>2, <3>3 DEF W
    <3>5. In(s, {None}) = 0
      BY <1>0, InValues
    <3> QED BY <1>n, <3>4, <3>5, InValues
  <2>5. pings'[s] = pings[s] + In(s, {r})
    BY <1>0, <1>3, PingsFacts DEF OpenView
  <2>6. pings[s] >= W + In(s, {dialog.info}) + In(s, searched) + In(s, country)
    BY <1>k, <2>1, <2>2
  <2> HIDE DEF W
  <2>7. pings'[s] >= W' + In(s, {dialog.info}) + In(s, searched) + In(s, country)
    BY <1>0, <1>n, <2>4, <2>5, <2>6, InValues
  <2> QED BY <2>2, <2>7 DEF Covered, Wanting, W
<1>4. ASSUME NEW p \in Panels, ClosePanel(p) PROVE Covered(s)'
  <2>1. history'.twice = history.twice
    BY <1>0, <1>4, ReadsFacts DEF ClosePanel
  <2>2. UNCHANGED <<alive, dialog, searched, country>> /\ panel' = [panel EXCEPT ![p] = None]
    BY <1>4 DEF ClosePanel
  <2>3. W' + In(s, {panel[p]}) = W
    <3>1. panel'[p] = None /\ \A q \in Panels \ {p} : panel'[q] = panel[q]
      BY <1>0, <2>2
    <3>2. Cardinality(Showing(panel', s)) + In(s, {panel[p]})
            = Cardinality(Showing(panel, s)) + In(s, {panel'[p]})
      BY <3>1, ShowingPut
    <3>3. Showing(panel', s) = Showing(panel, s)'
      BY DEF Showing
    <3> HIDE DEF W
    <3>4. W' + In(s, {panel[p]}) = W + In(s, {None})
      BY <1>0, <3>1, <3>2, <3>3 DEF W
    <3>5. In(s, {None}) = 0
      BY <1>0, InValues
    <3> QED BY <1>n, <3>4, <3>5, InValues
  <2>4. /\ pings' = GivenUp(pings, {panel[p]})
        /\ pings'[s] + In(s, {panel[p]}) >= pings[s] /\ pings'[s] \in Nat
    BY <1>0, <1>4, PingsFacts DEF ClosePanel
  <2>5. pings[s] >= W + In(s, {dialog.info}) + In(s, searched) + In(s, country)
    BY <1>k, <2>1, <2>2
  <2> HIDE DEF W
  <2>6. pings'[s] >= W' + In(s, {dialog.info}) + In(s, searched) + In(s, country)
    BY <1>0, <1>n, <2>3, <2>4, <2>5, InValues
  <2> QED BY <2>2, <2>6 DEF Covered, Wanting, W
<1>5. CASE CloseDialog
  <2>1. UNCHANGED <<alive, panel, searched, country, pings, history>> /\ dialog'.info = dialog.info
    BY <1>0, <1>5 DEF CloseDialog
  <2> QED BY <2>1 DEF Covered, Wanting, Showing
<1>6. CASE UpdateDialog \/ EndConnect
  BY <1>0, <1>6, <1>same, ReadsFacts DEF UpdateDialog, EndConnect
<1>7. ASSUME NEW r \in Servers, Connect(r) \/ AskDelete(r) \/ DeleteAgain(r) PROVE Covered(s)'
  BY <1>0, <1>7, <1>same, ReadsFacts DEF Connect, AskDelete, DeleteAgain
<1>8. ASSUME NEW m, PostPong(m) PROVE Covered(s)'
  BY <1>8, <1>same DEF PostPong
<1>9. ASSUME NEW m \in pongs, OnOtherPong(m) PROVE Covered(s)'
  BY <1>0, <1>9, <1>same, ReadsFacts DEF OnOtherPong
<1>10. ASSUME NEW S \in SUBSET alive, Display(S) PROVE Covered(s)'
  BY <1>0, <1>10, <1>same, ReadsFacts DEF Display
<1>11. ASSUME NEW kept \in SUBSET rows, SelectGame(kept) PROVE Covered(s)'
  BY <1>11, <1>same DEF SelectGame
<1>12. CASE ServerCountry
  <2>1. UNCHANGED <<alive, panel, dialog, searched, pings, history>> /\ country' = {} /\ W' = W
    BY <1>12 DEF ServerCountry, Showing
  <2>2. pings[s] >= W + In(s, {dialog.info}) + In(s, searched) + In(s, country)
    BY <1>k, <2>1
  <2> HIDE DEF W
  <2>3. pings[s] >= W' + In(s, {dialog.info}) + In(s, searched) + In(s, {})
    BY <1>0, <1>n, <2>1, <2>2, InValues
  <2> QED BY <2>1, <2>3 DEF Covered, Wanting, W
<1>13. ASSUME NEW S \in SUBSET alive, PlayerSearch(S) PROVE Covered(s)'
  <2>1. history'.twice = history.twice
    BY <1>0, <1>13, Noted DEF PlayerSearch
  <2>2. UNCHANGED <<alive, panel, dialog, country>> /\ searched' = S /\ W' = W
    BY <1>13 DEF PlayerSearch, Showing
  <2>3. /\ pings'[s] = GivenUp(pings, searched)[s] + In(s, S)
        /\ GivenUp(pings, searched)[s] + In(s, searched) >= pings[s]
        /\ GivenUp(pings, searched)[s] \in Nat
    BY <1>0, <1>13, PingsFacts, PingsTyped DEF PlayerSearch
  <2>4. pings[s] >= W + In(s, {dialog.info}) + In(s, searched) + In(s, country)
    BY <1>k, <2>1, <2>2
  <2> HIDE DEF W
  <2>5. pings'[s] >= W' + In(s, {dialog.info}) + In(s, S) + In(s, country)
    BY <1>0, <1>n, <2>2, <2>3, <2>4, InValues
  <2> QED BY <2>2, <2>5 DEF Covered, Wanting, W
<1>14. ASSUME NEW S \in SUBSET alive, PlayerCountry(S) PROVE Covered(s)'
  <2>1. history'.twice = history.twice
    <3>1. history' = [Reads(country) EXCEPT !.shared = history.shared \/ S \cap searched # {}]
      BY <1>0, <1>14, ReadsTyped, ReadsFacts DEF PlayerCountry, History
    <3> QED BY <1>0, <3>1, Noted
  <2>2. UNCHANGED <<alive, panel, dialog, searched>> /\ country' = S /\ W' = W
    BY <1>14 DEF PlayerCountry, Showing
  <2>3. /\ pings'[s] = GivenUp(pings, country)[s] + In(s, S)
        /\ GivenUp(pings, country)[s] + In(s, country) >= pings[s]
        /\ GivenUp(pings, country)[s] \in Nat
    BY <1>0, <1>14, PingsFacts, PingsTyped DEF PlayerCountry
  <2>4. pings[s] >= W + In(s, {dialog.info}) + In(s, searched) + In(s, country)
    BY <1>k, <2>1, <2>2
  <2> HIDE DEF W
  <2>5. pings'[s] >= W' + In(s, {dialog.info}) + In(s, searched) + In(s, S)
    BY <1>0, <1>n, <2>2, <2>3, <2>4, InValues
  <2> QED BY <2>2, <2>5 DEF Covered, Wanting, W
<1>15. ASSUME NEW m \in pongs, NEW player \in BOOLEAN, NEW found \in BOOLEAN,
              OnPlayerPong(m, player, found)
       PROVE  Covered(s)'
  <2> DEFINE r == m.info
             takes == CountryTakes(r)
             ends == (player /\ StillSearched(r)) /\ gauge + 1 = Cardinality(searched)
             given == IF takes /\ r \in search THEN GivenUp(pings, {r}) ELSE pings
  <2>1. history'.twice = history.twice
    BY <1>0, <1>15, ReadsFacts DEF OnPlayerPong
  <2>2. /\ UNCHANGED <<alive, panel, dialog>> /\ W' = W
        /\ country' = IF takes THEN country \ {r} ELSE country
        /\ searched' = IF ends THEN {} ELSE searched
        /\ pings' = IF ends THEN GivenUp(given, searched) ELSE given
    BY <1>15 DEF OnPlayerPong, Showing
  <2>3. takes => r \in country
    BY DEF CountryTakes
  <2>4. /\ given \in [Servers -> Nat] /\ given[s] \in Nat
        /\ given[s] + In(s, country) >= pings[s] + In(s, country')
    <3>1. CASE takes /\ r \in search
      <4>1. GivenUp(pings, {r})[s] + In(s, {r}) >= pings[s] /\ GivenUp(pings, {r})[s] \in Nat
        BY <1>0, PingsFacts
      <4>2. given = GivenUp(pings, {r}) /\ given \in [Servers -> Nat]
        BY <1>0, <3>1, PingsTyped
      <4>3. country' = country \ {r} /\ r \in country
        BY <2>2, <2>3, <3>1
      <4> HIDE DEF given, r
      <4>4. given[s] + In(s, {r}) >= pings[s] /\ given[s] \in Nat
        BY <4>1, <4>2
      <4>5. In(s, country) = In(s, country') + In(s, {r})
        BY <4>3, InValues
      <4>6. In(s, country) \in Nat /\ In(s, country') \in Nat /\ In(s, {r}) \in Nat
        BY InValues
      <4>7. given[s] + In(s, country) >= pings[s] + In(s, country')
        BY <1>0, <4>4, <4>5, <4>6
      <4> QED BY <4>2, <4>4, <4>7
    <3>2. CASE ~(takes /\ r \in search)
      BY <1>0, <2>2, <3>2, InValues
    <3> QED BY <3>1, <3>2
  <2>5. /\ pings'[s] \in Nat
        /\ pings'[s] + In(s, searched) >= given[s] + In(s, searched')
    <3>1. CASE ends
      <4>1. GivenUp(given, searched)[s] + In(s, searched) >= given[s]
            /\ GivenUp(given, searched)[s] \in Nat
        BY <2>4, PingsFacts
      <4>2. pings'[s] = GivenUp(given, searched)[s] /\ s \notin searched'
        BY <2>2, <3>1
      <4> HIDE DEF given
      <4> QED BY <2>4, <4>1, <4>2, InValues
    <3>2. CASE ~ends
      BY <1>0, <2>2, <2>4, <3>2, InValues
    <3> QED BY <3>1, <3>2
  <2>6. pings[s] >= W + In(s, {dialog.info}) + In(s, searched) + In(s, country)
    BY <1>k, <2>1, <2>2
  <2> HIDE DEF W, given, takes, ends, r
  <2>7. pings'[s] >= W' + In(s, {dialog.info}) + In(s, searched') + In(s, country')
    <3>1. /\ In(s, {dialog.info}) \in Nat /\ In(s, searched) \in Nat
          /\ In(s, searched') \in Nat /\ In(s, country) \in Nat /\ In(s, country') \in Nat
      BY InValues
    <3> QED BY <1>0, <1>n, <2>2, <2>4, <2>5, <2>6, <3>1
  <2> QED BY <2>2, <2>7 DEF Covered, Wanting, W
<1>16. ASSUME NEW gone \in SUBSET Servers, s \notin gone, Destroy(gone), panel' = Hide(gone),
              UNCHANGED <<searched, country>>, dialog'.info = s => dialog.info = s,
              history'.twice = history.twice \ gone
       PROVE  Covered(s)'
  <2>1. s \in alive /\ s \notin history.twice
    BY <1>16 DEF Destroy
  <2>2. W' = W
    BY <1>0, <1>16, HiddenWanting
  <2>3. pings'[s] = pings[s]
    BY <1>16 DEF Destroy
  <2>4. pings[s] >= W + In(s, {dialog.info}) + In(s, searched) + In(s, country)
    BY <2>1 DEF Covered, Wanting
  <2> HIDE DEF W
  <2>5. pings'[s] >= W' + In(s, {dialog'.info}) + In(s, searched) + In(s, country)
    BY <1>0, <1>n, <1>16, <2>2, <2>3, <2>4, InValues
  <2> QED BY <1>16, <2>5 DEF Covered, Wanting, W
<1>17. ASSUME NEW r \in Servers, Delete(r) PROVE Covered(s)'
  <2>1. Destroy({r}) /\ panel' = Hide({r}) /\ UNCHANGED <<searched, country>> /\ s \notin {r}
    BY <1>17 DEF Delete, Destroy
  <2>2. history'.twice = history.twice \ {r}
    BY <1>0, <1>17 DEF Delete, History
  <2>3. dialog'.info = s => dialog.info = s
    BY <1>0, <1>17 DEF Delete
  <2> QED BY <1>16, <2>1, <2>2, <2>3
<1>18. ASSUME NEW gone \in SUBSET Servers, NEW kept \in SUBSET rows, Cleanup(gone, kept)
       PROVE  Covered(s)'
  <2>1. /\ Destroy(gone) /\ panel' = Hide(gone) /\ UNCHANGED <<searched, country, dialog>>
        /\ s \notin gone
    BY <1>18 DEF Cleanup, Destroy
  <2>2. history'.twice = history.twice \ gone
    BY <1>0, <1>18 DEF Cleanup, History
  <2> QED BY <1>16, <2>1, <2>2
<1>19. CASE UNCHANGED vars
  BY <1>19, <1>same DEF vars
<1> QED
  BY <1>1, <1>2, <1>3, <1>4, <1>5, <1>6, <1>7, <1>8, <1>9, <1>10, <1>11, <1>12, <1>13,
     <1>14, <1>15, <1>17, <1>18, <1>19 DEF Next, Step

LEMMA InitCovered == Init => WantedIsPinged
<1> SUFFICES ASSUME Init, NEW s \in Servers PROVE pings[s] >= Wanting(s)
  BY DEF Init, WantedIsPinged
<1>1. Showing(panel, s) = {}
  BY ViewsAssumption DEF Init, Showing
<1>2. Cardinality(Showing(panel, s)) = 0
  BY <1>1, FS_EmptySet
<1> QED BY <1>2, ViewsAssumption, InValues DEF Init, Wanting

LEMMA CrashStays == [Next]_vars /\ history.crash # "none" => history'.crash # "none"
BY DEF Next, vars

LEMMA StepWanted == TypeOK /\ WantedIsPinged /\ [Next]_vars => WantedIsPinged'
<1> SUFFICES ASSUME TypeOK, WantedIsPinged, [Next]_vars, history'.crash = "none",
                    NEW s \in alive', s \notin history'.twice
             PROVE  Covered(s)'
  BY DEF WantedIsPinged, Covered
<1>1. history.crash = "none"
  BY CrashStays
<1>2. s \in Servers
  BY StepTyped DEF TypeOK
<1>3. s \in alive /\ s \notin history.twice => Covered(s)
  BY <1>1 DEF WantedIsPinged, Covered
<1> QED BY <1>1, <1>2, <1>3, StepCovered

\* For any number of panels and servers: as long as someone wants the players of a
\* server it is asked for them, but for the ping that the main panel gives up twice.
THEOREM WantedCovered == Spec => []WantedIsPinged
BY InitTyped, StepTyped, InitCovered, StepWanted, PTL DEF Spec

-----------------------------------------------------------------------------
(* The search.                                                             *)

\* While the country view has not met the search, no server is in both, so that no pong
\* takes the flag of a server of the search without counting it.
SearchInv ==
  history.crash = "none" /\ ~history.shared /\ searched # {} =>
    /\ searched \cap country = {}
    /\ searched \subseteq alive =>
         gauge = Cardinality(searched \ search) /\ searched \ search # searched

LEMMA InitSearch == Init => SearchInv
BY DEF Init, SearchInv

LEMMA StepSearch == TypeOK /\ SearchInv /\ [Next]_vars => SearchInv'
<1> SUFFICES ASSUME TypeOK, SearchInv, [Next]_vars, history'.crash = "none",
                    ~history'.shared, searched' # {}
             PROVE  /\ searched' \cap country' = {}
                    /\ searched' \subseteq alive' =>
                         gauge' = Cardinality(searched' \ search') /\ searched' \ search' # searched'
  BY DEF SearchInv
<1> USE DEF frame, asked, posted
<1>0. /\ history \in History /\ searched \subseteq Servers /\ country \subseteq Servers
      /\ search \subseteq Servers /\ alive \subseteq Servers /\ gauge \in Nat
      /\ history.crash = "none" /\ IsFiniteSet(searched)
  BY CrashStays, ViewsAssumption, FS_Subset DEF TypeOK
<1> DEFINE Goal == /\ searched' \cap country' = {}
                   /\ searched' \subseteq alive' =>
                        gauge' = Cardinality(searched' \ search') /\ searched' \ search' # searched'
<1> SUFFICES Goal
  OBVIOUS
<1>i. ASSUME ~history.shared, searched # {}
      PROVE  /\ searched \cap country = {}
             /\ searched \subseteq alive =>
                  gauge = Cardinality(searched \ search) /\ searched \ search # searched
  BY <1>0, <1>i DEF SearchInv
<1>same. ASSUME UNCHANGED <<searched, gauge>>, country' \subseteq country, alive' \subseteq alive,
                searched \subseteq alive' => searched \ search' = searched \ search,
                history'.shared = history.shared
         PROVE  Goal
  <2>1. /\ searched \cap country = {}
        /\ searched \subseteq alive =>
             gauge = Cardinality(searched \ search) /\ searched \ search # searched
    BY <1>i, <1>same
  <2> QED BY <1>same, <2>1
<1>1. ASSUME NEW r \in Servers, Select(r) PROVE Goal
  <2> DEFINE R == Reads({r} \cup ({selected} \ {None}))
             T == IF panel[0] = selected THEN R.twice ELSE R.twice \cup ({selected} \ {None})
  <2>1. history'.shared = history.shared
    <3>1. history' = [R EXCEPT !.twice = T]
      BY <1>1 DEF Select
    <3> HIDE DEF T
    <3> QED BY <1>0, <3>1, Noted
  <2> QED BY <1>1, <2>1, <1>same DEF Select
<1>2. ASSUME NEW r \in Servers, OpenDialog(r) \/ Connect(r) \/ AskDelete(r) \/ DeleteAgain(r)
      PROVE  Goal
  BY <1>0, <1>2, <1>same, ReadsFacts DEF OpenDialog, Connect, AskDelete, DeleteAgain
<1>3. ASSUME NEW r \in Servers, NEW v \in Views, OpenView(r, v) PROVE Goal
  BY <1>0, <1>3, <1>same, ReadsFacts DEF OpenView
<1>4. ASSUME NEW p \in Panels, ClosePanel(p) PROVE Goal
  BY <1>0, <1>4, <1>same, ReadsFacts DEF ClosePanel
<1>5. CASE CloseDialog \/ UpdateDialog \/ EndConnect
  BY <1>0, <1>5, <1>same, ReadsFacts DEF CloseDialog, UpdateDialog, EndConnect
<1>6. CASE ServerCountry
  BY <1>6, <1>same DEF ServerCountry
<1>7. ASSUME NEW m, PostPong(m) PROVE Goal
  BY <1>7, <1>same DEF PostPong
<1>8. ASSUME NEW m \in pongs, OnOtherPong(m) PROVE Goal
  BY <1>0, <1>8, <1>same, ReadsFacts DEF OnOtherPong
<1>9. ASSUME NEW S \in SUBSET alive, Display(S) PROVE Goal
  BY <1>0, <1>9, <1>same, ReadsFacts DEF Display
<1>10. ASSUME NEW kept \in SUBSET rows, SelectGame(kept) PROVE Goal
  BY <1>10, <1>same DEF SelectGame
<1>11. ASSUME NEW S \in SUBSET alive, PlayerSearch(S) PROVE Goal
  <2>1. history'.shared = (S \cap country # {})
    BY <1>0, <1>11, Noted DEF PlayerSearch
  <2>2. searched' = S /\ search' = search \cup S /\ gauge' = 0 /\ country' = country
    BY <1>11 DEF PlayerSearch
  <2>3. searched' \ search' = {} /\ Cardinality(searched' \ search') = 0
    BY <2>2, FS_EmptySet
  <2> QED BY <2>1, <2>2, <2>3
<1>12. ASSUME NEW S \in SUBSET alive, PlayerCountry(S) PROVE Goal
  <2>1. history'.shared = (history.shared \/ S \cap searched # {})
    <3>1. history' = [Reads(country) EXCEPT !.shared = history.shared \/ S \cap searched # {}]
      BY <1>0, <1>12, ReadsTyped, ReadsFacts DEF PlayerCountry, History
    <3> QED BY <1>0, <3>1, Noted
  <2>2. UNCHANGED <<searched, gauge, alive>> /\ search' = search \cup S /\ country' = S
    BY <1>12 DEF PlayerCountry
  <2>3. searched \ search' = searched \ search
    BY <2>1, <2>2
  <2>4. /\ searched \cap country = {}
        /\ searched \subseteq alive =>
             gauge = Cardinality(searched \ search) /\ searched \ search # searched
    BY <1>i, <2>1, <2>2
  <2> QED BY <2>1, <2>2, <2>3, <2>4
<1>13. ASSUME NEW m \in pongs, NEW player \in BOOLEAN, NEW found \in BOOLEAN,
              OnPlayerPong(m, player, found)
       PROVE  Goal
  <2> DEFINE s == m.info
             counts == player /\ StillSearched(s)
             ends == counts /\ gauge + 1 = Cardinality(searched)
  <2>1. history'.shared = history.shared
    BY <1>0, <1>13, ReadsFacts DEF OnPlayerPong
  <2>2. /\ alive' = alive /\ searched' = searched /\ ~ends
        /\ search' = IF CountryTakes(s) \/ counts THEN search \ {s} ELSE search
        /\ country' = IF CountryTakes(s) THEN country \ {s} ELSE country
        /\ gauge' = IF counts THEN gauge + 1 ELSE gauge
    BY <1>13 DEF OnPlayerPong
  <2>3. /\ searched \cap country = {}
        /\ searched \subseteq alive =>
             gauge = Cardinality(searched \ search) /\ searched \ search # searched
    BY <1>i, <2>1, <2>2
  <2>4. CASE ~counts
    <3>1. searched \ search' = searched \ search
      BY <2>2, <2>3, <2>4 DEF CountryTakes
    <3> QED BY <2>2, <2>3, <2>4, <3>1
  <2>5. CASE counts
    <3>1. s \in searched /\ s \in search
      BY <2>5 DEF StillSearched
    <3>2. searched \ search' = (searched \ search) \cup {s} /\ s \notin searched \ search
      BY <2>2, <2>5, <3>1
    <3>3. IsFiniteSet(searched \ search)
      BY <1>0, FS_Subset
    <3>4. Cardinality(searched \ search') = Cardinality(searched \ search) + 1
      BY <3>2, <3>3, FS_AddElement
    <3>5. gauge' = gauge + 1 /\ gauge + 1 # Cardinality(searched)
      BY <2>2, <2>5
    <3> HIDE DEF s, counts, ends
    <3> QED BY <2>2, <2>3, <3>4, <3>5
  <2> QED BY <2>4, <2>5
<1>14. ASSUME NEW gone \in SUBSET Servers, Destroy(gone), UNCHANGED <<searched, gauge, country>>,
              history'.shared = history.shared
       PROVE  Goal
  <2>1. alive' \subseteq alive /\ (searched \subseteq alive' => searched \ search' = searched \ search)
    BY <1>14 DEF Destroy
  <2> QED BY <1>14, <2>1, <1>same
<1>15. ASSUME NEW r \in Servers, Delete(r) PROVE Goal
  <2>1. history'.shared = history.shared
    BY <1>0, <1>15 DEF Delete, History
  <2> QED BY <1>14, <1>15, <2>1 DEF Delete
<1>16. ASSUME NEW gone \in SUBSET Servers, NEW kept \in SUBSET rows, Cleanup(gone, kept)
       PROVE  Goal
  <2>1. history'.shared = history.shared
    BY <1>0, <1>16 DEF Cleanup, History
  <2> QED BY <1>14, <1>16, <2>1 DEF Cleanup
<1>17. CASE UNCHANGED vars
  BY <1>17, <1>same DEF vars
<1> QED
  BY <1>1, <1>2, <1>3, <1>4, <1>5, <1>6, <1>7, <1>8, <1>9, <1>10, <1>11, <1>12, <1>13,
     <1>15, <1>16, <1>17 DEF Next, Step

\* For any number of servers: the gauge counts those that have answered, so that a search
\* whose servers all answer ends, unless the country view has had a server of it.
THEOREM SearchCounts == Spec => []SearchProgress
<1>1. TypeOK /\ SearchInv => SearchProgress
  BY DEF SearchInv, SearchProgress
<1> QED BY <1>1, InitTyped, StepTyped, InitSearch, StepSearch, PTL DEF Spec
=============================================================================
