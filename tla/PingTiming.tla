----------------------------- MODULE PingTiming -----------------------------
(***************************************************************************)
(* When the servers of the selected game are pinged, what is shown as      *)
(* their ping and which of them are shown as answering                     *)
(* (src/engine/CslEngine.cpp, CslEngine.h), with tick counts that wrap, a  *)
(* timer that may be late, restarted by an update or stopped by a game,    *)
(* servers whose names are still looked up, and pings and answers that may *)
(* be lost.  One tick of the model is one shot of the frame's timer.       *)
(*                                                                         *)
(* A tick count is only ever used in a difference with another.  PingSend  *)
(* and PingResp are kept as how long ago they are, modulo Word: sendAge is *)
(* GetTicks()-PingSend, and PingSend-PingResp is respAge-sendAge.          *)
(***************************************************************************)
EXTENDS Integers, FiniteSets

CONSTANTS
  N,            \* the number of the game's servers
  Favourites,   \* the favourites among them
  Interval,     \* m_updateInterval, in ticks
  WaitInterval, \* CSL_UPDATE_INTERVAL_WAIT
  Burst,        \* the 3000 of PingServers
  Ratio,        \* m_pingRatio
  Word,         \* the number of values of a tick count
  Late,         \* bound: how late the timer may be
  MaxRtt        \* bound: how long an answer takes that is not lost

Server == 0 .. N - 1
Age == 0 .. Word - 1

ASSUME PingAssumption ==
  /\ N \in Nat \ {0} /\ Favourites \subseteq Server
  /\ Interval \in Nat \ {0} /\ WaitInterval \in 1..Interval
  /\ Burst \in Nat /\ Ratio \in Nat
  /\ Late \in Nat /\ MaxRtt \in Nat
  /\ Interval + Late + MaxRtt < 2 * Interval
  /\ Word \in Nat /\ Word % 2 = 0 /\ 3 * Interval + Late + 1 < Word \div 2

VARIABLES
  due,      \* the age of the last shot that pinged, or of the timer's restart, capped
  init,     \* m_timerInit: the next shot pings every server
  playing,  \* a game runs, and the settings stop the updates meanwhile
  pingable, \* the servers with Pingable: their address is known
  sendAge,  \* the age of each server's PingSend
  respAge,  \* the age of each server's PingResp, 0 as long as it has no Ping to be read with
  answered, \* the servers whose Ping is not -1
  flight,   \* the ages of each server's pings that are not answered; some never are, as those
            \* that the socket refused
  wrapped,  \* the servers whose PingResp has been older than half a word
  excused   \* the servers that, since their last answer, lost one, shots or their turn

timer == <<due, init, playing>>
stamps == <<sendAge, respAge, answered>>
vars == <<timer, pingable, stamps, flight, wrapped, excused>>

\* An unsigned difference as wxInt32.
Signed(d) == IF d % Word < Word \div 2 THEN d % Word ELSE (d % Word) - Word

\* The Ping that an answer gives now, PingResp-PingSend.
Ping(i) == Signed(sendAge[i])

\* Mutation: the difference is not signed.
PingOkUnsigned(i) == i \in answered /\ (respAge[i] - sendAge[i]) % Word < 2 * Interval

\* CslEngine::PingOk
PingOk(i) == i \in answered /\ Signed(respAge[i] - sendAge[i]) < 2 * Interval

-----------------------------------------------------------------------------
\* Servers with a name instead of an address are not pingable.
Init ==
  /\ due = 0 /\ init = TRUE /\ playing = FALSE
  /\ pingable \in SUBSET Server
  /\ sendAge = [i \in Server |-> 0]
  /\ respAge = [i \in Server |-> 0]
  /\ answered = {}
  /\ flight = [i \in Server |-> {}]
  /\ wrapped = {} /\ excused = {}

\* A tick passes.  An answer that takes longer than MaxRtt does not come.
Pass ==
  /\ due <= Late \/ playing
  /\ due' = IF due > Late THEN due ELSE due + 1
  /\ sendAge' = [i \in Server |-> (sendAge[i] + 1) % Word]
  /\ respAge' = [i \in Server |-> IF i \in answered THEN (respAge[i] + 1) % Word ELSE 0]
  /\ flight' = [i \in Server |-> {a + 1 : a \in flight[i] \ {MaxRtt}}]
  /\ wrapped' = wrapped \cup {i \in Server : respAge[i] + 1 = Word \div 2}
  /\ excused' = excused \cup {i \in Server : MaxRtt \in flight[i]}
                  \cup (IF due > Late THEN Server ELSE {})
  /\ UNCHANGED <<init, playing, pingable, answered>>

\* The test of Ping; waiting are the servers with ConnectWait > 0.
Due(age, i, waiting) == age[i] >= IF i \in waiting THEN WaitInterval ELSE Interval

\* PingSend=GetTicks() for the servers in S.
Stamped(age, S) == [i \in Server |-> IF i \in S THEN 0 ELSE age[i]]

\* Mutation: the servers are spread over the interval to come.
SpreadAhead == [i \in Server |-> 0 - (i % Interval)]

\* ResetPingSends: the servers are spread over the interval that has passed.
Spread == [i \in Server |-> i % Interval]

\* How many servers may be pinged in one shot before they are spread anew.
Limit == (((N * Burst) \div Interval) \div Ratio) + 1

\* PingServers: the PingSends and the servers pinged, of the selected game and then
\* of the favourites; the pings that the socket refuses, those of unsent, do not count.
PingServers(force, waiting, unsent) ==
  LET first == {i \in pingable : force \/ Due(sendAge, i, waiting)}
      ages  == IF ~force /\ Ratio > 0 /\ Cardinality(first \ unsent) > Limit
               THEN Spread ELSE Stamped(sendAge, first)
      again == {i \in Favourites \cap pingable : Due(ages, i, waiting)}
  IN <<Stamped(ages, again), first \cup again>>

\* OnTimer; a wait for a server starts and ends between any two shots.
OnTimer(waiting, unsent) ==
  /\ due > 0 /\ ~playing
  /\ LET p == PingServers(init, waiting, unsent) IN
       /\ sendAge' = IF init THEN Spread ELSE p[1]
       /\ flight' = [i \in Server |-> flight[i] \cup IF i \in p[2] THEN {0} ELSE {}]
       /\ excused' = excused \cup {i \in Server \ p[2] : sendAge'[i] < sendAge[i]}
  /\ init' = FALSE /\ due' = 0
  /\ UNCHANGED <<playing, pingable, respAge, answered, wrapped>>

\* Mutation: the next shot does not ping every server.
UpdateNotForced(good) ==
  /\ sendAge' = IF good THEN Spread ELSE sendAge
  /\ due' = 0
  /\ excused' = IF due = 0 THEN excused ELSE Server
  /\ UNCHANGED <<init, playing, pingable, respAge, answered, flight, wrapped>>

\* UpdateMaster: the timer is stopped and started again, and its next shot pings every
\* server.  UpdateFromMaster spreads the servers of the list; good is whether the master
\* answers.  A shot that was to come is put back unless the timer has just fired.
UpdateFromMaster(good) ==
  /\ sendAge' = IF good THEN Spread ELSE sendAge
  /\ init' = TRUE /\ due' = 0
  /\ excused' = IF due = 0 THEN excused ELSE Server
  /\ UNCHANGED <<playing, pingable, respAge, answered, flight, wrapped>>

\* OnTreeSelChanged: the user selects the game or one of its masters.
Select ==
  /\ init' = TRUE
  /\ UNCHANGED <<due, playing, pingable, stamps, flight, wrapped, excused>>

\* A host name has been looked up.
OnResolveHost(i) ==
  /\ pingable' = pingable \cup {i}
  /\ UNCHANGED <<timer, stamps, flight, wrapped, excused>>

\* ParseDefaultPong; good is whether the game can read the answer.
DefaultPong(i, good) ==
  /\ flight[i] # {}
  /\ \E a \in flight[i] : flight' = [flight EXCEPT ![i] = @ \ {a}]
  /\ respAge' = [respAge EXCEPT ![i] = 0]
  /\ answered' = IF good /\ Ping(i) # -1 THEN answered \cup {i} ELSE answered \ {i}
  /\ wrapped' = wrapped \ {i}
  /\ excused' = IF due > Late THEN excused ELSE excused \ {i}
  /\ UNCHANGED <<timer, pingable, sendAge>>

\* ParsePong: an answer about the uptime that it cannot read makes it ping at once.
UptimePong(i) ==
  /\ flight[i] # {}
  /\ sendAge' = [sendAge EXCEPT ![i] = 0]
  /\ flight' = [flight EXCEPT ![i] = @ \cup {0}]
  /\ UNCHANGED <<timer, pingable, respAge, answered, wrapped, excused>>

\* A game starts or ends.
Play ==
  /\ playing' = ~playing
  /\ UNCHANGED <<due, init, pingable, stamps, flight, wrapped, excused>>

-----------------------------------------------------------------------------
\* One server at most is waited for.
Shot ==
  \E waiting \in {{}} \cup {{i} : i \in Server}, unsent \in SUBSET Server : OnTimer(waiting, unsent)

Next ==
  \/ Pass \/ Shot \/ Select \/ Play
  \/ \E good \in BOOLEAN : UpdateFromMaster(good)
  \/ \E i \in Server :
       \/ OnResolveHost(i)
       \/ UptimePong(i)
       \/ \E good \in BOOLEAN : DefaultPong(i, good)

\* Time goes on and the timer fires, although each update starts it anew: the user does not
\* for ever update faster than the timer fires.
Spec == Init /\ [][Next]_vars /\ WF_vars(Pass) /\ SF_vars(Shot)

-----------------------------------------------------------------------------
\* A ping that an answer gives is never negative, and longer than the answer took by less
\* than the interval over which servers are spread (CslEngine.cpp:521-549).
TypeOK ==
  /\ due \in 0 .. Late + 1 /\ init \in BOOLEAN /\ playing \in BOOLEAN
  /\ pingable \subseteq Server
  /\ sendAge \in [Server -> Age] /\ respAge \in [Server -> Age]
  /\ flight \in [Server -> SUBSET (0 .. MaxRtt)]
  /\ answered \subseteq Server /\ wrapped \subseteq Server /\ excused \subseteq Server
  /\ \A i \in Server : flight[i] # {} => Ping(i) \in 0 .. MaxRtt + Interval - 1

\* A server that has answered is shown as answering, unless it has lost an answer since,
\* or shots that a game or an update put back, or was put off by a spreading of the servers.
AnsweringShown == \A i \in answered \ excused : PingOk(i)

\* While the timer pings and no update or selection waits for its shot, a server that is
\* silent for three intervals is not shown as answering, until its silence reaches half of
\* what a tick count holds.
DeadNoticed ==
  due <= Late /\ ~init =>
    \A i \in Server \ wrapped : respAge[i] > 3 * Interval + Late => ~PingOk(i)

\* What is shown of a server agrees with its answers, both ways (CslEngine.h:141-144).
AnswersShown == AnsweringShown /\ DeadNoticed

\* Every server whose address is known is pinged again and again, whatever the updates do
\* to the timer and to PingSend, unless a game is played.
EveryPinged ==
  \A i \in Server : []<>(playing \/ i \notin pingable \/ 0 \in flight[i])
=============================================================================
