--------------------------- MODULE PingTimingProofs ---------------------------
(***************************************************************************)
(* The ages of pings and answers, for any number of servers, intervals and *)
(* width of the tick count.                                                *)
(***************************************************************************)
EXTENDS PingTiming, TLAPS

Half == Word \div 2

LEMMA Sizes ==
  /\ N \in Nat /\ Interval \in Nat \ {0} /\ WaitInterval \in 1..Interval
  /\ Late \in Nat /\ MaxRtt \in Nat /\ Word \in Nat /\ Half \in Nat
  /\ MaxRtt + Late < Interval /\ 3 * Interval + Late + 1 < Half /\ 2 * Half = Word
BY PingAssumption DEF Half

-----------------------------------------------------------------------------
(* Counting modulo Word and Interval.                                      *)

LEMMA Older ==
  ASSUME NEW a \in Age
  PROVE  (a + 1) % Word \in Age /\ (a + 1 < Word => (a + 1) % Word = a + 1)
BY Sizes DEF Age

\* A small difference is read as what it is.
LEMMA SignedSmall ==
  ASSUME NEW d \in 0 .. Half - 1
  PROVE  Signed(d) = d
<1>1. d \in 0 .. Word - 1 /\ d % Word = d
  BY Sizes
<1> QED BY <1>1, Sizes DEF Signed, Half

LEMMA SpreadTyped ==
  /\ Spread \in [Server -> Age]
  /\ \A i \in Server : Spread[i] \in 0 .. Interval - 1
<1>1. ASSUME NEW i \in Server PROVE i % Interval \in 0 .. Interval - 1
  BY Sizes DEF Server
<1> QED BY <1>1, Sizes DEF Spread, Age

\* The ping that an answer gives is not longer than it took by an interval.
LEMMA PingRange ==
  ASSUME NEW age \in Age, NEW a \in 0 .. MaxRtt, age <= a + Interval - 1
  PROVE  Signed(age) \in 0 .. MaxRtt + Interval - 1
<1>1. age \in 0 .. Half - 1 /\ age <= MaxRtt + Interval - 1
  BY Sizes DEF Age
<1>2. Signed(age) = age
  BY <1>1, SignedSmall
<1> QED BY <1>1, <1>2, Sizes

-----------------------------------------------------------------------------
(* The invariant.                                                          *)

\* TypeOK but for the range of a ping, which FlightInv gives.
Types ==
  /\ due \in 0 .. Late + 1 /\ init \in BOOLEAN /\ playing \in BOOLEAN
  /\ pingable \subseteq Server
  /\ sendAge \in [Server -> Age] /\ respAge \in [Server -> Age]
  /\ flight \in [Server -> SUBSET (0 .. MaxRtt)]
  /\ answered \subseteq Server /\ wrapped \subseteq Server /\ excused \subseteq Server

\* A ping under way is hardly younger than PingSend, which the spreading of the servers
\* may have put back by less than an interval.
FlightInv == \A i \in Server : \A a \in flight[i] : sendAge[i] <= a + Interval - 1

\* A PingResp that has not gone half round is younger than that.
WrapInv == \A i \in Server \ wrapped : respAge[i] < Half

\* A server that was pinged and has answered, or may yet answer.
Asked(i) == i \in answered \/ flight[i] # {}

\* Only servers with an address are pinged.
AskedInv == \A i \in Server \ pingable : ~Asked(i)

\* While the timer pings, no such server goes without a ping for longer than an interval.
SendInv ==
  due <= Late /\ ~init => \A i \in Server : Asked(i) => sendAge[i] <= Interval - 1 + due

AgesInv == Types /\ FlightInv /\ WrapInv /\ AskedInv /\ SendInv

\* Without a ping to read it with, the age of an answer is not kept.
HushInv == \A i \in Server \ answered : respAge[i] = 0

\* Even when a shot is late, a server that has lost nothing was pinged an interval ago, or it
\* has answered since an update and its ping is to come with the next shot.
TurnInv ==
  \A i \in Server \ excused : Asked(i) =>
    \/ sendAge[i] <= Interval - 1 + due
    \/ init /\ respAge[i] <= due /\ sendAge[i] <= MaxRtt + Interval - 1 + respAge[i]

\* The answer to the last ping of such a server is there, or it is under way and was
\* asked for soon after the answer before it; an update may have put back PingSend since.
HeardInv ==
  \A i \in Server \ excused :
    IF flight[i] = {} THEN respAge[i] <= sendAge[i] \/ (init /\ respAge[i] <= Interval - 1 + due)
                      ELSE \E a \in flight[i] : respAge[i] <= Interval + Late + a

HeardFrom == HushInv /\ TurnInv /\ HeardInv

LEMMA InitAges == Init => AgesInv
<1> SUFFICES ASSUME Init PROVE AgesInv
  OBVIOUS
<1>1. 0 \in Age /\ 0 \in 0 .. Late + 1 /\ 0 < Half
  BY Sizes DEF Age
<1>2. Types
  BY <1>1 DEF Init, Types
<1> QED BY <1>1, <1>2 DEF Init, AgesInv, FlightInv, WrapInv, AskedInv, Asked, SendInv

\* What PingServers does: it pings servers with an address only, all of them if it is forced,
\* and it spreads, stamps or leaves alone each of them; the ones left alone were not due.
LEMMA PingServersFacts ==
  ASSUME sendAge \in [Server -> Age], pingable \subseteq Server,
         NEW force \in BOOLEAN, NEW waiting, NEW unsent
  PROVE  /\ PingServers(force, waiting, unsent)[1] \in [Server -> Age]
         /\ PingServers(force, waiting, unsent)[2] \subseteq pingable
         /\ force => PingServers(force, waiting, unsent)[2] = pingable
         /\ \A i \in pingable :
              LET age == PingServers(force, waiting, unsent)[1][i] IN
              \/ age = 0 \/ age = Spread[i]
              \/ /\ age = sendAge[i] /\ age < Interval
                 /\ i \notin PingServers(force, waiting, unsent)[2]
<1> DEFINE first == {i \in pingable : force \/ Due(sendAge, i, waiting)}
           ages == IF ~force /\ Ratio > 0 /\ Cardinality(first \ unsent) > Limit
                   THEN Spread ELSE Stamped(sendAge, first)
           again == {i \in Favourites \cap pingable : Due(ages, i, waiting)}
<1>1. Stamped(sendAge, first) \in [Server -> Age]
  BY Sizes DEF Stamped, Age
<1>2. ages \in [Server -> Age]
  BY <1>1, SpreadTyped
<1>3. Stamped(ages, again) \in [Server -> Age]
  <2> HIDE DEF ages, again
  <2>1. 0 \in Age
    BY Sizes DEF Age
  <2> QED BY <1>2, <2>1 DEF Stamped
<1>4. again \subseteq pingable /\ first \subseteq pingable /\ (force => first = pingable)
  OBVIOUS
<1>5. ASSUME NEW i \in pingable
      PROVE  \/ Stamped(ages, again)[i] = 0 \/ Stamped(ages, again)[i] = Spread[i]
             \/ /\ Stamped(ages, again)[i] = sendAge[i] /\ sendAge[i] < Interval
                /\ i \notin first \cup again
  <2>1. CASE i \in again \/ ages = Spread
    BY <2>1 DEF Stamped
  <2>2. CASE i \notin again /\ ages # Spread
    <3>1. ages = Stamped(sendAge, first) /\ Stamped(ages, again)[i] = ages[i]
      BY <2>2 DEF Stamped
    <3>2. i \notin first => sendAge[i] < Interval
      BY Sizes DEF Due, Age
    <3> QED BY <2>2, <3>1, <3>2 DEF Stamped
  <2> QED BY <2>1, <2>2
<1>6. PingServers(force, waiting, unsent) = <<Stamped(ages, again), first \cup again>>
  BY DEF PingServers
<1> HIDE DEF first, ages, again
<1> QED BY <1>3, <1>4, <1>5, <1>6

LEMMA StepAges == AgesInv /\ [Next]_vars => AgesInv'
<1> SUFFICES ASSUME AgesInv, [Next]_vars PROVE AgesInv'
  OBVIOUS
<1> USE DEF AgesInv, timer, stamps
<1>0. /\ sendAge \in [Server -> Age] /\ respAge \in [Server -> Age]
      /\ flight \in [Server -> SUBSET (0 .. MaxRtt)] /\ due \in 0 .. Late + 1
      /\ pingable \subseteq Server /\ answered \subseteq Server
      /\ init \in BOOLEAN /\ playing \in BOOLEAN /\ wrapped \subseteq Server /\ excused \subseteq Server
  BY DEF Types
<1>1. CASE Pass
  <2>1. ASSUME NEW i \in Server
        PROVE  /\ sendAge'[i] = (sendAge[i] + 1) % Word /\ sendAge[i] \in Age
               /\ respAge'[i] = IF i \in answered THEN (respAge[i] + 1) % Word ELSE 0
               /\ respAge[i] \in Age
               /\ flight'[i] = {a + 1 : a \in flight[i] \ {MaxRtt}} /\ flight[i] \subseteq 0 .. MaxRtt
    BY <1>0, <1>1 DEF Pass
  <2>2. Types'
    <3>1. sendAge' \in [Server -> Age]
      BY <1>0, <1>1, <2>1, Older DEF Pass
    <3>2. respAge' \in [Server -> Age]
      <4>1. \A i \in Server : (respAge[i] + 1) % Word \in Age
        BY <2>1, Older
      <4>2. 0 \in Age
        BY Sizes DEF Age
      <4> QED BY <1>1, <4>1, <4>2 DEF Pass
    <3>3. flight' \in [Server -> SUBSET (0 .. MaxRtt)]
      <4>1. ASSUME NEW i \in Server PROVE {a + 1 : a \in flight[i] \ {MaxRtt}} \subseteq 0 .. MaxRtt
        BY <2>1, Sizes
      <4> QED BY <1>1, <4>1 DEF Pass
    <3>4. due' \in 0 .. Late + 1
      BY <1>0, <1>1, Sizes DEF Pass
    <3> QED BY <1>0, <1>1, <3>1, <3>2, <3>3, <3>4 DEF Pass, Types
  <2>3. FlightInv'
    <3> SUFFICES ASSUME NEW i \in Server, NEW b \in flight'[i] PROVE sendAge'[i] <= b + Interval - 1
      BY DEF FlightInv
    <3>1. PICK a \in flight[i] : b = a + 1 /\ a \in 0 .. MaxRtt
      BY <2>1
    <3>2. sendAge[i] <= a + Interval - 1 /\ sendAge[i] \in Nat
      BY <2>1 DEF FlightInv, Age
    <3>3. sendAge[i] + 1 < Word
      BY <3>1, <3>2, Sizes
    <3>4. sendAge'[i] = sendAge[i] + 1
      BY <2>1, <3>3, Older
    <3> QED BY <3>1, <3>2, <3>4, Sizes
  <2>4. WrapInv'
    <3> SUFFICES ASSUME NEW i \in Server, i \notin wrapped' PROVE respAge'[i] < Half
      BY DEF WrapInv
    <3>1. i \notin wrapped /\ respAge[i] + 1 # Half
      BY <1>1 DEF Pass, Half
    <3>2. respAge[i] + 1 < Half /\ respAge[i] \in Nat
      BY <2>1, <3>1, Sizes DEF WrapInv, Age
    <3>3. (respAge[i] + 1) % Word = respAge[i] + 1
      BY <2>1, <3>2, Older, Sizes
    <3> QED BY <2>1, <3>2, <3>3, Sizes
  <2>5. SendInv'
    <3> SUFFICES ASSUME NEW i \in Server, due' <= Late, ~init', Asked(i)'
                 PROVE  sendAge'[i] <= Interval - 1 + due'
      BY DEF SendInv
    <3>a. Asked(i)
      BY <1>1, <2>1 DEF Pass, Asked
    <3>1. due' = due + 1 /\ due <= Late /\ ~init /\ due \in Nat
      BY <1>0, <1>1, Sizes DEF Pass
    <3>2. sendAge[i] <= Interval - 1 + due /\ sendAge[i] \in Nat
      BY <2>1, <3>a, <3>1 DEF SendInv, Age
    <3>3. sendAge'[i] = sendAge[i] + 1
      BY <2>1, <3>1, <3>2, Older, Sizes
    <3> QED BY <3>1, <3>2, <3>3, Sizes
  <2>6. AskedInv'
    BY <1>1, <2>1 DEF Pass, AskedInv, Asked
  <2> QED BY <2>2, <2>3, <2>4, <2>5, <2>6
<1>2. ASSUME NEW waiting, NEW unsent, OnTimer(waiting, unsent) PROVE AgesInv'
  <2> DEFINE p == PingServers(init, waiting, unsent)
  <2>1. /\ sendAge' = IF init THEN Spread ELSE p[1]
        /\ flight' = [i \in Server |-> flight[i] \cup IF i \in p[2] THEN {0} ELSE {}]
        /\ init' = FALSE /\ due' = 0
        /\ UNCHANGED <<playing, pingable, respAge, answered, wrapped>>
        /\ excused' \subseteq Server
    BY <1>0, <1>2 DEF OnTimer
  <2>2. /\ p[1] \in [Server -> Age] /\ p[2] \subseteq pingable
        /\ \A i \in pingable : \/ p[1][i] = 0 \/ p[1][i] = Spread[i]
                               \/ p[1][i] = sendAge[i] /\ p[1][i] < Interval /\ i \notin p[2]
    BY <1>0, PingServersFacts
  <2> HIDE DEF p
  <2>3. sendAge' \in [Server -> Age]
    BY <2>1, <2>2, SpreadTyped
  <2>4. AskedInv'
    BY <2>1, <2>2 DEF AskedInv, Asked
  <2>5. ASSUME NEW i \in Server, Asked(i)'
        PROVE  /\ sendAge'[i] \in Nat /\ sendAge'[i] <= Interval - 1
    <3>1. i \in pingable
      BY <2>1, <2>4, <2>5 DEF AskedInv
    <3> QED BY <2>1, <2>2, <2>3, <3>1, SpreadTyped, Sizes DEF Age
  <2>6. flight' \in [Server -> SUBSET (0 .. MaxRtt)]
    BY <1>0, <2>1, Sizes
  <2>7. FlightInv'
    <3> SUFFICES ASSUME NEW i \in Server, NEW b \in flight'[i] PROVE sendAge'[i] <= b + Interval - 1
      BY DEF FlightInv
    <3>1. b \in Nat
      BY <2>6, Sizes
    <3>2. Asked(i)'
      BY DEF Asked
    <3> QED BY <2>5, <3>1, <3>2, Sizes
  <2>8. Types'
    <3>1. due' \in 0 .. Late + 1
      BY <2>1, Sizes
    <3>2. init' \in BOOLEAN /\ UNCHANGED <<playing, pingable, respAge, answered, wrapped>>
          /\ excused' \subseteq Server
      BY <2>1
    <3> QED BY <1>0, <2>3, <2>6, <3>1, <3>2 DEF Types
  <2>9. WrapInv'
    BY <2>1 DEF WrapInv
  <2>10. SendInv'
    BY <2>1, <2>5, Sizes DEF SendInv
  <2> QED BY <2>4, <2>7, <2>8, <2>9, <2>10
<1>3. ASSUME NEW good \in BOOLEAN, UpdateFromMaster(good) PROVE AgesInv'
  <2>1. /\ sendAge' = (IF good THEN Spread ELSE sendAge) /\ init' = TRUE /\ due' = 0
        /\ excused' \subseteq Server
        /\ UNCHANGED <<playing, pingable, respAge, answered, flight, wrapped>>
    BY <1>0, <1>3 DEF UpdateFromMaster
  <2>2. FlightInv'
    <3> SUFFICES ASSUME NEW i \in Server, NEW a \in flight[i] PROVE sendAge'[i] <= a + Interval - 1
      BY <2>1 DEF FlightInv
    <3>1. a \in Nat
      BY <1>0, Sizes
    <3>2. Spread[i] \in 0 .. Interval - 1 /\ sendAge[i] <= a + Interval - 1
      BY SpreadTyped DEF FlightInv
    <3> QED BY <2>1, <3>1, <3>2, Sizes
  <2>3. due' \in 0 .. Late + 1 /\ sendAge' \in [Server -> Age]
    BY <1>0, <2>1, SpreadTyped, Sizes
  <2>4. Types'
    BY <1>0, <2>1, <2>3 DEF Types
  <2> QED BY <2>1, <2>2, <2>4 DEF WrapInv, AskedInv, Asked, SendInv
<1>4. ASSUME NEW i \in Server, NEW good \in BOOLEAN, DefaultPong(i, good) PROVE AgesInv'
  <2>1. PICK a \in flight[i] : flight' = [flight EXCEPT ![i] = @ \ {a}]
    BY <1>4 DEF DefaultPong
  <2>2. /\ respAge' = [respAge EXCEPT ![i] = 0] /\ wrapped' = wrapped \ {i}
        /\ answered' = (IF good /\ Ping(i) # -1 THEN answered \cup {i} ELSE answered \ {i})
        /\ excused' = (IF due > Late THEN excused ELSE excused \ {i})
        /\ UNCHANGED <<due, init, playing, pingable, sendAge>>
    BY <1>4 DEF DefaultPong
  <2>3. Types'
    <3>1. respAge' \in [Server -> Age]
      <4>1. 0 \in Age
        BY Sizes DEF Age
      <4> QED BY <1>0, <2>2, <4>1
    <3> QED BY <1>0, <2>1, <2>2, <3>1 DEF Types
  <2>4. FlightInv'
    BY <1>0, <2>1, <2>2 DEF FlightInv
  <2>5. WrapInv'
    BY <1>0, <2>2, Sizes DEF WrapInv
  <2>6. ASSUME NEW j \in Server, Asked(j)' PROVE Asked(j)
    <3>1. CASE j = i
      BY <2>1, <3>1 DEF Asked
    <3>2. CASE j # i
      BY <1>0, <2>1, <2>2, <2>6, <3>2 DEF Asked
    <3> QED BY <3>1, <3>2
  <2>7. AskedInv' /\ SendInv'
    BY <2>2, <2>6 DEF AskedInv, SendInv
  <2> QED BY <2>3, <2>4, <2>5, <2>7
<1>5. ASSUME NEW i \in Server, UptimePong(i) PROVE AgesInv'
  <2>1. /\ sendAge' = [sendAge EXCEPT ![i] = 0] /\ flight' = [flight EXCEPT ![i] = @ \cup {0}]
        /\ UNCHANGED <<due, init, playing, pingable, respAge, answered, wrapped, excused>>
    BY <1>5 DEF UptimePong
  <2>2. sendAge' \in [Server -> Age] /\ flight' \in [Server -> SUBSET (0 .. MaxRtt)]
    BY <1>0, <2>1, Sizes DEF Age
  <2>3. FlightInv'
    <3> SUFFICES ASSUME NEW j \in Server, NEW b \in flight'[j] PROVE sendAge'[j] <= b + Interval - 1
      BY DEF FlightInv
    <3>1. b \in Nat
      BY <2>2, Sizes
    <3>2. CASE j = i
      BY <1>0, <2>1, <3>1, <3>2, Sizes
    <3>3. CASE j # i
      BY <1>0, <2>1, <3>3 DEF FlightInv
    <3> QED BY <3>2, <3>3
  <2>4. ASSUME NEW j \in Server, Asked(j)' PROVE Asked(j)
    BY <1>0, <1>5, <2>1, <2>4 DEF UptimePong, Asked
  <2>5. AskedInv'
    BY <2>1, <2>4 DEF AskedInv
  <2>6. SendInv'
    <3> SUFFICES ASSUME NEW j \in Server, due <= Late, ~init, Asked(j)
                 PROVE  sendAge'[j] <= Interval - 1 + due
      BY <2>1, <2>4 DEF SendInv
    <3> QED BY <1>0, <2>1, Sizes DEF SendInv
  <2> QED BY <1>0, <2>1, <2>2, <2>3, <2>5, <2>6 DEF Types, WrapInv
<1>6. CASE Play \/ Select
  BY <1>6 DEF Play, Select, Types, FlightInv, WrapInv, AskedInv, Asked, SendInv
<1>7. ASSUME NEW i \in Server, OnResolveHost(i) PROVE AgesInv'
  BY <1>7 DEF OnResolveHost, Types, FlightInv, WrapInv, AskedInv, Asked, SendInv
<1>8. CASE UNCHANGED vars
  BY <1>8 DEF vars, Types, FlightInv, WrapInv, AskedInv, Asked, SendInv
<1> QED
  BY <1>1, <1>2, <1>3, <1>4, <1>5, <1>6, <1>7, <1>8 DEF Next, Shot

LEMMA InitHeard == Init => HeardFrom
<1> SUFFICES ASSUME Init PROVE HeardFrom
  OBVIOUS
<1> QED BY Sizes DEF Init, HeardFrom, HushInv, TurnInv, HeardInv, Asked

LEMMA StepHeard == AgesInv /\ HeardFrom /\ [Next]_vars => HeardFrom'
<1> SUFFICES ASSUME AgesInv, HeardFrom, [Next]_vars PROVE HeardFrom'
  OBVIOUS
<1> USE DEF timer, stamps
<1>0. /\ sendAge \in [Server -> Age] /\ respAge \in [Server -> Age]
      /\ flight \in [Server -> SUBSET (0 .. MaxRtt)] /\ due \in 0 .. Late + 1
      /\ pingable \subseteq Server /\ answered \subseteq Server
      /\ init \in BOOLEAN /\ HushInv /\ TurnInv /\ HeardInv /\ FlightInv /\ AskedInv /\ SendInv
  BY DEF AgesInv, Types, HeardFrom
<1>t. ASSUME NEW i \in Server
      PROVE  sendAge[i] \in Nat /\ respAge[i] \in Nat /\ flight[i] \subseteq 0 .. MaxRtt /\ due \in Nat
  BY <1>0, Sizes DEF Age
\* A server that was never answered, or not for long, has no answer to be old.
<1>h. ASSUME NEW i \in Server, ~Asked(i) PROVE flight[i] = {} /\ respAge[i] = 0
  BY <1>0, <1>h DEF Asked, HushInv
<1>1. CASE Pass
  <2>1. /\ due' = (IF due > Late THEN due ELSE due + 1) /\ init' = init /\ answered' = answered
        /\ excused \subseteq excused' /\ (due > Late => Server \subseteq excused')
    BY <1>1 DEF Pass
  <2>2. ASSUME NEW i \in Server
        PROVE  /\ sendAge'[i] = (sendAge[i] + 1) % Word
               /\ respAge'[i] = IF i \in answered THEN (respAge[i] + 1) % Word ELSE 0
               /\ flight'[i] = {a + 1 : a \in flight[i] \ {MaxRtt}}
               /\ i \notin excused' => MaxRtt \notin flight[i]
    BY <1>0, <1>1 DEF Pass
  <2>3. HushInv'
    BY <2>1, <2>2 DEF HushInv
  <2>f. FlightInv'
    BY StepAges DEF AgesInv
  <2>4. ASSUME NEW i \in Server, i \notin excused', Asked(i)
        PROVE  /\ due <= Late /\ due' = due + 1
               /\ sendAge'[i] = sendAge[i] + 1
               /\ i \in answered => respAge'[i] = respAge[i] + 1
    <3>1. due <= Late /\ i \notin excused
      BY <1>t, <2>1, <2>4, Sizes
    <3>2. \/ sendAge[i] <= Interval - 1 + due
          \/ respAge[i] <= due /\ sendAge[i] <= MaxRtt + Interval - 1 + respAge[i]
      BY <1>0, <2>4, <3>1 DEF TurnInv
    <3>3. sendAge[i] + 1 < Word
      BY <1>t, <3>1, <3>2, Sizes
    <3>4. sendAge'[i] = sendAge[i] + 1
      BY <1>0, <2>2, <3>3, Older
    <3>5. respAge[i] + 1 < Word
      <4>1. CASE flight[i] = {}
        <5>1. respAge[i] <= sendAge[i] \/ respAge[i] <= Interval - 1 + due
          BY <1>0, <3>1, <4>1 DEF HeardInv
        <5> QED BY <1>t, <3>1, <3>3, <5>1, Sizes
      <4>2. CASE flight[i] # {}
        <5>1. PICK a \in flight[i] : respAge[i] <= Interval + Late + a
          BY <1>0, <3>1, <4>2 DEF HeardInv
        <5> QED BY <1>t, <5>1, Sizes
      <4> QED BY <4>1, <4>2
    <3>6. i \in answered => respAge'[i] = respAge[i] + 1
      BY <1>0, <2>2, <3>5, Older
    <3> QED BY <1>t, <2>1, <3>1, <3>4, <3>6, Sizes
  <2>5. TurnInv'
    <3> SUFFICES ASSUME NEW i \in Server, i \notin excused', Asked(i)'
                 PROVE  \/ sendAge'[i] <= Interval - 1 + due'
                        \/ /\ init' /\ respAge'[i] <= due'
                           /\ sendAge'[i] <= MaxRtt + Interval - 1 + respAge'[i]
      BY DEF TurnInv
    <3>1. Asked(i) /\ i \notin excused
      BY <2>1, <2>2 DEF Asked
    <3>2. /\ due' = due + 1 /\ sendAge'[i] = sendAge[i] + 1
          /\ i \in answered => respAge'[i] = respAge[i] + 1
      BY <2>4, <3>1
    <3>3. CASE sendAge[i] <= Interval - 1 + due
      BY <1>t, <3>2, <3>3, Sizes
    <3>4. CASE init /\ respAge[i] <= due /\ sendAge[i] <= MaxRtt + Interval - 1 + respAge[i]
      <4>1. CASE i \in answered
        BY <1>t, <2>1, <3>2, <3>4, <4>1, Sizes
      <4>2. CASE i \notin answered
        <5>1. PICK b \in flight'[i] : TRUE
          BY <2>1, <4>2 DEF Asked
        <5>2. b \in 0 .. MaxRtt
          BY <2>2, <5>1, <1>t, Sizes
        <5>3. sendAge'[i] <= b + Interval - 1
          BY <2>f, <5>1 DEF FlightInv
        <5>4. respAge'[i] = 0
          BY <2>2, <4>2
        <5>5. sendAge'[i] <= MaxRtt + Interval - 1 + 0
          BY <1>t, <3>2, <5>2, <5>3, Sizes
        <5> QED BY <1>t, <2>1, <3>2, <3>4, <5>4, <5>5, Sizes
      <4> QED BY <4>1, <4>2
    <3> QED BY <1>0, <3>1, <3>3, <3>4 DEF TurnInv
  <2>6. HeardInv'
    <3> SUFFICES ASSUME NEW i \in Server, i \notin excused'
                 PROVE  IF flight'[i] = {}
                        THEN respAge'[i] <= sendAge'[i] \/ (init' /\ respAge'[i] <= Interval - 1 + due')
                        ELSE \E a \in flight'[i] : respAge'[i] <= Interval + Late + a
      BY DEF HeardInv
    <3>1. i \notin excused /\ MaxRtt \notin flight[i] /\ flight'[i] = {a + 1 : a \in flight[i]}
      BY <2>1, <2>2
    <3>2. CASE ~Asked(i)
      <4>1. flight'[i] = {} /\ respAge'[i] = 0
        BY <1>h, <2>2, <3>1, <3>2 DEF Asked
      <4>2. sendAge'[i] \in Nat
        BY <1>t, <2>2, Sizes
      <4> QED BY <4>1, <4>2
    <3>3. CASE Asked(i) /\ flight[i] = {}
      <4>1. /\ i \in answered /\ due' = due + 1 /\ sendAge'[i] = sendAge[i] + 1
            /\ respAge'[i] = respAge[i] + 1
        BY <2>4, <3>3 DEF Asked
      <4>2. respAge[i] <= sendAge[i] \/ (init /\ respAge[i] <= Interval - 1 + due)
        BY <1>0, <3>1, <3>3 DEF HeardInv
      <4>3. respAge'[i] <= sendAge'[i] \/ (init' /\ respAge'[i] <= Interval - 1 + due')
        BY <1>t, <2>1, <4>1, <4>2, Sizes
      <4>4. flight'[i] = {}
        BY <3>1, <3>3
      <4> QED BY <4>3, <4>4
    <3>4. CASE flight[i] # {}
      <4>1. PICK a \in flight[i] : respAge[i] <= Interval + Late + a
        BY <1>0, <3>1, <3>4 DEF HeardInv
      <4>2. a + 1 \in flight'[i] /\ a \in Nat
        BY <1>t, <3>1, <4>1, Sizes
      <4>3. respAge'[i] = 0 \/ respAge'[i] = respAge[i] + 1
        BY <2>2, <2>4, <3>4 DEF Asked
      <4>4. respAge'[i] <= Interval + Late + (a + 1)
        BY <1>t, <4>1, <4>2, <4>3, Sizes
      <4> QED BY <4>2, <4>4
    <3> QED BY <3>2, <3>3, <3>4
  <2> QED BY <2>3, <2>5, <2>6 DEF HeardFrom
<1>2. ASSUME NEW waiting, NEW unsent, OnTimer(waiting, unsent) PROVE HeardFrom'
  <2> DEFINE p == PingServers(init, waiting, unsent)
  <2>1. /\ sendAge' = IF init THEN Spread ELSE p[1]
        /\ flight' = [i \in Server |-> flight[i] \cup IF i \in p[2] THEN {0} ELSE {}]
        /\ excused' = excused \cup {i \in Server \ p[2] : sendAge'[i] < sendAge[i]}
        /\ init' = FALSE /\ due' = 0 /\ respAge' = respAge /\ answered' = answered
    BY <1>2 DEF OnTimer
  <2>2. /\ p[1] \in [Server -> Age] /\ p[2] \subseteq pingable /\ (init => p[2] = pingable)
        /\ \A i \in pingable : \/ p[1][i] = 0 \/ p[1][i] = Spread[i]
                               \/ p[1][i] = sendAge[i] /\ p[1][i] < Interval /\ i \notin p[2]
    BY <1>0, PingServersFacts
  <2> HIDE DEF p
  <2>3. ASSUME NEW i \in Server PROVE sendAge'[i] \in Nat
    BY <2>1, <2>2, SpreadTyped, Sizes DEF Age
  <2>4. TurnInv'
    <3> SUFFICES ASSUME NEW i \in Server, Asked(i)' PROVE sendAge'[i] <= Interval - 1 + due'
      BY DEF TurnInv
    <3>1. i \in pingable
      BY <1>0, <2>1, <2>2 DEF AskedInv, Asked
    <3>2. sendAge'[i] <= Interval - 1
      BY <2>1, <2>2, <3>1, SpreadTyped, Sizes DEF Age
    <3> QED BY <2>1, <2>3, <3>2, Sizes
  <2>5. HeardInv'
    <3> SUFFICES ASSUME NEW i \in Server, i \notin excused'
                 PROVE  IF flight'[i] = {} THEN respAge[i] <= sendAge'[i]
                        ELSE \E a \in flight'[i] : respAge[i] <= Interval + Late + a
      BY <2>1 DEF HeardInv
    <3>1. i \notin excused /\ flight'[i] = flight[i] \cup IF i \in p[2] THEN {0} ELSE {}
      BY <2>1
    <3>2. CASE flight[i] # {}
      BY <1>0, <3>1, <3>2 DEF HeardInv
    <3>3. CASE flight[i] = {} /\ i \in p[2]
      <4>1. flight'[i] = {0}
        BY <3>1, <3>3
      <4>2. respAge[i] <= Interval + Late + 0
        <5>1. CASE ~Asked(i)
          BY <1>h, <5>1, Sizes
        <5>2. CASE Asked(i)
          <6>1. respAge[i] <= sendAge[i] \/ respAge[i] <= Interval - 1 + due
            BY <1>0, <3>1, <3>3 DEF HeardInv
          <6>2. sendAge[i] <= Interval - 1 + due \/ respAge[i] <= due
            BY <1>0, <3>1, <5>2 DEF TurnInv
          <6> QED BY <1>0, <1>t, <6>1, <6>2, Sizes
        <5> QED BY <5>1, <5>2
      <4> QED BY <4>1, <4>2
    <3>4. CASE flight[i] = {} /\ i \notin p[2]
      <4>1. flight'[i] = {}
        BY <3>1, <3>4
      <4>2. respAge[i] <= sendAge'[i]
        <5>1. CASE ~Asked(i)
          BY <1>h, <2>3, <5>1, Sizes
        <5>2. CASE Asked(i)
          <6>1. ~init
            BY <1>0, <2>2, <3>4, <5>2 DEF AskedInv
          <6>2. respAge[i] <= sendAge[i]
            BY <1>0, <3>1, <3>4, <6>1 DEF HeardInv
          <6>3. ~(sendAge'[i] < sendAge[i])
            BY <2>1, <3>4
          <6> QED BY <1>t, <2>3, <6>2, <6>3
        <5> QED BY <5>1, <5>2
      <4> QED BY <4>1, <4>2
    <3> QED BY <3>2, <3>3, <3>4
  <2>6. HushInv'
    BY <1>0, <2>1 DEF HushInv
  <2> QED BY <2>4, <2>5, <2>6 DEF HeardFrom
<1>3. ASSUME NEW good \in BOOLEAN, UpdateFromMaster(good) PROVE HeardFrom'
  <2>1. /\ sendAge' = (IF good THEN Spread ELSE sendAge) /\ init' = TRUE /\ due' = 0
        /\ excused' = (IF due = 0 THEN excused ELSE Server)
        /\ UNCHANGED <<respAge, answered, flight>>
    BY <1>3 DEF UpdateFromMaster
  <2>2. HushInv'
    BY <1>0, <2>1 DEF HushInv
  <2>3. ASSUME NEW i \in Server, i \notin excused', Asked(i)
        PROVE  \/ sendAge'[i] <= Interval - 1
               \/ respAge[i] <= 0 /\ sendAge'[i] <= MaxRtt + Interval - 1 + respAge[i]
    <3>1. i \notin excused /\ due = 0
      BY <2>1, <2>3
    <3>2. CASE good
      BY <2>1, <3>2, SpreadTyped, Sizes
    <3>3. CASE ~good
      BY <1>0, <1>t, <2>1, <2>3, <3>1, <3>3, Sizes DEF TurnInv
    <3> QED BY <3>2, <3>3
  <2>4. TurnInv'
    <3> SUFFICES ASSUME NEW i \in Server, i \notin excused', Asked(i)
                 PROVE  \/ sendAge'[i] <= Interval - 1 + 0
                        \/ respAge[i] <= 0 /\ sendAge'[i] <= MaxRtt + Interval - 1 + respAge[i]
      BY <2>1 DEF TurnInv, Asked
    <3> QED BY <2>3, Sizes
  <2>5. HeardInv'
    <3> SUFFICES ASSUME NEW i \in Server, i \notin excused'
                 PROVE  IF flight[i] = {} THEN respAge[i] <= Interval - 1 + 0
                        ELSE \E a \in flight[i] : respAge[i] <= Interval + Late + a
      BY <2>1 DEF HeardInv
    <3>1. i \notin excused /\ due = 0
      BY <2>1
    <3>2. CASE flight[i] # {}
      BY <1>0, <3>1, <3>2 DEF HeardInv
    <3>3. CASE flight[i] = {}
      <4>1. CASE ~Asked(i)
        BY <1>h, <3>3, <4>1, Sizes
      <4>2. CASE Asked(i)
        <5>1. respAge[i] <= sendAge[i] \/ respAge[i] <= Interval - 1 + due
          BY <1>0, <3>1, <3>3 DEF HeardInv
        <5>2. sendAge[i] <= Interval - 1 + due \/ respAge[i] <= due
          BY <1>0, <3>1, <4>2 DEF TurnInv
        <5>3. respAge[i] <= Interval - 1 + 0
          BY <1>t, <3>1, <5>1, <5>2, Sizes
        <5> QED BY <3>3, <5>3
      <4> QED BY <4>1, <4>2
    <3> QED BY <3>2, <3>3
  <2> QED BY <2>2, <2>4, <2>5 DEF HeardFrom
<1>4. ASSUME NEW i \in Server, NEW good \in BOOLEAN, DefaultPong(i, good) PROVE HeardFrom'
  <2>1. PICK a \in flight[i] : flight' = [flight EXCEPT ![i] = @ \ {a}]
    BY <1>4 DEF DefaultPong
  <2>2. /\ respAge' = [respAge EXCEPT ![i] = 0]
        /\ answered' = (IF good /\ Ping(i) # -1 THEN answered \cup {i} ELSE answered \ {i})
        /\ excused' = (IF due > Late THEN excused ELSE excused \ {i})
        /\ due' = due /\ init' = init /\ sendAge' = sendAge
    BY <1>4 DEF DefaultPong
  <2>3. HushInv'
    BY <1>0, <2>2 DEF HushInv
  <2>4. TurnInv'
    <3> SUFFICES ASSUME NEW j \in Server, j \notin excused', Asked(j)'
                 PROVE  \/ sendAge[j] <= Interval - 1 + due
                        \/ /\ init /\ respAge'[j] <= due
                           /\ sendAge[j] <= MaxRtt + Interval - 1 + respAge'[j]
      BY <2>2 DEF TurnInv
    <3>1. CASE j # i
      <4>1. Asked(j) /\ j \notin excused /\ respAge'[j] = respAge[j]
        BY <1>0, <2>1, <2>2, <3>1 DEF Asked
      <4> QED BY <1>0, <4>1 DEF TurnInv
    <3>2. CASE j = i /\ init
      <4>1. sendAge[i] <= a + Interval - 1 /\ a \in 0 .. MaxRtt /\ respAge'[i] = 0
        BY <1>0, <2>1, <2>2 DEF FlightInv
      <4>2. sendAge[i] <= MaxRtt + Interval - 1 + 0
        BY <1>t, <4>1, Sizes
      <4> QED BY <1>t, <3>2, <4>1, <4>2, Sizes
    <3>3. CASE j = i /\ ~init
      <4>1. Asked(i)
        BY <2>1 DEF Asked
      <4>2. CASE due <= Late
        BY <1>0, <3>3, <4>1, <4>2 DEF SendInv
      <4>3. CASE ~(due <= Late)
        <5>1. i \notin excused
          BY <1>t, <2>2, <3>3, <4>3, Sizes
        <5> QED BY <1>0, <3>3, <4>1, <5>1 DEF TurnInv
      <4> QED BY <4>2, <4>3
    <3> QED BY <3>1, <3>2, <3>3
  <2>5. HeardInv'
    <3> SUFFICES ASSUME NEW j \in Server, j \notin excused'
                 PROVE  IF flight'[j] = {}
                        THEN respAge'[j] <= sendAge[j] \/ (init /\ respAge'[j] <= Interval - 1 + due)
                        ELSE \E b \in flight'[j] : respAge'[j] <= Interval + Late + b
      BY <2>2 DEF HeardInv
    <3>1. CASE j = i
      <4>1. respAge'[j] = 0 /\ flight'[j] \subseteq flight[i]
        BY <1>0, <2>1, <2>2, <3>1
      <4>2. \A b \in flight'[j] : 0 <= Interval + Late + b
        BY <1>t, <4>1, Sizes
      <4> QED BY <1>t, <4>1, <4>2
    <3>2. CASE j # i
      <4>1. respAge'[j] = respAge[j] /\ flight'[j] = flight[j] /\ j \notin excused
        BY <1>0, <2>1, <2>2, <3>2
      <4> QED BY <1>0, <4>1 DEF HeardInv
    <3> QED BY <3>1, <3>2
  <2> QED BY <2>3, <2>4, <2>5 DEF HeardFrom
<1>5. ASSUME NEW i \in Server, UptimePong(i) PROVE HeardFrom'
  <2>1. /\ sendAge' = [sendAge EXCEPT ![i] = 0] /\ flight' = [flight EXCEPT ![i] = @ \cup {0}]
        /\ UNCHANGED <<due, init, respAge, answered, excused>> /\ flight[i] # {}
    BY <1>5 DEF UptimePong
  <2>2. TurnInv'
    <3> SUFFICES ASSUME NEW j \in Server, j \notin excused, Asked(j)'
                 PROVE  \/ sendAge'[j] <= Interval - 1 + due
                        \/ /\ init /\ respAge[j] <= due
                           /\ sendAge'[j] <= MaxRtt + Interval - 1 + respAge[j]
      BY <2>1 DEF TurnInv
    <3>1. CASE j = i
      BY <1>0, <1>t, <2>1, <3>1, Sizes
    <3>2. CASE j # i
      <4>1. Asked(j) /\ sendAge'[j] = sendAge[j]
        BY <1>0, <2>1, <3>2 DEF Asked
      <4> QED BY <1>0, <4>1 DEF TurnInv
    <3> QED BY <3>1, <3>2
  <2>3. HeardInv'
    <3> SUFFICES ASSUME NEW j \in Server, j \notin excused
                 PROVE  IF flight'[j] = {}
                        THEN respAge[j] <= sendAge'[j] \/ (init /\ respAge[j] <= Interval - 1 + due)
                        ELSE \E b \in flight'[j] : respAge[j] <= Interval + Late + b
      BY <2>1 DEF HeardInv
    <3>1. CASE j = i
      <4>1. flight[j] # {} /\ flight'[j] = flight[j] \cup {0}
        BY <1>0, <2>1, <3>1
      <4> QED BY <1>0, <4>1 DEF HeardInv
    <3>2. CASE j # i
      BY <1>0, <2>1, <3>2 DEF HeardInv
    <3> QED BY <3>1, <3>2
  <2>4. HushInv'
    BY <1>0, <2>1 DEF HushInv
  <2> QED BY <2>2, <2>3, <2>4 DEF HeardFrom
<1>6. CASE Play
  BY <1>0, <1>6 DEF Play, HeardFrom, HushInv, TurnInv, HeardInv, Asked
<1>7. CASE Select
  <2>1. init' = TRUE /\ UNCHANGED <<due, sendAge, respAge, answered, flight, excused>>
    BY <1>7 DEF Select
  <2>2. HushInv' /\ TurnInv'
    BY <1>0, <2>1 DEF HushInv, TurnInv, Asked
  <2>3. HeardInv'
    BY <1>0, <2>1 DEF HeardInv
  <2> QED BY <2>2, <2>3 DEF HeardFrom
<1>8. ASSUME NEW i \in Server, OnResolveHost(i) PROVE HeardFrom'
  BY <1>0, <1>8 DEF OnResolveHost, HeardFrom, HushInv, TurnInv, HeardInv, Asked
<1>9. CASE UNCHANGED vars
  BY <1>0, <1>9 DEF vars, HeardFrom, HushInv, TurnInv, HeardInv, Asked
<1> QED
  BY <1>1, <1>2, <1>3, <1>4, <1>5, <1>6, <1>7, <1>8, <1>9 DEF Next, Shot

\* A difference that is negative, but by less than half a word, is read as negative.
LEMMA SignedNegative ==
  ASSUME NEW d \in Int, -Half < d, d < 0
  PROVE  Signed(d) = d
<1>1. d + Word \in 0 .. Word - 1 /\ (d + Word) % Word = d + Word
  BY Sizes
<1>2. d % Word = (d + Word) % Word
  BY Sizes
<1>3. ~(d % Word < Half)
  BY <1>1, <1>2, Sizes
<1> QED BY <1>1, <1>2, <1>3, Sizes DEF Signed, Half

LEMMA HeardAreShown == AgesInv /\ HeardFrom => AnsweringShown
<1> SUFFICES ASSUME AgesInv, HeardFrom, NEW i \in answered \ excused
             PROVE  PingOk(i)
  BY DEF AnsweringShown
<1>1. /\ sendAge[i] \in Nat /\ respAge[i] \in Nat /\ due \in 0 .. Late + 1
      /\ flight[i] \subseteq 0 .. MaxRtt /\ i \in Server
  BY Sizes DEF AgesInv, Types, Age
<1>2. sendAge[i] - respAge[i] <= 2 * Interval + Late
  <2>1. \/ sendAge[i] <= Interval - 1 + due
        \/ sendAge[i] <= MaxRtt + Interval - 1 + respAge[i]
    BY <1>1 DEF HeardFrom, TurnInv, Asked
  <2> QED BY <1>1, <2>1, Sizes
<1>3. respAge[i] - sendAge[i] < 2 * Interval
  <2>1. CASE flight[i] = {}
    <3>1. respAge[i] <= sendAge[i] \/ respAge[i] <= Interval - 1 + due
      BY <1>1, <2>1 DEF HeardFrom, HeardInv
    <3> QED BY <1>1, <3>1, Sizes
  <2>2. CASE flight[i] # {}
    <3>1. PICK a \in flight[i] : respAge[i] <= Interval + Late + a
      BY <1>1, <2>2 DEF HeardFrom, HeardInv
    <3> QED BY <1>1, <3>1, Sizes
  <2> QED BY <2>1, <2>2
<1> DEFINE d == respAge[i] - sendAge[i]
<1>4. d \in Int /\ -Half < d /\ d < 2 * Interval /\ d < Half
  BY <1>1, <1>2, <1>3, Sizes
<1> HIDE DEF d
<1>5. Signed(d) = d
  <2>1. CASE d < 0
    BY <1>4, <2>1, SignedNegative
  <2>2. CASE d >= 0
    BY <1>4, <2>2, SignedSmall, Sizes
  <2> QED BY <1>4, <2>1, <2>2
<1> QED BY <1>4, <1>5 DEF PingOk, d

-----------------------------------------------------------------------------
(* The theorems.                                                           *)

\* Ages stay ages, and the ping that an answer gives is never negative and longer than the
\* answer took by less than an interval.
THEOREM TypeCorrect == Spec => []TypeOK
<1>1. AgesInv => TypeOK
  <2> SUFFICES ASSUME AgesInv PROVE TypeOK
    OBVIOUS
  <2>1. ASSUME NEW i \in Server, flight[i] # {} PROVE Ping(i) \in 0 .. MaxRtt + Interval - 1
    <3>1. PICK a \in flight[i] : TRUE
      BY <2>1
    <3>2. a \in 0 .. MaxRtt /\ sendAge[i] \in Age /\ sendAge[i] <= a + Interval - 1
      BY DEF AgesInv, Types, FlightInv
    <3> QED BY <3>2, PingRange DEF Ping
  <2> QED BY <2>1 DEF AgesInv, Types, TypeOK
<1> QED BY <1>1, InitAges, StepAges, PTL DEF Spec

\* A server that has been silent for three intervals is not shown as answering, until its
\* silence reaches half of what a tick count holds.
THEOREM DeadAreNoticed == Spec => []DeadNoticed
<1>1. AgesInv => DeadNoticed
  <2> SUFFICES ASSUME AgesInv, due <= Late, ~init, NEW i \in Server \ wrapped,
                      respAge[i] > 3 * Interval + Late, i \in answered
               PROVE  ~PingOk(i)
    BY DEF DeadNoticed, PingOk
  <2>1. sendAge[i] \in Nat /\ respAge[i] \in Nat /\ due \in Nat
    BY Sizes DEF AgesInv, Types, Age
  <2>2. sendAge[i] <= Interval - 1 + due /\ respAge[i] < Half
    BY DEF AgesInv, SendInv, WrapInv, Asked
  <2>3. respAge[i] - sendAge[i] \in 0 .. Half - 1 /\ respAge[i] - sendAge[i] >= 2 * Interval
    BY <2>1, <2>2, Sizes
  <2>4. Signed(respAge[i] - sendAge[i]) = respAge[i] - sendAge[i]
    BY <2>3, SignedSmall
  <2> QED BY <2>1, <2>3, <2>4, Sizes DEF PingOk
<1> QED BY <1>1, InitAges, StepAges, PTL DEF Spec

\* What is shown of a server agrees with its answers: one that has lost neither an answer
\* nor its turn since its last is shown as answering, one that is silent is not.
THEOREM ShownAgrees == Spec => []AnswersShown
<1>1. Init => AgesInv /\ HeardFrom
  BY InitAges, InitHeard
<1>2. AgesInv /\ HeardFrom /\ [Next]_vars => AgesInv' /\ HeardFrom'
  BY StepAges, StepHeard
<1>3. Spec => []AnsweringShown
  BY <1>1, <1>2, HeardAreShown, PTL DEF Spec
<1> QED BY <1>3, DeadAreNoticed, PTL DEF AnswersShown
=============================================================================
