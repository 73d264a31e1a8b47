----------------------------- MODULE ExtInfoProofs -----------------------------
(***************************************************************************)
(* The table of a server's players, for every set of client numbers and    *)
(* any network: what the list shows is complete, no player has two rows,   *)
(* and the table never waits for rows of nobody.  The last is proved first *)
(* and by itself: it needs nothing of what the datagrams contain, and so   *)
(* holds also of a server that announces a number twice.                   *)
(***************************************************************************)
EXTENDS ExtInfo, SequenceTheorems, FiniteSetTheorems, WellFoundedInduction, TLAPS

-----------------------------------------------------------------------------
(* The methods of CslPlayerStats.                                          *)

\* A table has the two fields that matter, and waits only if it expects someone.
IsTable(t) == {"status", "ids"} \subseteq DOMAIN t
Waits(t)   == t.status = "need_stats" => t.ids # <<>>
Sound(t)   == IsTable(t) /\ Waits(t)

\* Reset leaves a table that takes a list.
LEMMA ResetSound == \A t : Sound(Reset(t))
BY DEF Sound, IsTable, Waits, Reset

\* SetWaitForStats makes any table sound.
LEMMA WaitSound == \A t : IsTable(t) => Sound(SetWaitForStats(t))
BY DEF Sound, IsTable, Waits, SetWaitForStats

\* An announced list is taken or refused; in either case the table is sound.
LEMMA AddIdsSound == \A t, list : IsTable(t) => Sound(AddIds(t, list))
<1> SUFFICES ASSUME NEW t, NEW list, IsTable(t) PROVE Sound(AddIds(t, list))
  OBVIOUS
<1>1. IsTable([t EXCEPT !.ids = t.ids \o list])
  BY DEF IsTable
<1>2. \A u : IsTable(Reset(u))
  BY DEF Reset, IsTable
<1>3. PICK u : AddIds(t, list) = SetWaitForStats(u) /\ IsTable(u)
  BY <1>1, <1>2 DEF AddIds
<1> QED BY <1>3, WaitSound

\* An id that is removed is the last, or others are left.
LEMMA RemoveIdSound == \A t, id : Sound(t) => Sound(RemoveId(t, id))
<1> SUFFICES ASSUME NEW t, NEW id, Sound(t) PROVE Sound(RemoveId(t, id))
  OBVIOUS
<1>1. CASE id \notin Members(t.ids)
  BY <1>1 DEF RemoveId
<1>2. CASE id \in Members(t.ids)
  <2>1. PICK left : RemoveId(t, id) =
          [t EXCEPT !.ids = left, !.status = IF left = <<>> THEN "need_ids" ELSE @]
    BY <1>2 DEF RemoveId
  <2> QED BY <2>1 DEF Sound, IsTable, Waits
<1> QED BY <1>1, <1>2

\* A row that is taken is no longer expected.
LEMMA AddStatsSound == \A t, id : Sound(t) => Sound(AddStats(t, id))
<1> SUFFICES ASSUME NEW t, NEW id, Sound(t) PROVE Sound(AddStats(t, id))
  OBVIOUS
<1>1. PICK r : AddStats(t, id) = [RemoveId(t, id) EXCEPT !.rows = r]
  BY DEF AddStats
<1>2. Sound(RemoveId(t, id))
  BY RemoveIdSound
<1> QED BY <1>1, <1>2 DEF Sound, IsTable, Waits

-----------------------------------------------------------------------------
(* The protocol.                                                           *)

\* Every datagram leaves a sound table.
LEMMA PongSound ==
  ASSUME Sound(table), NEW m,
         PongError(m) \/ PongIds(m) \/ PongIdsAgain(m) \/ PongStats(m) \/ PongGarbled(m)
  PROVE  Sound(table')
<1>1. CASE PongError(m)
  <2>1. table' = RemoveId(table, m.rid)
    BY <1>1 DEF PongError, Becomes
  <2> QED BY <2>1, RemoveIdSound
<1>2. CASE PongIds(m)
  <2>1. table' = SetWaitForStats(table) \/ table' = AddIds(table, m.list)
    BY <1>2 DEF PongIds, Becomes
  <2> QED BY <2>1, WaitSound, AddIdsSound DEF Sound
<1>3. CASE PongIdsAgain(m)
  <2>1. table' = SetWaitForStats(table) \/ table' = table
    BY <1>3 DEF PongIdsAgain, Becomes
  <2> QED BY <2>1, WaitSound DEF Sound
<1>4. CASE PongStats(m)
  <2>1. table' = AddStats(table, m.id) \/ table' = Reset(table)
    BY <1>4 DEF PongStats, Becomes
  <2> QED BY <2>1, AddStatsSound, ResetSound
<1>5. CASE PongGarbled(m)
  <2>1. table' = table \/ table' = Reset(table)
    BY <1>5 DEF PongGarbled, Becomes
  <2> QED BY <2>1, ResetSound
<1> QED BY <1>1, <1>2, <1>3, <1>4, <1>5

\* Every step leaves a sound table.
LEMMA StepSound == Sound(table) /\ [Next]_vars => Sound(table)'
<1> SUFFICES ASSUME Sound(table), [Next]_vars PROVE Sound(table')
  OBVIOUS
<1>1. CASE Roster \/ CalmDown \/ Resend \/ UptimePong \/ GuiPong \/ UNCHANGED vars
  <2>1. table' = table
    BY <1>1 DEF Roster, CalmDown, Resend, UptimePong, GuiPong, vars
  <2> QED BY <2>1
<1>2. CASE PingTimeout \/ \E force \in BOOLEAN : PingList(force)
  <2>1. table' = Reset(table)
    BY <1>2 DEF PingTimeout, PingList
  <2> QED BY <2>1, ResetSound
<1>3. CASE Pong
  BY <1>3, PongSound DEF Pong
<1> QED BY <1>1, <1>2, <1>3 DEF Next

\* The table never waits for rows while it expects none, after which it would take
\* no list and post no notice again (CslExtendedInfo.cpp).
THEOREM NeverWedged == Spec => []Awaited
<1>1. Init => Sound(table)
  BY DEF Init, NewTable, Sound, IsTable, Waits
<1>2. Sound(table) => Awaited
  BY DEF Sound, Waits, Awaited
<1> QED BY <1>1, <1>2, StepSound, PTL DEF Spec
-----------------------------------------------------------------------------
(* The inductive invariants.                                               *)

\* The rows in use come before the free ones.
Compact(rows) ==
  \A i, j \in 1..Len(rows) : i < j /\ rows[j] # FreeRow => rows[i] # FreeRow

\* No player has two rows.
RowsOnce(rows) ==
  \A i, j \in 1..Len(rows) : rows[i] = rows[j] /\ i # j => rows[i] = FreeRow

GoodTable(t) == t \in Table /\ Distinct(t.ids) /\ Compact(t.rows)

IsList(m) == m.kind = "ids" /\ m.rid = NoRid

\* A list names nobody twice.
GoodMsg(m) == m \in Msg /\ (m.kind = "ids" => Distinct(m.list))

\* Holds of the network's answers however slow it is.
TableInv ==
  /\ slow \in BOOLEAN /\ calm \in BOOLEAN /\ fresh \in BOOLEAN
  /\ notice \in BOOLEAN /\ clean \in BOOLEAN
  /\ ext \in {"error", "false", "ok"}
  /\ roster \subseteq Players /\ announced \subseteq Players
  /\ shown.rows \subseteq Players /\ shown.whole \subseteq Players
  /\ GoodTable(table)
  /\ net \in Seq(Msg) /\ \A m \in Members(net) : GoodMsg(m)

\* The answers under way are those of one request: of a list, there is one; nobody
\* is both reported gone and described.
OneRound(ms) ==
  /\ \A i, j \in 1..Len(ms) : IsList(ms[i]) /\ IsList(ms[j]) => i = j
  /\ \A i, j \in 1..Len(ms) : IsList(ms[i]) => ms[j].rid = NoRid
  /\ \A i, j \in 1..Len(ms) : ms[i].kind = "error" /\ ms[j].kind = "stats" => ms[i].rid # ms[j].id

\* Before its list has come nothing of a round has.
ListFirst ==
  (\E m \in Members(net) : IsList(m)) =>
    /\ table.status = "need_ids" /\ Filled(table) = {} /\ ~notice
    /\ clean => table.ids = <<>>

\* In a clean round whoever was announced is expected, or has a row, or was reported gone.
Accounted ==
  clean => /\ announced = Members(table.ids) \cup Filled(table)
           /\ notice => table.ids = <<>>
           /\ \A m \in Members(net) : m.kind = "error" => m.rid \notin Filled(table)

RoundInv ==
  ~slow => /\ Members(table.ids) \cap Filled(table) = {}
           /\ RowsOnce(table.rows) /\ Len(table.rows) <= Cardinality(Players)
           /\ OneRound(net) /\ ListFirst /\ Accounted
           /\ shown.rows = shown.whole

-----------------------------------------------------------------------------
(* Sequences.                                                              *)

LEMMA SeqTypes ==
  ASSUME NEW S, NEW s \in Seq(S)
  PROVE  /\ Len(s) \in Nat /\ DOMAIN s = 1..Len(s)
         /\ \A i \in 1..Len(s) : s[i] \in S
         /\ Members(s) \subseteq S
BY LenProperties, ElementOfSeq DEF Members

\* What vector::remove leaves: the elements, without one and in their order.
Removed(u, s, i) ==
  /\ Len(u) = Len(s) - 1
  /\ \A k \in 1..Len(u) : u[k] = IF k < i THEN s[k] ELSE s[k + 1]

LEMMA WithoutProperties ==
  ASSUME NEW S, NEW s \in Seq(S), NEW i \in 1..Len(s)
  PROVE  Without(s, i) \in Seq(S) /\ Removed(Without(s, i), s, i)
<1> DEFINE a == SubSeq(s, 1, i - 1)
           b == SubSeq(s, i + 1, Len(s))
<1>1. Len(s) \in Nat /\ \A k \in 1..Len(s) : s[k] \in S
  BY SeqTypes
<1>2. a \in Seq(S) /\ Len(a) = i - 1 /\ \A k \in 1..(i - 1) : a[k] = s[k]
  <2>1. \A k \in 1..(i - 1) : s[k] \in S
    BY <1>1
  <2>2. QED
    BY <1>1, <2>1, SubSeqProperties
<1>3. b \in Seq(S) /\ Len(b) = Len(s) - i /\ \A k \in 1..(Len(s) - i) : b[k] = s[k + i]
  <2>1. \A k \in (i + 1)..Len(s) : s[k] \in S
    BY <1>1
  <2>2. /\ b \in Seq(S) /\ Len(b) = (IF i + 1 <= Len(s) THEN Len(s) - (i + 1) + 1 ELSE 0)
        /\ \A k \in 1..(Len(s) - (i + 1) + 1) : b[k] = s[(i + 1) + k - 1]
    BY <1>1, <2>1, SubSeqProperties
  <2> HIDE DEF b
  <2>3. QED
    BY <1>1, <2>2
<1> HIDE DEF a, b
<1>4. /\ a \o b \in Seq(S) /\ Len(a \o b) = Len(a) + Len(b)
      /\ \A k \in 1..(Len(a) + Len(b)) : (a \o b)[k] = IF k <= Len(a) THEN a[k] ELSE b[k - Len(a)]
  BY <1>2, <1>3, ConcatProperties
<1> DEFINE u == a \o b
<1>5. Without(s, i) = u
  BY DEF Without, a, b
<1> HIDE DEF u
<1>6. u \in Seq(S) /\ Len(u) = Len(s) - 1
  BY <1>1, <1>2, <1>3, <1>4 DEF u
<1>7. ASSUME NEW k \in 1..Len(u) PROVE u[k] = IF k < i THEN s[k] ELSE s[k + 1]
  <2>1. k \in 1..(Len(a) + Len(b)) /\ k \in Int
    BY <1>1, <1>2, <1>3, <1>6
  <2>2. u[k] = IF k <= i - 1 THEN a[k] ELSE b[k - (i - 1)]
    BY <1>2, <1>4, <2>1 DEF u
  <2>3. CASE k < i
    BY <1>1, <1>2, <2>1, <2>2, <2>3
  <2>4. CASE k >= i
    <3>1. k - (i - 1) \in 1..(Len(s) - i) /\ k - (i - 1) + i = k + 1 /\ ~(k <= i - 1)
      BY <1>1, <1>6, <2>1, <2>4
    <3>2. b[k - (i - 1)] = s[k - (i - 1) + i]
      BY <1>3, <3>1
    <3>3. QED
      BY <2>1, <2>2, <2>4, <3>1, <3>2
  <2>5. QED
    BY <1>1, <2>1, <2>3, <2>4
<1>8. QED
  BY <1>5, <1>6, <1>7 DEF Removed

\* What is left was there.
LEMMA RemovedMembers ==
  ASSUME NEW S, NEW s \in Seq(S), NEW i \in 1..Len(s), NEW u \in Seq(S), Removed(u, s, i)
  PROVE  /\ Members(u) \subseteq Members(s)
         /\ Distinct(s) => Distinct(u) /\ Members(u) = Members(s) \ {s[i]}
<1> DEFINE At(k) == IF k < i THEN k ELSE k + 1
<1>1. Len(s) \in Nat /\ Len(u) \in Nat /\ i \in Nat
  BY SeqTypes
<1>2. \A k \in 1..Len(u) : At(k) \in 1..Len(s) /\ u[k] = s[At(k)] /\ At(k) # i
  BY <1>1 DEF Removed
<1>3. \A j, k \in 1..Len(u) : At(j) = At(k) => j = k
  BY <1>1
<1>4. \A j \in 1..Len(s) : j # i => \E k \in 1..Len(u) : At(k) = j
  <2>1. SUFFICES ASSUME NEW j \in 1..Len(s), j # i PROVE \E k \in 1..Len(u) : At(k) = j
    OBVIOUS
  <2>2. CASE j < i
    <3>1. j \in 1..Len(u) /\ At(j) = j
      BY <1>1, <2>2 DEF Removed
    <3>2. QED
      BY <3>1
  <2>3. CASE j > i
    <3>1. j - 1 \in 1..Len(u) /\ At(j - 1) = j
      BY <1>1, <2>3 DEF Removed
    <3>2. QED
      BY <3>1
  <2>4. QED
    BY <1>1, <2>1, <2>2, <2>3
<1> HIDE DEF At
<1>5. Members(u) \subseteq Members(s)
  BY <1>2 DEF Members
<1>6. ASSUME Distinct(s) PROVE Distinct(u) /\ Members(u) = Members(s) \ {s[i]}
  <2>1. Distinct(u)
    <3>1. SUFFICES ASSUME NEW j \in 1..Len(u), NEW k \in 1..Len(u), u[j] = u[k] PROVE j = k
      BY DEF Distinct
    <3>2. At(j) = At(k)
      BY <1>2, <1>6, <3>1 DEF Distinct
    <3>3. QED
      BY <1>3, <3>2
  <2>2. s[i] \notin Members(u)
    <3>1. \A k \in 1..Len(u) : u[k] # s[i]
      BY <1>2, <1>6 DEF Distinct
    <3>2. QED
      BY <3>1 DEF Members
  <2>3. ASSUME NEW j \in 1..Len(s), s[j] # s[i] PROVE s[j] \in Members(u)
    <3>1. PICK k \in 1..Len(u) : At(k) = j
      BY <1>4, <2>3
    <3>2. QED
      BY <1>2, <3>1 DEF Members
  <2>4. QED
    BY <1>5, <2>1, <2>2, <2>3 DEF Members
<1>7. QED
  BY <1>5, <1>6

\* A set of naturals that is not empty has a least element.
LEMMA Least ==
  ASSUME NEW T, T \subseteq Nat, T # {}
  PROVE  \E x \in T : \A y \in T : x <= y
<1>1. PICK x \in T : \A y \in T : ~(<<y, x>> \in OpToRel(<, Nat))
  BY NatLessThanWellFounded, WFMin
<1>2. ASSUME NEW y \in T, y < x PROVE FALSE
  <2>1. <<y, x>> \in OpToRel(<, Nat)
    BY <1>2 DEF OpToRel
  <2>2. QED
    BY <1>1, <2>1
<1>3. \A y \in T : x <= y
  BY <1>2
<1>4. QED
  BY <1>3

LEMMA SubSeqKeeps ==
  ASSUME NEW S, NEW s \in Seq(S), NEW m \in Nat \ {0}, NEW n \in 0..Len(s)
  PROVE  /\ SubSeq(s, m, n) \in Seq(S)
         /\ \A e \in Members(SubSeq(s, m, n)) : \E i \in m..n : e = s[i]
         /\ Members(SubSeq(s, m, n)) \subseteq Members(s)
         /\ Distinct(s) => Distinct(SubSeq(s, m, n))
<1> DEFINE u == SubSeq(s, m, n)
<1>1. Len(s) \in Nat /\ \A k \in 1..Len(s) : s[k] \in S
  BY SeqTypes
<1>2. /\ u \in Seq(S) /\ Len(u) = (IF m <= n THEN n - m + 1 ELSE 0)
      /\ \A k \in 1..(n - m + 1) : u[k] = s[m + k - 1]
  <2>1. \A k \in m..n : s[k] \in S
    BY <1>1
  <2>2. QED
    BY <1>1, <2>1, SubSeqProperties
<1> HIDE DEF u
<1>3. \A k \in 1..Len(u) : m + k - 1 \in m..n /\ m + k - 1 \in 1..Len(s) /\ u[k] = s[m + k - 1]
  BY <1>1, <1>2
<1>4. \A e \in Members(u) : \E i \in m..n : i \in 1..Len(s) /\ e = s[i]
  BY <1>3 DEF Members
<1>5. ASSUME Distinct(s), NEW j \in 1..Len(u), NEW k \in 1..Len(u), u[j] = u[k] PROVE j = k
  <2>1. m + j - 1 = m + k - 1
    BY <1>3, <1>5 DEF Distinct
  <2>2. QED
    BY <1>1, <1>2, <2>1
<1>6. Distinct(s) => Distinct(u)
  BY <1>5 DEF Distinct
<1>7. QED
  BY <1>2, <1>4, <1>6 DEF u, Members

LEMMA ConcatKeeps ==
  ASSUME NEW S, NEW s \in Seq(S), NEW u \in Seq(S)
  PROVE  /\ s \o u \in Seq(S) /\ Len(s \o u) = Len(s) + Len(u)
         /\ Members(s \o u) = Members(s) \cup Members(u)
         /\ Distinct(s) /\ Distinct(u) /\ Members(s) \cap Members(u) = {} => Distinct(s \o u)
<1> DEFINE v == s \o u
<1>1. Len(s) \in Nat /\ Len(u) \in Nat
  BY SeqTypes
<1>2. /\ v \in Seq(S) /\ Len(v) = Len(s) + Len(u)
      /\ \A k \in 1..(Len(s) + Len(u)) : v[k] = IF k <= Len(s) THEN s[k] ELSE u[k - Len(s)]
  BY ConcatProperties
<1> HIDE DEF v
<1>3. \A k \in 1..Len(s) : k \in 1..Len(v) /\ v[k] = s[k]
  BY <1>1, <1>2
<1>4. \A k \in 1..Len(u) : Len(s) + k \in 1..Len(v) /\ v[Len(s) + k] = u[k]
  <2>1. SUFFICES ASSUME NEW k \in 1..Len(u)
                 PROVE  Len(s) + k \in 1..Len(v) /\ v[Len(s) + k] = u[k]
    OBVIOUS
  <2>2. Len(s) + k \in 1..(Len(s) + Len(u)) /\ ~(Len(s) + k <= Len(s)) /\ Len(s) + k - Len(s) = k
    BY <1>1
  <2>3. v[Len(s) + k] = u[Len(s) + k - Len(s)]
    BY <1>2, <2>2
  <2>4. QED
    BY <1>2, <2>2, <2>3
<1>5. \A k \in 1..Len(v) : \/ k \in 1..Len(s) /\ v[k] = s[k]
                           \/ k - Len(s) \in 1..Len(u) /\ v[k] = u[k - Len(s)]
  BY <1>1, <1>2
<1>6. Members(v) = Members(s) \cup Members(u)
  <2>1. Members(v) \subseteq Members(s) \cup Members(u)
    BY <1>5 DEF Members
  <2>2. Members(s) \subseteq Members(v)
    BY <1>3 DEF Members
  <2>3. Members(u) \subseteq Members(v)
    BY <1>4 DEF Members
  <2>4. QED
    BY <2>1, <2>2, <2>3
<1>7. ASSUME Distinct(s), Distinct(u), Members(s) \cap Members(u) = {},
             NEW j \in 1..Len(v), NEW k \in 1..Len(v), v[j] = v[k]
      PROVE  j = k
  <2>1. CASE j \in 1..Len(s) /\ k \in 1..Len(s)
    BY <1>3, <1>7, <2>1 DEF Distinct
  <2>2. CASE j - Len(s) \in 1..Len(u) /\ v[j] = u[j - Len(s)]
             /\ k - Len(s) \in 1..Len(u) /\ v[k] = u[k - Len(s)]
    <3>1. j - Len(s) = k - Len(s)
      BY <1>7, <2>2 DEF Distinct
    <3>2. QED
      BY <1>1, <1>2, <3>1
  <2>3. \A a \in 1..Len(s), b \in 1..Len(u) : s[a] # u[b]
    BY <1>7 DEF Members
  <2>4. QED
    BY <1>5, <1>7, <2>1, <2>2, <2>3
<1>8. QED
  BY <1>2, <1>6, <1>7 DEF v, Distinct

-----------------------------------------------------------------------------
(* The methods of CslPlayerStats, with what they do to the ids and rows.   *)

LEMMA TableTypes ==
  ASSUME NEW t \in Table
  PROVE  /\ t.ids \in Seq(Players) /\ t.rows \in Seq(Players \cup {FreeRow})
         /\ t.status \in {"need_ids", "need_stats"}
         /\ Members(t.ids) \subseteq Players /\ Filled(t) \subseteq Players
         /\ FreeRow \notin Players
BY SeqTypes, ExtInfoAssumption DEF Table, Filled, FreeRow

\* A player's row counts.
LEMMA FilledRow ==
  \A t, k : k \in Filled(t) <=> k # FreeRow /\ \E i \in 1..Len(t.rows) : t.rows[i] = k
BY DEF Filled, Members

\* The list shows the rows that count.
LEMMA DisplayedFilled ==
  ASSUME NEW t, GoodTable(t)
  PROVE  Displayed(t) = Filled(t)
<1> DEFINE n == Len(t.rows)
           I == {k \in 1..n : \A j \in 1..k : t.rows[j] # FreeRow}
<1>1. n \in Nat
  BY SeqTypes DEF GoodTable, Table
<1>2. \A k \in 1..n : k \in I <=> t.rows[k] # FreeRow
  <2>1. ASSUME NEW k \in 1..n, t.rows[k] # FreeRow, NEW j \in 1..k PROVE t.rows[j] # FreeRow
    BY <1>1, <2>1 DEF GoodTable, Compact
  <2>2. \A k \in I : k \in 1..k
    BY <1>1
  <2>3. QED
    BY <2>1, <2>2
<1>3. Displayed(t) = {t.rows[i] : i \in I}
  BY DEF Displayed
<1> HIDE DEF I, n
<1>4. \A k : k \in Displayed(t) <=> \E i \in 1..n : t.rows[i] # FreeRow /\ k = t.rows[i]
  BY <1>2, <1>3 DEF I
<1>5. QED
  BY <1>4, FilledRow DEF n

Emptied(u, t) ==
  /\ GoodTable(u) /\ u.status = "need_ids" /\ Members(u.ids) \subseteq Members(t.ids)
  /\ Filled(u) = {} /\ RowsOnce(u.rows) /\ Len(u.rows) = Len(t.rows)
  /\ t.ids = <<>> => u.ids = <<>>

LEMMA ResetEmpties ==
  ASSUME NEW t, GoodTable(t)
  PROVE  Emptied(Reset(t), t)
<1> DEFINE m == (Len(t.ids) + 1) \div 2 + 1
           ids == SubSeq(t.ids, m, Len(t.ids))
           rows == [i \in 1..Len(t.rows) |-> FreeRow]
           u == Reset(t)
<1>1. t.ids \in Seq(Players) /\ Distinct(t.ids) /\ Len(t.ids) \in Nat /\ Len(t.rows) \in Nat
  BY SeqTypes DEF GoodTable, Table
<1>2. m \in Nat \ {0}
  <2>1. \A k \in Nat : k \div 2 \in Nat
    OBVIOUS
  <2>2. Len(t.ids) + 1 \in Nat
    BY <1>1
  <2>3. (Len(t.ids) + 1) \div 2 \in Nat
    BY <2>1, <2>2
  <2>4. \A h \in Nat : h + 1 \in Nat \ {0}
    OBVIOUS
  <2>5. QED
    BY <2>3, <2>4
<1> HIDE DEF m
<1>3. ids \in Seq(Players) /\ Members(ids) \subseteq Members(t.ids) /\ Distinct(ids)
  <2>1. Len(t.ids) \in 0..Len(t.ids)
    BY <1>1
  <2>2. QED
    BY <1>1, <1>2, <2>1, SubSeqKeeps
<1>4. rows \in Seq(Players \cup {FreeRow}) /\ Len(rows) = Len(t.rows)
      /\ \A i \in 1..Len(rows) : rows[i] = FreeRow
  BY <1>1
<1>5. u = [status |-> "need_ids", ids |-> ids, rows |-> rows]
  BY DEF Reset, m
<1>6. t.ids = <<>> => ids = <<>>
  BY <1>1, <1>2, SubSeqEmpty
<1> HIDE DEF ids, rows, u
<1>7. u \in Table /\ u.status = "need_ids" /\ u.ids = ids /\ u.rows = rows
  BY <1>3, <1>4, <1>5 DEF Table
<1>8. Filled(u) = {}
  BY <1>4, <1>7 DEF Filled, Members
<1>9. Compact(rows) /\ RowsOnce(rows)
  BY <1>4 DEF Compact, RowsOnce
<1>10. QED
  BY <1>3, <1>4, <1>6, <1>7, <1>8, <1>9 DEF Emptied, GoodTable, u

\* SetWaitForStats changes the status only.
Waited(u, t) == GoodTable(u) /\ u.ids = t.ids /\ u.rows = t.rows

LEMMA WaitKeeps ==
  ASSUME NEW t, GoodTable(t)
  PROVE  Waited(SetWaitForStats(t), t)
BY DEF Waited, SetWaitForStats, GoodTable, Table

\* RemoveId takes one id away, if it is there.
Dropped(u, t, id) ==
  /\ GoodTable(u) /\ u.rows = t.rows /\ Members(u.ids) = Members(t.ids) \ {id}
  /\ u.status = t.status \/ u.status = "need_ids"
  /\ t.ids = <<>> => u.ids = <<>>

LEMMA RemoveIdDrops ==
  ASSUME NEW t, GoodTable(t), NEW id
  PROVE  Dropped(RemoveId(t, id), t, id)
<1>1. t \in Table /\ t.ids \in Seq(Players) /\ Distinct(t.ids) /\ Compact(t.rows)
  BY DEF GoodTable, Table
<1>2. CASE id \notin Members(t.ids)
  BY <1>2 DEF RemoveId, Dropped
<1>3. CASE id \in Members(t.ids)
  <2> DEFINE i == CHOOSE j \in 1..Len(t.ids) : t.ids[j] = id
             left == Without(t.ids, i)
             u == [t EXCEPT !.ids = left, !.status = IF left = <<>> THEN "need_ids" ELSE @]
  <2>1. i \in 1..Len(t.ids) /\ t.ids[i] = id
    BY <1>3 DEF Members
  <2>2. RemoveId(t, id) = u
    BY <1>3 DEF RemoveId
  <2> HIDE DEF i
  <2>3. left \in Seq(Players) /\ Removed(left, t.ids, i)
    BY <1>1, <2>1, WithoutProperties
  <2> HIDE DEF left
  <2>4. Distinct(left) /\ Members(left) = Members(t.ids) \ {id}
    BY <1>1, <2>1, <2>3, RemovedMembers
  <2>5. u \in Table /\ u.ids = left /\ u.rows = t.rows
        /\ (u.status = t.status \/ u.status = "need_ids")
    BY <1>1, <2>3 DEF Table
  <2>6. t.ids # <<>>
    BY <2>1
  <2>7. QED
    BY <1>1, <2>2, <2>4, <2>5, <2>6 DEF Dropped, GoodTable
<1>4. QED
  BY <1>2, <1>3

\* A list is refused if none is awaited or it names someone who is expected.
Refused(t, list) ==
  list # <<>> /\ (t.status # "need_ids" \/ \E k \in Members(list) : k \in Members(t.ids))

Listed(u, t, list) ==
  /\ GoodTable(u) /\ Len(u.rows) = Len(t.rows)
  /\ Refused(t, list) => Filled(u) = {} /\ RowsOnce(u.rows)
  /\ ~Refused(t, list) => u.rows = t.rows /\ Members(u.ids) = Members(t.ids) \cup Members(list)

LEMMA AddIdsLists ==
  ASSUME NEW t, GoodTable(t), NEW list \in Seq(Players), Distinct(list)
  PROVE  Listed(AddIds(t, list), t, list)
<1> DEFINE R == {j \in 1..Len(list) : t.status # "need_ids" \/ list[j] \in Members(t.ids)}
           first == CHOOSE j \in R : \A k \in R : j <= k
           head == SubSeq(list, 1, first - 1)
           all == [t EXCEPT !.ids = t.ids \o list]
           some == [t EXCEPT !.ids = t.ids \o head]
<1>1. /\ t \in Table /\ t.ids \in Seq(Players) /\ Distinct(t.ids) /\ Compact(t.rows)
      /\ Len(list) \in Nat
  BY SeqTypes DEF GoodTable, Table
<1>2. AddIds(t, list) = IF R = {} THEN SetWaitForStats(all) ELSE SetWaitForStats(Reset(some))
  BY DEF AddIds
<1>3. R # {} <=> Refused(t, list)
  <2>1. list # <<>> <=> 1..Len(list) # {}
    <3>1. list # <<>> => 1 \in 1..Len(list)
      BY EmptySeq
    <3>2. list = <<>> => Len(list) = 0
      BY EmptySeq
    <3>3. 1..0 = {}
      OBVIOUS
    <3>4. QED
      BY <3>1, <3>2, <3>3
  <2>2. QED
    BY <2>1 DEF Refused, Members
<1>4. CASE R = {}
  <2>1. ~Refused(t, list)
    BY <1>3, <1>4
  <2>2. Members(t.ids) \cap Members(list) = {}
    BY <1>4 DEF Members
  <2> DEFINE ids == t.ids \o list
  <2>3. ids \in Seq(Players) /\ Distinct(ids) /\ Members(ids) = Members(t.ids) \cup Members(list)
    BY <1>1, <2>2, ConcatKeeps
  <2> HIDE DEF ids
  <2>4. GoodTable(all) /\ all.rows = t.rows /\ all.ids = ids
    <3>1. all = [t EXCEPT !.ids = ids]
      BY DEF ids
    <3> HIDE DEF all
    <3>2. all \in Table /\ all.ids = ids /\ all.rows = t.rows
      BY <1>1, <2>3, <3>1 DEF Table
    <3>3. QED
      BY <1>1, <2>3, <3>2 DEF GoodTable
  <2> HIDE DEF all
  <2>5. Waited(SetWaitForStats(all), all)
    BY <2>4, WaitKeeps
  <2>6. QED
    BY <1>2, <1>4, <2>1, <2>3, <2>4, <2>5 DEF Listed, Waited
<1>5. CASE R # {}
  <2>1. Refused(t, list)
    BY <1>3, <1>5
  <2>2. first \in R /\ \A k \in R : first <= k
    <3>1. R \subseteq Nat
      BY <1>1
    <3> HIDE DEF R
    <3>2. QED
      BY <1>5, <3>1, Least
  <2> HIDE DEF first
  <2>3. first \in 1..Len(list) /\ first - 1 \in 0..Len(list) /\ 1 \in Nat \ {0}
    BY <1>1, <2>2
  <2>4. /\ head \in Seq(Players) /\ Distinct(head)
        /\ \A e \in Members(head) : \E i \in 1..(first - 1) : e = list[i]
    BY <2>3, SubSeqKeeps
  <2> HIDE DEF head
  <2>5. \A i \in 1..(first - 1) : list[i] \notin Members(t.ids)
    <3>1. SUFFICES ASSUME NEW i \in 1..(first - 1) PROVE i \in 1..Len(list) /\ i \notin R
      OBVIOUS
    <3>2. i \in 1..Len(list) /\ ~(first <= i)
      BY <1>1, <2>3
    <3>3. QED
      BY <2>2, <3>2
  <2>6. Members(t.ids) \cap Members(head) = {}
    BY <2>4, <2>5
  <2> DEFINE ids == t.ids \o head
  <2>7. ids \in Seq(Players) /\ Distinct(ids)
    BY <1>1, <2>4, <2>6, ConcatKeeps
  <2> HIDE DEF ids
  <2>8. GoodTable(some) /\ some.rows = t.rows
    <3>1. some = [t EXCEPT !.ids = ids]
      BY DEF ids
    <3> HIDE DEF some
    <3>2. some \in Table /\ some.ids = ids /\ some.rows = t.rows
      BY <1>1, <2>7, <3>1 DEF Table
    <3>3. QED
      BY <1>1, <2>7, <3>2 DEF GoodTable
  <2> HIDE DEF some
  <2>9. Emptied(Reset(some), some)
    BY <2>8, ResetEmpties
  <2>10. Waited(SetWaitForStats(Reset(some)), Reset(some))
    BY <2>9, WaitKeeps DEF Emptied
  <2>11. Filled(SetWaitForStats(Reset(some))) = Filled(Reset(some))
    BY <2>10 DEF Waited, Filled
  <2>12. QED
    BY <1>2, <1>5, <2>1, <2>8, <2>9, <2>10, <2>11 DEF Listed, Waited, Emptied
<1>6. QED
  BY <1>4, <1>5

\* A row more: in the first free row, or in a new one.
Rowed(u, t, id) ==
  /\ GoodTable(u) /\ Filled(u) = Filled(t) \cup {id} /\ Members(u.ids) = Members(t.ids) \ {id}
  /\ RowsOnce(t.rows) /\ id \notin Filled(t) /\ Len(t.rows) <= Cardinality(Players) =>
       RowsOnce(u.rows) /\ Len(u.rows) <= Cardinality(Players)

\* There are no more rows than players if each has one.
LEMMA RowsFit ==
  ASSUME NEW rows \in Seq(Players), \A i, j \in 1..Len(rows) : rows[i] = rows[j] => i = j
  PROVE  Len(rows) <= Cardinality(Players)
<1>1. Len(rows) \in Nat /\ rows \in [1..Len(rows) -> Players]
  BY SeqTypes, LenProperties
<1>2. rows \in Injection(1..Len(rows), Players)
  BY <1>1 DEF Injection, IsInjective
<1>3. Cardinality(1..Len(rows)) <= Cardinality(Players)
  BY <1>2, ExtInfoAssumption, FS_Injection
<1>4. Cardinality(1..Len(rows)) = Len(rows)
  BY <1>1, FS_Interval
<1>5. QED
  BY <1>3, <1>4

LEMMA AddStatsRows ==
  ASSUME NEW t, GoodTable(t), NEW id \in Players
  PROVE  Rowed(AddStats(t, id), t, id)
<1> DEFINE n == Len(t.rows)
           free == {i \in 1..n : t.rows[i] = FreeRow}
           at == CHOOSE i \in free : \A k \in free : i <= k
           u == RemoveId(t, id)
           rows == IF free = {} THEN Append(t.rows, id) ELSE [t.rows EXCEPT ![at] = id]
           v == [u EXCEPT !.rows = rows]
<1>1. t \in Table /\ t.rows \in Seq(Players \cup {FreeRow}) /\ Compact(t.rows)
  BY DEF GoodTable, Table
<1>2. n \in Nat /\ DOMAIN t.rows = 1..n /\ \A i \in 1..n : t.rows[i] \in Players \cup {FreeRow}
  BY <1>1, SeqTypes
<1>3. id # FreeRow /\ id \in Players \cup {FreeRow}
  BY <1>1, TableTypes
<1>4. Dropped(u, t, id)
  BY RemoveIdDrops
<1>5. AddStats(t, id) = v
  BY DEF AddStats
<1> HIDE DEF u
<1> DEFINE New(k) == rows \in Seq(Players \cup {FreeRow}) /\ Len(rows) >= n
                     /\ k \in 1..Len(rows) /\ rows[k] = id
                     /\ (\A i \in 1..Len(rows) : i # k => i \in 1..n /\ rows[i] = t.rows[i])
                     /\ (\A i \in 1..n : i < k => t.rows[i] # FreeRow)
                     /\ (\A i \in 1..n : i >= k => t.rows[i] = FreeRow)
                     /\ (Len(rows) = n \/ (Len(rows) = n + 1 /\ k = n + 1))
<1>6. \E k : New(k)
  <2>1. CASE free = {}
    <3>1. rows = Append(t.rows, id)
      BY <2>1
    <3> HIDE DEF rows
    <3>2. /\ rows \in Seq(Players \cup {FreeRow}) /\ Len(rows) = n + 1 /\ rows[n + 1] = id
          /\ \A i \in 1..n : rows[i] = t.rows[i]
      BY <1>1, <1>3, <3>1, AppendProperties
    <3>3. New(n + 1)
      <4>1. n + 1 \in 1..Len(rows) /\ Len(rows) >= n
        BY <1>2, <3>2
      <4>2. \A i \in 1..Len(rows) : i # n + 1 => i \in 1..n /\ rows[i] = t.rows[i]
        BY <1>2, <3>2
      <4>3. \A i \in 1..n : t.rows[i] # FreeRow /\ ~(i >= n + 1)
        BY <1>2, <2>1
      <4>4. QED
        BY <3>2, <4>1, <4>2, <4>3
    <3>4. QED
      BY <3>3
  <2>2. CASE free # {}
    <3>1. at \in free /\ \A k \in free : at <= k
      <4>1. free \subseteq Nat
        BY <1>2
      <4> HIDE DEF free
      <4>2. QED
        BY <2>2, <4>1, Least
    <3> HIDE DEF at
    <3>2. at \in 1..n /\ t.rows[at] = FreeRow
      BY <3>1
    <3>3. rows = [t.rows EXCEPT ![at] = id]
      BY <2>2
    <3> HIDE DEF rows
    <3>4. /\ rows \in Seq(Players \cup {FreeRow}) /\ Len(rows) = n /\ rows[at] = id
          /\ \A i \in 1..n : i # at => rows[i] = t.rows[i]
      BY <1>1, <1>2, <1>3, <3>2, <3>3, ExceptSeq
    <3>5. \A i \in 1..n : i < at => t.rows[i] # FreeRow
      BY <1>2, <3>1
    <3>6. \A i \in 1..n : i >= at => t.rows[i] = FreeRow
      BY <1>1, <1>2, <3>2 DEF Compact
    <3>7. New(at)
      <4>1. at \in 1..Len(rows) /\ Len(rows) >= n
        BY <1>2, <3>2, <3>4
      <4>2. \A i \in 1..Len(rows) : i # at => i \in 1..n /\ rows[i] = t.rows[i]
        BY <3>4
      <4>3. QED
        BY <3>4, <3>5, <3>6, <4>1, <4>2
    <3>8. QED
      BY <3>7
  <2>3. QED
    BY <2>1, <2>2
<1> HIDE DEF rows
<1>7. PICK k : New(k)
  BY <1>6
<1>8. Len(rows) \in Nat /\ k \in Nat
  <2>1. rows \in Seq(Players \cup {FreeRow}) /\ k \in 1..Len(rows)
    BY <1>7
  <2>2. QED
    BY <2>1, SeqTypes
<1>9. v \in Table /\ v.rows = rows /\ v.ids = u.ids
  BY <1>4, <1>7 DEF Dropped, GoodTable, Table
<1> HIDE DEF v
<1>10. Compact(rows)
  <2>1. SUFFICES ASSUME NEW i \in 1..Len(rows), NEW j \in 1..Len(rows), i < j, rows[j] # FreeRow
                 PROVE  rows[i] # FreeRow
    BY DEF Compact
  <2>2. j <= k
    <3>1. CASE j # k
      BY <1>2, <1>7, <1>8, <2>1, <3>1
    <3>2. QED
      BY <1>8, <3>1
  <2>3. i < k /\ i # k
    BY <1>8, <2>1, <2>2
  <2>4. QED
    BY <1>7, <2>3
<1>11. Filled(v) = Filled(t) \cup {id}
  <2>1. \A i \in 1..n : t.rows[i] # FreeRow => i \in 1..Len(rows) /\ rows[i] = t.rows[i]
    BY <1>2, <1>7, <1>8
  <2>2. \A j : j \in Filled(v) <=> j # FreeRow /\ \E i \in 1..Len(rows) : rows[i] = j
    BY <1>9, FilledRow
  <2>3. \A j : j \in Filled(t) <=> j # FreeRow /\ \E i \in 1..n : t.rows[i] = j
    BY FilledRow
  <2>4. \A j : j \in Filled(v) => j \in Filled(t) \cup {id}
    BY <1>7, <2>2, <2>3
  <2>5. \A j : j \in Filled(t) => j \in Filled(v)
    BY <2>1, <2>2, <2>3
  <2>6. id \in Filled(v)
    BY <1>3, <1>7, <2>2
  <2>7. QED
    BY <2>4, <2>5, <2>6
<1>12. ASSUME RowsOnce(t.rows), id \notin Filled(t), n <= Cardinality(Players)
       PROVE  RowsOnce(rows) /\ Len(rows) <= Cardinality(Players)
  <2>1. \A i \in 1..n : t.rows[i] # id
    BY <1>3, <1>12, FilledRow
  <2>2. RowsOnce(rows)
    BY <1>7, <1>12, <2>1 DEF RowsOnce
  <2>3. CASE Len(rows) = n
    BY <1>12, <2>2, <2>3
  <2>4. CASE Len(rows) = n + 1 /\ k = n + 1
    <3>1. \A i \in 1..Len(rows) : rows[i] # FreeRow
      BY <1>2, <1>3, <1>7, <2>4
    <3>2. rows \in Seq(Players)
      <4>1. rows \in [1..Len(rows) -> Players]
        BY <1>7, <3>1, LenProperties, SeqTypes
      <4>2. QED
        BY <1>8, <4>1
    <3>3. \A i, j \in 1..Len(rows) : rows[i] = rows[j] => i = j
      BY <2>2, <3>1 DEF RowsOnce
    <3>4. QED
      BY <2>2, <3>2, <3>3, RowsFit
  <2>5. QED
    BY <1>7, <2>2, <2>3, <2>4
<1>13. GoodTable(v)
  BY <1>4, <1>9, <1>10 DEF Dropped, GoodTable
<1>14. QED
  BY <1>4, <1>5, <1>9, <1>11, <1>12, <1>13 DEF Rowed, Dropped

-----------------------------------------------------------------------------
(* What the server answers.                                                *)

LEMMA MsgTypes ==
  ASSUME NEW m \in Msg
  PROVE  /\ m.kind \in {"ids", "stats", "error"} /\ m.rid \in Players \cup {NoRid}
         /\ m.kind = "ids" => m.list \in Seq(Players)
         /\ m.kind = "stats" => m.id \in Players
         /\ m.kind = "error" => m.rid \in Players
BY DEF Msg

\* A datagram leaves the network: the others are still those of one request.
LEMMA ReceivedRound ==
  ASSUME NEW S, NEW s \in Seq(S), NEW i \in 1..Len(s), NEW u \in Seq(S), Removed(u, s, i),
         OneRound(s)
  PROVE  OneRound(u)
<1> DEFINE At(k) == IF k < i THEN k ELSE k + 1
<1>1. Len(s) \in Nat /\ Len(u) \in Nat /\ i \in Nat
  BY SeqTypes
<1>2. \A k \in 1..Len(u) : At(k) \in 1..Len(s) /\ u[k] = s[At(k)]
  BY <1>1 DEF Removed
<1>3. \A j, k \in 1..Len(u) : At(j) = At(k) => j = k
  BY <1>1
<1> HIDE DEF At
<1>4. \A j, k \in 1..Len(u) : IsList(u[j]) /\ IsList(u[k]) => j = k
  BY <1>2, <1>3 DEF OneRound
<1>5. \A j, k \in 1..Len(u) : IsList(u[j]) => u[k].rid = NoRid
  BY <1>2 DEF OneRound
<1>6. \A j, k \in 1..Len(u) : u[j].kind = "error" /\ u[k].kind = "stats" => u[j].rid # u[k].id
  BY <1>2 DEF OneRound
<1>7. QED
  BY <1>4, <1>5, <1>6 DEF OneRound

LEMMA NumbersOnce ==
  ASSUME roster \subseteq Players
  PROVE  /\ Numbers \in Seq(Players) /\ Len(Numbers) = Cardinality(roster)
         /\ Distinct(Numbers) /\ \A i \in 1..Len(Numbers) : Numbers[i] \in roster
<1> DEFINE n == Cardinality(roster)
<1>1. n \in Nat /\ ExistsBijection(1..n, roster)
  BY FS_Subset, FS_CardinalityType, ExtInfoAssumption
<1>2. \E f \in [1..n -> roster] : IsInjective(f)
  BY <1>1 DEF ExistsBijection, Bijection, Injection
<1>3. Numbers \in [1..n -> roster] /\ IsInjective(Numbers)
  BY <1>2 DEF Numbers, SetToSeq
<1>4. Numbers \in Seq(Players) /\ Len(Numbers) = n /\ DOMAIN Numbers = 1..n
  <2>1. Numbers \in [1..n -> Players]
    BY <1>3
  <2>2. QED
    BY <1>1, <2>1
<1>5. QED
  BY <1>3, <1>4 DEF IsInjective, Distinct

\* The list comes with one row for each who is on it.
LEMMA ListAnswers ==
  ASSUME roster \subseteq Players
  PROVE  /\ ListAnswer \in Seq(Msg) /\ OneRound(ListAnswer)
         /\ \A m \in Members(ListAnswer) : GoodMsg(m) /\ m.kind # "error"
<1> DEFINE n == Cardinality(roster)
           first == [kind |-> "ids", rid |-> NoRid, list |-> Numbers]
           row(i) == [kind |-> "stats", rid |-> NoRid, id |-> Numbers[i]]
           rest == [i \in 1..n |-> row(i)]
<1>1. /\ Numbers \in Seq(Players) /\ Len(Numbers) = n /\ n \in Nat /\ Distinct(Numbers)
      /\ \A i \in 1..n : Numbers[i] \in Players
  BY NumbersOnce, SeqTypes
<1>2. first \in Msg /\ IsList(first) /\ first.rid = NoRid /\ GoodMsg(first) /\ first.kind = "ids"
  BY <1>1 DEF Msg, IsList, GoodMsg
<1>3. \A i \in 1..n : /\ row(i) \in Msg /\ row(i).kind = "stats" /\ row(i).rid = NoRid
                      /\ ~IsList(row(i)) /\ GoodMsg(row(i))
  BY <1>1 DEF Msg, IsList, GoodMsg
<1> HIDE DEF first, row
<1>4. rest \in Seq(Msg) /\ Len(rest) = n /\ \A i \in 1..n : rest[i] = row(i)
  BY <1>1, <1>3
<1>5. <<first>> \in Seq(Msg) /\ Len(<<first>>) = 1 /\ <<first>>[1] = first
  BY <1>2
<1> HIDE DEF rest
<1> DEFINE all == <<first>> \o rest
<1>6. /\ all \in Seq(Msg) /\ Len(all) = n + 1
      /\ \A i \in 1..(n + 1) : all[i] = IF i <= 1 THEN first ELSE rest[i - 1]
  <2>1. /\ all \in Seq(Msg) /\ Len(all) = Len(<<first>>) + Len(rest)
        /\ \A i \in 1..(Len(<<first>>) + Len(rest)) :
             all[i] = IF i <= Len(<<first>>) THEN <<first>>[i] ELSE rest[i - Len(<<first>>)]
    BY <1>4, <1>5, ConcatProperties
  <2>2. QED
    BY <1>1, <1>4, <1>5, <2>1
<1>7. \A i \in 1..Len(all) : \/ i = 1 /\ all[i] = first
                             \/ i - 1 \in 1..n /\ all[i] = row(i - 1)
  BY <1>1, <1>4, <1>6
<1>8. ListAnswer = all
  BY DEF ListAnswer, all, rest, row, first
<1> HIDE DEF all
<1>9. \A i \in 1..Len(all) : /\ all[i].rid = NoRid /\ GoodMsg(all[i]) /\ all[i].kind # "error"
                             /\ IsList(all[i]) => i = 1
  BY <1>2, <1>3, <1>7
<1>10. OneRound(all)
  BY <1>9 DEF OneRound
<1>11. QED
  BY <1>6, <1>8, <1>9, <1>10 DEF Members

\* The answers to requests for some of the players the table expects.
Told(t) == {m \in Msg : /\ GoodMsg(m) /\ ~IsList(m)
                        /\ m.kind = "error" => m.rid \in Members(t.ids) \ roster
                        /\ m.kind = "stats" => m.id \in roster}

LEMMA PlayerAnswers ==
  ASSUME NEW t, GoodTable(t), NEW k \in Members(t.ids)
  PROVE  PlayerAnswer(k) \in Seq(Told(t)) /\ PlayerAnswer(k) # <<>>
<1> DEFINE again == [kind |-> "ids", rid |-> k, list |-> <<k>>]
           row == [kind |-> "stats", rid |-> k, id |-> k]
           gone == [kind |-> "error", rid |-> k]
<1>1. k \in Players /\ k # NoRid
  BY TableTypes, ExtInfoAssumption DEF GoodTable, NoRid
<1>2. again \in Msg /\ ~IsList(again) /\ GoodMsg(again) /\ again.kind = "ids"
  <2>1. <<k>> \in Seq(Players) /\ Distinct(<<k>>)
    BY <1>1 DEF Distinct
  <2> DEFINE list == <<k>>
  <2>2. list \in Seq(Players) /\ Distinct(list)
    BY <2>1
  <2> HIDE DEF list
  <2>3. [kind |-> "ids", rid |-> k, list |-> list] \in Msg
    BY <1>1, <2>2 DEF Msg
  <2>4. again = [kind |-> "ids", rid |-> k, list |-> list]
    BY DEF list
  <2> HIDE DEF again
  <2>5. QED
    BY <1>1, <2>2, <2>3, <2>4 DEF IsList, GoodMsg
<1>3. row \in Msg /\ ~IsList(row) /\ GoodMsg(row) /\ row.kind = "stats" /\ row.id = k
  BY <1>1 DEF Msg, IsList, GoodMsg
<1>4. gone \in Msg /\ ~IsList(gone) /\ GoodMsg(gone) /\ gone.kind = "error" /\ gone.rid = k
  BY <1>1 DEF Msg, IsList, GoodMsg
<1>5. PlayerAnswer(k) = IF k \in roster THEN <<again, row>> ELSE <<gone>>
  BY DEF PlayerAnswer
<1> HIDE DEF again, row, gone
<1>6. CASE k \in roster
  <2>1. again \in Told(t) /\ row \in Told(t)
    BY <1>2, <1>3, <1>6 DEF Told
  <2>2. QED
    BY <1>5, <1>6, <2>1
<1>7. CASE k \notin roster
  <2>1. gone \in Told(t)
    BY <1>4, <1>7 DEF Told
  <2>2. QED
    BY <1>5, <1>7, <2>1
<1>8. QED
  BY <1>6, <1>7

\* Induction over 0..n, with a set for the predicate.
LEMMA Induct ==
  ASSUME NEW n \in Nat, NEW T, 0 \in T, \A k \in 1..n : k - 1 \in T => k \in T
  PROVE  0..n \subseteq T
<1> DEFINE U == {k \in 0..n : k \notin T}
<1>1. SUFFICES ASSUME U # {} PROVE FALSE
  OBVIOUS
<1>2. U \subseteq Nat
  OBVIOUS
<1>3. PICK x \in U : \A y \in U : x <= y
  <2> HIDE DEF U
  <2>1. QED
    BY <1>1, <1>2, Least
<1>4. x \in 1..n /\ x - 1 \in 0..n
  OBVIOUS
<1>5. x - 1 \in U
  BY <1>4
<1>6. QED
  BY <1>3, <1>4, <1>5

\* f joins the sequences of ss one after the other.
Joins(f, ss) ==
  /\ DOMAIN f = 1..Len(ss)
  /\ \A i \in 1..Len(ss) : f[i] = IF i = 1 THEN ss[i] ELSE f[i - 1] \o ss[i]

LEMMA JoinsTo ==
  ASSUME NEW E, NEW ss, Len(ss) \in Nat \ {0}, \A i \in 1..Len(ss) : ss[i] \in Seq(E),
         NEW f, Joins(f, ss)
  PROVE  f[Len(ss)] \in Seq(E)
<1> DEFINE n == Len(ss)
           T == {k \in 0..n : k = 0 \/ f[k] \in Seq(E)}
<1>1. n \in Nat \ {0}
  OBVIOUS
<1>2. 0 \in T
  BY <1>1
<1>3. ASSUME NEW k \in 1..n, k - 1 \in T PROVE k \in T
  <2>1. f[k] = IF k = 1 THEN ss[k] ELSE f[k - 1] \o ss[k]
    BY DEF Joins
  <2>2. CASE k = 1
    BY <1>1, <2>1, <2>2
  <2>3. CASE k # 1
    <3>1. f[k - 1] \in Seq(E)
      BY <1>1, <1>3, <2>3
    <3>2. f[k - 1] \o ss[k] \in Seq(E)
      BY <3>1, ConcatProperties
    <3>3. f[k] = f[k - 1] \o ss[k]
      BY <2>1, <2>3
    <3>4. k \in 0..n
      BY <1>1
    <3>5. QED
      BY <3>2, <3>3, <3>4
  <2>4. QED
    BY <2>2, <2>3
<1>4. n \in T
  <2> HIDE DEF T
  <2>1. 0..n \subseteq T
    BY <1>1, <1>2, <1>3, Induct
  <2>2. QED
    BY <1>1, <2>1
<1>5. QED
  BY <1>1, <1>4

LEMMA CanJoin ==
  ASSUME NEW ss, Len(ss) \in Nat
  PROVE  \E f : Joins(f, ss)
<1> DEFINE n == Len(ss)
           Up(f, k) == /\ DOMAIN f = 1..k
                       /\ \A i \in 1..k : f[i] = IF i = 1 THEN ss[i] ELSE f[i - 1] \o ss[i]
           T == {k \in 0..n : \E f : Up(f, k)}
<1>1. n \in Nat
  OBVIOUS
<1>2. 0 \in T
  <2>1. Up([i \in 1..0 |-> i], 0)
    OBVIOUS
  <2>2. QED
    BY <1>1, <2>1
<1>3. ASSUME NEW k \in 1..n, k - 1 \in T PROVE k \in T
  <2>1. PICK f : Up(f, k - 1)
    BY <1>3
  <2> DEFINE g == [i \in 1..k |-> IF i < k THEN f[i]
                                  ELSE IF k = 1 THEN ss[k] ELSE f[k - 1] \o ss[k]]
  <2>2. \A i \in 1..k : i < k => i \in 1..(k - 1) /\ g[i] = f[i]
    BY <1>1
  <2>3. ASSUME NEW i \in 1..k PROVE g[i] = IF i = 1 THEN ss[i] ELSE g[i - 1] \o ss[i]
    <3>1. CASE i < k
      <4>1. i = 1 \/ (i - 1 \in 1..k /\ i - 1 < k)
        BY <1>1
      <4>2. f[i] = IF i = 1 THEN ss[i] ELSE f[i - 1] \o ss[i]
        BY <2>1, <2>2, <3>1
      <4> HIDE DEF g
      <4>3. QED
        BY <2>2, <3>1, <4>1, <4>2
    <3>2. CASE i = k
      <4>1. g[i] = IF k = 1 THEN ss[k] ELSE f[k - 1] \o ss[k]
        BY <1>1, <3>2
      <4>2. k = 1 \/ (k - 1 \in 1..k /\ k - 1 < k)
        BY <1>1
      <4> HIDE DEF g
      <4>3. QED
        BY <2>2, <3>2, <4>1, <4>2
    <3>3. QED
      BY <1>1, <3>1, <3>2
  <2>4. DOMAIN g = 1..k
    OBVIOUS
  <2> HIDE DEF g
  <2>5. Up(g, k)
    BY <2>3, <2>4
  <2>6. k \in 0..n
    BY <1>1
  <2>7. QED
    BY <2>5, <2>6
<1>4. n \in T
  <2> HIDE DEF T
  <2>1. 0..n \subseteq T
    BY <1>1, <1>2, <1>3, Induct
  <2>2. QED
    BY <1>1, <2>1
<1>5. QED
  BY <1>4 DEF Joins

LEMMA FlattenIn ==
  ASSUME NEW E, NEW ss, Len(ss) \in Nat \ {0}, \A i \in 1..Len(ss) : ss[i] \in Seq(E)
  PROVE  FlattenSeq(ss) \in Seq(E)
<1> DEFINE n == Len(ss)
           Is(f) == f = [i \in 1..n |-> IF i = 1 THEN ss[i] ELSE f[i - 1] \o ss[i]]
           g == CHOOSE f : Is(f)
<1>1. FlattenSeq(ss) = g[n]
  BY DEF FlattenSeq
<1>2. PICK f : Joins(f, ss)
  BY CanJoin
<1>3. \E h : Is(h)
  <2> DEFINE h == [i \in 1..n |-> f[i]]
  <2>1. Is(h)
    <3>1. \A i \in 1..n : i # 1 => i - 1 \in 1..n
      OBVIOUS
    <3>2. \A i \in 1..n : f[i] = IF i = 1 THEN ss[i] ELSE h[i - 1] \o ss[i]
      BY <1>2, <3>1 DEF Joins
    <3>3. QED
      BY <3>2
  <2>2. QED
    BY <2>1
<1>4. Is(g)
  <2> HIDE DEF Is
  <2>1. QED
    BY <1>3
<1>5. Joins(g, ss)
  <2> HIDE DEF g
  <2>1. DOMAIN g = 1..n /\ \A i \in 1..n : g[i] = IF i = 1 THEN ss[i] ELSE g[i - 1] \o ss[i]
    BY <1>4
  <2>2. QED
    BY <2>1 DEF Joins
<1>6. QED
  <2> HIDE DEF g
  <2>1. QED
    BY <1>1, <1>5, JoinsTo

\* What CheckResends asks for is answered of those whom the table expects.
Resent(answer) == \A m \in Members(answer) : m \in Told(table)

LEMMA Resends ==
  ASSUME GoodTable(table), table.ids # <<>>,
         NEW answer, answer = FlattenSeq([i \in 1..Len(table.ids) |-> PlayerAnswer(table.ids[i])])
  PROVE  answer \in Seq(Msg) /\ Resent(answer) /\ OneRound(answer)
<1> DEFINE n == Len(table.ids)
           ss == [i \in 1..n |-> PlayerAnswer(table.ids[i])]
<1>1. n \in Nat \ {0} /\ \A i \in 1..n : table.ids[i] \in Members(table.ids)
  BY EmptySeq DEF GoodTable, Table, Members
<1>2. Len(ss) = n /\ \A i \in 1..n : ss[i] \in Seq(Told(table))
  BY <1>1, PlayerAnswers
<1>3. answer \in Seq(Told(table))
  <2> DEFINE E == Told(table)
  <2>1. answer = FlattenSeq(ss)
    OBVIOUS
  <2>2. Len(ss) \in Nat \ {0} /\ \A i \in 1..Len(ss) : ss[i] \in Seq(E)
    BY <1>1, <1>2
  <2> HIDE DEF ss, E
  <2>3. answer \in Seq(E)
    BY <2>1, <2>2, FlattenIn
  <2>4. QED
    BY <2>3 DEF E
<1>4. Len(answer) \in Nat /\ \A i \in 1..Len(answer) : answer[i] \in Told(table)
  BY <1>3, SeqTypes
<1>5. answer \in Seq(Msg)
  <2>1. \A i \in 1..Len(answer) : answer[i] \in Msg
    BY <1>4 DEF Told
  <2>2. answer = [i \in 1..Len(answer) |-> answer[i]]
    BY <1>3, LenProperties
  <2>3. QED
    BY <1>4, <2>1, <2>2
<1>6. OneRound(answer)
  <2>1. \A i \in 1..Len(answer) : ~IsList(answer[i])
    BY <1>4 DEF Told
  <2>2. \A i, j \in 1..Len(answer) :
          answer[i].kind = "error" /\ answer[j].kind = "stats" => answer[i].rid # answer[j].id
    <3>1. \A i \in 1..Len(answer) : answer[i].kind = "error" => answer[i].rid \notin roster
      BY <1>4 DEF Told
    <3>2. \A j \in 1..Len(answer) : answer[j].kind = "stats" => answer[j].id \in roster
      BY <1>4 DEF Told
    <3>3. QED
      BY <3>1, <3>2
  <2>3. QED
    BY <2>1, <2>2 DEF OneRound
<1>7. QED
  BY <1>4, <1>5, <1>6 DEF Resent, Members

\* The network gets answers of the request, or nothing.
Sent(answer) ==
  /\ net' \in Seq(Msg) /\ fresh' \in BOOLEAN
  /\ Members(net') \subseteq Members(net) \cup Members(answer)
  /\ net = <<>> => OneRound(net')

LEMMA Sends ==
  ASSUME net \in Seq(Msg), fresh \in BOOLEAN,
         NEW answer \in Seq(Msg), OneRound(answer), Send(answer)
  PROVE  Sent(answer)
<1>1. ASSUME NEW n \in 0..Len(answer), NEW kept \in Increasing(n, Len(answer)),
             net' = net \o [i \in 1..n |-> answer[kept[i]]], fresh' = FALSE
      PROVE  Sent(answer)
  <2> DEFINE part == [i \in 1..n |-> answer[kept[i]]]
  <2>1. Len(answer) \in Nat /\ n \in Nat /\ \A i \in 1..Len(answer) : answer[i] \in Msg
    BY SeqTypes
  <2>2. /\ \A i \in 1..n : kept[i] \in 1..Len(answer)
        /\ \A i, j \in 1..n : i < j => kept[i] < kept[j]
    BY <1>1 DEF Increasing
  <2>3. part \in Seq(Msg) /\ Len(part) = n /\ \A i \in 1..n : part[i] = answer[kept[i]]
    BY <2>1, <2>2
  <2>4. net' = net \o part
    BY <1>1
  <2> HIDE DEF part
  <2>5. Members(part) \subseteq Members(answer)
    BY <2>2, <2>3 DEF Members
  <2>6. net' \in Seq(Msg) /\ Members(net') = Members(net) \cup Members(part)
    BY <2>3, <2>4, ConcatKeeps
  <2>7. \A i, j \in 1..n : kept[i] = kept[j] => i = j
    <3>1. SUFFICES ASSUME NEW i \in 1..n, NEW j \in 1..n, i < j PROVE kept[i] # kept[j]
      BY <2>1
    <3>2. kept[i] < kept[j] /\ kept[i] \in Nat /\ kept[j] \in Nat
      BY <2>1, <2>2, <3>1
    <3>3. QED
      BY <3>2
  <2>8. OneRound(part)
    <3>1. \A i, j \in 1..n : IsList(part[i]) /\ IsList(part[j]) => i = j
      BY <2>2, <2>3, <2>7 DEF OneRound
    <3>2. \A i, j \in 1..n : IsList(part[i]) => part[j].rid = NoRid
      BY <2>2, <2>3 DEF OneRound
    <3>3. \A i, j \in 1..n : part[i].kind = "error" /\ part[j].kind = "stats" => part[i].rid # part[j].id
      BY <2>2, <2>3 DEF OneRound
    <3>4. QED
      BY <2>3, <3>1, <3>2, <3>3 DEF OneRound
  <2>9. net = <<>> => net' = part
    BY <2>3, <2>4, ConcatEmptySeq
  <2>10. QED
    BY <1>1, <2>5, <2>6, <2>8, <2>9 DEF Sent
<1>2. CASE UNCHANGED <<net, fresh>>
  <2>1. net = <<>> => OneRound(net')
    BY <1>2 DEF OneRound
  <2>2. QED
    BY <1>2, <2>1 DEF Sent
<1>3. CASE ~UNCHANGED <<net, fresh>>
  <2>1. PICK n \in IF Allowed("lose") THEN 0..Len(answer) ELSE {Len(answer)} :
               /\ \E kept \in Increasing(n, Len(answer)) :
                    net' = net \o [i \in 1..n |-> answer[kept[i]]]
               /\ fresh' = FALSE
    BY <1>3 DEF Send
  <2>2. n \in 0..Len(answer)
    <3>1. Len(answer) \in Nat
      BY SeqTypes
    <3>2. Len(answer) \in 0..Len(answer)
      BY <3>1
    <3>3. QED
      BY <2>1, <3>2
  <2>3. PICK kept \in Increasing(n, Len(answer)) : net' = net \o [i \in 1..n |-> answer[kept[i]]]
    BY <2>1
  <2>4. QED
    BY <1>1, <2>1, <2>2, <2>3
<1>4. QED
  BY <1>2, <1>3

-----------------------------------------------------------------------------
(* The steps.                                                              *)

\* The datagrams under way are some of those that were.
Fewer ==
  /\ net' \in Seq(Msg) /\ Members(net') \subseteq Members(net)
  /\ OneRound(net) => OneRound(net')

\* The list, of which there is one, is not under way any more when it is handled.
Handled(m) ==
  /\ Fewer /\ m \in Members(net) /\ fresh' = TRUE
  /\ UNCHANGED <<slow, roster, calm, shown>>
  /\ OneRound(net) /\ IsList(m) => \A k \in Members(net') : ~IsList(k)

LEMMA Receives ==
  ASSUME net \in Seq(Msg), NEW m, Receive(m)
  PROVE  Handled(m)
<1>1. PICK i \in 1..Len(net) : m = net[i] /\ net' = Without(net, i)
  BY DEF Receive
<1>2. net' \in Seq(Msg) /\ Removed(net', net, i)
  BY <1>1, WithoutProperties
<1>3. Members(net') \subseteq Members(net)
  BY <1>2, RemovedMembers
<1>4. OneRound(net) => OneRound(net')
  BY <1>2, ReceivedRound
<1>5. ASSUME OneRound(net), IsList(m), NEW k \in Members(net') PROVE ~IsList(k)
  <2>1. PICK j \in 1..Len(net') : k = net'[j]
    BY <1>5 DEF Members
  <2>2. Len(net) \in Nat /\ Len(net') \in Nat
    BY <1>2, SeqTypes
  <2>3. PICK l \in 1..Len(net) : l # i /\ k = net[l]
    <3>1. CASE j < i
      BY <1>2, <2>1, <2>2, <3>1 DEF Removed
    <3>2. CASE j >= i
      <4>1. j + 1 \in 1..Len(net) /\ j + 1 # i /\ k = net[j + 1]
        BY <1>2, <2>1, <2>2, <3>2 DEF Removed
      <4>2. QED
        BY <4>1
    <3>3. QED
      BY <2>2, <3>1, <3>2
  <2>4. QED
    BY <1>1, <1>5, <2>3 DEF OneRound
<1>6. m \in Members(net)
  BY <1>1 DEF Members
<1>7. QED
  BY <1>2, <1>3, <1>4, <1>5, <1>6 DEF Handled, Fewer, Receive

\* The variables that no invariant of a round is about.
Rest ==
  /\ slow' = slow /\ roster' \subseteq Players
  /\ calm' \in BOOLEAN /\ fresh' \in BOOLEAN /\ ext' \in {"error", "false", "ok"}

\* A table that is reset in the middle of a round.
LEMMA MidReset ==
  ASSUME TableInv, RoundInv, Rest, Fewer, table' = Reset(table),
         clean' = FALSE, announced' = {}, UNCHANGED <<shown, notice>>
  PROVE  TableInv' /\ RoundInv'
<1>1. GoodTable(table) /\ Len(table.rows) \in Nat
  BY SeqTypes DEF TableInv, GoodTable, Table
<1>2. Emptied(table', table)
  BY <1>1, ResetEmpties
<1>3. TableInv'
  BY <1>2 DEF TableInv, Rest, Fewer, Emptied
<1>4. ListFirst => ListFirst'
  BY <1>2 DEF ListFirst, Fewer, Emptied
<1>5. Accounted'
  BY DEF Accounted
<1>6. RoundInv'
  BY <1>2, <1>4, <1>5 DEF RoundInv, Rest, Fewer, Emptied
<1>7. QED
  BY <1>3, <1>6

\* The table stays, and so does what is said of it.
LEMMA TableStays ==
  ASSUME TableInv, RoundInv, Rest, Fewer, Waited(table', table),
         table' = table \/ slow \/ ~(\E m \in Members(net) : IsList(m)),
         clean' \in BOOLEAN, clean' => clean /\ announced' = announced,
         announced' \subseteq Players, UNCHANGED <<shown, notice>>
  PROVE  TableInv' /\ RoundInv'
<1>1. TableInv'
  BY DEF TableInv, Rest, Fewer, Waited
<1>2. Filled(table') = Filled(table) /\ table'.ids = table.ids /\ table'.rows = table.rows
  BY DEF Waited, Filled
<1>3. ListFirst => ListFirst' \/ slow
  BY <1>2 DEF ListFirst, Fewer
<1>4. Accounted => Accounted'
  BY <1>2 DEF Accounted, Fewer
<1>5. RoundInv'
  BY <1>2, <1>3, <1>4 DEF RoundInv, Rest, Fewer
<1>6. QED
  BY <1>1, <1>5

\* A round begins: the rows are free and only its own answers are under way.
LEMMA PingListInv ==
  ASSUME TableInv, RoundInv, NEW force \in BOOLEAN, PingList(force)
  PROVE  TableInv' /\ RoundInv'
<1>1. GoodTable(table) /\ Len(table.rows) \in Nat /\ net \in Seq(Msg) /\ fresh \in BOOLEAN
  BY SeqTypes DEF TableInv, GoodTable, Table
<1>2. Emptied(table', table) /\ (clean' <=> table'.ids = <<>>) /\ announced' = {}
  BY <1>1, ResetEmpties DEF PingList
<1>3. /\ ListAnswer \in Seq(Msg) /\ OneRound(ListAnswer)
      /\ \A m \in Members(ListAnswer) : GoodMsg(m) /\ m.kind # "error"
  BY ListAnswers DEF TableInv
<1>4. Sent(ListAnswer)
  BY <1>1, <1>3, Sends DEF PingList
<1>5. clean' \in BOOLEAN
  BY DEF PingList
<1>6. TableInv'
  BY <1>2, <1>3, <1>4, <1>5 DEF TableInv, PingList, Emptied, Sent
<1>7. ASSUME ~slow PROVE RoundInv'
  <2>1. net = <<>> /\ ~notice /\ Members(net) = {}
    BY <1>7 DEF PingList, Quiet, Members
  <2>2. OneRound(net') /\ \A m \in Members(net') : m.kind # "error"
    BY <1>3, <1>4, <2>1 DEF Sent
  <2>3. notice' = notice
    BY DEF PingList
  <2>4. ListFirst'
    BY <1>2, <2>1, <2>3 DEF ListFirst, Emptied
  <2>5. Accounted'
    <3>1. clean' => Members(table'.ids) = {}
      BY <1>2 DEF Members
    <3>2. QED
      BY <1>2, <2>1, <2>2, <2>3, <3>1 DEF Accounted, Emptied
  <2>6. shown' = shown
    BY DEF PingList
  <2>7. QED
    BY <1>2, <1>7, <2>2, <2>4, <2>5, <2>6 DEF RoundInv, Emptied
<1>8. slow' = slow
  BY DEF PingList
<1>9. QED
  BY <1>6, <1>7, <1>8 DEF RoundInv

\* The expected are asked for again: who is reported gone has no row.
LEMMA ResendInv ==
  ASSUME TableInv, RoundInv, Resend
  PROVE  TableInv' /\ RoundInv'
<1> DEFINE answer == FlattenSeq([i \in 1..Len(table.ids) |-> PlayerAnswer(table.ids[i])])
<1>1. GoodTable(table) /\ net \in Seq(Msg) /\ fresh \in BOOLEAN /\ table.ids # <<>>
  BY DEF TableInv, Resend
<1>2. answer \in Seq(Msg) /\ Resent(answer) /\ OneRound(answer)
  BY <1>1, Resends
<1>3. Send(answer)
  BY DEF Resend
<1> HIDE DEF answer
<1>4. Sent(answer)
  BY <1>1, <1>2, <1>3, Sends
<1>5. \A m \in Members(answer) : GoodMsg(m) /\ ~IsList(m)
                                 /\ (m.kind = "error" => m.rid \in Members(table.ids))
  BY <1>2 DEF Resent, Told
<1>6. UNCHANGED <<slow, roster, calm, ext, table, notice, shown, announced, clean>>
  BY DEF Resend
<1>7. TableInv'
  BY <1>4, <1>5, <1>6 DEF TableInv, Sent
<1>8. ASSUME ~slow PROVE RoundInv'
  <2>1. net = <<>> /\ ~notice /\ Members(net) = {}
    BY <1>8 DEF Resend, Quiet, Members
  <2>2. OneRound(net') /\ \A m \in Members(net') :
          ~IsList(m) /\ (m.kind = "error" => m.rid \in Members(table.ids))
    BY <1>4, <1>5, <2>1 DEF Sent
  <2>3. ListFirst'
    BY <2>2 DEF ListFirst
  <2>4. Accounted'
    BY <1>6, <1>8, <2>1, <2>2 DEF Accounted, RoundInv, Filled
  <2>5. Filled(table') = Filled(table)
    BY <1>6
  <2>6. QED
    BY <1>6, <1>8, <2>2, <2>3, <2>4, <2>5 DEF RoundInv
<1>9. QED
  BY <1>6, <1>7, <1>8 DEF RoundInv

\* Who is reported gone had no row.
LEMMA PongErrorInv ==
  ASSUME TableInv, RoundInv, NEW m, PongError(m)
  PROVE  TableInv' /\ RoundInv'
<1>1. GoodTable(table) /\ net \in Seq(Msg)
  BY DEF TableInv
<1>2. Handled(m) /\ m.kind = "error"
  BY <1>1, Receives DEF PongError
<1>3. /\ Dropped(table', table, m.rid) /\ ext' = "ok" /\ clean' = clean
      /\ announced' = (IF clean THEN announced \ {m.rid} ELSE {})
      /\ notice' = (notice \/ table'.ids = <<>>)
  BY <1>1, RemoveIdDrops DEF PongError, Becomes
<1>4. TableInv'
  BY <1>2, <1>3 DEF TableInv, Handled, Fewer, Dropped
<1>5. Filled(table') = Filled(table)
  BY <1>3 DEF Dropped, Filled
<1>6. ASSUME ~slow PROVE RoundInv'
  <2>1. OneRound(net) /\ m \in Members(net)
    BY <1>2, <1>6 DEF RoundInv, Handled
  <2>2. \A k \in Members(net) : ~IsList(k)
    <3>1. m.rid # NoRid
      BY <1>2, <2>1, MsgTypes, ExtInfoAssumption DEF TableInv, GoodMsg, NoRid
    <3>2. QED
      BY <2>1, <3>1 DEF OneRound, Members
  <2>3. ListFirst'
    BY <1>2, <2>2 DEF ListFirst, Handled, Fewer
  <2>4. Accounted'
    <3>1. SUFFICES ASSUME clean PROVE Accounted'
      BY <1>3 DEF Accounted
    <3>2. /\ announced = Members(table.ids) \cup Filled(table) /\ m.rid \notin Filled(table)
          /\ \A k \in Members(net) : k.kind = "error" => k.rid \notin Filled(table)
          /\ notice => table.ids = <<>>
      BY <1>2, <1>6, <2>1, <3>1 DEF RoundInv, Accounted
    <3>3. announced' = Members(table'.ids) \cup Filled(table')
      BY <1>3, <1>5, <3>1, <3>2 DEF Dropped
    <3>4. notice' => table'.ids = <<>>
      BY <1>3, <3>2 DEF Dropped
    <3>5. \A k \in Members(net') : k.kind = "error" => k.rid \notin Filled(table')
      BY <1>2, <1>5, <3>2 DEF Handled, Fewer
    <3>6. QED
      BY <3>3, <3>4, <3>5 DEF Accounted
  <2>5. OneRound(net') /\ shown' = shown
    BY <1>2, <2>1 DEF Handled, Fewer
  <2>6. QED
    BY <1>3, <1>5, <1>6, <2>3, <2>4, <2>5 DEF RoundInv, Dropped
<1>7. QED
  BY <1>2, <1>4, <1>6 DEF RoundInv, Handled

\* The list of a round comes before all its rows, or is refused.
LEMMA PongIdsInv ==
  ASSUME TableInv, RoundInv, NEW m, PongIds(m)
  PROVE  TableInv' /\ RoundInv'
<1>1. GoodTable(table) /\ net \in Seq(Msg)
  BY DEF TableInv
<1>2. Handled(m) /\ m.kind = "ids" /\ IsList(m)
  BY <1>1, Receives DEF PongIds, IsList
<1>3. m.list \in Seq(Players) /\ Distinct(m.list) /\ Members(m.list) \subseteq Players
  BY <1>2, MsgTypes, SeqTypes DEF TableInv, Handled, GoodMsg
<1>4. /\ table' = IF m.list = <<>> THEN SetWaitForStats(table) ELSE AddIds(table, m.list)
      /\ clean' = (clean /\ ~Refused(table, m.list)) /\ ext' = "ok"
      /\ announced' = (IF clean' THEN announced \cup Members(m.list) ELSE {})
      /\ notice' = (notice \/ table'.ids = <<>>)
  BY DEF PongIds, Becomes, Refused
<1>5. Listed(table', table, m.list)
  <2>1. CASE m.list = <<>>
    <3>1. Waited(table', table)
      BY <1>1, <1>4, <2>1, WaitKeeps
    <3>2. ~Refused(table, m.list) /\ Members(m.list) = {}
      BY <2>1 DEF Refused, Members
    <3>3. QED
      BY <3>1, <3>2 DEF Listed, Waited
  <2>2. CASE m.list # <<>>
    BY <1>1, <1>3, <1>4, <2>2, AddIdsLists
  <2>3. QED
    BY <2>1, <2>2
<1>6. TableInv'
  <2>1. clean' \in BOOLEAN /\ notice' \in BOOLEAN /\ announced' \subseteq Players
    BY <1>3, <1>4 DEF TableInv
  <2>2. QED
    BY <1>2, <1>4, <1>5, <2>1 DEF TableInv, Handled, Fewer, Listed
<1>7. ASSUME ~slow PROVE RoundInv'
  <2>1. OneRound(net) /\ m \in Members(net) /\ \A k \in Members(net') : ~IsList(k)
    BY <1>2, <1>7 DEF RoundInv, Handled
  <2>2. /\ table.status = "need_ids" /\ Filled(table) = {} /\ ~notice
        /\ clean => table.ids = <<>>
    BY <1>2, <1>7, <2>1 DEF RoundInv, ListFirst
  <2>3. Filled(table') = {} /\ RowsOnce(table'.rows) /\ Len(table'.rows) <= Cardinality(Players)
    BY <1>5, <1>7, <2>2 DEF Listed, RoundInv, Filled
  <2>4. ListFirst'
    BY <2>1 DEF ListFirst
  <2>5. Accounted'
    <3>1. SUFFICES ASSUME clean' PROVE Accounted'
      BY DEF Accounted
    <3>2. clean /\ ~Refused(table, m.list) /\ table.ids = <<>> /\ Members(table.ids) = {}
      <4>1. clean /\ ~Refused(table, m.list)
        BY <1>4, <3>1
      <4>2. table.ids = <<>>
        BY <2>2, <4>1
      <4>3. Members(table.ids) = {}
        BY <4>2 DEF Members
      <4>4. QED
        BY <4>1, <4>2, <4>3
    <3>3. announced = {}
      BY <1>7, <2>2, <3>2 DEF RoundInv, Accounted
    <3>4. announced' = Members(table'.ids) \cup Filled(table')
      BY <1>4, <1>5, <2>3, <3>1, <3>2, <3>3 DEF Listed
    <3>5. notice' => table'.ids = <<>>
      BY <1>4, <2>2
    <3>6. \A k \in Members(net') : k.kind = "error" => k.rid \notin Filled(table')
      BY <2>3
    <3>7. QED
      BY <3>4, <3>5, <3>6 DEF Accounted
  <2>6. OneRound(net') /\ shown' = shown
    BY <1>2, <2>1 DEF Handled, Fewer
  <2>7. QED
    BY <1>7, <2>3, <2>4, <2>5, <2>6 DEF RoundInv
<1>8. QED
  BY <1>2, <1>6, <1>7 DEF RoundInv, Handled

\* A player asked for again: nobody is waiting for a list.
LEMMA PongIdsAgainInv ==
  ASSUME TableInv, RoundInv, NEW m, PongIdsAgain(m)
  PROVE  TableInv' /\ RoundInv'
<1>1. GoodTable(table) /\ net \in Seq(Msg)
  BY DEF TableInv
<1>2. Handled(m) /\ m.rid # NoRid
  BY <1>1, Receives DEF PongIdsAgain
<1>3. Waited(table', table) /\ Waited(table, table)
  BY <1>1, WaitKeeps DEF PongIdsAgain, Becomes, Waited
<1>4. /\ ext' \in {"ok", "error"} /\ clean' = clean
      /\ announced' = (IF clean THEN announced ELSE {}) /\ notice' = (notice \/ FALSE)
  BY DEF PongIdsAgain, Becomes
<1>5. slow \/ ~(\E k \in Members(net) : IsList(k))
  BY <1>2 DEF RoundInv, OneRound, Handled, Members
<1>6. Rest /\ Fewer /\ UNCHANGED <<shown, notice>>
  BY <1>2, <1>4 DEF Rest, Handled, TableInv
<1>7. clean' \in BOOLEAN /\ (clean' => clean /\ announced' = announced) /\ announced' \subseteq Players
  BY <1>4 DEF TableInv
<1>8. QED
  BY <1>3, <1>5, <1>6, <1>7, TableStays

\* A row is taken if it is expected, after the list, and starts the table over if not.
LEMMA PongStatsInv ==
  ASSUME TableInv, RoundInv, NEW m, PongStats(m)
  PROVE  TableInv' /\ RoundInv'
<1>1. GoodTable(table) /\ net \in Seq(Msg)
  BY DEF TableInv
<1>2. Handled(m) /\ m.kind = "stats" /\ ext' = "ok" /\ m.id \in Players
  <2>1. Handled(m) /\ m.kind = "stats" /\ ext' = "ok"
    BY <1>1, Receives DEF PongStats
  <2>2. m \in Msg
    BY <2>1 DEF Handled, TableInv, GoodMsg
  <2>3. QED
    BY <2>1, <2>2, MsgTypes
<1>3. CASE ~Accepts(table, m.id)
  <2>1. /\ table' = Reset(table) /\ clean' = FALSE /\ announced' = {}
        /\ notice' = (notice \/ FALSE)
    BY <1>3 DEF PongStats, Becomes
  <2>2. Rest /\ Fewer /\ UNCHANGED <<shown, notice>>
    BY <1>2, <2>1 DEF Rest, Handled, TableInv
  <2>3. QED
    BY <2>1, <2>2, MidReset
<1>4. CASE Accepts(table, m.id)
  <2>1. /\ Rowed(table', table, m.id) /\ clean' = clean
        /\ announced' = (IF clean THEN announced ELSE {})
        /\ notice' = (notice \/ table'.ids = <<>>)
    BY <1>1, <1>2, <1>4, AddStatsRows DEF PongStats, Becomes
  <2>2. table.status = "need_stats" /\ m.id \in Members(table.ids)
    BY <1>4 DEF Accepts
  <2>3. TableInv'
    BY <1>2, <2>1 DEF TableInv, Handled, Fewer, Rowed
  <2>4. ASSUME ~slow PROVE RoundInv'
    <3>1. OneRound(net) /\ OneRound(net') /\ m \in Members(net) /\ shown' = shown
      BY <1>2, <2>4 DEF RoundInv, Handled, Fewer
    <3>2. m.id \notin Filled(table) /\ table.ids # <<>>
      BY <2>2, <2>4 DEF RoundInv, Members
    <3>3. /\ RowsOnce(table'.rows) /\ Len(table'.rows) <= Cardinality(Players)
          /\ Members(table'.ids) \cap Filled(table') = {}
      BY <2>1, <2>4, <3>2 DEF RoundInv, Rowed
    <3>4. ListFirst'
      BY <1>2, <2>2, <2>4 DEF RoundInv, ListFirst, Handled, Fewer
    <3>5. Accounted'
      <4>1. SUFFICES ASSUME clean PROVE Accounted'
        BY <2>1 DEF Accounted
      <4>2. /\ announced = Members(table.ids) \cup Filled(table) /\ ~notice
            /\ \A k \in Members(net) : k.kind = "error" => k.rid \notin Filled(table)
        BY <2>4, <3>2, <4>1 DEF RoundInv, Accounted
      <4>3. announced' = Members(table'.ids) \cup Filled(table')
        BY <2>1, <2>2, <4>1, <4>2 DEF Rowed
      <4>4. notice' => table'.ids = <<>>
        BY <2>1, <4>2
      <4>5. \A k \in Members(net') : k.kind = "error" => k.rid \notin Filled(table')
        <5>1. \A k \in Members(net) : k.kind = "error" => k.rid # m.id
          BY <1>2, <3>1 DEF OneRound, Members
        <5>2. QED
          BY <1>2, <2>1, <4>2, <5>1 DEF Rowed, Handled, Fewer
      <4>6. QED
        BY <4>3, <4>4, <4>5 DEF Accounted
    <3>6. QED
      BY <2>4, <3>1, <3>3, <3>4, <3>5 DEF RoundInv
  <2>5. QED
    BY <1>2, <2>3, <2>4 DEF RoundInv, Handled
<1>5. QED
  BY <1>3, <1>4

\* What cannot be read changes nothing, or resets the table.
LEMMA PongGarbledInv ==
  ASSUME TableInv, RoundInv, NEW m, PongGarbled(m)
  PROVE  TableInv' /\ RoundInv'
<1>1. GoodTable(table) /\ net \in Seq(Msg)
  BY DEF TableInv
<1>2. Handled(m)
  BY <1>1, Receives DEF PongGarbled
<1>3. notice' = (notice \/ FALSE) /\ ext' \in {"false", "error"}
  BY DEF PongGarbled, Becomes
<1>4. Rest /\ Fewer /\ UNCHANGED <<shown, notice>>
  BY <1>2, <1>3 DEF Rest, Handled, TableInv
<1>5. CASE table' = Reset(table) /\ clean' = FALSE /\ announced' = {}
  BY <1>4, <1>5, MidReset
<1>6. CASE table' = table /\ clean' = clean /\ announced' = IF clean THEN announced ELSE {}
  <2>1. Waited(table', table)
    BY <1>1, <1>6 DEF Waited
  <2>2. clean' \in BOOLEAN /\ (clean' => clean /\ announced' = announced) /\ announced' \subseteq Players
    BY <1>6 DEF TableInv
  <2>3. QED
    BY <1>4, <1>6, <2>1, <2>2, TableStays
<1>7. QED
  BY <1>5, <1>6 DEF PongGarbled, Becomes

\* What is shown is what should be: in a clean round who was announced has a row.
LEMMA GuiPongInv ==
  ASSUME TableInv, RoundInv, GuiPong
  PROVE  TableInv' /\ RoundInv'
<1>1. UNCHANGED <<slow, roster, calm, ext, table, fresh, net, announced, clean>>
  BY DEF GuiPong
<1>2. /\ notice /\ notice' = FALSE
      /\ shown' = [rows |-> Filled(table), whole |-> IF clean THEN announced ELSE Filled(table)]
  BY DisplayedFilled DEF GuiPong, TableInv
<1>3. Filled(table) \subseteq Players
  BY TableTypes DEF TableInv, GoodTable
<1>4. TableInv'
  BY <1>1, <1>2, <1>3 DEF TableInv
<1>5. ASSUME ~slow PROVE RoundInv'
  <2>1. shown'.rows = shown'.whole
    <3>1. ASSUME clean PROVE announced = Filled(table)
      <4>1. announced = Members(table.ids) \cup Filled(table) /\ table.ids = <<>>
        BY <1>2, <1>5, <3>1 DEF RoundInv, Accounted
      <4>2. Members(table.ids) = {}
        BY <4>1 DEF Members
      <4>3. QED
        BY <4>1, <4>2
    <3>2. QED
      BY <1>2, <3>1
  <2>2. ListFirst' /\ Accounted' /\ Filled(table') = Filled(table)
    BY <1>1, <1>2, <1>5 DEF RoundInv, ListFirst, Accounted, Filled
  <2>3. QED
    BY <1>1, <1>5, <2>1, <2>2 DEF RoundInv
<1>6. QED
  BY <1>1, <1>4, <1>5 DEF RoundInv

-----------------------------------------------------------------------------
(* The theorems.                                                           *)

LEMMA InitInv == Init => TableInv /\ RoundInv
<1>1. SUFFICES ASSUME Init PROVE TableInv /\ RoundInv
  OBVIOUS
<1>2. GoodTable(table) /\ Filled(table) = {} /\ Len(table.rows) = 0
  BY <1>1 DEF Init, NewTable, GoodTable, Table, Distinct, Compact, Filled, Members
<1>3. net = <<>> /\ Members(net) = {} /\ net \in Seq(Msg) /\ Len(net) = 0
  BY <1>1 DEF Init, Members
<1>4. TableInv
  BY <1>1, <1>2, <1>3 DEF Init, TableInv
<1>5. OneRound(net) /\ ListFirst /\ Accounted
  BY <1>1, <1>3 DEF Init, OneRound, ListFirst, Accounted
<1>6. RowsOnce(table.rows) /\ Len(table.rows) <= Cardinality(Players)
  <2>1. Cardinality(Players) \in Nat
    BY FS_CardinalityType, ExtInfoAssumption
  <2>2. QED
    BY <1>2, <2>1 DEF RowsOnce
<1>7. QED
  BY <1>1, <1>2, <1>4, <1>5, <1>6 DEF Init, RoundInv

LEMMA StepInv == TableInv /\ RoundInv /\ [Next]_vars => TableInv' /\ RoundInv'
<1>1. SUFFICES ASSUME TableInv, RoundInv, [Next]_vars PROVE TableInv' /\ RoundInv'
  OBVIOUS
<1>2. CASE Roster \/ CalmDown \/ UptimePong \/ UNCHANGED vars
  <2>1. UNCHANGED <<slow, table, net, notice, shown, announced, clean>>
    BY <1>2 DEF Roster, CalmDown, UptimePong, vars
  <2>2. Rest
    BY <1>1, <1>2 DEF Roster, CalmDown, UptimePong, vars, Rest, TableInv
  <2>3. TableInv'
    BY <1>1, <2>1, <2>2 DEF TableInv, Rest
  <2>4. RoundInv'
    BY <1>1, <2>1 DEF RoundInv, ListFirst, Accounted, Filled
  <2>5. QED
    BY <2>3, <2>4
<1>3. CASE \E force \in BOOLEAN : PingList(force)
  BY <1>1, <1>3, PingListInv
<1>4. CASE Resend
  BY <1>1, <1>4, ResendInv
<1>5. CASE PingTimeout
  <2>1. /\ table' = Reset(table) /\ clean' = FALSE /\ announced' = {}
        /\ UNCHANGED <<shown, notice, net>>
    BY <1>5 DEF PingTimeout
  <2>2. Rest /\ Fewer
    BY <1>1, <1>5 DEF PingTimeout, Rest, Fewer, TableInv
  <2>3. QED
    BY <1>1, <2>1, <2>2, MidReset
<1>6. CASE Pong
  BY <1>1, <1>6, PongErrorInv, PongIdsInv, PongIdsAgainInv, PongStatsInv, PongGarbledInv DEF Pong
<1>7. CASE GuiPong
  BY <1>1, <1>7, GuiPongInv
<1>8. QED
  BY <1>1, <1>2, <1>3, <1>4, <1>5, <1>6, <1>7 DEF Next

LEMMA Inductive == Spec => [](TableInv /\ RoundInv)
<1> QED BY InitInv, StepInv, PTL DEF Spec

\* The state has its types, whatever is lost, swapped or garbled and however slow it is.
THEOREM TypeCorrect == Spec => []TypeOK
<1>1. TableInv => TypeOK
  <2>1. SUFFICES ASSUME TableInv PROVE TypeOK
    OBVIOUS
  <2>2. /\ table.status \in {"need_ids", "need_stats"}
        /\ Members(table.ids) \subseteq Players
        /\ Members(table.rows) \subseteq Players \cup {FreeRow}
    BY <2>1, SeqTypes, TableTypes DEF TableInv, GoodTable
  <2>3. \A m \in Members(net) : m.kind \in {"ids", "stats", "error"}
    BY <2>1, MsgTypes DEF TableInv, GoodMsg
  <2>4. QED
    BY <2>1, <2>2, <2>3 DEF TableInv, TypeOK
<1> QED BY <1>1, Inductive, PTL

\* What the notice of a clean round shows is everyone who was announced and not
\* reported gone, if the rounds do not overlap.
THEOREM ReportsComplete == Spec => []CompleteReport
<1>1. RoundInv => CompleteReport
  BY DEF RoundInv, CompleteReport
<1> QED BY <1>1, Inductive, PTL

\* Nobody is expected twice, nobody has two rows, and there are never more rows than
\* players, free ones included.
THEOREM RowsAreSound == Spec => []RowsSound
<1>1. TableInv /\ RoundInv /\ Awaited => RowsSound
  BY DEF TableInv, RoundInv, GoodTable, RowsOnce, RowsSound, NoWedge
<1> QED BY <1>1, Inductive, NeverWedged, PTL

-----------------------------------------------------------------------------
(* What the list comes to show.                                            *)

\* The list was asked for and its answer is complete and first in the network, the table free.
JustAsked ==
  /\ net = ListAnswer
  /\ table.status = "need_ids" /\ table.ids = <<>> /\ Filled(table) = {} /\ ~notice

\* The list has come, and of each who is on it the row is there or under way.
Describing ==
  /\ \A i, j \in 1..Len(net) : net[i].kind = "stats" /\ (net[i].id = net[j].id => i = j)
  /\ Members(table.ids) = {net[i].id : i \in 1..Len(net)}
  /\ Members(table.ids) \cup Filled(table) = roster
  /\ Members(table.ids) \cap Filled(table) = {}
  /\ table.ids # <<>> => table.status = "need_stats" /\ ~notice

\* A round that nothing disturbs.
Settled == calm /\ (JustAsked \/ Describing)

\* Once the network is calm, a request that finds nobody expected starts a round that nothing
\* disturbs; the next round is another; and what is shown changes only to who is there.
Settles ==
  /\ calm /\ table.ids = <<>> /\ (\E force \in BOOLEAN : PingList(force)) => Settled'
  /\ Settled => Settled' /\ shown'.rows \in {shown.rows, roster}

\* An increasing function on 1..n that stays there changes nothing.
LEMMA IncreasingIsIdentity ==
  ASSUME NEW n \in Nat, NEW f \in Increasing(n, n)
  PROVE  \A i \in 1..n : f[i] = i
<1>1. /\ \A i \in 1..n : f[i] \in 1..n
      /\ \A i, j \in 1..n : i < j => f[i] < f[j]
  BY DEF Increasing
<1>2. \A i \in 1..n : f[i] >= i
  <2> DEFINE T == {i \in 0..n : i = 0 \/ f[i] >= i}
  <2>1. ASSUME NEW k \in 1..n, k - 1 \in T PROVE k \in T
    <3>1. CASE k = 1
      BY <1>1, <3>1
    <3>2. CASE k # 1
      <4>1. k - 1 \in 1..n /\ k - 1 < k /\ f[k - 1] >= k - 1
        BY <2>1, <3>2
      <4>2. f[k - 1] < f[k] /\ f[k - 1] \in Nat /\ f[k] \in Nat
        BY <1>1, <4>1
      <4> QED BY <4>1, <4>2
    <3> QED BY <3>1, <3>2
  <2>2. 0 \in T
    OBVIOUS
  <2> HIDE DEF T
  <2>3. 0..n \subseteq T
    BY <2>1, <2>2, Induct
  <2> QED BY <2>3 DEF T
<1>3. \A i \in 1..n : f[i] <= i
  <2> DEFINE T == {k \in 0..n : k = n \/ f[n - k] <= n - k}
  <2>1. ASSUME NEW k \in 1..n, k - 1 \in T PROVE k \in T
    <3>1. CASE k = n
      BY <3>1
    <3>2. CASE k # n
      <4>1. n - k \in 1..n /\ n - (k - 1) \in 1..n /\ n - k < n - (k - 1)
        BY <3>2
      <4>2. f[n - (k - 1)] <= n - (k - 1)
        BY <2>1, <3>2
      <4>3. f[n - k] < f[n - (k - 1)] /\ f[n - k] \in Nat /\ f[n - (k - 1)] \in Nat
        BY <1>1, <4>1
      <4> QED BY <4>1, <4>2, <4>3
    <3> QED BY <3>1, <3>2
  <2>2. 0 \in T
    <3>1. n # 0 => n \in 1..n
      OBVIOUS
    <3> QED BY <1>1, <3>1
  <2> HIDE DEF T
  <2>3. 0..n \subseteq T
    BY <2>1, <2>2, Induct
  <2>4. ASSUME NEW i \in 1..n PROVE f[i] <= i
    <3>1. n - i \in 0..n /\ n - (n - i) = i /\ n - i # n
      OBVIOUS
    <3> QED BY <2>3, <3>1 DEF T
  <2> QED BY <2>4
<1>4. \A i \in 1..n : f[i] \in Nat
  BY <1>1
<1> QED BY <1>2, <1>3, <1>4

\* A calm network delivers all of an answer.
LEMMA CalmSends ==
  ASSUME calm, net = <<>>, NEW answer \in Seq(Msg), Send(answer)
  PROVE  net' = answer
<1> DEFINE n == Len(answer)
<1>1. ~Allowed("lose") /\ n \in Nat
  BY SeqTypes DEF Allowed
<1>2. PICK kept \in Increasing(n, n) : net' = net \o [i \in 1..n |-> answer[kept[i]]]
  BY <1>1 DEF Send
<1>3. \A i \in 1..n : kept[i] = i
  BY <1>1, <1>2, IncreasingIsIdentity
<1>4. [i \in 1..n |-> answer[kept[i]]] = answer
  <2>1. answer = [i \in 1..n |-> answer[i]]
    BY SeqTypes
  <2> QED BY <1>3, <2>1
<1> QED BY <1>2, <1>4, ConcatEmptySeq

\* The list begins with the numbers and has a row for each of them.
LEMMA ListAnswerParts ==
  ASSUME roster \subseteq Players
  PROVE  /\ Len(ListAnswer) = Len(Numbers) + 1 /\ Len(Numbers) \in Nat
         /\ ListAnswer[1] = [kind |-> "ids", rid |-> NoRid, list |-> Numbers]
         /\ \A i \in 1..Len(Numbers) :
              ListAnswer[i + 1] = [kind |-> "stats", rid |-> NoRid, id |-> Numbers[i]]
<1> DEFINE n == Len(Numbers)
           first == [kind |-> "ids", rid |-> NoRid, list |-> Numbers]
           row(i) == [kind |-> "stats", rid |-> NoRid, id |-> Numbers[i]]
           rest == [i \in 1..n |-> row(i)]
<1>1. Numbers \in Seq(Players) /\ n = Cardinality(roster) /\ n \in Nat
  BY NumbersOnce, SeqTypes
<1>2. \A i \in 1..n : Numbers[i] \in Players
  BY <1>1, SeqTypes
<1>3. first \in Msg /\ \A i \in 1..n : row(i) \in Msg
  BY <1>1, <1>2 DEF Msg
<1>4. ListAnswer = <<first>> \o rest
  BY <1>1 DEF ListAnswer
<1> HIDE DEF first, row
<1>5. rest \in Seq(Msg) /\ Len(rest) = n /\ \A i \in 1..n : rest[i] = row(i)
  BY <1>1, <1>3
<1>6. <<first>> \in Seq(Msg) /\ Len(<<first>>) = 1 /\ <<first>>[1] = first
  BY <1>3
<1> HIDE DEF rest
<1>7. /\ Len(ListAnswer) = n + 1
      /\ \A i \in 1..(n + 1) : ListAnswer[i] = IF i <= 1 THEN first ELSE rest[i - 1]
  <2>1. /\ Len(<<first>> \o rest) = Len(<<first>>) + Len(rest)
        /\ \A i \in 1..(Len(<<first>>) + Len(rest)) :
             (<<first>> \o rest)[i] = IF i <= Len(<<first>>) THEN <<first>>[i] ELSE rest[i - Len(<<first>>)]
    BY <1>5, <1>6, ConcatProperties
  <2> QED BY <1>1, <1>4, <1>5, <1>6, <2>1
<1>8. ListAnswer[1] = first
  BY <1>1, <1>7
<1>9. ASSUME NEW i \in 1..n PROVE ListAnswer[i + 1] = row(i)
  <2>1. i + 1 \in 1..(n + 1) /\ ~(i + 1 <= 1) /\ i + 1 - 1 = i
    BY <1>1
  <2> QED BY <1>5, <1>7, <2>1
<1> QED BY <1>1, <1>7, <1>8, <1>9 DEF first, row

\* The numbers are those of all who play.
LEMMA NumbersAll ==
  ASSUME roster \subseteq Players
  PROVE  Members(Numbers) = roster
<1> DEFINE n == Cardinality(roster)
<1>1. IsFiniteSet(roster) /\ n \in Nat
  BY FS_Subset, FS_CardinalityType, ExtInfoAssumption
<1>2. /\ Numbers \in Seq(Players) /\ Len(Numbers) = n
      /\ Distinct(Numbers) /\ \A i \in 1..n : Numbers[i] \in roster
  BY NumbersOnce
<1>3. Numbers = [i \in 1..n |-> Numbers[i]]
  BY <1>2, SeqTypes
<1>4. Numbers \in [1..n -> roster]
  BY <1>2, <1>3
<1>5. Numbers \in Injection(1..n, roster)
  BY <1>2, <1>4 DEF Injection, IsInjective, Distinct
<1>6. Cardinality(1..n) = Cardinality(roster)
  BY <1>1, FS_Interval
<1>7. Numbers \in Surjection(1..n, roster)
  BY <1>1, <1>5, <1>6, FS_Injection
<1> QED BY <1>2, <1>7 DEF Surjection, Members

\* In a calm network the oldest datagram comes first.
LEMMA CalmReceives ==
  ASSUME net \in Seq(Msg), calm, NEW m, Receive(m)
  PROVE  /\ 1 \in 1..Len(net) /\ m = net[1] /\ net' \in Seq(Msg)
         /\ Len(net') = Len(net) - 1 /\ Len(net) \in Nat
         /\ \A k \in 1..Len(net') : net'[k] = net[k + 1]
         /\ UNCHANGED <<calm, roster, shown>>
<1>1. PICK i \in 1..Len(net) : i = 1 /\ m = net[i] /\ net' = Without(net, i)
  BY DEF Receive, Allowed
<1>2. net' \in Seq(Msg) /\ Removed(net', net, 1)
  BY <1>1, WithoutProperties
<1>3. Len(net) \in Nat /\ Len(net') \in Nat
  BY <1>2, SeqTypes
<1> QED BY <1>1, <1>2, <1>3 DEF Removed, Receive

\* A request that finds nobody expected is answered in full, to a free table.
LEMMA AskSettles ==
  ASSUME TableInv, calm, table.ids = <<>>, NEW force \in BOOLEAN, PingList(force)
  PROVE  Settled' /\ shown' = shown
<1>1. net = <<>> /\ ~notice
  BY DEF PingList, Quiet
<1>2. ListAnswer \in Seq(Msg)
  BY ListAnswers DEF TableInv
<1>3. net' = ListAnswer
  BY <1>1, <1>2, CalmSends DEF PingList
<1>4. roster' = roster /\ calm' = calm /\ notice' = notice /\ shown' = shown
  BY DEF PingList
<1>5. ListAnswer' = ListAnswer
  BY <1>4 DEF ListAnswer, Numbers
<1>6. Emptied(table', table)
  BY ResetEmpties DEF PingList, TableInv
<1> QED BY <1>1, <1>3, <1>4, <1>5, <1>6 DEF Settled, JustAsked, Emptied

\* A list that an empty table takes is what it expects.
LEMMA TakesList ==
  ASSUME NEW t \in Table, t.ids = <<>>, t.status = "need_ids", NEW list \in Seq(Players),
         NEW u, u = IF list = <<>> THEN SetWaitForStats(t) ELSE AddIds(t, list)
  PROVE  /\ u.ids = list /\ u.rows = t.rows
         /\ list # <<>> => u.status = "need_stats"
<1>1. CASE list = <<>>
  BY <1>1 DEF SetWaitForStats, Table
<1>2. CASE list # <<>>
  <2>1. Members(t.ids) = {}
    BY DEF Members
  <2>2. {j \in 1..Len(list) : t.status # "need_ids" \/ list[j] \in Members(t.ids)} = {}
    BY <2>1
  <2>3. u = SetWaitForStats([t EXCEPT !.ids = t.ids \o list])
    BY <1>2, <2>2 DEF AddIds
  <2>4. t.ids \o list = list
    BY ConcatEmptySeq
  <2> QED BY <1>2, <2>3, <2>4 DEF SetWaitForStats, Table
<1> QED BY <1>1, <1>2

\* What is left of the ids decides the status.
LEMMA StillWaits ==
  ASSUME NEW t \in Table, t.status = "need_stats", NEW id, AddStats(t, id).ids # <<>>
  PROVE  AddStats(t, id).status = "need_stats"
<1>1. PICK r : AddStats(t, id) = [RemoveId(t, id) EXCEPT !.rows = r]
  BY DEF AddStats
<1>2. CASE id \notin Members(t.ids)
  BY <1>1, <1>2 DEF RemoveId, Table
<1>3. CASE id \in Members(t.ids)
  <2>1. PICK left : RemoveId(t, id) =
          [t EXCEPT !.ids = left, !.status = IF left = <<>> THEN "need_ids" ELSE @]
    BY <1>3 DEF RemoveId
  <2> QED BY <1>1, <2>1 DEF Table
<1> QED BY <1>2, <1>3

\* The list comes first.
LEMMA ListSettles ==
  ASSUME TableInv, calm, JustAsked, Pong
  PROVE  Settled' /\ shown' = shown
<1>1. PICK m \in Members(net) :
        PongError(m) \/ PongIds(m) \/ PongIdsAgain(m) \/ PongStats(m) \/ PongGarbled(m)
  BY DEF Pong
<1>2. Receive(m)
  BY <1>1 DEF PongError, PongIds, PongIdsAgain, PongStats, PongGarbled
<1>3. /\ m = net[1] /\ Len(net') = Len(net) - 1 /\ Len(net) \in Nat
      /\ \A k \in 1..Len(net') : net'[k] = net[k + 1]
      /\ UNCHANGED <<calm, roster, shown>>
  BY <1>2, CalmReceives DEF TableInv
<1>4. /\ Len(net) = Len(Numbers) + 1 /\ Len(Numbers) \in Nat
      /\ m = [kind |-> "ids", rid |-> NoRid, list |-> Numbers]
      /\ \A i \in 1..Len(Numbers) : net[i + 1] = [kind |-> "stats", rid |-> NoRid, id |-> Numbers[i]]
  BY <1>3, ListAnswerParts DEF TableInv, JustAsked
<1>5. PongIds(m)
  BY <1>1, <1>4 DEF PongError, PongIdsAgain, PongStats, PongGarbled, Allowed
<1>6. /\ Numbers \in Seq(Players) /\ Members(Numbers) = roster /\ Distinct(Numbers)
  BY NumbersOnce, NumbersAll DEF TableInv
<1>7. /\ table' = IF Numbers = <<>> THEN SetWaitForStats(table) ELSE AddIds(table, Numbers)
      /\ notice' = (notice \/ table'.ids = <<>>)
  BY <1>4, <1>5 DEF PongIds, Becomes
<1>8. /\ table'.ids = Numbers /\ table'.rows = table.rows
      /\ Numbers # <<>> => table'.status = "need_stats"
  BY <1>6, <1>7, TakesList DEF TableInv, JustAsked, GoodTable
<1>9. Filled(table') = {}
  BY <1>8 DEF Filled, JustAsked
<1>10. ASSUME NEW i \in 1..Len(net')
       PROVE  i \in 1..Len(Numbers) /\ net'[i].kind = "stats" /\ net'[i].id = Numbers[i]
  <2>1. i \in 1..Len(Numbers)
    BY <1>3, <1>4
  <2>2. net'[i] = [kind |-> "stats", rid |-> NoRid, id |-> Numbers[i]]
    BY <1>3, <1>4, <2>1
  <2> QED BY <2>1, <2>2
<1>11. \A i \in 1..Len(Numbers) : i \in 1..Len(net')
  BY <1>3, <1>4
<1>12. {net'[i].id : i \in 1..Len(net')} = Members(Numbers)
  BY <1>10, <1>11 DEF Members
<1>13. \A i, j \in 1..Len(net') : net'[i].id = net'[j].id => i = j
  BY <1>6, <1>10 DEF Distinct
<1>14. table'.ids # <<>> => table'.status = "need_stats" /\ ~notice'
  BY <1>7, <1>8 DEF JustAsked
<1>15. Describing'
  BY <1>3, <1>6, <1>8, <1>9, <1>10, <1>12, <1>13, <1>14 DEF Describing
<1> QED BY <1>3, <1>15 DEF Settled

\* Then the rows, all of them expected.
LEMMA RowSettles ==
  ASSUME TableInv, calm, Describing, Pong
  PROVE  Settled' /\ shown' = shown
<1>1. PICK m \in Members(net) :
        PongError(m) \/ PongIds(m) \/ PongIdsAgain(m) \/ PongStats(m) \/ PongGarbled(m)
  BY DEF Pong
<1>2. Receive(m)
  BY <1>1 DEF PongError, PongIds, PongIdsAgain, PongStats, PongGarbled
<1>3. /\ 1 \in 1..Len(net) /\ m = net[1] /\ Len(net') = Len(net) - 1 /\ Len(net) \in Nat
      /\ \A k \in 1..Len(net') : net'[k] = net[k + 1]
      /\ UNCHANGED <<calm, roster, shown>>
  BY <1>2, CalmReceives DEF TableInv
<1>4. m.kind = "stats" /\ m.id \in Members(table.ids)
  BY <1>3 DEF Describing
<1>5. table.ids # <<>> /\ table.status = "need_stats" /\ ~notice
  <2>1. table.ids # <<>>
    BY <1>4 DEF Members
  <2> QED BY <2>1 DEF Describing
<1>6. PongStats(m)
  BY <1>1, <1>4 DEF PongError, PongIds, PongIdsAgain, PongGarbled, Allowed
<1>7. table' = AddStats(table, m.id) /\ notice' = (notice \/ table'.ids = <<>>)
  BY <1>4, <1>5, <1>6 DEF PongStats, Becomes, Accepts
<1>8. GoodTable(table) /\ table \in Table /\ m.id \in Players
  BY <1>4, TableTypes DEF TableInv, GoodTable
<1>9. Filled(table') = Filled(table) \cup {m.id} /\ Members(table'.ids) = Members(table.ids) \ {m.id}
  BY <1>7, <1>8, AddStatsRows DEF Rowed
<1>10. table'.ids # <<>> => table'.status = "need_stats" /\ ~notice'
  BY <1>5, <1>7, <1>8, StillWaits
<1>11. \A k \in 1..Len(net') : k + 1 \in 1..Len(net) /\ k + 1 # 1 /\ net'[k] = net[k + 1]
  BY <1>3
<1>12. \A i, j \in 1..Len(net') : net'[i].kind = "stats" /\ (net'[i].id = net'[j].id => i = j)
  <2>1. \A i, j \in 1..Len(net') : net'[i].id = net'[j].id => i + 1 = j + 1
    BY <1>11 DEF Describing
  <2> QED BY <1>11, <2>1 DEF Describing
<1>13. {net'[k].id : k \in 1..Len(net')} = Members(table.ids) \ {m.id}
  <2>1. \A k \in 1..Len(net') : net'[k].id # m.id /\ net'[k].id \in Members(table.ids)
    BY <1>3, <1>11 DEF Describing
  <2>2. ASSUME NEW e \in Members(table.ids) \ {m.id} PROVE \E k \in 1..Len(net') : e = net'[k].id
    <3>1. PICK i \in 1..Len(net) : e = net[i].id
      BY DEF Describing
    <3>2. i # 1 /\ i - 1 \in 1..Len(net') /\ (i - 1) + 1 = i
      BY <1>3, <2>2, <3>1
    <3> QED BY <1>3, <3>1, <3>2
  <2> QED BY <2>1, <2>2
<1>14. /\ Members(table'.ids) \cup Filled(table') = roster'
       /\ Members(table'.ids) \cap Filled(table') = {}
  BY <1>3, <1>4, <1>9 DEF Describing
<1>15. Members(table'.ids) = {net'[k].id : k \in 1..Len(net')}
  BY <1>9, <1>13
<1>16. Describing'
  BY <1>10, <1>12, <1>14, <1>15 DEF Describing
<1> QED BY <1>3, <1>16 DEF Settled

\* A notice comes when everyone has a row.
LEMMA NoticeSettles ==
  ASSUME TableInv, calm, JustAsked \/ Describing, GuiPong
  PROVE  Settled' /\ shown'.rows = roster
<1>1. notice /\ notice' = FALSE /\ shown'.rows = Displayed(table)
  BY DEF GuiPong
<1>2. UNCHANGED <<roster, calm, table, net>>
  BY DEF GuiPong
<1>3. Describing /\ table.ids = <<>>
  BY <1>1 DEF JustAsked, Describing
<1>4. Members(table.ids) = {}
  BY <1>3 DEF Members
<1>5. shown'.rows = roster
  BY <1>1, <1>3, <1>4, DisplayedFilled DEF Describing, TableInv
<1>6. Describing'
  BY <1>1, <1>2, <1>3 DEF Describing, Filled
<1> QED BY <1>2, <1>5, <1>6 DEF Settled

\* A round that nothing disturbs stays so, and the next request starts another.
LEMMA StepSettles ==
  ASSUME TableInv, Settled, [Next]_vars
  PROVE  Settled' /\ shown'.rows \in {shown.rows, roster}
<1> USE DEF Settled
<1>1. CASE UptimePong \/ UNCHANGED vars
  <2>1. UNCHANGED <<roster, calm, table, net, notice, shown>>
    BY <1>1 DEF UptimePong, vars
  <2>2. ListAnswer' = ListAnswer /\ Filled(table') = Filled(table)
    BY <2>1 DEF ListAnswer, Numbers
  <2>3. JustAsked => JustAsked'
    BY <2>1, <2>2 DEF JustAsked
  <2>4. Describing => Describing'
    BY <2>1, <2>2 DEF Describing
  <2> QED BY <2>1, <2>3, <2>4
<1>2. CASE Roster \/ CalmDown \/ PingTimeout
  BY <1>2 DEF Roster, CalmDown, PingTimeout
<1>3. net = <<>> => Describing /\ table.ids = <<>>
  <2>1. JustAsked => net # <<>>
    <3>1. Len(ListAnswer) # 0
      BY ListAnswerParts DEF TableInv
    <3> QED BY <3>1 DEF JustAsked
  <2>2. Describing /\ net = <<>> => Members(table.ids) = {}
    BY DEF Describing
  <2>3. table.ids \in Seq(Players)
    BY TableTypes DEF TableInv, GoodTable
  <2>4. Members(table.ids) = {} => table.ids = <<>>
    <3>1. Len(table.ids) \in Nat
      BY <2>3, SeqTypes
    <3>2. table.ids # <<>> => 1 \in 1..Len(table.ids)
      BY <2>3, <3>1, EmptySeq
    <3> QED BY <3>2 DEF Members
  <2> QED BY <2>1, <2>2, <2>4
<1>4. ASSUME NEW force \in BOOLEAN, PingList(force) PROVE Settled' /\ shown' = shown
  <2>1. net = <<>>
    BY <1>4 DEF PingList, Quiet
  <2> QED BY <1>3, <1>4, <2>1, AskSettles
<1>5. CASE Resend
  <2>1. net = <<>> /\ table.ids # <<>>
    BY <1>5 DEF Resend, Quiet
  <2> QED BY <1>3, <2>1
<1>6. CASE Pong
  BY <1>6, ListSettles, RowSettles
<1>7. CASE GuiPong
  BY <1>7, NoticeSettles
<1> QED BY <1>1, <1>2, <1>4, <1>5, <1>6, <1>7 DEF Next

\* In a calm network a request that finds nobody expected leads to a list that shows exactly
\* who is there, and so does each one after it: no notice shows anything else, in whatever
\* state the faults before left the table. This is the part of Recovers that is safety
\* (CslEngine.cpp:652-790, CslListCtrlPlayer.cpp:372-379).
THEOREM RecoveryHolds == Spec => [][Settles]_vars
<1>1. TableInv /\ [Next]_vars => [Settles]_vars
  <2> SUFFICES ASSUME TableInv, [Next]_vars PROVE Settles
    OBVIOUS
  <2>1. Settled => Settled' /\ shown'.rows \in {shown.rows, roster}
    BY StepSettles
  <2>2. calm /\ table.ids = <<>> /\ (\E force \in BOOLEAN : PingList(force)) => Settled'
    BY AskSettles
  <2> QED BY <2>1, <2>2 DEF Settles
<1> QED BY <1>1, Inductive, PTL DEF Spec
=============================================================================
