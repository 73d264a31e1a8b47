------------------------------ MODULE PlayerStats ------------------------------
(***************************************************************************)
(* The player table of one server (src/engine/CslExtendedInfo.cpp,         *)
(* CslPlayerStats): the client numbers still expected (m_ids) and the rows *)
(* (m_stats).  A row whose Ok is false is free: GetNewStats reuses it and  *)
(* parsing overwrites it, so all that is kept of it is that it is there.   *)
(* The operators take the table and give the table a method leaves.        *)
(***************************************************************************)
EXTENDS Integers, Sequences, FiniteSets

CONSTANT Players     \* the client numbers the server may announce

FreeRow == -1      \* no client number

\* [status, ids, rows]: m_status, m_ids, and m_stats with ~Ok rows as FreeRow
Table == [status : {"need_ids", "need_stats"},
          ids    : Seq(Players),
          rows   : Seq(Players \cup {FreeRow})]

NewTable == [status |-> "need_ids", ids |-> <<>>, rows |-> <<>>]

Members(s) == {s[i] : i \in 1..Len(s)}

\* The rows that count.
Filled(t)  == Members(t.rows) \ {FreeRow}

Distinct(s) == \A i, j \in 1..Len(s) : s[i] = s[j] => i = j

\* Mutation: free rows are displayed too.
EveryRow(t) == Members(t.rows)

\* The rows the player list displays: those before the first free one.
Displayed(t) == {t.rows[i] : i \in {k \in 1..Len(t.rows) : \A j \in 1..k : t.rows[j] # FreeRow}}

\* s without the element at position i (vector::remove).
Without(s, i) == SubSeq(s, 1, i - 1) \o SubSeq(s, i + 1, Len(s))

\* Reset(): every row becomes free.  The loop over m_ids removes the head while
\* its index grows and the length shrinks, so it stops half way and the last
\* Len \div 2 ids stay behind.
Reset(t) ==
  [status |-> "need_ids",
   ids    |-> SubSeq(t.ids, (Len(t.ids) + 1) \div 2 + 1, Len(t.ids)),
   rows   |-> [i \in 1..Len(t.rows) |-> FreeRow]]

\* SetWaitForStats()
SetWaitForStats(t) ==
  [t EXCEPT !.status = IF t.ids = <<>> THEN "need_ids" ELSE "need_stats"]

\* The loop of ParsePong over an announced id list: AddId for each, and at the
\* first id that is refused Reset and stop; SetWaitForStats in either case.
AddIds(t, list) ==
  LET refused == {j \in 1..Len(list) : t.status # "need_ids" \/ list[j] \in Members(t.ids)}
      first   == CHOOSE j \in refused : \A k \in refused : j <= k
  IN IF refused = {}
       THEN SetWaitForStats([t EXCEPT !.ids = t.ids \o list])
       ELSE SetWaitForStats(Reset([t EXCEPT !.ids = t.ids \o SubSeq(list, 1, first - 1)]))

\* RemoveId(id)
RemoveId(t, id) ==
  IF id \notin Members(t.ids) THEN t
  ELSE LET i    == CHOOSE j \in 1..Len(t.ids) : t.ids[j] = id
           left == Without(t.ids, i)
       IN [t EXCEPT !.ids = left, !.status = IF left = <<>> THEN "need_ids" ELSE @]

\* AddStats(data) for a row parsed for id: accepted only while stats are awaited
\* and the id is expected.
Accepts(t, id) == t.status = "need_stats" /\ id \in Members(t.ids)

\* Mutation: GetNewStats never finds a free row.
AddStatsNew(t, id) == [RemoveId(t, id) EXCEPT !.rows = Append(t.rows, id)]

\* GetNewStats() gives the first free row or one to add; AddStats fills it.
AddStats(t, id) ==
  LET free == {i \in 1..Len(t.rows) : t.rows[i] = FreeRow}
      u    == RemoveId(t, id)
  IN [u EXCEPT !.rows = IF free = {} THEN Append(t.rows, id)
                        ELSE [t.rows EXCEPT ![CHOOSE i \in free : \A k \in free : i <= k] = id]]
=============================================================================
