---------------------------- MODULE RegistryProofs ----------------------------
(***************************************************************************)
(* What holds of Registry for every number of masters, servers and ids.    *)
(*                                                                         *)
(* A handler is a loop of calls on the game.  Induct and Iterates, from    *)
(* the well-foundedness of the naturals, give the values the loop goes     *)
(* through; each call keeps Sound, the inductive invariant, and a few      *)
(* facts that say what it leaves alone.                                    *)
(***************************************************************************)
EXTENDS Registry, SequenceTheorems, FiniteSetTheorems, WellFoundedInduction, TLAPS

-----------------------------------------------------------------------------
(* Induction up to n, and the existence of what is defined by iteration.   *)

\* A set of naturals that is not empty has a least element.
LEMMA Least ==
  ASSUME NEW T, T \subseteq Nat, T # {}
  PROVE  \E x \in T : \A y \in T : x <= y
<1>1. PICK x \in T : \A y \in T : ~(<<y, x>> \in OpToRel(<, Nat))
  BY NatLessThanWellFounded, WFMin
<1>2. ASSUME NEW y \in T, y < x PROVE FALSE
  <2>1. <<y, x>> \in OpToRel(<, Nat)
    BY <1>2 DEF OpToRel
  <2>2. QED
    BY <1>1, <2>1
<1>3. \A y \in T : x <= y
  BY <1>2
<1>4. QED
  BY <1>3

\* Induction over 0..n, with a set for the predicate.
LEMMA Induct ==
  ASSUME NEW n \in Nat, NEW T, 0 \in T, \A k \in 1..n : k - 1 \in T => k \in T
  PROVE  0..n \subseteq T
<1> DEFINE U == {k \in 0..n : k \notin T}
<1>1. SUFFICES ASSUME U # {} PROVE FALSE
  OBVIOUS
<1>2. U \subseteq Nat
  OBVIOUS
<1>3. PICK x \in U : \A y \in U : x <= y
  <2> HIDE DEF U
  <2>1. QED
    BY <1>1, <1>2, Least
<1>4. x \in 1..n /\ x - 1 \in 0..n
  OBVIOUS
<1>5. x - 1 \in U
  BY <1>4
<1>6. QED
  BY <1>3, <1>4, <1>5

\* A function on a set can be iterated from any of its elements: s holds the
\* values a loop of n rounds goes through.
StepsOn(F, U, n) == F \in [U \X (1..n) -> U]

Iterated(s, F, U, r, n) ==
  /\ s \in [0..n -> U] /\ s[0] = r
  /\ \A k \in 1..n : s[k] = F[<<s[k - 1], k>>]

LEMMA Iterates ==
  ASSUME NEW n \in Nat, NEW U, NEW r \in U, NEW F, StepsOn(F, U, n)
  PROVE  \E s : Iterated(s, F, U, r, n)
<1> DEFINE Upto(s, m) == s[0] = r /\ \A k \in 1..m : s[k] = F[<<s[k - 1], k>>]
<1> DEFINE T == {m \in 0..n : \E s \in [0..n -> U] : Upto(s, m)}
<1>0. F \in [U \X (1..n) -> U]
  BY DEF StepsOn
<1>1. 0 \in T
  <2> DEFINE t == [k \in 0..n |-> r]
  <2>1. t \in [0..n -> U]
    OBVIOUS
  <2>2. t[0] = r /\ \A k \in 1..0 : t[k] = F[<<t[k - 1], k>>]
    OBVIOUS
  <2> HIDE DEF t
  <2>3. QED
    BY <2>1, <2>2
<1>2. ASSUME NEW m \in 1..n, m - 1 \in T PROVE m \in T
  <2>1. PICK s \in [0..n -> U] : Upto(s, m - 1)
    BY <1>2
  <2>2. F[<<s[m - 1], m>>] \in U
    BY <1>0
  <2> DEFINE t == [s EXCEPT ![m] = F[<<s[m - 1], m>>]]
  <2>3. t \in [0..n -> U]
    BY <2>2
  <2>4. t[0] = r
    BY <2>1
  <2>5. ASSUME NEW k \in 1..m PROVE t[k] = F[<<t[k - 1], k>>]
    <3>1. CASE k = m
      BY <3>1
    <3>2. CASE k # m
      <4>1. k \in 1..(m - 1) /\ k - 1 # m /\ k \in 0..n /\ k - 1 \in 0..n
        BY <3>2
      <4>2. s[k] = F[<<s[k - 1], k>>]
        BY <2>1, <4>1
      <4>3. QED
        BY <3>2, <4>1, <4>2
    <3>3. QED
      BY <3>1, <3>2
  <2> HIDE DEF t
  <2>6. QED
    BY <2>3, <2>4, <2>5
<1>3. n \in T
  <2> HIDE DEF T
  <2>1. 0..n \subseteq T
    BY <1>1, <1>2, Induct
  <2>2. QED
    BY <2>1
<1>4. QED
  BY <1>3 DEF Iterated

-----------------------------------------------------------------------------
(* Sequences.                                                              *)

LEMMA MembersIn ==
  ASSUME NEW S, NEW s \in Seq(S)
  PROVE  Members(s) \subseteq S
BY DEF Members

LEMMA MembersEmpty ==
  ASSUME NEW S, NEW s \in Seq(S), Members(s) = {}
  PROVE  s = <<>>
<1>1. Len(s) \in Nat /\ (1 \in 1..Len(s) => s[1] \in Members(s))
  BY DEF Members
<1>2. Len(s) = 0
  BY <1>1
<1>3. QED
  BY <1>2, EmptySeq

LEMMA MembersAppend ==
  ASSUME NEW S, NEW s \in Seq(S), NEW e \in S
  PROVE  /\ Append(s, e) \in Seq(S) /\ Len(Append(s, e)) = Len(s) + 1
         /\ \A i \in 1..Len(s) : Append(s, e)[i] = s[i]
         /\ Append(s, e)[Len(s) + 1] = e
         /\ Members(Append(s, e)) = Members(s) \cup {e}
<1>1. /\ Append(s, e) \in Seq(S) /\ Len(Append(s, e)) = Len(s) + 1
      /\ \A i \in 1..Len(s) : Append(s, e)[i] = s[i]
      /\ Append(s, e)[Len(s) + 1] = e
  BY AppendProperties
<1>2. 1..(Len(s) + 1) = (1..Len(s)) \cup {Len(s) + 1}
  OBVIOUS
<1>3. QED
  BY <1>1, <1>2 DEF Members

LEMMA RemoveAtProperties ==
  ASSUME NEW S, NEW s \in Seq(S), NEW i \in 1..Len(s)
  PROVE  /\ RemoveAt(s, i) \in Seq(S)
         /\ Len(RemoveAt(s, i)) = Len(s) - 1
         /\ \A k \in 1..(Len(s) - 1) : RemoveAt(s, i)[k] = IF k < i THEN s[k] ELSE s[k + 1]
<1> DEFINE a == SubSeq(s, 1, i - 1)
           b == SubSeq(s, i + 1, Len(s))
<1>1. a \in Seq(S) /\ Len(a) = i - 1 /\ \A k \in 1..(i - 1) : a[k] = s[k]
  <2>1. \A k \in 1..(i - 1) : s[k] \in S
    BY ElementOfSeq
  <2>2. QED
    BY <2>1, SubSeqProperties
<1>2. b \in Seq(S) /\ Len(b) = Len(s) - i /\ \A k \in 1..(Len(s) - i) : b[k] = s[k + i]
  <2>1. \A k \in (i + 1)..Len(s) : s[k] \in S
    BY ElementOfSeq
  <2>2. QED
    BY <2>1, SubSeqProperties
<1>3. RemoveAt(s, i) = a \o b
  BY DEF RemoveAt
<1> HIDE DEF a, b
<1>4. /\ a \o b \in Seq(S) /\ Len(a \o b) = Len(s) - 1
      /\ \A k \in 1..(Len(s) - 1) : (a \o b)[k] = IF k <= Len(a) THEN a[k] ELSE b[k - Len(a)]
  <2>1. /\ a \o b \in Seq(S) /\ Len(a \o b) = Len(a) + Len(b)
        /\ \A k \in 1..(Len(a) + Len(b)) : (a \o b)[k] = IF k <= Len(a) THEN a[k] ELSE b[k - Len(a)]
    BY <1>1, <1>2, ConcatProperties
  <2>2. Len(a) + Len(b) = Len(s) - 1
    BY <1>1, <1>2
  <2>3. QED
    BY <2>1, <2>2
<1>5. ASSUME NEW k \in 1..(Len(s) - 1)
      PROVE  (a \o b)[k] = IF k < i THEN s[k] ELSE s[k + 1]
  <2>1. CASE k < i
    BY <1>1, <1>4, <2>1
  <2>2. CASE k >= i
    <3>1. k - Len(a) \in 1..(Len(s) - i) /\ k - Len(a) + i = k + 1
      BY <1>1, <2>2
    <3>2. QED
      BY <1>1, <1>2, <1>4, <2>2, <3>1
  <2>3. k < i \/ k >= i
    OBVIOUS
  <2>4. QED
    BY <2>1, <2>2, <2>3
<1>6. QED
  BY <1>3, <1>4, <1>5

LEMMA RemoveFirstAt ==
  ASSUME NEW S, NEW s \in Seq(S), NEW e \in Members(s)
  PROVE  \E i \in 1..Len(s) : s[i] = e /\ RemoveFirst(s, e) = RemoveAt(s, i)
<1> DEFINE I == {i \in 1..Len(s) : s[i] = e}
<1>1. I # {} /\ I \subseteq Nat
  BY DEF Members
<1>2. \E x \in I : \A y \in I : x <= y
  <2> HIDE DEF I
  <2>1. QED
    BY <1>1, Least
<1>3. Min(I) \in I
  <2> HIDE DEF I
  <2>1. QED
    BY <1>2 DEF Min
<1>4. RemoveFirst(s, e) = RemoveAt(s, Min(I))
  BY <1>1, <1>3 DEF RemoveFirst, SelectInSeq
<1>5. QED
  BY <1>3, <1>4

LEMMA RemoveFirstProperties ==
  ASSUME NEW S, NEW s \in Seq(S), NEW e
  PROVE  /\ RemoveFirst(s, e) \in Seq(S)
         /\ Len(RemoveFirst(s, e)) \in 0..Len(s)
         /\ Members(RemoveFirst(s, e)) \subseteq Members(s)
         /\ Members(s) \subseteq Members(RemoveFirst(s, e)) \cup {e}
         /\ IsInjective(s) => /\ IsInjective(RemoveFirst(s, e))
                              /\ e \notin Members(RemoveFirst(s, e))
<1>1. CASE e \notin Members(s)
  <2>1. RemoveFirst(s, e) = s
    BY <1>1 DEF RemoveFirst, Members
  <2>2. QED
    BY <1>1, <2>1
<1>2. CASE e \in Members(s)
  <2>1. PICK i \in 1..Len(s) : s[i] = e /\ RemoveFirst(s, e) = RemoveAt(s, i)
    BY <1>2, RemoveFirstAt
  <2> DEFINE t == RemoveAt(s, i)
  <2>2. /\ t \in Seq(S) /\ Len(t) = Len(s) - 1
        /\ \A k \in 1..(Len(s) - 1) : t[k] = IF k < i THEN s[k] ELSE s[k + 1]
    BY RemoveAtProperties
  <2>3. Len(s) \in Nat /\ DOMAIN s = 1..Len(s) /\ DOMAIN t = 1..(Len(s) - 1)
    <3> HIDE DEF t
    <3>1. QED
      BY <2>2, LenProperties
  <2> HIDE DEF t
  <2>4. Members(t) \subseteq Members(s)
    <3>1. \A k \in 1..Len(t) : \E j \in 1..Len(s) : t[k] = s[j]
      BY <2>2, <2>3
    <3>2. QED
      BY <3>1 DEF Members
  <2>5. Members(s) \subseteq Members(t) \cup {e}
    <3>1. ASSUME NEW j \in 1..Len(s), s[j] # e
          PROVE  \E k \in 1..Len(t) : t[k] = s[j]
      <4>1. CASE j < i
        <5>1. j \in 1..(Len(s) - 1)
          BY <2>3, <4>1
        <5>2. QED
          BY <2>2, <4>1, <5>1
      <4>2. CASE j > i
        <5>1. j - 1 \in 1..(Len(s) - 1) /\ ~(j - 1 < i) /\ j - 1 + 1 = j
          BY <2>3, <4>2
        <5>2. t[j - 1] = s[j]
          BY <2>2, <5>1
        <5>3. QED
          BY <2>2, <5>1, <5>2
      <4>3. j # i
        BY <2>1, <3>1
      <4>4. QED
        BY <4>1, <4>2, <4>3
    <3>2. QED
      BY <3>1 DEF Members
  <2>6. ASSUME IsInjective(s)
        PROVE  IsInjective(t) /\ e \notin Members(t)
    <3>1. \A a, b \in 1..Len(s) : s[a] = s[b] => a = b
      BY <2>3, <2>6 DEF IsInjective
    <3>2. \A k \in 1..(Len(s) - 1) :
             t[k] # e /\ \E j \in 1..Len(s) : t[k] = s[j] /\ j = IF k < i THEN k ELSE k + 1
      BY <2>1, <2>2, <2>3, <3>1
    <3>3. \A a, b \in 1..(Len(s) - 1) : t[a] = t[b] => a = b
      BY <2>3, <3>1, <3>2
    <3>4. QED
      BY <2>2, <2>3, <3>2, <3>3 DEF IsInjective, Members
  <2>7. QED
    BY <2>1, <2>2, <2>3, <2>4, <2>5, <2>6 DEF t
<1>3. QED
  BY <1>1, <1>2

LEMMA ReverseProperties ==
  ASSUME NEW S, NEW s \in Seq(S)
  PROVE  /\ Reverse(s) \in Seq(S)
         /\ Len(Reverse(s)) = Len(s)
         /\ \A e \in Members(s) : \E k \in 1..Len(s) : Reverse(s)[k] = e
         /\ \A k \in 1..Len(s) : Reverse(s)[k] \in Members(s)
<1>1. /\ Reverse(s) \in Seq(S) /\ Len(Reverse(s)) = Len(s)
      /\ \A k \in 1..Len(s) : Reverse(s)[k] = s[Len(s) - k + 1]
  BY DEF Reverse
<1>2. ASSUME NEW i \in 1..Len(s) PROVE \E k \in 1..Len(s) : Reverse(s)[k] = s[i]
  <2>1. Len(s) - i + 1 \in 1..Len(s) /\ Len(s) - (Len(s) - i + 1) + 1 = i
    OBVIOUS
  <2>2. QED
    BY <1>1, <2>1
<1>3. \A k \in 1..Len(s) : Len(s) - k + 1 \in 1..Len(s)
  OBVIOUS
<1>4. QED
  BY <1>1, <1>2, <1>3 DEF Members

-----------------------------------------------------------------------------
(* What the calls on a master and a server do to a game.                   *)

\* A game in the middle of a handler: it may have more servers than a state.
Entry == [conn : Conns, id : Nat, list : Seq(Nat)]
Reg   == [masters : Seq(Entry), servers : Seq(Nat), info : Seq(Info)]

\* The same masters, whatever they list, and the same servers, whatever they keep.
SameMasters(t, r) ==
  /\ Len(t.masters) = Len(r.masters)
  /\ \A p \in 1..Len(r.masters) : /\ t.masters[p].conn = r.masters[p].conn
                                  /\ t.masters[p].id = r.masters[p].id
SameAddrs(t, r) ==
  /\ Len(t.info) = Len(r.info)
  /\ \A k \in 1..Len(r.info) : t.info[k].addr = r.info[k].addr

LEMMA RegTypes ==
  ASSUME NEW r \in Reg
  PROVE  /\ Len(r.masters) \in Nat /\ Len(r.servers) \in Nat /\ Len(r.info) \in Nat
         /\ r.masters \in Seq(Entry) /\ r.servers \in Seq(Nat) /\ r.info \in Seq(Info)
         /\ \A p \in 1..Len(r.masters) :
              /\ r.masters[p] \in Entry
              /\ r.masters[p].conn \in Conns /\ r.masters[p].id \in Nat
              /\ r.masters[p].list \in Seq(Nat)
         /\ \A k \in 1..Len(r.info) :
              /\ r.info[k] \in Info
              /\ r.info[k].addr \in Addrs /\ r.info[k].ids \in Seq(Nat)
              /\ r.info[k].view \in SUBSET {"default", "favourite"}
<1>1. r.masters \in Seq(Entry) /\ r.servers \in Seq(Nat) /\ r.info \in Seq(Info)
  BY DEF Reg
<1>2. Len(r.masters) \in Nat /\ Len(r.servers) \in Nat /\ Len(r.info) \in Nat
  BY <1>1, LenProperties
<1>3. \A p \in 1..Len(r.masters) : r.masters[p] \in Entry
  BY <1>1, ElementOfSeq
<1>4. \A k \in 1..Len(r.info) : r.info[k] \in Info
  BY <1>1, ElementOfSeq
<1>5. QED
  BY <1>1, <1>2, <1>3, <1>4 DEF Entry, Info

\* MasterAt finds the first master with the id.
LEMMA MasterAtFirst ==
  ASSUME NEW r \in Reg, NEW id
  PROVE  /\ MasterAt(r, id) \in 0..Len(r.masters)
         /\ MasterAt(r, id) # 0 => r.masters[MasterAt(r, id)].id = id
         /\ \A q \in 1..Len(r.masters) :
              r.masters[q].id = id => MasterAt(r, id) \in 1..q
<1> DEFINE at == {p \in 1..Len(r.masters) : r.masters[p].id = id}
<1>1. Len(r.masters) \in Nat
  BY RegTypes
<1>2. CASE at = {}
  BY <1>1, <1>2 DEF MasterAt
<1>3. CASE at # {}
  <2>1. \E p \in at : \A q \in at : p <= q
    <3>1. at \subseteq Nat
      BY <1>1
    <3> HIDE DEF at
    <3>2. QED
      BY <1>3, <3>1, Least
  <2>2. MasterAt(r, id) = CHOOSE p \in at : \A q \in at : p <= q
    BY <1>3 DEF MasterAt
  <2>3. MasterAt(r, id) \in at /\ \A q \in at : MasterAt(r, id) <= q
    <3> HIDE DEF at
    <3>1. QED
      BY <2>1, <2>2
  <2>4. QED
    BY <1>1, <2>3
<1>4. QED
  BY <1>2, <1>3

\* One master's list replaced, and one server's record.
Put(r, p, l, o, i) == [r EXCEPT !.masters[p].list = l, !.info[o] = i]

IsPut(t, r, p, l, o, i) ==
  /\ t \in Reg /\ t.servers = r.servers
  /\ Len(t.masters) = Len(r.masters) /\ Len(t.info) = Len(r.info)
  /\ \A q \in 1..Len(r.masters) :
       /\ t.masters[q].conn = r.masters[q].conn /\ t.masters[q].id = r.masters[q].id
       /\ t.masters[q].list = IF q = p THEN l ELSE r.masters[q].list
  /\ \A k \in 1..Len(r.info) : t.info[k] = IF k = o THEN i ELSE r.info[k]

LEMMA PutEffect ==
  ASSUME NEW r \in Reg, NEW p \in 1..Len(r.masters), NEW o \in 1..Len(r.info),
         NEW l \in Seq(Nat), NEW i \in Info
  PROVE  IsPut(Put(r, p, l, o, i), r, p, l, o, i)
<1> DEFINE t == Put(r, p, l, o, i)
<1> DEFINE e == [r.masters[p] EXCEPT !.list = l]
           ms == [r.masters EXCEPT ![p] = e]
           is == [r.info EXCEPT ![o] = i]
<1>1. e \in Entry /\ e.conn = r.masters[p].conn /\ e.id = r.masters[p].id /\ e.list = l
  BY RegTypes DEF Entry
<1>2. t = [masters |-> ms, servers |-> r.servers, info |-> is]
  <2>1. r = [masters |-> r.masters, servers |-> r.servers, info |-> r.info]
    BY DEF Reg
  <2> DEFINE u == [r EXCEPT !.masters = ms]
  <2>2. u.info = r.info /\ u = [masters |-> ms, servers |-> r.servers, info |-> r.info]
    <3> HIDE DEF ms
    <3>1. QED
      BY <2>1
  <2>3. t = [u EXCEPT !.info = [u.info EXCEPT ![o] = i]]
    BY DEF Put
  <2>4. t = [u EXCEPT !.info = is]
    <3> HIDE DEF u, t
    <3>1. QED
      BY <2>2, <2>3
  <2>5. QED
    <3> HIDE DEF u, t, ms, is
    <3>1. QED
      BY <2>2, <2>4
<1>3. ms \in Seq(Entry) /\ Len(ms) = Len(r.masters)
      /\ \A q \in 1..Len(r.masters) : ms[q] = IF q = p THEN e ELSE r.masters[q]
  <2> HIDE DEF e
  <2>1. QED
    BY <1>1, RegTypes, ExceptSeq
<1>4. is \in Seq(Info) /\ Len(is) = Len(r.info)
      /\ \A k \in 1..Len(r.info) : is[k] = IF k = o THEN i ELSE r.info[k]
  BY RegTypes, ExceptSeq
<1> HIDE DEF e, ms, is, t
<1>5. t \in Reg /\ t.masters = ms /\ t.info = is /\ t.servers = r.servers
  BY <1>2, <1>3, <1>4, RegTypes DEF Reg
<1>6. IsPut(t, r, p, l, o, i)
  BY <1>1, <1>2, <1>3, <1>4, <1>5 DEF IsPut
<1>7. QED
  BY <1>6 DEF t

LEMMA RemoveMasterIdEffect ==
  ASSUME NEW i \in Info, NEW id \in Members(i.ids)
  PROVE  /\ RemoveMasterId(i, id) \in Info
         /\ RemoveMasterId(i, id).addr = i.addr
         /\ \A e \in Members(i.ids) : e # id =>
              /\ e \in Members(RemoveMasterId(i, id).ids)
              /\ RemoveMasterId(i, id).view = i.view
<1> DEFINE left == RemoveFirst(i.ids, id)
<1>1. i.ids \in Seq(Nat) /\ i.view \in SUBSET {"default", "favourite"} /\ i.addr \in Addrs
  BY DEF Info
<1>2. left \in Seq(Nat) /\ Members(i.ids) \subseteq Members(left) \cup {id}
  BY <1>1, RemoveFirstProperties
<1>3. RemoveMasterId(i, id) =
        [i EXCEPT !.ids = left, !.view = IF left = <<>> THEN @ \ {"default"} ELSE @]
  BY DEF RemoveMasterId
<1> HIDE DEF left
<1>4. left = <<>> => Members(left) = {}
  BY DEF Members
<1>5. QED
  BY <1>1, <1>2, <1>3, <1>4 DEF Info

LEMMA AddMasterIdEffect ==
  ASSUME NEW i \in Info, NEW id \in Nat
  PROVE  /\ AddMasterId(i, id) \in Info
         /\ AddMasterId(i, id).addr = i.addr
         /\ Members(AddMasterId(i, id).ids) = Members(i.ids) \cup {id}
         /\ AddMasterId(i, id).view = i.view \cup {"default"}
<1>1. i.ids \in Seq(Nat) /\ i.view \in SUBSET {"default", "favourite"} /\ i.addr \in Addrs
  BY DEF Info
<1> DEFINE more == Append(i.ids, id)
<1>2. more \in Seq(Nat) /\ Members(more) = Members(i.ids) \cup {id}
  BY <1>1, MembersAppend
<1>3. AddMasterId(i, id) = [i EXCEPT !.ids = more, !.view = i.view \cup {"default"}]
  BY DEF AddMasterId
<1> HIDE DEF more
<1>4. QED
  BY <1>1, <1>2, <1>3 DEF Info

\* UnrefServer, when the server keeps the master's id.
LEMMA UnrefServerEffect ==
  ASSUME NEW r \in Reg, NEW p \in 1..Len(r.masters), NEW o \in 1..Len(r.info),
         o \in Members(r.masters[p].list), r.masters[p].id \in Members(r.info[o].ids),
         NEW t, t = UnrefServer(r, p, o)
  PROVE  /\ t \in Reg /\ t.servers = r.servers
         /\ SameMasters(t, r) /\ SameAddrs(t, r)
         /\ \A q \in 1..Len(r.masters) :
              t.masters[q].list = IF q = p THEN RemoveFirst(r.masters[p].list, o)
                                           ELSE r.masters[q].list
         /\ \A k \in 1..Len(r.info) :
              t.info[k] = IF k = o THEN RemoveMasterId(r.info[o], r.masters[p].id) ELSE r.info[k]
<1> DEFINE l == RemoveFirst(r.masters[p].list, o)
           i == RemoveMasterId(r.info[o], r.masters[p].id)
<1>1. p # 0
  BY RegTypes
<1>2. t = Put(r, p, l, o, i)
  BY <1>1 DEF UnrefServer, Put
<1>3. l \in Seq(Nat)
  BY RegTypes, RemoveFirstProperties
<1>4. i \in Info /\ i.addr = r.info[o].addr
  BY RegTypes, RemoveMasterIdEffect
<1> HIDE DEF l, i
<1>5. IsPut(t, r, p, l, o, i)
  BY <1>2, <1>3, <1>4, PutEffect
<1>6. SameMasters(t, r)
  BY <1>5 DEF SameMasters, IsPut
<1>7. SameAddrs(t, r)
  BY <1>4, <1>5 DEF SameAddrs, IsPut
<1>8. QED
  BY <1>5, <1>6, <1>7 DEF l, i, IsPut

LEMMA UnrefServerNone ==
  ASSUME NEW r, NEW p, NEW o, p = 0 \/ o \notin Members(r.masters[p].list)
  PROVE  UnrefServer(r, p, o) = r
BY DEF UnrefServer

\* ListServer: the list grows by o, unless an equal server is in it.
Lists(r, p, a) == \E q \in Members(r.masters[p].list) : r.info[q].addr = a

LEMMA ListServerEffect ==
  ASSUME NEW r \in Reg, NEW p \in 1..Len(r.masters), NEW o \in 1..Len(r.info),
         NEW t, t = ListServer(r, p, o)
  PROVE  /\ t \in Reg /\ t.servers = r.servers
         /\ SameMasters(t, r) /\ SameAddrs(t, r)
         /\ \A q \in 1..Len(r.masters) :
              t.masters[q].list = IF q = p /\ ~Lists(r, p, r.info[o].addr)
                                  THEN Append(r.masters[p].list, o) ELSE r.masters[q].list
         /\ \A k \in 1..Len(r.info) :
              t.info[k] = IF k = o THEN AddMasterId(r.info[o], r.masters[p].id) ELSE r.info[k]
<1> DEFINE l == IF Lists(r, p, r.info[o].addr) THEN r.masters[p].list
                                               ELSE Append(r.masters[p].list, o)
           i == AddMasterId(r.info[o], r.masters[p].id)
<1>1. t = Put(r, p, l, o, i)
  BY DEF ListServer, Lists, Put
<1>2. l \in Seq(Nat)
  <2>1. r.masters[p].list \in Seq(Nat) /\ o \in Nat
    BY RegTypes
  <2>2. Append(r.masters[p].list, o) \in Seq(Nat)
    BY <2>1, AppendProperties
  <2>3. QED
    BY <2>1, <2>2
<1>3. i \in Info /\ i.addr = r.info[o].addr
  BY RegTypes, AddMasterIdEffect
<1> HIDE DEF i
<1>4. l = IF ~Lists(r, p, r.info[o].addr) THEN Append(r.masters[p].list, o) ELSE r.masters[p].list
  OBVIOUS
<1> HIDE DEF l
<1>5. IsPut(t, r, p, l, o, i)
  BY <1>1, <1>2, <1>3, PutEffect
<1>6. SameMasters(t, r)
  BY <1>5 DEF SameMasters, IsPut
<1>7. SameAddrs(t, r)
  BY <1>3, <1>5 DEF SameAddrs, IsPut
<1>8. QED
  BY <1>4, <1>5, <1>6, <1>7 DEF i, IsPut

-----------------------------------------------------------------------------
(* The inductive invariant of a game, one part for each of what a call may *)
(* disturb; dang holds the destroyed servers that may still be listed.     *)

Alives(r) == Members(r.servers)

\* A list names servers of the game or destroyed ones.
Placed(r, dang) ==
  /\ Len(r.servers) <= Len(r.info)
  /\ Alives(r) \subseteq 1..Len(r.info)
  /\ \A p \in 1..Len(r.masters) :
       /\ Members(r.masters[p].list) \subseteq 1..Len(r.info)
       /\ Members(r.masters[p].list) \subseteq Alives(r) \cup dang

\* No two equal servers, no two equal masters.
OneServerEach(r) ==
  \A i, j \in 1..Len(r.servers) :
    r.info[r.servers[i]].addr = r.info[r.servers[j]].addr => i = j

OneMasterEach(r) ==
  \A p, q \in 1..Len(r.masters) : r.masters[p].conn = r.masters[q].conn => p = q

\* A master lists nothing if an earlier one has its id, and no server twice.
FirstLists(r) ==
  \A p \in 1..Len(r.masters) :
    /\ IsInjective(r.masters[p].list)
    /\ \A q \in 1..Len(r.masters) :
         q < p /\ r.masters[q].id = r.masters[p].id => r.masters[p].list = <<>>

\* A server keeps the ids of the masters that list it, and the default flag.
IdsKept(r) ==
  \A p \in 1..Len(r.masters) : \A o \in Members(r.masters[p].list) \cap Alives(r) :
    r.masters[p].id \in Members(r.info[o].ids) /\ "default" \in r.info[o].view

Sound(r, dang) ==
  /\ r \in Reg /\ Placed(r, dang)
  /\ OneServerEach(r) /\ OneMasterEach(r) /\ FirstLists(r) /\ IdsKept(r)

\* The inductive invariant of Spec.
RegistryInv ==
  /\ Sound(reg, twice)
  /\ Len(reg.info) <= MaxInfos
  /\ freed \subseteq 1..Len(reg.info) /\ freed \cap Alives(reg) = {}
  /\ twice \subseteq freed /\ undefined \in BOOLEAN

LEMMA SoundTypes ==
  ASSUME NEW r, NEW dang, Sound(r, dang)
  PROVE  /\ r \in Reg
         /\ \A i \in 1..Len(r.servers) : r.servers[i] \in 1..Len(r.info)
         /\ \A p \in 1..Len(r.masters) : \A o \in Members(r.masters[p].list) : o \in 1..Len(r.info)
BY DEF Sound, Placed, Alives, Members

\* What two of the parts say survives whenever masters, servers and addresses do.
LEMMA SameEach ==
  ASSUME NEW r, NEW dang, Sound(r, dang), NEW t, t \in Reg,
         SameMasters(t, r), SameAddrs(t, r), t.servers = r.servers
  PROVE  OneServerEach(t) /\ OneMasterEach(t)
<1>1. OneServerEach(t)
  <2>1. \A i \in 1..Len(r.servers) : t.info[r.servers[i]].addr = r.info[r.servers[i]].addr
    BY SoundTypes DEF SameAddrs
  <2>2. QED
    BY <2>1 DEF OneServerEach, Sound
<1>2. OneMasterEach(t)
  BY DEF OneMasterEach, SameMasters, Sound
<1>3. QED
  BY <1>1, <1>2

\* Two masters that list something have different ids.
LEMMA ListersDiffer ==
  ASSUME NEW r, NEW dang, Sound(r, dang),
         NEW p \in 1..Len(r.masters), NEW q \in 1..Len(r.masters), p # q,
         Members(r.masters[p].list) # {}, Members(r.masters[q].list) # {}
  PROVE  r.masters[p].id # r.masters[q].id
<1>1. r.masters[p].list # <<>> /\ r.masters[q].list # <<>>
  BY DEF Members
<1>2. Len(r.masters) \in Nat
  BY RegTypes DEF Sound
<1>3. p < q \/ q < p
  BY <1>2
<1>4. QED
  BY <1>1, <1>3 DEF Sound, FirstLists

\* UnrefServer on a server that keeps the master's id.
LEMMA UnrefServerSound ==
  ASSUME NEW r, NEW dang, Sound(r, dang),
         NEW p \in 1..Len(r.masters), NEW o \in Members(r.masters[p].list),
         r.masters[p].id \in Members(r.info[o].ids),
         NEW t, t = UnrefServer(r, p, o)
  PROVE  Sound(t, dang)
<1>1. r \in Reg /\ o \in 1..Len(r.info) /\ r.info[o] \in Info
  BY SoundTypes, RegTypes
<1>2. \A q \in 1..Len(r.masters) : r.masters[q].list \in Seq(Nat)
  BY <1>1, RegTypes
<1>3. /\ t \in Reg /\ t.servers = r.servers
      /\ SameMasters(t, r) /\ SameAddrs(t, r)
      /\ \A q \in 1..Len(r.masters) :
           t.masters[q].list = IF q = p THEN RemoveFirst(r.masters[p].list, o)
                                        ELSE r.masters[q].list
      /\ \A k \in 1..Len(r.info) :
           t.info[k] = IF k = o THEN RemoveMasterId(r.info[o], r.masters[p].id) ELSE r.info[k]
  BY <1>1, UnrefServerEffect
<1>4. ASSUME NEW q \in 1..Len(r.masters)
      PROVE  /\ Members(t.masters[q].list) \subseteq Members(r.masters[q].list)
             /\ IsInjective(t.masters[q].list)
             /\ r.masters[q].list = <<>> => t.masters[q].list = <<>>
             /\ q = p => o \notin Members(t.masters[q].list)
  <2>1. IsInjective(r.masters[q].list)
    BY DEF Sound, FirstLists
  <2>2. CASE q # p
    BY <1>3, <2>1, <2>2
  <2>3. CASE q = p
    <3>1. r.masters[p].list # <<>>
      BY DEF Members
    <3>2. QED
      BY <1>2, <1>3, <2>1, <2>3, <3>1, RemoveFirstProperties
  <2>4. QED
    BY <2>2, <2>3
<1>5. Placed(t, dang)
  BY <1>3, <1>4 DEF Sound, Placed, SameMasters, SameAddrs, Alives
<1>6. OneServerEach(t) /\ OneMasterEach(t)
  BY <1>3, SameEach
<1>7. FirstLists(t)
  BY <1>3, <1>4 DEF Sound, FirstLists, SameMasters
<1>8. ASSUME NEW q \in 1..Len(r.masters), NEW k \in Members(t.masters[q].list) \cap Alives(r)
      PROVE  t.masters[q].id \in Members(t.info[k].ids) /\ "default" \in t.info[k].view
  <2>1. /\ k \in Members(r.masters[q].list) /\ k \in 1..Len(r.info)
        /\ t.masters[q].id = r.masters[q].id
    BY <1>1, <1>3, <1>4, SoundTypes DEF SameMasters
  <2>2. r.masters[q].id \in Members(r.info[k].ids) /\ "default" \in r.info[k].view
    BY <2>1 DEF Sound, IdsKept
  <2>3. CASE k # o
    BY <1>3, <2>1, <2>2, <2>3
  <2>4. CASE k = o
    <3>1. q # p
      BY <1>4, <2>4
    <3>2. r.masters[q].id # r.masters[p].id
      BY <2>1, <3>1, ListersDiffer
    <3> DEFINE i == RemoveMasterId(r.info[o], r.masters[p].id)
    <3>3. /\ r.masters[q].id \in Members(i.ids)
          /\ i.view = r.info[o].view
      BY <1>1, <2>2, <2>4, <3>2, RemoveMasterIdEffect
    <3>4. t.info[o] = i
      BY <1>1, <1>3
    <3> HIDE DEF i
    <3>5. QED
      BY <2>1, <2>2, <2>4, <3>3, <3>4
  <2>5. QED
    BY <2>3, <2>4
<1>9. IdsKept(t)
  BY <1>3, <1>8 DEF IdsKept, SameMasters, Alives
<1>10. QED
  BY <1>3, <1>5, <1>6, <1>7, <1>9 DEF Sound

\* ListServer on a server of the game and the master that AddServer finds.
LEMMA ListServerSound ==
  ASSUME NEW r, NEW dang, Sound(r, dang),
         NEW p \in 1..Len(r.masters), MasterAt(r, r.masters[p].id) = p,
         NEW o \in Alives(r), NEW t, t = ListServer(r, p, o)
  PROVE  Sound(t, dang)
<1>1. r \in Reg /\ o \in 1..Len(r.info) /\ r.info[o] \in Info /\ r.masters[p].id \in Nat
  BY SoundTypes, RegTypes DEF Sound, Placed
<1>2. \A q \in 1..Len(r.masters) : r.masters[q].list \in Seq(Nat)
  BY <1>1, RegTypes
<1>3. /\ t \in Reg /\ t.servers = r.servers
      /\ SameMasters(t, r) /\ SameAddrs(t, r)
      /\ \A q \in 1..Len(r.masters) :
           t.masters[q].list = IF q = p /\ ~Lists(r, p, r.info[o].addr)
                               THEN Append(r.masters[p].list, o) ELSE r.masters[q].list
      /\ \A k \in 1..Len(r.info) :
           t.info[k] = IF k = o THEN AddMasterId(r.info[o], r.masters[p].id) ELSE r.info[k]
  BY <1>1, ListServerEffect
<1>4. ASSUME NEW q \in 1..Len(r.masters)
      PROVE  /\ IsInjective(t.masters[q].list)
             /\ Members(t.masters[q].list) \subseteq Members(r.masters[q].list) \cup {o}
             /\ q # p => t.masters[q].list = r.masters[q].list
  <2>1. IsInjective(r.masters[q].list)
    BY DEF Sound, FirstLists
  <2>2. CASE t.masters[q].list = r.masters[q].list
    BY <2>1, <2>2
  <2>3. CASE q = p /\ ~Lists(r, p, r.info[o].addr)
    <3> DEFINE l == r.masters[p].list
               m == Append(l, o)
    <3>1. l \in Seq(Nat) /\ o \in Nat
      BY <1>1, <1>2
    <3>2. /\ m \in Seq(Nat) /\ Len(m) = Len(l) + 1 /\ m[Len(l) + 1] = o
          /\ \A i \in 1..Len(l) : m[i] = l[i]
          /\ Members(m) = Members(l) \cup {o}
      BY <3>1, MembersAppend
    <3>3. o \notin Members(l)
      BY <2>3 DEF Lists
    <3>4. Len(l) \in Nat /\ DOMAIN l = 1..Len(l)
      BY <3>1, LenProperties
    <3>5. t.masters[q].list = m
      BY <1>3, <2>3
    <3>6. IsInjective(l)
      BY <2>1, <2>3
    <3> HIDE DEF l, m
    <3>7. DOMAIN m = 1..(Len(l) + 1)
      BY <3>2, LenProperties
    <3>8. \A i \in 1..Len(l) : l[i] # o
      BY <3>3 DEF Members
    <3>9. IsInjective(m)
      BY <3>2, <3>4, <3>6, <3>7, <3>8 DEF IsInjective
    <3>10. QED
      BY <2>3, <3>2, <3>5, <3>9 DEF l
  <2>4. QED
    BY <1>3, <2>2, <2>3
<1>5. Placed(t, dang)
  <2>1. Alives(t) = Alives(r) /\ Len(t.info) = Len(r.info) /\ Len(t.masters) = Len(r.masters)
    BY <1>3 DEF Alives, SameAddrs, SameMasters
  <2>2. \A q \in 1..Len(r.masters) :
          /\ Members(t.masters[q].list) \subseteq 1..Len(r.info)
          /\ Members(t.masters[q].list) \subseteq Alives(r) \cup dang
    BY <1>1, <1>4 DEF Sound, Placed
  <2>3. QED
    BY <1>3, <2>1, <2>2 DEF Sound, Placed
<1>6. OneServerEach(t) /\ OneMasterEach(t)
  BY <1>3, SameEach
<1>7. \A q \in 1..Len(r.masters) : q < p => r.masters[q].id # r.masters[p].id
  <2>1. Len(r.masters) \in Nat
    BY <1>1, RegTypes
  <2>2. QED
    BY <1>1, <2>1, MasterAtFirst
<1>8. FirstLists(t)
  <2>1. ASSUME NEW q \in 1..Len(t.masters), NEW h \in 1..Len(t.masters),
               h < q, t.masters[h].id = t.masters[q].id
        PROVE  t.masters[q].list = <<>>
    <3>1. q # p /\ r.masters[h].id = r.masters[q].id /\ q \in 1..Len(r.masters) /\ h \in 1..Len(r.masters)
      BY <1>3, <1>7, <2>1 DEF SameMasters
    <3>2. QED
      BY <1>4, <2>1, <3>1 DEF Sound, FirstLists
  <2>2. QED
    BY <1>3, <1>4, <2>1 DEF FirstLists, SameMasters
<1>9. ASSUME NEW q \in 1..Len(r.masters), NEW k \in Members(t.masters[q].list) \cap Alives(r)
      PROVE  t.masters[q].id \in Members(t.info[k].ids) /\ "default" \in t.info[k].view
  <2> DEFINE i == AddMasterId(r.info[o], r.masters[p].id)
  <2>1. k \in 1..Len(r.info) /\ t.masters[q].id = r.masters[q].id
    BY <1>1, <1>3, <1>4 DEF SameMasters, Sound, Placed
  <2>2. k \in Members(r.masters[q].list) =>
          r.masters[q].id \in Members(r.info[k].ids) /\ "default" \in r.info[k].view
    BY DEF Sound, IdsKept
  <2>3. /\ Members(i.ids) = Members(r.info[o].ids) \cup {r.masters[p].id}
        /\ "default" \in i.view
    <3> DEFINE e == r.info[o]
               id == r.masters[p].id
    <3>1. e \in Info /\ id \in Nat
      BY <1>1
    <3> HIDE DEF e, id
    <3>2. /\ Members(AddMasterId(e, id).ids) = Members(e.ids) \cup {id}
          /\ AddMasterId(e, id).view = e.view \cup {"default"}
      BY <3>1, AddMasterIdEffect
    <3>3. "default" \in AddMasterId(e, id).view
      BY <3>2
    <3>4. QED
      BY <3>2, <3>3 DEF e, id
  <2>4. t.info[k] = IF k = o THEN i ELSE r.info[k]
    BY <1>3, <2>1
  <2>5. k \in Members(r.masters[q].list) \/ (q = p /\ k = o)
    BY <1>4
  <2> HIDE DEF i
  <2>6. QED
    BY <2>1, <2>2, <2>3, <2>4, <2>5
<1>10. IdsKept(t)
  BY <1>3, <1>9 DEF IdsKept, SameMasters, Alives
<1>11. QED
  BY <1>3, <1>5, <1>6, <1>8, <1>10 DEF Sound

-----------------------------------------------------------------------------
(* CslGame::AddServer.                                                     *)

NewServer(r, a, view) ==
  [r EXCEPT !.servers = Append(@, Len(r.info) + 1),
            !.info = Append(@, [addr |-> a, ids |-> <<>>, view |-> view])]

Views == SUBSET {"default", "favourite"}

\* A server nobody knows yet, before a master lists it.
LEMMA NewServerSound ==
  ASSUME NEW r, NEW dang, Sound(r, dang), NEW a \in Addrs, NEW view \in Views,
         FindServer(r, a) = {}, NEW s, s = NewServer(r, a, view)
  PROVE  /\ Sound(s, dang)
         /\ s.masters = r.masters /\ Len(s.info) = Len(r.info) + 1
         /\ \A k \in 1..Len(r.info) : s.info[k] = r.info[k]
         /\ s.info[Len(r.info) + 1] = [addr |-> a, ids |-> <<>>, view |-> view]
         /\ Alives(s) = Alives(r) \cup {Len(r.info) + 1}
<1> DEFINE n == Len(r.info) + 1
           i == [addr |-> a, ids |-> <<>>, view |-> view]
           ss == Append(r.servers, n)
           is == Append(r.info, i)
<1>1. r \in Reg /\ r.servers \in Seq(Nat) /\ r.info \in Seq(Info) /\ n \in Nat \ {0}
      /\ Len(r.servers) \in Nat /\ Len(r.info) \in Nat
  BY RegTypes DEF Sound
<1>2. i \in Info
  <2>1. <<>> \in Seq(Nat)
    BY EmptySeq
  <2>2. QED
    BY <2>1 DEF Info, Views
<1>3. s = [masters |-> r.masters, servers |-> ss, info |-> is]
  <2>1. r = [masters |-> r.masters, servers |-> r.servers, info |-> r.info]
    BY <1>1 DEF Reg
  <2>2. s = [[r EXCEPT !.servers = ss] EXCEPT !.info = is]
    BY <1>1 DEF NewServer, Reg
  <2> HIDE DEF ss, is
  <2>3. QED
    BY <2>1, <2>2
<1>4. /\ ss \in Seq(Nat) /\ Len(ss) = Len(r.servers) + 1 /\ ss[Len(r.servers) + 1] = n
      /\ Members(ss) = Members(r.servers) \cup {n}
      /\ \A k \in 1..Len(r.servers) : ss[k] = r.servers[k]
  BY <1>1, MembersAppend
<1>5. /\ is \in Seq(Info) /\ Len(is) = n /\ is[n] = i
      /\ \A k \in 1..Len(r.info) : is[k] = r.info[k]
  BY <1>1, <1>2, MembersAppend
<1> HIDE DEF ss, is
<1>6. s \in Reg /\ s.masters = r.masters /\ s.servers = ss /\ s.info = is
  BY <1>1, <1>3, <1>4, <1>5 DEF Reg
<1>7. Alives(s) = Alives(r) \cup {n}
  BY <1>4, <1>6 DEF Alives
<1>8. Placed(s, dang)
  <2>1. Len(s.servers) <= Len(s.info) /\ Alives(s) \subseteq 1..Len(s.info)
    BY <1>1, <1>4, <1>5, <1>6, <1>7 DEF Sound, Placed
  <2>2. \A p \in 1..Len(r.masters) :
          /\ Members(r.masters[p].list) \subseteq 1..n
          /\ Members(r.masters[p].list) \subseteq Alives(s) \cup dang
    <3>1. 1..Len(r.info) \subseteq 1..n
      BY <1>1
    <3> HIDE DEF n
    <3>2. QED
      BY <1>7, <3>1 DEF Sound, Placed
  <2>3. QED
    BY <1>5, <1>6, <2>1, <2>2 DEF Placed
<1>9. OneServerEach(s)
  <2>1. ASSUME NEW k \in 1..Len(r.servers)
        PROVE  r.servers[k] \in 1..Len(r.info) /\ r.info[r.servers[k]].addr # a
               /\ is[ss[k]] = r.info[r.servers[k]]
    <3>1. r.servers[k] \in Members(r.servers)
      BY DEF Members
    <3>2. r.servers[k] \in 1..Len(r.info)
      BY SoundTypes
    <3>3. QED
      BY <1>4, <1>5, <3>1, <3>2 DEF FindServer
  <2>2. is[ss[Len(r.servers) + 1]].addr = a
    BY <1>4, <1>5
  <2>3. ASSUME NEW j \in 1..Len(ss), NEW k \in 1..Len(ss), is[ss[j]].addr = is[ss[k]].addr
        PROVE  j = k
    <3>1. j \in 1..Len(r.servers) \/ j = Len(r.servers) + 1
      BY <1>1, <1>4
    <3>2. k \in 1..Len(r.servers) \/ k = Len(r.servers) + 1
      BY <1>1, <1>4
    <3>3. CASE j \in 1..Len(r.servers) /\ k \in 1..Len(r.servers)
      BY <2>1, <2>3, <3>3 DEF Sound, OneServerEach
    <3>4. QED
      BY <2>1, <2>2, <2>3, <3>1, <3>2, <3>3
  <2>4. QED
    BY <1>6, <2>3 DEF OneServerEach
<1>10. OneMasterEach(s) /\ FirstLists(s)
  BY <1>6 DEF Sound, OneMasterEach, FirstLists
<1>11. IdsKept(s)
  <2>1. ASSUME NEW p \in 1..Len(r.masters), NEW o \in Members(r.masters[p].list)
        PROVE  o \in 1..Len(r.info) /\ o # n /\ s.info[o] = r.info[o]
    <3>1. o \in 1..Len(r.info)
      BY SoundTypes
    <3>2. QED
      BY <1>1, <1>5, <1>6, <3>1
  <2>2. QED
    BY <1>6, <1>7, <2>1 DEF Sound, IdsKept
<1>12. QED
  BY <1>5, <1>6, <1>7, <1>8, <1>9, <1>10, <1>11 DEF Sound

\* o is the server at address a after the call, and p the place of the master that
\* lists it from now on, or 0.
Found(r, a, view, o) ==
  IF o \in 1..Len(r.info) THEN r.info[o] ELSE [addr |-> a, ids |-> <<>>, view |-> view]

Adds(t, r, a, view, p, o) ==
  /\ SameMasters(t, r)
  /\ \/ o \in FindServer(r, a) /\ Len(t.info) = Len(r.info)
     \/ FindServer(r, a) = {} /\ o = Len(r.info) + 1 /\ Len(t.info) = o
  /\ Alives(t) = Alives(r) \cup {o}
  /\ \A k \in 1..Len(r.info) : k # o => t.info[k] = r.info[k]
  /\ t.info[o] = IF p = 0 THEN Found(r, a, view, o)
                 ELSE AddMasterId(Found(r, a, view, o), r.masters[p].id)
  /\ \A q \in 1..Len(r.masters) :
       t.masters[q].list = IF q = p /\ ~Lists(r, p, a)
                           THEN Append(r.masters[p].list, o) ELSE r.masters[q].list

Place(r, id) == IF id = NoMaster THEN 0 ELSE MasterAt(r, id)

LEMMA WithServerAdds ==
  ASSUME NEW r, NEW dang, Sound(r, dang), NEW a \in Addrs, NEW view \in Views,
         NEW id \in Nat \cup {NoMaster}, id = NoMaster \/ MasterAt(r, id) # 0,
         NEW t, t = WithServer(r, a, view, id)
  PROVE  Sound(t, dang) /\ \E o : Adds(t, r, a, view, Place(r, id), o)
<1> DEFINE known == FindServer(r, a)
           o == IF known = {} THEN Len(r.info) + 1 ELSE CHOOSE k \in known : TRUE
           s == IF known # {} THEN r ELSE NewServer(r, a, view)
           p == MasterAt(r, id)
<1>1. t = IF id = NoMaster THEN s ELSE ListServer(s, p, o)
  <2>1. CASE known = {}
    <3>1. o = Len(r.info) + 1 /\ s = NewServer(r, a, view)
      BY <2>1
    <3>2. t = IF id = NoMaster THEN NewServer(r, a, view)
              ELSE ListServer(NewServer(r, a, view), p, Len(r.info) + 1)
      BY <2>1 DEF WithServer, NewServer
    <3>3. QED
      BY <3>1, <3>2
  <2>2. CASE known # {}
    BY <2>2 DEF WithServer
  <2>3. QED
    BY <2>1, <2>2
<1>2. /\ Sound(s, dang) /\ s.masters = r.masters
      /\ Alives(s) = Alives(r) \cup {o}
      /\ \A k \in 1..Len(r.info) : s.info[k] = r.info[k]
      /\ s.info[o] = Found(r, a, view, o) /\ s.info[o].addr = a
      /\ \/ o \in FindServer(r, a) /\ Len(s.info) = Len(r.info)
         \/ FindServer(r, a) = {} /\ o = Len(r.info) + 1 /\ Len(s.info) = o
  <2>0. Len(r.info) \in Nat
    BY RegTypes DEF Sound
  <2>1. CASE known = {}
    <3>1. o = Len(r.info) + 1 /\ s = NewServer(r, a, view) /\ o \notin 1..Len(r.info)
      BY <2>0, <2>1
    <3> HIDE DEF o, s
    <3>2. QED
      BY <2>1, <3>1, NewServerSound DEF Found
  <2>2. CASE known # {}
    <3>1. o \in known /\ s = r
      BY <2>2
    <3>2. o \in Alives(r) /\ r.info[o].addr = a /\ o \in 1..Len(r.info)
      BY <3>1 DEF FindServer, Alives, Sound, Placed
    <3> HIDE DEF o, s
    <3>3. QED
      BY <3>1, <3>2 DEF Found
  <2>3. QED
    BY <2>1, <2>2
<1> HIDE DEF o, s
<1>3. CASE id = NoMaster
  <2>1. t = s /\ Place(r, id) = 0
    BY <1>1, <1>3 DEF Place
  <2>2. Len(r.masters) \in Nat
    BY RegTypes DEF Sound
  <2>3. Adds(t, r, a, view, 0, o)
    BY <1>2, <2>1, <2>2 DEF Adds, SameMasters
  <2>4. QED
    BY <1>2, <2>1, <2>3
<1>4. CASE id # NoMaster
  <2>1. t = ListServer(s, p, o) /\ Place(r, id) = p /\ p # 0
    BY <1>1, <1>4 DEF Place
  <2>2. p \in 1..Len(r.masters) /\ r.masters[p].id = id
    BY <2>1, MasterAtFirst DEF Sound
  <2>3. o \in Alives(s) /\ MasterAt(s, s.masters[p].id) = p /\ p \in 1..Len(s.masters)
    BY <1>2, <2>2 DEF MasterAt
  <2> HIDE DEF p
  <2>4. Sound(t, dang)
    BY <1>2, <2>1, <2>3, ListServerSound
  <2>5. o \in 1..Len(s.info) /\ s \in Reg
    BY <1>2, <2>3 DEF Sound, Placed
  <2>6. /\ t.servers = s.servers
        /\ SameMasters(t, s) /\ SameAddrs(t, s)
        /\ \A q \in 1..Len(s.masters) :
             t.masters[q].list = IF q = p /\ ~Lists(s, p, s.info[o].addr)
                                 THEN Append(s.masters[p].list, o) ELSE s.masters[q].list
        /\ \A k \in 1..Len(s.info) :
             t.info[k] = IF k = o THEN AddMasterId(s.info[o], s.masters[p].id) ELSE s.info[k]
    BY <2>1, <2>3, <2>5, ListServerEffect
  <2>7. Lists(s, p, s.info[o].addr) <=> Lists(r, p, a)
    BY <1>2, <2>2, SoundTypes DEF Lists
  <2>8. \A k \in 1..Len(r.info) : k \in 1..Len(s.info)
    <3>1. Len(r.info) \in Nat
      BY RegTypes DEF Sound
    <3>2. QED
      BY <1>2, <3>1
  <2>9. /\ Alives(t) = Alives(r) \cup {o}
        /\ \A k \in 1..Len(r.info) : k # o => t.info[k] = r.info[k]
        /\ t.info[o] = AddMasterId(Found(r, a, view, o), r.masters[p].id)
        /\ Len(t.info) = Len(s.info) /\ SameMasters(t, r)
    BY <1>2, <2>5, <2>6, <2>8 DEF Alives, SameAddrs, SameMasters
  <2>10. Adds(t, r, a, view, p, o)
    BY <1>2, <2>1, <2>6, <2>7, <2>9 DEF Adds
  <2>11. QED
    BY <2>1, <2>4, <2>10
<1>5. QED
  BY <1>3, <1>4

LEMMA SameMasterAt ==
  ASSUME NEW r, NEW t, SameMasters(t, r), NEW id
  PROVE  MasterAt(t, id) = MasterAt(r, id)
<1>1. {p \in 1..Len(t.masters) : t.masters[p].id = id} = {p \in 1..Len(r.masters) : r.masters[p].id = id}
  BY DEF SameMasters
<1> DEFINE First(at) == IF at = {} THEN 0 ELSE CHOOSE p \in at : \A q \in at : p <= q
<1>2. /\ MasterAt(t, id) = First({p \in 1..Len(t.masters) : t.masters[p].id = id})
      /\ MasterAt(r, id) = First({p \in 1..Len(r.masters) : r.masters[p].id = id})
  BY DEF MasterAt
<1> HIDE DEF First
<1>3. QED
  BY <1>1, <1>2

LEMMA SameMastersTransitive ==
  ASSUME NEW r, NEW s, NEW t, SameMasters(s, r), SameMasters(t, s)
  PROVE  SameMasters(t, r)
BY DEF SameMasters

LEMMA SameAddrsTransitive ==
  ASSUME NEW r, NEW s, NEW t, SameAddrs(s, r), SameAddrs(t, s)
  PROVE  SameAddrs(t, r)
BY DEF SameAddrs

-----------------------------------------------------------------------------
(* CslMaster::UnrefServers.                                                *)

\* What the loop over the list of the master at p keeps.
Unreffed(x, r, p, dang) ==
  /\ Sound(x, dang) /\ SameMasters(x, r) /\ SameAddrs(x, r) /\ x.servers = r.servers
  /\ \A q \in 1..Len(r.masters) : q # p => x.masters[q].list = r.masters[q].list
  /\ Members(x.masters[p].list) \subseteq Members(r.masters[p].list)

LEMMA UnreffedStep ==
  ASSUME NEW r, NEW dang, Sound(r, dang), NEW p \in 1..Len(r.masters),
         Members(r.masters[p].list) \subseteq Alives(r),
         NEW x, Unreffed(x, r, p, dang), NEW o
  PROVE  /\ Unreffed(UnrefServer(x, p, o), r, p, dang)
         /\ Members(UnrefServer(x, p, o).masters[p].list) \subseteq Members(x.masters[p].list) \ {o}
<1> DEFINE t == UnrefServer(x, p, o)
<1>0. t = UnrefServer(x, p, o)
  OBVIOUS
<1> HIDE DEF t
<1>1. CASE o \notin Members(x.masters[p].list)
  <2>1. t = x
    BY <1>0, <1>1, UnrefServerNone
  <2>2. QED
    BY <1>0, <1>1, <2>1
<1>2. CASE o \in Members(x.masters[p].list)
  <2>1. Sound(x, dang) /\ p \in 1..Len(x.masters) /\ Alives(x) = Alives(r) /\ x \in Reg
    BY DEF Unreffed, SameMasters, Alives, Sound
  <2>2. o \in Alives(x) /\ o \in 1..Len(x.info)
    BY <1>2, <2>1 DEF Unreffed, Sound, Placed
  <2>3. x.masters[p].id \in Members(x.info[o].ids)
    BY <1>2, <2>1, <2>2 DEF Sound, IdsKept
  <2>4. Sound(t, dang)
    BY <1>0, <1>2, <2>1, <2>3, UnrefServerSound
  <2>5. /\ t.servers = x.servers
        /\ SameMasters(t, x) /\ SameAddrs(t, x)
        /\ \A q \in 1..Len(x.masters) :
             t.masters[q].list = IF q = p THEN RemoveFirst(x.masters[p].list, o)
                                          ELSE x.masters[q].list
    BY <1>0, <1>2, <2>1, <2>2, <2>3, UnrefServerEffect
  <2>6. IsInjective(x.masters[p].list) /\ x.masters[p].list \in Seq(Nat)
    BY <2>1, RegTypes DEF Sound, FirstLists
  <2>7. Members(t.masters[p].list) \subseteq Members(x.masters[p].list) \ {o}
    BY <2>1, <2>5, <2>6, RemoveFirstProperties
  <2>8. SameMasters(t, r) /\ SameAddrs(t, r)
    BY <2>5, SameMastersTransitive, SameAddrsTransitive DEF Unreffed
  <2>9. QED
    BY <1>0, <2>1, <2>4, <2>5, <2>7, <2>8 DEF Unreffed, SameMasters
<1>3. QED
  BY <1>1, <1>2

LEMMA UnrefServersSound ==
  ASSUME NEW r, NEW dang, Sound(r, dang), NEW p \in 1..Len(r.masters),
         Members(r.masters[p].list) \subseteq Alives(r)
  PROVE  /\ Unreffed(UnrefServers(r, p), r, p, dang)
         /\ UnrefServers(r, p).masters[p].list = <<>>
<1> DEFINE q == Reverse(r.masters[p].list)
           n == Len(q)
           U == {x \in Reg : Unreffed(x, r, p, dang)}
           F == [x \in U \X (1..n) |-> UnrefServer(x[1], p, q[x[2]])]
           Is(s) == s = [k \in 0..n |-> IF k = 0 THEN r ELSE UnrefServer(s[k - 1], p, q[k])]
<1>1. r.masters[p].list \in Seq(Nat) /\ n \in Nat /\ q \in Seq(Nat)
      /\ \A e \in Members(r.masters[p].list) : \E k \in 1..n : q[k] = e
  <2>1. r.masters[p].list \in Seq(Nat)
    BY RegTypes DEF Sound
  <2>2. QED
    BY <2>1, ReverseProperties, LenProperties
<1> HIDE DEF q, n
<1>2. r \in U
  BY DEF Unreffed, SameMasters, SameAddrs, Sound
<1>3. ASSUME NEW x \in U, NEW k \in 1..n PROVE UnrefServer(x, p, q[k]) \in U
  <2>1. Unreffed(UnrefServer(x, p, q[k]), r, p, dang)
    BY UnreffedStep
  <2>2. QED
    BY <2>1 DEF Unreffed, Sound
<1> HIDE DEF U
<1>4. StepsOn(F, U, n) /\ \A x \in U, k \in 1..n : F[<<x, k>>] = UnrefServer(x, p, q[k])
  BY <1>3 DEF StepsOn
<1>5. \E s : Is(s)
  <2> HIDE DEF F
  <2>1. n \in Nat
    BY <1>1
  <2>2. PICK s : Iterated(s, F, U, r, n)
    BY <1>2, <1>4, <2>1, Iterates
  <2>3. s \in [0..n -> U] /\ s[0] = r /\ \A k \in 1..n : s[k] = UnrefServer(s[k - 1], p, q[k])
    <3>1. s \in [0..n -> U] /\ s[0] = r /\ \A k \in 1..n : s[k] = F[<<s[k - 1], k>>]
      BY <2>2 DEF Iterated
    <3>2. \A k \in 1..n : s[k - 1] \in U
      BY <2>1, <3>1
    <3>3. QED
      BY <1>4, <3>1, <3>2
  <2>4. Is(s)
    BY <2>1, <2>3
  <2>5. QED
    BY <2>4
<1>6. PICK s : Is(s) /\ UnrefServers(r, p) = s[n]
  <2> DEFINE c == CHOOSE s : Is(s)
  <2>1. Is(c)
    <3> HIDE DEF Is
    <3>1. QED
      BY <1>5
  <2>2. UnrefServers(r, p) = c[n]
    BY DEF UnrefServers, Loop, q, n
  <2>3. QED
    BY <2>1, <2>2
<1>7. s[0] = r /\ \A k \in 1..n : s[k] = UnrefServer(s[k - 1], p, q[k])
  BY <1>1, <1>6
<1> HIDE DEF Is
<1> DEFINE T == {k \in 0..n : /\ s[k] \in U
                              /\ \A j \in 1..k : q[j] \notin Members(s[k].masters[p].list)}
<1>8. 0 \in T
  BY <1>1, <1>2, <1>7
<1>9. ASSUME NEW k \in 1..n, k - 1 \in T PROVE k \in T
  <2>1. s[k - 1] \in U /\ s[k] = UnrefServer(s[k - 1], p, q[k])
    BY <1>7, <1>9
  <2>2. s[k] \in U
    BY <1>3, <2>1
  <2>3. Members(s[k].masters[p].list) \subseteq Members(s[k - 1].masters[p].list) \ {q[k]}
    <3>1. Unreffed(s[k - 1], r, p, dang)
      BY <2>1 DEF U
    <3>2. Members(UnrefServer(s[k - 1], p, q[k]).masters[p].list)
            \subseteq Members(s[k - 1].masters[p].list) \ {q[k]}
      BY <3>1, UnreffedStep
    <3>3. QED
      BY <2>1, <3>2
  <2>4. \A j \in 1..k : j = k \/ j \in 1..(k - 1)
    BY <1>1
  <2>5. QED
    BY <1>9, <2>2, <2>3, <2>4
<1>10. n \in T
  <2> HIDE DEF T
  <2>1. 0..n \subseteq T
    BY <1>1, <1>8, <1>9, Induct
  <2>2. QED
    BY <1>1, <2>1
<1>11. Unreffed(s[n], r, p, dang) /\ Members(s[n].masters[p].list) = {}
  <2>1. Unreffed(s[n], r, p, dang)
    BY <1>10 DEF U
  <2>2. QED
    BY <1>1, <1>10, <2>1 DEF Unreffed
<1>12. s[n].masters[p].list = <<>>
  <2>1. s[n].masters[p].list \in Seq(Nat)
    BY <1>11, RegTypes DEF Unreffed, Sound, SameMasters
  <2>2. QED
    BY <1>11, <2>1, MembersEmpty
<1>13. QED
  BY <1>6, <1>11, <1>12

-----------------------------------------------------------------------------
(* CslGame::DeleteServer.                                                  *)

\* What the loop over the ids of the server o keeps: only o goes from the lists.
Swept(x, r, o, dang) ==
  /\ Sound(x, dang) /\ SameMasters(x, r) /\ SameAddrs(x, r) /\ x.servers = r.servers
  /\ \A q \in 1..Len(r.masters) :
       Members(x.masters[q].list) \subseteq Members(r.masters[q].list)

LEMMA SweptStep ==
  ASSUME NEW r, NEW dang, Sound(r, dang), NEW o \in 1..Len(r.info),
         NEW x, Swept(x, r, o, dang), NEW k \in Nat \ {0}
  PROVE  /\ Swept(UnrefIdAt(x, o, k), r, o, dang)
         /\ Listing(x, o) = {} => UnrefIdAt(x, o, k) = x
         /\ \A p \in Listing(x, o) :
              k <= Len(x.info[o].ids) /\ x.info[o].ids[k] = x.masters[p].id =>
                p \notin Listing(UnrefIdAt(x, o, k), o)
         /\ \A p \in Listing(x, o) :
              /\ Listing(x, o) \subseteq {p}
              /\ k <= Len(x.info[o].ids) /\ x.info[o].ids[k] # x.masters[p].id
              => UnrefIdAt(x, o, k) = x
<1> DEFINE t == UnrefIdAt(x, o, k)
           id == x.info[o].ids[k]
           p == MasterAt(x, id)
<1>1. x \in Reg /\ o \in 1..Len(x.info) /\ Sound(x, dang) /\ x.info[o].ids \in Seq(Nat)
  BY RegTypes DEF Swept, Sound, SameAddrs
<1>2. Len(x.info[o].ids) \in Nat /\ Len(x.masters) \in Nat
  BY <1>1, LenProperties, RegTypes
<1>3. CASE k > Len(x.info[o].ids)
  <2>1. t = x
    BY <1>3 DEF UnrefIdAt
  <2>2. QED
    BY <1>2, <1>3, <2>1
<1>4. CASE k <= Len(x.info[o].ids)
  <2>1. t = UnrefServer(x, p, o) /\ id \in Members(x.info[o].ids)
    BY <1>2, <1>4 DEF UnrefIdAt, Members
  <2>2. p \in 0..Len(x.masters) /\ (p # 0 => x.masters[p].id = id)
    BY <1>1, MasterAtFirst
  <2>3. ASSUME NEW h \in Listing(x, o), x.masters[h].id = id
        PROVE  h = p
    <3>1. h \in 1..Len(x.masters) /\ p \in 1..h /\ x.masters[h].list # <<>>
      BY <1>1, <2>3, MasterAtFirst DEF Listing, Members
    <3>2. p \in 1..Len(x.masters) /\ x.masters[p].id = x.masters[h].id
      BY <2>2, <2>3, <3>1
    <3>3. ~(p < h)
      BY <1>1, <3>1, <3>2 DEF Sound, FirstLists
    <3>4. QED
      BY <1>2, <3>1, <3>3
  <2> HIDE DEF p, id, t
  <2>4. CASE p = 0 \/ o \notin Members(x.masters[p].list)
    <3>1. t = x
      BY <2>1, <2>4, UnrefServerNone
    <3>2. \A h \in Listing(x, o) : x.masters[h].id # id
      BY <1>2, <2>3, <2>4 DEF Listing
    <3>3. QED
      BY <3>1, <3>2 DEF id, t
  <2>5. CASE p # 0 /\ o \in Members(x.masters[p].list)
    <3>1. p \in 1..Len(x.masters) /\ x.masters[p].id \in Members(x.info[o].ids)
          /\ p \in Listing(x, o) /\ x.masters[p].id = id
      BY <2>1, <2>2, <2>5 DEF Listing
    <3>2. Sound(t, dang)
      BY <1>1, <2>1, <2>5, <3>1, UnrefServerSound
    <3>3. /\ t.servers = x.servers
          /\ SameMasters(t, x) /\ SameAddrs(t, x)
          /\ \A q \in 1..Len(x.masters) :
               t.masters[q].list = IF q = p THEN RemoveFirst(x.masters[p].list, o)
                                            ELSE x.masters[q].list
      BY <1>1, <2>1, <2>5, <3>1, UnrefServerEffect
    <3>4. IsInjective(x.masters[p].list) /\ x.masters[p].list \in Seq(Nat)
      BY <1>1, <3>1, RegTypes DEF Sound, FirstLists
    <3>5. /\ Members(t.masters[p].list) \subseteq Members(x.masters[p].list)
          /\ o \notin Members(t.masters[p].list)
      BY <3>1, <3>3, <3>4, RemoveFirstProperties
    <3>6. SameMasters(t, r) /\ SameAddrs(t, r)
      BY <3>3, SameMastersTransitive, SameAddrsTransitive DEF Swept
    <3>7. Swept(t, r, o, dang)
      BY <3>2, <3>3, <3>5, <3>6 DEF Swept, SameMasters
    <3>8. p \notin Listing(t, o)
      BY <3>5 DEF Listing
    <3>9. \A h \in Listing(x, o) : x.masters[h].id = id => h = p
      BY <2>3
    <3>10. \A h \in Listing(x, o) : Listing(x, o) \subseteq {h} => x.masters[h].id = id
      BY <3>1
    <3>11. Listing(x, o) # {}
      BY <3>1
    <3>12. QED
      BY <3>7, <3>8, <3>9, <3>10, <3>11 DEF t, id
  <2>6. QED
    BY <2>4, <2>5
<1>5. QED
  BY <1>2, <1>3, <1>4

\* At most one master lists the server.
OnceListed(r, o) == \A p, q \in Listing(r, o) : p = q

LEMMA SweepSound ==
  ASSUME NEW r, NEW dang, Sound(r, dang), NEW o \in 1..Len(r.info),
         NEW x, x = UnrefIds(r, o)
  PROVE  /\ Swept(x, r, o, dang)
         /\ OnceListed(r, o) /\ o \notin dang => Listing(x, o) = {}
<1> DEFINE n == Len(r.info[o].ids)
           U == {y \in Reg : Swept(y, r, o, dang)}
           q == [k \in 1..n |-> k]
           F == [y \in U \X (1..n) |-> UnrefIdAt(y[1], o, q[y[2]])]
           Is(s) == s = [k \in 0..n |-> IF k = 0 THEN r ELSE UnrefIdAt(s[k - 1], o, q[k])]
<1>1. o \in 1..Len(r.info) /\ r.info[o].ids \in Seq(Nat) /\ n \in Nat
  BY RegTypes DEF Sound
<1>2. q \in Seq(Nat) /\ Len(q) = n /\ \A k \in 1..n : q[k] = k
  BY <1>1
<1> HIDE DEF q, n

<1>4. r \in U
  BY DEF Swept, SameMasters, SameAddrs, Sound
<1>5. ASSUME NEW y \in U, NEW k \in 1..n PROVE UnrefIdAt(y, o, q[k]) \in U
  <2>1. Swept(UnrefIdAt(y, o, q[k]), r, o, dang)
    BY <1>1, <1>2, SweptStep
  <2>2. QED
    BY <2>1 DEF Swept, Sound
<1> HIDE DEF U
<1>6. StepsOn(F, U, n) /\ \A y \in U, k \in 1..n : F[<<y, k>>] = UnrefIdAt(y, o, q[k])
  BY <1>5 DEF StepsOn
<1>7. \E s : Is(s)
  <2> HIDE DEF F
  <2>1. n \in Nat
    BY <1>1
  <2>2. PICK s : Iterated(s, F, U, r, n)
    BY <1>4, <1>6, <2>1, Iterates
  <2>3. s \in [0..n -> U] /\ s[0] = r /\ \A k \in 1..n : s[k] = UnrefIdAt(s[k - 1], o, q[k])
    <3>1. s \in [0..n -> U] /\ s[0] = r /\ \A k \in 1..n : s[k] = F[<<s[k - 1], k>>]
      BY <2>2 DEF Iterated
    <3>2. \A k \in 1..n : s[k - 1] \in U
      BY <2>1, <3>1
    <3>3. QED
      BY <1>6, <3>1, <3>2
  <2>4. Is(s)
    BY <2>1, <2>3
  <2>5. QED
    BY <2>4
<1>8. PICK s : Is(s) /\ x = s[n]
  <2> DEFINE c == CHOOSE s : Is(s)
  <2>1. Is(c)
    <3> HIDE DEF Is
    <3>1. QED
      BY <1>7
  <2>2. x = c[n]
    BY <1>2 DEF Loop, UnrefIds, q, n
  <2>3. QED
    BY <2>1, <2>2
<1>9. s[0] = r /\ \A k \in 1..n : s[k] = UnrefIdAt(s[k - 1], o, q[k])
  BY <1>1, <1>8
<1> HIDE DEF Is, F
<1>10. CASE ~OnceListed(r, o) \/ o \in dang \/ Listing(r, o) = {}
  <2> DEFINE T == {k \in 0..n : s[k] \in U /\ (Listing(r, o) = {} => s[k] = r)}
  <2>1. 0 \in T
    BY <1>1, <1>4, <1>9
  <2>2. ASSUME NEW k \in 1..n, k - 1 \in T PROVE k \in T
    <3>1. s[k - 1] \in U /\ s[k] = UnrefIdAt(s[k - 1], o, q[k]) /\ s[k] \in U
      BY <1>5, <1>9, <2>2
    <3>2. Listing(r, o) = {} => UnrefIdAt(r, o, q[k]) = r
      BY <1>1, <1>2, <1>4, SweptStep DEF U
    <3>3. QED
      BY <2>2, <3>1, <3>2
  <2>3. n \in T
    <3> HIDE DEF T
    <3>1. 0..n \subseteq T
      BY <1>1, <2>1, <2>2, Induct
    <3>2. QED
      BY <1>1, <3>1
  <2>4. QED
    BY <1>8, <1>10, <2>3 DEF U
<1>11. CASE OnceListed(r, o) /\ o \notin dang /\ Listing(r, o) # {}
  <2>1. PICK p \in Listing(r, o) : Listing(r, o) \subseteq {p}
    BY <1>11 DEF OnceListed
  <2>2. PICK j \in 1..n : r.info[o].ids[j] = r.masters[p].id
    <3>1. o \in Members(r.masters[p].list) /\ p \in 1..Len(r.masters)
      BY <2>1 DEF Listing
    <3>2. o \in Alives(r)
      BY <1>11, <3>1 DEF Sound, Placed
    <3>3. r.masters[p].id \in Members(r.info[o].ids)
      BY <3>1, <3>2 DEF Sound, IdsKept
    <3>4. QED
      BY <3>3 DEF Members, n
  <2> DEFINE T == {k \in 0..n : /\ s[k] \in U
                                /\ Listing(s[k], o) = {} \/ (s[k] = r /\ k < j)}
  <2>3. 0 \in T
    BY <1>1, <1>4, <1>9
  <2>4. ASSUME NEW k \in 1..n, k - 1 \in T PROVE k \in T
    <3>1. s[k - 1] \in U /\ s[k] = UnrefIdAt(s[k - 1], o, k) /\ s[k] \in U
      BY <1>2, <1>5, <1>9, <2>4
    <3>2. Swept(s[k - 1], r, o, dang) /\ Swept(s[k], r, o, dang) /\ k \in Nat \ {0}
      BY <1>1, <3>1 DEF U
    <3>3. CASE Listing(s[k - 1], o) = {}
      <4>1. UnrefIdAt(s[k - 1], o, k) = s[k - 1]
        BY <1>1, <3>2, <3>3, SweptStep
      <4>2. QED
        BY <3>1, <3>3, <4>1
    <3>4. CASE s[k - 1] = r /\ k - 1 < j
      <4>1. Swept(r, r, o, dang) /\ k <= Len(r.info[o].ids)
        BY <1>1, <1>4 DEF U, n
      <4>2. CASE r.info[o].ids[k] # r.masters[p].id
        <5>1. UnrefIdAt(r, o, k) = r
          <6>1. \A h \in Listing(r, o) :
                  /\ Listing(r, o) \subseteq {h}
                  /\ k <= Len(r.info[o].ids) /\ r.info[o].ids[k] # r.masters[h].id
                  => UnrefIdAt(r, o, k) = r
            BY <3>2, <4>1, SweptStep
          <6>2. QED
            BY <2>1, <4>1, <4>2, <6>1
        <5>2. k # j /\ k < j
          BY <1>1, <2>2, <3>4, <4>2
        <5>3. QED
          BY <3>1, <3>4, <5>1, <5>2
      <4>3. CASE r.info[o].ids[k] = r.masters[p].id
        <5>1. p \notin Listing(s[k], o)
          <6>1. \A h \in Listing(r, o) :
                  k <= Len(r.info[o].ids) /\ r.info[o].ids[k] = r.masters[h].id =>
                    h \notin Listing(UnrefIdAt(r, o, k), o)
            BY <3>2, <4>1, SweptStep
          <6>2. s[k] = UnrefIdAt(r, o, k)
            BY <3>1, <3>4
          <6>3. QED
            BY <2>1, <4>1, <4>3, <6>1, <6>2
        <5>2. Listing(s[k], o) \subseteq Listing(r, o)
          BY <3>2 DEF Swept, SameMasters, Listing
        <5>3. Listing(s[k], o) = {}
          BY <2>1, <5>1, <5>2
        <5>4. QED
          BY <3>1, <5>3
      <4>4. QED
        BY <4>2, <4>3
    <3>5. QED
      BY <2>4, <3>3, <3>4
  <2>5. n \in T
    <3> HIDE DEF T
    <3>1. 0..n \subseteq T
      BY <1>1, <2>3, <2>4, Induct
    <3>2. QED
      BY <1>1, <3>1
  <2>6. ~(n < j)
    BY <1>1, <2>2
  <2>7. QED
    BY <1>8, <2>5, <2>6 DEF U
<1>12. QED
  BY <1>10, <1>11

\* o destroyed: out of m_servers and without its ids; lists may still name it.
Destroyed(s, o) ==
  [s EXCEPT !.servers = RemoveFirst(@, o),
            !.info[o] = [addr |-> @.addr, ids |-> <<>>, view |-> {}]]

LEMMA DestroyedSound ==
  ASSUME NEW s, NEW dang, Sound(s, dang), NEW o \in 1..Len(s.info),
         o \in dang \/ Listing(s, o) = {}
  PROVE  LET t == Destroyed(s, o) IN
         /\ Sound(t, dang) /\ t.masters = s.masters /\ SameAddrs(t, s)
         /\ Alives(t) = Alives(s) \ {o}
<1> DEFINE t  == Destroyed(s, o)
           ss == RemoveFirst(s.servers, o)
           i  == [addr |-> s.info[o].addr, ids |-> <<>>, view |-> {}]
           is == [s.info EXCEPT ![o] = i]
<1>1. s \in Reg /\ o \in 1..Len(s.info) /\ s.info[o] \in Info /\ s.servers \in Seq(Nat)
      /\ s.info \in Seq(Info) /\ s.masters \in Seq(Entry)
  BY RegTypes DEF Sound
<1>2. i \in Info
  <2>1. <<>> \in Seq(Nat) /\ s.info[o].addr \in Addrs
    BY <1>1, EmptySeq DEF Info
  <2>2. QED
    BY <2>1 DEF Info
<1>3. t = [masters |-> s.masters, servers |-> ss, info |-> is]
  <2>1. s = [masters |-> s.masters, servers |-> s.servers, info |-> s.info]
    BY <1>1 DEF Reg
  <2> DEFINE u == [s EXCEPT !.servers = ss]
  <2>2. t = [u EXCEPT !.info = [u.info EXCEPT ![o] = [addr |-> u.info[o].addr, ids |-> <<>>, view |-> {}]]]
    BY DEF Destroyed
  <2>3. u.info = s.info /\ u = [masters |-> s.masters, servers |-> ss, info |-> s.info]
    <3> HIDE DEF ss
    <3>1. QED
      BY <2>1
  <2> HIDE DEF u
  <2>4. t = [u EXCEPT !.info = is]
    BY <2>2, <2>3
  <2>5. QED
    <3> HIDE DEF t, ss, is
    <3>1. QED
      BY <2>3, <2>4
<1>4. /\ ss \in Seq(Nat) /\ Len(ss) \in 0..Len(s.servers)
      /\ Members(s.servers) \subseteq Members(ss) \cup {o}
      /\ Members(ss) \subseteq Members(s.servers)
  BY <1>1, RemoveFirstProperties
<1>5. is \in Seq(Info) /\ Len(is) = Len(s.info)
      /\ \A k \in 1..Len(s.info) : is[k] = IF k = o THEN i ELSE s.info[k]
  BY <1>1, <1>2, ExceptSeq
<1> HIDE DEF t, ss, is
<1>6. t \in Reg /\ t.masters = s.masters /\ t.servers = ss /\ t.info = is
  BY <1>1, <1>3, <1>4, <1>5 DEF Reg
<1>7. IsInjective(s.servers)
  <2>1. DOMAIN s.servers = 1..Len(s.servers)
    BY <1>1, LenProperties
  <2>2. QED
    BY <2>1 DEF IsInjective, Sound, OneServerEach
<1>8. Alives(t) = Alives(s) \ {o} /\ IsInjective(ss)
  <2>1. IsInjective(ss) /\ o \notin Members(ss)
    BY <1>1, <1>7, RemoveFirstProperties DEF ss
  <2>2. QED
    BY <1>4, <1>6, <2>1 DEF Alives
<1>9. SameAddrs(t, s)
  BY <1>5, <1>6 DEF SameAddrs
<1>10. Len(s.servers) \in Nat /\ Len(s.info) \in Nat
  BY <1>1, RegTypes
<1>11. Placed(t, dang)
  <2>1. ASSUME NEW p \in 1..Len(s.masters)
        PROVE  /\ Members(s.masters[p].list) \subseteq 1..Len(s.info)
               /\ Members(s.masters[p].list) \subseteq Alives(t) \cup dang
    <3>1. Members(s.masters[p].list) \subseteq Alives(s) \cup dang
          /\ Members(s.masters[p].list) \subseteq 1..Len(s.info)
      BY DEF Sound, Placed
    <3>2. o \in dang \/ o \notin Members(s.masters[p].list)
      BY DEF Listing
    <3>3. QED
      BY <1>8, <3>1, <3>2
  <2>2. Len(ss) <= Len(s.info) /\ Alives(t) \subseteq 1..Len(s.info)
    BY <1>4, <1>8, <1>10 DEF Sound, Placed
  <2>3. QED
    BY <1>5, <1>6, <2>1, <2>2 DEF Placed
<1>12. OneServerEach(t)
  <2>1. ASSUME NEW j \in 1..Len(ss), NEW k \in 1..Len(ss), is[ss[j]].addr = is[ss[k]].addr
        PROVE  j = k
    <3>1. ss[j] \in Members(ss) /\ ss[k] \in Members(ss)
      BY DEF Members
    <3>2. ss[j] \in Members(s.servers) /\ ss[k] \in Members(s.servers)
          /\ ss[j] \in 1..Len(s.info) /\ ss[k] \in 1..Len(s.info)
      BY <1>4, <3>1 DEF Sound, Placed, Alives
    <3>3. s.info[ss[j]].addr = s.info[ss[k]].addr
      BY <1>6, <1>9, <2>1, <3>2 DEF SameAddrs
    <3>4. ss[j] = ss[k]
      <4>1. PICK a \in 1..Len(s.servers), b \in 1..Len(s.servers) :
              ss[j] = s.servers[a] /\ ss[k] = s.servers[b]
        BY <3>2 DEF Members
      <4>2. QED
        BY <3>3, <4>1 DEF Sound, OneServerEach
    <3>5. DOMAIN ss = 1..Len(ss)
      BY <1>4, LenProperties
    <3>6. QED
      BY <1>8, <3>4, <3>5 DEF IsInjective
  <2>2. QED
    BY <1>6, <2>1 DEF OneServerEach
<1>13. OneMasterEach(t) /\ FirstLists(t)
  BY <1>6 DEF Sound, OneMasterEach, FirstLists
<1>14. IdsKept(t)
  <2>1. ASSUME NEW p \in 1..Len(s.masters),
               NEW k \in Members(s.masters[p].list) \cap (Alives(s) \ {o})
        PROVE  s.masters[p].id \in Members(is[k].ids) /\ "default" \in is[k].view
    <3>1. is[k] = s.info[k]
      BY <1>5, SoundTypes
    <3>2. QED
      BY <3>1 DEF Sound, IdsKept
  <2>2. QED
    BY <1>6, <1>8, <2>1 DEF IdsKept
<1>15. QED
  BY <1>6, <1>8, <1>9, <1>11, <1>12, <1>13, <1>14 DEF Sound, t

\* DeleteServer for a server that no second master lists, or one that dang has.
LEMMA WithoutServerSound ==
  ASSUME NEW r, NEW dang, Sound(r, dang), NEW o \in 1..Len(r.info),
         o \in dang \/ OnceListed(r, o)
  PROVE  LET t == WithoutServer(r, o) IN
         /\ Sound(t, dang) /\ SameMasters(t, r) /\ SameAddrs(t, r)
         /\ Alives(t) = Alives(r) \ {o}
         /\ \A q \in 1..Len(r.masters) :
              Members(t.masters[q].list) \subseteq Members(r.masters[q].list)
<1> DEFINE s == UnrefIds(r, o)
           t == Destroyed(s, o)
<1>1. Swept(s, r, o, dang) /\ (o \in dang \/ Listing(s, o) = {})
  BY SweepSound
<1>2. WithoutServer(r, o) = t
  BY DEF WithoutServer, Destroyed
<1> HIDE DEF s
<1>3. Sound(s, dang) /\ o \in 1..Len(s.info)
  BY <1>1 DEF Swept, SameAddrs
<1>4. /\ Sound(t, dang) /\ t.masters = s.masters /\ SameAddrs(t, s)
      /\ Alives(t) = Alives(s) \ {o}
  BY <1>1, <1>3, DestroyedSound
<1> HIDE DEF t
<1>5. SameMasters(t, r) /\ SameAddrs(t, r) /\ Alives(s) = Alives(r)
  BY <1>1, <1>4, SameAddrsTransitive DEF Swept, SameMasters, Alives
<1>6. QED
  BY <1>1, <1>2, <1>4, <1>5 DEF Swept


-----------------------------------------------------------------------------
(* The deletion of several servers.                                        *)

\* What the loop over the game's servers keeps.
Cleaned(x, r, dang) ==
  /\ Sound(x, dang) /\ SameMasters(x, r) /\ SameAddrs(x, r)
  /\ Alives(x) \subseteq Alives(r)
  /\ \A p \in 1..Len(r.masters) :
       Members(x.masters[p].list) \subseteq Members(r.masters[p].list)

LEMMA CleanedStep ==
  ASSUME NEW r, NEW dang, NEW x, Cleaned(x, r, dang),
         NEW o \in 1..Len(r.info), o \in dang \/ OnceListed(r, o)
  PROVE  /\ Cleaned(WithoutServer(x, o), r, dang)
         /\ Alives(WithoutServer(x, o)) = Alives(x) \ {o}
<1> DEFINE t == WithoutServer(x, o)
<1>1. Sound(x, dang) /\ o \in 1..Len(x.info)
  BY DEF Cleaned, SameAddrs
<1>2. o \in dang \/ OnceListed(x, o)
  BY DEF OnceListed, Listing, Cleaned, SameMasters
<1>3. /\ Sound(t, dang) /\ SameMasters(t, x) /\ SameAddrs(t, x)
      /\ Alives(t) = Alives(x) \ {o}
      /\ \A p \in 1..Len(x.masters) :
           Members(t.masters[p].list) \subseteq Members(x.masters[p].list)
  BY <1>1, <1>2, WithoutServerSound
<1> HIDE DEF t
<1>4. SameMasters(t, r) /\ SameAddrs(t, r)
  BY <1>3, SameMastersTransitive, SameAddrsTransitive DEF Cleaned
<1>5. \A p \in 1..Len(r.masters) :
        Members(t.masters[p].list) \subseteq Members(r.masters[p].list)
  BY <1>3 DEF Cleaned, SameMasters
<1>6. QED
  BY <1>3, <1>4, <1>5 DEF Cleaned, t

LEMMA WithoutServersSound ==
  ASSUME NEW r, NEW dang, Sound(r, dang), NEW gone,
         \A o \in gone : o \in dang \/ OnceListed(r, o),
         NEW x, x = WithoutServers(r, gone)
  PROVE  Cleaned(x, r, dang) /\ Alives(x) \cap gone = {}
<1> DEFINE q == Reverse(r.servers)
           n == Len(q)
           U == {y \in Reg : Cleaned(y, r, dang)}
           F == [y \in U \X (1..n) |->
                   IF q[y[2]] \in gone THEN WithoutServer(y[1], q[y[2]]) ELSE y[1]]
           Is(s) == s = [k \in 0..n |->
                           IF k = 0 THEN r
                           ELSE IF q[k] \in gone THEN WithoutServer(s[k - 1], q[k]) ELSE s[k - 1]]
<1>1. /\ n \in Nat
      /\ \A k \in 1..n : q[k] \in 1..Len(r.info)
      /\ \A e \in Alives(r) : \E k \in 1..n : q[k] = e
  <2>1. r.servers \in Seq(Nat) /\ \A e \in Members(r.servers) : e \in 1..Len(r.info)
    BY RegTypes DEF Sound, Placed, Alives
  <2>2. QED
    BY <2>1, ReverseProperties, LenProperties DEF Alives
<1> HIDE DEF q, n
<1>2. r \in U
  BY DEF Cleaned, SameMasters, SameAddrs, Sound
<1>3. ASSUME NEW y \in U, NEW k \in 1..n, q[k] \in gone
      PROVE  WithoutServer(y, q[k]) \in U /\ Alives(WithoutServer(y, q[k])) = Alives(y) \ {q[k]}
  <2>1. /\ Cleaned(WithoutServer(y, q[k]), r, dang)
        /\ Alives(WithoutServer(y, q[k])) = Alives(y) \ {q[k]}
    BY <1>1, <1>3, CleanedStep
  <2>2. QED
    BY <2>1 DEF Cleaned, Sound
<1> HIDE DEF U
<1>4. StepsOn(F, U, n) /\ \A y \in U, k \in 1..n : F[<<y, k>>] = (IF q[k] \in gone THEN WithoutServer(y, q[k]) ELSE y)
  BY <1>3 DEF StepsOn
<1>5. \E s : Is(s)
  <2> HIDE DEF F
  <2>1. n \in Nat
    BY <1>1
  <2>2. PICK s : Iterated(s, F, U, r, n)
    BY <1>2, <1>4, <2>1, Iterates
  <2>3. s \in [0..n -> U] /\ s[0] = r /\ \A k \in 1..n : s[k] = (IF q[k] \in gone THEN WithoutServer(s[k - 1], q[k]) ELSE s[k - 1])
    <3>1. s \in [0..n -> U] /\ s[0] = r /\ \A k \in 1..n : s[k] = F[<<s[k - 1], k>>]
      BY <2>2 DEF Iterated
    <3>2. \A k \in 1..n : s[k - 1] \in U
      BY <2>1, <3>1
    <3>3. QED
      BY <1>4, <3>1, <3>2
  <2>4. Is(s)
    BY <2>1, <2>3
  <2>5. QED
    BY <2>4
<1>6. PICK s : Is(s) /\ x = s[n]
  <2> DEFINE c == CHOOSE s : Is(s)
  <2>1. Is(c)
    <3> HIDE DEF Is
    <3>1. QED
      BY <1>5
  <2>2. x = c[n]
    BY DEF Loop, WithoutServers, q, n
  <2>3. QED
    BY <2>1, <2>2
<1>7. s[0] = r /\ \A k \in 1..n : s[k] = (IF q[k] \in gone THEN WithoutServer(s[k - 1], q[k]) ELSE s[k - 1])
  BY <1>1, <1>6
<1> HIDE DEF Is, F
<1> DEFINE T == {k \in 0..n : s[k] \in U /\ \A j \in 1..k : q[j] \in gone => q[j] \notin Alives(s[k])}
<1>8. 0 \in T
  BY <1>1, <1>2, <1>7
<1>9. ASSUME NEW k \in 1..n, k - 1 \in T PROVE k \in T
  <2>1. s[k - 1] \in U /\ \A j \in 1..k : j = k \/ j \in 1..(k - 1)
    BY <1>1, <1>9
  <2>2. CASE q[k] \in gone
    <3>1. s[k] = WithoutServer(s[k - 1], q[k])
      BY <1>7, <2>2
    <3>2. s[k] \in U /\ Alives(s[k]) = Alives(s[k - 1]) \ {q[k]}
      BY <1>3, <2>1, <2>2, <3>1
    <3>3. QED
      BY <1>9, <2>1, <3>2
  <2>3. CASE q[k] \notin gone
    <3>1. s[k] = s[k - 1]
      BY <1>7, <2>3
    <3>2. QED
      BY <1>9, <2>1, <2>3, <3>1
  <2>4. QED
    BY <2>2, <2>3
<1>10. n \in T
  <2> HIDE DEF T
  <2>1. 0..n \subseteq T
    BY <1>1, <1>8, <1>9, Induct
  <2>2. QED
    BY <1>1, <2>1
<1>11. Cleaned(x, r, dang)
  BY <1>6, <1>10 DEF U
<1>12. QED
  BY <1>1, <1>6, <1>10, <1>11 DEF Cleaned


-----------------------------------------------------------------------------
(* A master's answer.                                                      *)

\* Servers were added at most: those there were keep their place and address.
Grown(t, r) ==
  /\ SameMasters(t, r)
  /\ Len(r.info) <= Len(t.info)
  /\ \A k \in 1..Len(r.info) : t.info[k].addr = r.info[k].addr
  /\ Alives(r) \subseteq Alives(t)
  /\ Alives(t) \subseteq Alives(r) \cup {k \in 1..Len(t.info) : k > Len(r.info)}

LEMMA GrownTransitive ==
  ASSUME NEW r \in Reg, NEW s \in Reg, NEW t \in Reg, Grown(s, r), Grown(t, s)
  PROVE  Grown(t, r)
<1>1. Len(r.info) \in Nat /\ Len(s.info) \in Nat /\ Len(t.info) \in Nat
  BY RegTypes
<1>2. Len(r.info) <= Len(s.info) /\ Len(s.info) <= Len(t.info)
  BY DEF Grown
<1>3. SameMasters(t, r)
  BY SameMastersTransitive DEF Grown
<1>4. \A k \in 1..Len(r.info) : t.info[k].addr = r.info[k].addr
  <2>1. \A k \in 1..Len(r.info) : k \in 1..Len(s.info)
    BY <1>1, <1>2
  <2>2. QED
    BY <2>1 DEF Grown
<1>5. Alives(t) \subseteq Alives(r) \cup {k \in 1..Len(t.info) : k > Len(r.info)}
  <2>1. \A k \in 1..Len(s.info) : k > Len(r.info) => k \in 1..Len(t.info)
    BY <1>1, <1>2
  <2>2. \A k \in 1..Len(t.info) : k > Len(s.info) => k > Len(r.info)
    BY <1>1, <1>2
  <2>3. QED
    BY <2>1, <2>2 DEF Grown
<1>6. QED
  BY <1>1, <1>2, <1>3, <1>4, <1>5 DEF Grown

LEMMA AddsGrown ==
  ASSUME NEW r, NEW t, NEW dang, Sound(r, dang), Sound(t, dang),
         NEW a \in Addrs, NEW view \in Views,
         NEW p \in 0..Len(r.masters), NEW o, Adds(t, r, a, view, p, o)
  PROVE  /\ Grown(t, r) /\ o \in FindServer(t, a) /\ Len(t.info) <= Len(r.info) + 1
         /\ FindServer(r, a) # {} => Len(t.info) = Len(r.info)
         /\ \A q \in 1..Len(r.masters) :
              ListedAt(t, q) = IF q = p THEN ListedAt(r, q) \cup {a} ELSE ListedAt(r, q)
<1>1. r \in Reg /\ t \in Reg /\ Len(r.info) \in Nat /\ Len(t.info) \in Nat /\ Len(r.masters) \in Nat
  BY RegTypes DEF Sound
<1>2. \/ o \in FindServer(r, a) /\ Len(t.info) = Len(r.info)
      \/ FindServer(r, a) = {} /\ o = Len(r.info) + 1 /\ Len(t.info) = o
  BY DEF Adds
<1>3. Found(r, a, view, o) \in Info /\ Found(r, a, view, o).addr = a
  <2>1. [addr |-> a, ids |-> <<>>, view |-> view] \in Info
    <3>1. <<>> \in Seq(Nat)
      BY EmptySeq
    <3>2. QED
      BY <3>1 DEF Info, Views
  <2>2. CASE o \in FindServer(r, a)
    <3>1. o \in 1..Len(r.info) /\ r.info[o].addr = a
      BY <2>2 DEF FindServer, Sound, Placed, Alives
    <3>2. QED
      BY <1>1, <3>1, RegTypes DEF Found
  <2>3. CASE o = Len(r.info) + 1
    <3>1. o \notin 1..Len(r.info)
      BY <1>1, <2>3
    <3>2. QED
      BY <2>1, <3>1 DEF Found
  <2>4. QED
    BY <1>2, <2>2, <2>3
<1>4. t.info[o].addr = a
  <2>1. CASE p = 0
    BY <1>3, <2>1 DEF Adds
  <2>2. CASE p # 0
    <3>1. r.masters[p].id \in Nat
      BY <1>1, <2>2, RegTypes
    <3>2. t.info[o] = AddMasterId(Found(r, a, view, o), r.masters[p].id)
      BY <2>2 DEF Adds
    <3>3. QED
      BY <1>3, <3>1, <3>2, AddMasterIdEffect
  <2>3. QED
    BY <2>1, <2>2
<1>5. \A k \in 1..Len(r.info) : t.info[k].addr = r.info[k].addr
  <2>1. ASSUME NEW k \in 1..Len(r.info) PROVE t.info[k].addr = r.info[k].addr
    <3>1. CASE k # o
      BY <3>1 DEF Adds
    <3>2. CASE k = o
      <4>1. o \in FindServer(r, a)
        BY <1>1, <1>2, <3>2
      <4>2. QED
        BY <1>4, <3>2, <4>1 DEF FindServer
    <3>3. QED
      BY <3>1, <3>2
  <2>2. QED
    BY <2>1
<1>6. Alives(t) = Alives(r) \cup {o} /\ SameMasters(t, r)
  BY DEF Adds
<1>7. o \in Alives(r) \/ (o \in 1..Len(t.info) /\ o > Len(r.info))
  BY <1>1, <1>2 DEF FindServer, Alives
<1>8. Grown(t, r)
  BY <1>1, <1>2, <1>5, <1>6, <1>7 DEF Grown
<1>9. o \in FindServer(t, a)
  BY <1>4, <1>6 DEF FindServer, Alives
<1>10. ASSUME NEW q \in 1..Len(r.masters)
       PROVE  ListedAt(t, q) = IF q = p THEN ListedAt(r, q) \cup {a} ELSE ListedAt(r, q)
  <2>1. \A k \in Members(r.masters[q].list) : k \in 1..Len(r.info)
    BY SoundTypes
  <2>2. {t.info[k].addr : k \in Members(r.masters[q].list)} = ListedAt(r, q)
    BY <1>5, <2>1 DEF ListedAt
  <2>3. CASE ~(q = p /\ ~Lists(r, p, a))
    <3>1. t.masters[q].list = r.masters[q].list
      BY <2>3 DEF Adds
    <3>2. q = p => a \in ListedAt(r, q)
      BY <2>3 DEF Lists, ListedAt
    <3>3. QED
      BY <2>2, <3>1, <3>2 DEF ListedAt
  <2>4. CASE q = p /\ ~Lists(r, p, a)
    <3>1. t.masters[q].list = Append(r.masters[q].list, o)
      BY <2>4 DEF Adds
    <3>2. r.masters[q].list \in Seq(Nat) /\ o \in Nat
      BY <1>1, <1>7, SoundTypes, RegTypes DEF Sound, Placed
    <3>3. Members(t.masters[q].list) = Members(r.masters[q].list) \cup {o}
      BY <3>1, <3>2, MembersAppend
    <3>4. QED
      BY <1>4, <2>2, <2>4, <3>3 DEF ListedAt
  <2>5. QED
    BY <2>3, <2>4
<1>11. QED
  BY <1>1, <1>2, <1>8, <1>9, <1>10

\* AddServer, with any id.
ServerAdded(t, r, dang, a, id) ==
  /\ Sound(t, dang) /\ Grown(t, r) /\ Len(t.info) <= Len(r.info) + 1
  /\ \A q \in 1..Len(r.masters) :
       ListedAt(t, q) = IF q = Place(r, id) THEN ListedAt(r, q) \cup {a} ELSE ListedAt(r, q)

LEMMA WithServerSound ==
  ASSUME NEW r, NEW dang, Sound(r, dang), NEW a \in Addrs, NEW view \in Views,
         NEW id \in Nat \cup {NoMaster}
  PROVE  ServerAdded(WithServer(r, a, view, id), r, dang, a, id)
<1> DEFINE t == WithServer(r, a, view, id)
<1>0. Len(r.info) \in Nat /\ Len(r.masters) \in Nat
  BY RegTypes DEF Sound
<1>1. CASE id # NoMaster /\ MasterAt(r, id) = 0
  <2>1. t = r /\ Place(r, id) = 0
    BY <1>1 DEF WithServer, Place
  <2>2. Grown(r, r)
    BY <1>0 DEF Grown, SameMasters
  <2>3. QED
    BY <1>0, <2>1, <2>2 DEF ServerAdded
<1>2. CASE id = NoMaster \/ MasterAt(r, id) # 0
  <2>1. Sound(t, dang) /\ \E o : Adds(t, r, a, view, Place(r, id), o)
    BY <1>2, WithServerAdds
  <2>2. PICK o : Adds(t, r, a, view, Place(r, id), o)
    BY <2>1
  <2>3. Place(r, id) \in 0..Len(r.masters)
    BY <1>0, MasterAtFirst DEF Place, Sound
  <2> DEFINE p == Place(r, id)
  <2> HIDE DEF p, t
  <2>4. p = Place(r, id) /\ p \in 0..Len(r.masters) /\ Adds(t, r, a, view, p, o)
    BY <2>2, <2>3 DEF p
  <2>5. /\ Grown(t, r) /\ o \in FindServer(t, a) /\ Len(t.info) <= Len(r.info) + 1
        /\ FindServer(r, a) # {} => Len(t.info) = Len(r.info)
        /\ \A q \in 1..Len(r.masters) :
             ListedAt(t, q) = IF q = p THEN ListedAt(r, q) \cup {a} ELSE ListedAt(r, q)
    BY <2>1, <2>4, AddsGrown
  <2>6. QED
    BY <2>1, <2>4, <2>5 DEF ServerAdded, t
<1>3. QED
  BY <1>1, <1>2

LEMMA ListedSound ==
  ASSUME NEW r, NEW dang, Sound(r, dang), NEW p \in 1..Len(r.masters),
         Members(r.masters[p].list) \subseteq Alives(r), NEW answer \in Seq(Addrs),
         NEW x, x = Listed(r, p, answer)
  PROVE  /\ Sound(x, dang) /\ Grown(x, r)
         /\ MasterAt(r, r.masters[p].id) = p =>
              \A q \in 1..Len(r.masters) :
                ListedAt(x, q) = IF q = p THEN Members(answer) ELSE ListedAt(r, q)
<1> DEFINE n == Len(answer)
           id == r.masters[p].id
           h == MasterAt(r, id)
           b == UnrefServers(r, p)
           U == {y \in Reg : Sound(y, dang) /\ Grown(y, b)}
           F == [y \in U \X (1..n) |-> WithServer(y[1], answer[y[2]], {"default"}, id)]
           Is(s) == s = [k \in 0..n |->
                           IF k = 0 THEN b ELSE WithServer(s[k - 1], answer[k], {"default"}, id)]
           Heard(k) == {answer[j] : j \in 1..k}
<1>1. n \in Nat /\ \A k \in 1..n : answer[k] \in Addrs
  BY ElementOfSeq, LenProperties
<1>2. Unreffed(b, r, p, dang) /\ b.masters[p].list = <<>>
  BY UnrefServersSound
<1>3. id \in Nat /\ {"default"} \in Views /\ id # NoMaster
  BY RegTypes DEF Sound, Views, NoMaster
<1>4. h \in 1..Len(r.masters)
  BY MasterAtFirst DEF Sound
<1> HIDE DEF n, id, h, b
<1>5. b \in Reg /\ Sound(b, dang) /\ SameMasters(b, r) /\ SameAddrs(b, r) /\ Alives(b) = Alives(r)
  BY <1>2 DEF Unreffed, Sound, Alives
<1>6. b \in U
  <2>1. Len(b.info) \in Nat
    BY <1>5, RegTypes
  <2>2. QED
    BY <1>5, <2>1 DEF Grown, SameMasters
<1>7. ASSUME NEW y \in U, NEW k \in 1..n, NEW t, t = WithServer(y, answer[k], {"default"}, id)
      PROVE  /\ t \in U
             /\ \A q \in 1..Len(r.masters) :
                  ListedAt(t, q) = IF q = h THEN ListedAt(y, q) \cup {answer[k]} ELSE ListedAt(y, q)
  <2>1. Sound(y, dang) /\ Grown(y, b) /\ y \in Reg
    OBVIOUS
  <2> HIDE DEF U
  <2>2. SameMasters(y, r) /\ Len(y.masters) = Len(r.masters)
    BY <1>5, <2>1, SameMastersTransitive DEF Grown, SameMasters
  <2>3. Place(y, id) = h
    BY <1>3, <2>2, SameMasterAt DEF Place, h
  <2>4. /\ Sound(t, dang) /\ Grown(t, y)
        /\ \A q \in 1..Len(y.masters) :
             ListedAt(t, q) = IF q = Place(y, id) THEN ListedAt(y, q) \cup {answer[k]} ELSE ListedAt(y, q)
    <3> DEFINE a == answer[k]
               v == {"default"}
    <3>1. a \in Addrs /\ v \in Views /\ t = WithServer(y, a, v, id) /\ id \in Nat \cup {NoMaster}
      BY <1>1, <1>3, <1>7
    <3> HIDE DEF a, v, F, Is
    <3>2. ServerAdded(t, y, dang, a, id)
      BY <2>1, <3>1, WithServerSound
    <3>3. QED
      BY <3>2 DEF a, ServerAdded
  <2>5. t \in Reg /\ Grown(t, b)
    BY <1>5, <2>1, <2>4, GrownTransitive DEF Sound
  <2>6. QED
    BY <2>2, <2>3, <2>4, <2>5 DEF U
<1> HIDE DEF U, Heard
<1>8. \A y \in U, k \in 1..n : WithServer(y, answer[k], {"default"}, id) \in U
  BY <1>7
<1>9. StepsOn(F, U, n) /\ \A y \in U, k \in 1..n : F[<<y, k>>] = WithServer(y, answer[k], {"default"}, id)
  BY <1>8 DEF StepsOn
<1>10. \E s : Is(s)
  <2> HIDE DEF F
  <2>1. n \in Nat
    BY <1>1
  <2>2. PICK s : Iterated(s, F, U, b, n)
    BY <1>6, <1>9, <2>1, Iterates
  <2>3. s \in [0..n -> U] /\ s[0] = b /\ \A k \in 1..n : s[k] = WithServer(s[k - 1], answer[k], {"default"}, id)
    <3>1. s \in [0..n -> U] /\ s[0] = b /\ \A k \in 1..n : s[k] = F[<<s[k - 1], k>>]
      BY <2>2 DEF Iterated
    <3>2. \A k \in 1..n : s[k - 1] \in U
      BY <2>1, <3>1
    <3>3. QED
      BY <1>9, <3>1, <3>2
  <2>4. Is(s)
    BY <2>1, <2>3
  <2>5. QED
    BY <2>4
<1>11. PICK s : Is(s) /\ x = s[n]
  <2> DEFINE c == CHOOSE s : Is(s)
  <2>1. Is(c)
    <3> HIDE DEF Is
    <3>1. QED
      BY <1>10
  <2>2. x = c[n]
    BY DEF Loop, Listed, n, id, b
  <2>3. QED
    BY <2>1, <2>2
<1>12. s[0] = b /\ \A k \in 1..n : s[k] = WithServer(s[k - 1], answer[k], {"default"}, id)
  BY <1>1, <1>11
<1> HIDE DEF Is, F
<1> DEFINE Told(y, k) ==
             \A q \in 1..Len(r.masters) :
               ListedAt(y, q) = IF q = h THEN ListedAt(b, q) \cup Heard(k) ELSE ListedAt(b, q)
           T == {k \in 0..n : s[k] \in U /\ Told(s[k], k)}
<1>13. 0 \in T
  <2>1. Heard(0) = {}
    BY DEF Heard
  <2>2. Told(b, 0)
    BY <2>1
  <2> HIDE DEF Told
  <2>3. QED
    BY <1>1, <1>6, <1>12, <2>2
<1>14. ASSUME NEW k \in 1..n, k - 1 \in T PROVE k \in T
  <2>1. s[k - 1] \in U /\ s[k] = WithServer(s[k - 1], answer[k], {"default"}, id)
    BY <1>12, <1>14
  <2>2. /\ s[k] \in U
        /\ \A q \in 1..Len(r.masters) :
             ListedAt(s[k], q) = IF q = h THEN ListedAt(s[k - 1], q) \cup {answer[k]}
                                          ELSE ListedAt(s[k - 1], q)
    BY <1>7, <2>1
  <2>3. Heard(k) = Heard(k - 1) \cup {answer[k]}
    <3>1. 1..k = (1..(k - 1)) \cup {k}
      BY <1>1
    <3>2. QED
      BY <3>1 DEF Heard
  <2>4. ASSUME NEW q \in 1..Len(r.masters)
        PROVE  ListedAt(s[k], q) = IF q = h THEN ListedAt(b, q) \cup Heard(k) ELSE ListedAt(b, q)
    <3>1. ListedAt(s[k - 1], q) = IF q = h THEN ListedAt(b, q) \cup Heard(k - 1) ELSE ListedAt(b, q)
      BY <1>14
    <3>2. ListedAt(s[k], q) = IF q = h THEN ListedAt(s[k - 1], q) \cup {answer[k]}
                                       ELSE ListedAt(s[k - 1], q)
      BY <2>2
    <3>3. QED
      BY <2>3, <3>1, <3>2
  <2>5. Told(s[k], k)
    BY <2>4
  <2> HIDE DEF Told
  <2>6. QED
    BY <1>1, <2>2, <2>5
<1>15. n \in T
  <2> HIDE DEF T
  <2>1. 0..n \subseteq T
    BY <1>1, <1>13, <1>14, Induct
  <2>2. QED
    BY <1>1, <2>1
<1>16. Sound(x, dang) /\ Grown(x, b)
  BY <1>11, <1>15 DEF U
<1>17. Grown(x, r)
  <2>1. SameMasters(x, r)
    BY <1>5, <1>16, SameMastersTransitive DEF Grown
  <2>2. QED
    BY <1>5, <1>16, <2>1 DEF Grown, SameAddrs
<1>18. ASSUME h = p, NEW q \in 1..Len(r.masters)
       PROVE  ListedAt(x, q) = IF q = p THEN Members(answer) ELSE ListedAt(r, q)
  <2>1. ListedAt(x, q) = IF q = p THEN ListedAt(b, q) \cup Members(answer) ELSE ListedAt(b, q)
    BY <1>11, <1>15, <1>18 DEF Heard, Members, n
  <2>2. ListedAt(b, p) = {}
    BY <1>2 DEF ListedAt, Members
  <2>3. q # p => ListedAt(b, q) = ListedAt(r, q)
    <3>1. ASSUME q # p PROVE ListedAt(b, q) = ListedAt(r, q)
      <4>1. b.masters[q].list = r.masters[q].list
        BY <1>2, <3>1 DEF Unreffed
      <4>2. \A k \in Members(r.masters[q].list) : b.info[k].addr = r.info[k].addr
        BY <1>5, SoundTypes DEF SameAddrs
      <4>3. QED
        BY <4>1, <4>2 DEF ListedAt
    <3>2. QED
      BY <3>1
  <2>4. QED
    BY <2>1, <2>2, <2>3
<1>19. QED
  BY <1>16, <1>17, <1>18 DEF h, id


-----------------------------------------------------------------------------
(* Masters come and go; a flag changes.                                    *)

\* The master was there, or is the last now.
MasterAdded(t, r, dang, c) ==
  /\ Sound(t, dang) /\ t.servers = r.servers /\ t.info = r.info
  /\ \/ t = r
     \/ /\ Len(t.masters) = Len(r.masters) + 1
        /\ t.masters[Len(r.masters) + 1] = [conn |-> c, id |-> Len(r.masters), list |-> <<>>]
        /\ \A p \in 1..Len(r.masters) : t.masters[p] = r.masters[p]
  /\ \E p \in 1..Len(t.masters) : t.masters[p].conn = c

LEMMA WithMasterSound ==
  ASSUME NEW r, NEW dang, Sound(r, dang), NEW c \in Conns
  PROVE  MasterAdded(WithMaster(r, c), r, dang, c)
<1> DEFINE t == WithMaster(r, c)
           m == [conn |-> c, id |-> Len(r.masters), list |-> <<>>]
           ms == Append(r.masters, m)
<1>1. r \in Reg /\ Len(r.masters) \in Nat /\ r.masters \in Seq(Entry)
  BY RegTypes DEF Sound
<1>2. CASE \E e \in Members(r.masters) : e.conn = c
  BY <1>2 DEF WithMaster, Members, MasterAdded
<1>3. CASE \A e \in Members(r.masters) : e.conn # c
  <2>1. m \in Entry
    <3>1. <<>> \in Seq(Nat)
      BY EmptySeq
    <3>2. QED
      BY <1>1, <3>1 DEF Entry
  <2>2. t = [r EXCEPT !.masters = ms]
    BY <1>3 DEF WithMaster
  <2>3. /\ ms \in Seq(Entry) /\ Len(ms) = Len(r.masters) + 1
        /\ \A p \in 1..Len(r.masters) : ms[p] = r.masters[p]
        /\ ms[Len(r.masters) + 1] = m
    BY <1>1, <2>1, MembersAppend
  <2> HIDE DEF ms, t
  <2>4. t \in Reg /\ t.masters = ms /\ t.servers = r.servers /\ t.info = r.info
    BY <1>1, <2>2, <2>3 DEF Reg
  <2>5. Members(m.list) = {} /\ IsInjective(m.list)
    BY DEF Members, IsInjective
  <2>6. \A p \in 1..Len(ms) : p \in 1..Len(r.masters) \/ (p = Len(r.masters) + 1 /\ p \notin 1..Len(r.masters))
    BY <1>1, <2>3
  <2>7. m.conn = c /\ m.list = <<>>
    OBVIOUS
  <2> HIDE DEF m
  <2>8. \A p \in 1..Len(ms) : Members(ms[p].list) = {} \/ (p \in 1..Len(r.masters) /\ ms[p] = r.masters[p])
    BY <2>3, <2>5, <2>6
  <2>9. Placed(t, dang)
    BY <2>4, <2>8 DEF Sound, Placed, Alives
  <2>10. OneServerEach(t)
    BY <2>4 DEF Sound, OneServerEach
  <2>11. OneMasterEach(t)
    <3>1. \A p \in 1..Len(r.masters) : r.masters[p].conn # c
      BY <1>3 DEF Members
    <3>2. QED
      <4>1. OneMasterEach(r)
        BY DEF Sound
      <4>2. ASSUME NEW p \in 1..Len(ms), NEW q \in 1..Len(ms), ms[p].conn = ms[q].conn
            PROVE  p = q
        <5>1. CASE p \in 1..Len(r.masters) /\ q \in 1..Len(r.masters)
          BY <2>3, <4>1, <4>2, <5>1 DEF OneMasterEach
        <5>2. QED
          BY <2>3, <2>6, <2>7, <3>1, <4>2, <5>1
      <4>3. QED
        BY <2>4, <4>2 DEF OneMasterEach
  <2>12. FirstLists(t)
    <3>1. ASSUME NEW p \in 1..Len(ms), NEW q \in 1..Len(ms), q < p, ms[q].id = ms[p].id
          PROVE  ms[p].list = <<>>
      <4>1. CASE p \in 1..Len(r.masters)
        <5>1. q \in 1..Len(r.masters)
          BY <1>1, <2>3, <3>1, <4>1
        <5>2. QED
          BY <2>3, <3>1, <4>1, <5>1 DEF Sound, FirstLists
      <4>2. CASE p = Len(r.masters) + 1
        BY <2>3, <2>7, <4>2
      <4>3. QED
        BY <2>6, <4>1, <4>2
    <3>2. \A p \in 1..Len(ms) : IsInjective(ms[p].list)
      BY <2>3, <2>5, <2>6 DEF Sound, FirstLists
    <3>3. QED
      BY <2>4, <3>1, <3>2 DEF FirstLists
  <2>13. IdsKept(t)
    BY <2>4, <2>8 DEF Sound, IdsKept, Alives
  <2>14. Len(r.masters) + 1 \in 1..Len(ms)
    BY <1>1, <2>3
  <2>15. QED
    BY <2>3, <2>4, <2>7, <2>9, <2>10, <2>11, <2>12, <2>13, <2>14 DEF Sound, m, t, MasterAdded
<1>4. QED
  BY <1>2, <1>3

LEMMA WithoutMasterSound ==
  ASSUME NEW r, NEW dang, Sound(r, dang), NEW p \in 1..Len(r.masters),
         Members(r.masters[p].list) \subseteq Alives(r), NEW t, t = WithoutMaster(r, p)
  PROVE  Sound(t, dang) /\ t.servers = r.servers /\ Len(t.info) = Len(r.info)
<1> DEFINE s == UnrefServers(r, p)
           ms == RemoveAt(s.masters, p)
           At(k) == IF k < p THEN k ELSE k + 1
<1>1. Unreffed(s, r, p, dang)
  BY UnrefServersSound
<1>2. t = [s EXCEPT !.masters = ms]
  BY DEF WithoutMaster
<1> HIDE DEF s
<1>3. /\ s \in Reg /\ Sound(s, dang) /\ s.servers = r.servers /\ Len(s.info) = Len(r.info)
      /\ p \in 1..Len(s.masters) /\ s.masters \in Seq(Entry) /\ Len(s.masters) \in Nat
  BY <1>1, RegTypes DEF Unreffed, Sound, SameMasters, SameAddrs
<1>4. /\ ms \in Seq(Entry) /\ Len(ms) = Len(s.masters) - 1
      /\ \A k \in 1..(Len(s.masters) - 1) : ms[k] = IF k < p THEN s.masters[k] ELSE s.masters[k + 1]
  BY <1>3, RemoveAtProperties
<1> HIDE DEF ms
<1>5. t \in Reg /\ t.masters = ms /\ t.servers = s.servers /\ t.info = s.info
  BY <1>2, <1>3, <1>4 DEF Reg
<1>6. \A k \in 1..Len(ms) : At(k) \in 1..Len(s.masters) /\ ms[k] = s.masters[At(k)]
  BY <1>3, <1>4
<1>7. \A j, k \in 1..Len(ms) : /\ At(j) = At(k) => j = k
                               /\ j < k => At(j) < At(k)
  <2>1. Len(ms) \in Nat /\ p \in Nat
    BY <1>3, <1>4
  <2>2. QED
    BY <2>1
<1> HIDE DEF At
<1>8. Placed(t, dang)
  <2>1. Placed(s, dang) /\ Alives(t) = Alives(s)
    BY <1>3, <1>5 DEF Sound, Alives
  <2>2. ASSUME NEW k \in 1..Len(ms)
        PROVE  /\ Members(ms[k].list) \subseteq 1..Len(s.info)
               /\ Members(ms[k].list) \subseteq Alives(s) \cup dang
    <3>1. At(k) \in 1..Len(s.masters) /\ ms[k] = s.masters[At(k)]
      BY <1>6
    <3>2. QED
      BY <2>1, <3>1 DEF Placed
  <2>3. Len(s.servers) <= Len(s.info) /\ Alives(s) \subseteq 1..Len(s.info)
    BY <2>1 DEF Placed
  <2>4. QED
    BY <1>5, <2>1, <2>2, <2>3 DEF Placed
<1>9. OneServerEach(t)
  BY <1>3, <1>5 DEF Sound, OneServerEach
<1>10. OneMasterEach(t)
  <2>1. ASSUME NEW j \in 1..Len(ms), NEW k \in 1..Len(ms), ms[j].conn = ms[k].conn
        PROVE  j = k
    <3>1. At(j) = At(k)
      <4>1. OneMasterEach(s)
        BY <1>3 DEF Sound
      <4>2. At(j) \in 1..Len(s.masters) /\ At(k) \in 1..Len(s.masters)
            /\ s.masters[At(j)].conn = s.masters[At(k)].conn
        BY <1>6, <2>1
      <4>3. QED
        BY <4>1, <4>2 DEF OneMasterEach
    <3>2. QED
      BY <1>7, <3>1
  <2>2. QED
    BY <1>5, <2>1 DEF OneMasterEach
<1>11. FirstLists(t)
  <2>1. ASSUME NEW j \in 1..Len(ms), NEW k \in 1..Len(ms), j < k, ms[j].id = ms[k].id
        PROVE  ms[k].list = <<>>
    <3>1. At(j) < At(k) /\ At(j) \in 1..Len(s.masters) /\ At(k) \in 1..Len(s.masters)
      BY <1>6, <1>7, <2>1
    <3>2. s.masters[At(j)].id = s.masters[At(k)].id
      BY <1>6, <2>1
    <3>3. s.masters[At(k)].list = <<>>
      <4>1. FirstLists(s)
        BY <1>3 DEF Sound
      <4>2. QED
        BY <3>1, <3>2, <4>1 DEF FirstLists
    <3>4. QED
      BY <1>6, <3>3
  <2>2. \A k \in 1..Len(ms) : IsInjective(ms[k].list)
    BY <1>3, <1>6 DEF Sound, FirstLists
  <2>3. QED
    BY <1>5, <2>1, <2>2 DEF FirstLists
<1>12. IdsKept(t)
  <2>1. IdsKept(s) /\ Alives(t) = Alives(s)
    BY <1>3, <1>5 DEF Sound, Alives
  <2>2. ASSUME NEW k \in 1..Len(ms), NEW o \in Members(ms[k].list) \cap Alives(s)
        PROVE  ms[k].id \in Members(s.info[o].ids) /\ "default" \in s.info[o].view
    <3>1. At(k) \in 1..Len(s.masters) /\ ms[k] = s.masters[At(k)]
      BY <1>6
    <3>2. QED
      BY <2>1, <3>1 DEF IdsKept
  <2>3. QED
    BY <1>5, <2>1, <2>2 DEF IdsKept
<1>13. QED
  BY <1>3, <1>5, <1>8, <1>9, <1>10, <1>11, <1>12 DEF Sound

\* The favourite flag of one server.
WithView(r, o, v) == [r EXCEPT !.info[o].view = v]

Favoured(t, r, dang) == Sound(t, dang) /\ t.servers = r.servers /\ Len(t.info) = Len(r.info)

LEMMA FavourSound ==
  ASSUME NEW r, NEW dang, Sound(r, dang), NEW o \in 1..Len(r.info), NEW v,
         v = r.info[o].view \cup {"favourite"} \/ v = r.info[o].view \ {"favourite"}
  PROVE  Favoured(WithView(r, o, v), r, dang)
<1> DEFINE t == WithView(r, o, v)
           i == [r.info[o] EXCEPT !.view = v]
           is == [r.info EXCEPT ![o] = i]
<1>1. r \in Reg /\ r.info \in Seq(Info) /\ r.info[o] \in Info
      /\ r.info[o].view \in SUBSET {"default", "favourite"}
  BY RegTypes DEF Sound
<1>2. i \in Info /\ i.addr = r.info[o].addr /\ i.ids = r.info[o].ids
      /\ ("default" \in r.info[o].view => "default" \in i.view)
  <2>1. v \in SUBSET {"default", "favourite"} /\ ("default" \in r.info[o].view => "default" \in v)
    BY <1>1
  <2>2. QED
    BY <1>1, <2>1 DEF Info
<1>3. t = [r EXCEPT !.info = is]
  BY DEF WithView
<1> HIDE DEF i, t
<1>4. is \in Seq(Info) /\ Len(is) = Len(r.info)
      /\ \A k \in 1..Len(r.info) : is[k] = IF k = o THEN i ELSE r.info[k]
  BY <1>1, <1>2, ExceptSeq
<1> HIDE DEF is
<1>5. t \in Reg /\ t.masters = r.masters /\ t.servers = r.servers /\ t.info = is
  BY <1>1, <1>3, <1>4 DEF Reg
<1>6. SameMasters(t, r) /\ SameAddrs(t, r)
  BY <1>2, <1>4, <1>5 DEF SameMasters, SameAddrs
<1>7. OneServerEach(t) /\ OneMasterEach(t)
  BY <1>5, <1>6, SameEach
<1>8. Placed(t, dang) /\ FirstLists(t)
  BY <1>4, <1>5 DEF Sound, Placed, FirstLists, Alives
<1>9. IdsKept(t)
  <2>1. ASSUME NEW p \in 1..Len(r.masters), NEW k \in Members(r.masters[p].list) \cap Alives(r)
        PROVE  r.masters[p].id \in Members(is[k].ids) /\ "default" \in is[k].view
    <3>1. k \in 1..Len(r.info)
      BY SoundTypes
    <3>2. r.masters[p].id \in Members(r.info[k].ids) /\ "default" \in r.info[k].view
      BY DEF Sound, IdsKept
    <3>3. QED
      BY <1>2, <1>4, <3>1, <3>2
  <2>2. QED
    BY <1>5, <2>1 DEF IdsKept, Alives
<1>10. QED
  BY <1>4, <1>5, <1>7, <1>8, <1>9 DEF Sound, Favoured, t

-----------------------------------------------------------------------------
(* LoadServers: the masters of the file.                                   *)

\* Every master is there again, in its place, with the place for an id.
Renumbered(x, saved, k) ==
  /\ Len(x.masters) = k
  /\ \A p \in 1..k : x.masters[p].conn = saved.masters[p].conn /\ x.masters[p].id = p - 1

LoadMasters(saved) == Loop(LAMBDA r, m : WithMaster(r, m.conn), Empty, saved.masters)

LEMMA EmptySound ==
  ASSUME NEW dang
  PROVE  Sound(Empty, dang)
<1>1. /\ Empty.masters = <<>> /\ Empty.servers = <<>> /\ Empty.info = <<>>
      /\ Len(Empty.masters) = 0 /\ Len(Empty.servers) = 0 /\ Len(Empty.info) = 0
  BY DEF Empty
<1>2. Empty \in Reg
  <2>1. <<>> \in Seq(Entry) /\ <<>> \in Seq(Nat) /\ <<>> \in Seq(Info)
    BY EmptySeq
  <2>2. QED
    BY <2>1 DEF Empty, Reg
<1>3. Alives(Empty) = {}
  BY <1>1 DEF Alives, Members
<1> HIDE DEF Empty
<1>4. QED
  BY <1>1, <1>2, <1>3 DEF Sound, Placed, OneServerEach, OneMasterEach, FirstLists, IdsKept

LEMMA LoadMastersSound ==
  ASSUME NEW saved, NEW dang, Sound(saved, dang), NEW x, x = LoadMasters(saved)
  PROVE  /\ Sound(x, {}) /\ x.servers = <<>> /\ x.info = <<>>
         /\ Renumbered(x, saved, Len(saved.masters))
<1> DEFINE n == Len(saved.masters)
           U == {y \in Reg : Sound(y, {}) /\ y.servers = <<>> /\ y.info = <<>>}
           F == [y \in U \X (1..n) |-> WithMaster(y[1], saved.masters[y[2]].conn)]
           Is(s) == s = [k \in 0..n |->
                           IF k = 0 THEN Empty ELSE WithMaster(s[k - 1], saved.masters[k].conn)]
<1>1. n \in Nat /\ \A k \in 1..n : saved.masters[k].conn \in Conns
  BY RegTypes DEF Sound
<1> HIDE DEF n
<1>2. Empty \in U
  BY EmptySound DEF Empty, Sound
<1>3. \A y \in U, k \in 1..n : WithMaster(y, saved.masters[k].conn) \in U
  <2>1. ASSUME NEW y \in U, NEW k \in 1..n PROVE WithMaster(y, saved.masters[k].conn) \in U
    <3> DEFINE c == saved.masters[k].conn
               t == WithMaster(y, c)
    <3>1. c \in Conns /\ Sound(y, {}) /\ y.servers = <<>> /\ y.info = <<>>
      BY <1>1
    <3> HIDE DEF c, U, F, Is
    <3>2. MasterAdded(t, y, {}, c)
      BY <3>1, WithMasterSound
    <3> HIDE DEF t
    <3>3. t \in U
      BY <3>1, <3>2 DEF Sound, U, MasterAdded
    <3>4. QED
      BY <3>3 DEF t, c
  <2>2. QED
    BY <2>1
<1> HIDE DEF U
<1>4. StepsOn(F, U, n) /\ \A y \in U, k \in 1..n : F[<<y, k>>] = WithMaster(y, saved.masters[k].conn)
  BY <1>3 DEF StepsOn
<1>5. \E s : Is(s)
  <2> HIDE DEF F
  <2>1. n \in Nat
    BY <1>1
  <2>2. PICK s : Iterated(s, F, U, Empty, n)
    BY <1>2, <1>4, <2>1, Iterates
  <2>3. s \in [0..n -> U] /\ s[0] = Empty /\ \A k \in 1..n : s[k] = WithMaster(s[k - 1], saved.masters[k].conn)
    <3>1. s \in [0..n -> U] /\ s[0] = Empty /\ \A k \in 1..n : s[k] = F[<<s[k - 1], k>>]
      BY <2>2 DEF Iterated
    <3>2. \A k \in 1..n : s[k - 1] \in U
      BY <2>1, <3>1
    <3>3. QED
      BY <1>4, <3>1, <3>2
  <2>4. Is(s)
    BY <2>1, <2>3
  <2>5. QED
    BY <2>4
<1>6. PICK s : Is(s) /\ x = s[n]
  <2> DEFINE c == CHOOSE s : Is(s)
  <2>1. Is(c)
    <3> HIDE DEF Is
    <3>1. QED
      BY <1>5
  <2>2. x = c[n]
    BY DEF Loop, LoadMasters, n
  <2>3. QED
    BY <2>1, <2>2
<1>7. s[0] = Empty /\ \A k \in 1..n : s[k] = WithMaster(s[k - 1], saved.masters[k].conn)
  BY <1>1, <1>6
<1> HIDE DEF Is, F
<1> DEFINE T == {k \in 0..n : s[k] \in U /\ Renumbered(s[k], saved, k)}
<1>8. 0 \in T
  BY <1>1, <1>2, <1>7 DEF Renumbered, Empty
<1>9. ASSUME NEW k \in 1..n, k - 1 \in T PROVE k \in T
  <2> DEFINE y == s[k - 1]
             c == saved.masters[k].conn
             t == WithMaster(y, c)
  <2>1. y \in U /\ Renumbered(y, saved, k - 1) /\ s[k] = t /\ t \in U /\ c \in Conns
    BY <1>1, <1>3, <1>7, <1>9
  <2>2. Sound(y, {})
    BY <2>1 DEF U
  <2>3. \A p \in 1..(k - 1) : y.masters[p].conn # c
    <3>1. \A p \in 1..(k - 1) : p \in 1..n /\ p # k
      BY <1>1
    <3>2. \A p \in 1..(k - 1) : saved.masters[p].conn # c
      BY <3>1 DEF Sound, OneMasterEach, n
    <3>3. QED
      BY <2>1, <3>2 DEF Renumbered
  <2> HIDE DEF c, t, y
  <2>4. MasterAdded(t, y, {}, c)
    BY <2>1, <2>2, WithMasterSound DEF t
  <2>5. Len(y.masters) = k - 1
    BY <2>1 DEF Renumbered
  <2>6. t # y
    BY <2>3, <2>4, <2>5 DEF MasterAdded
  <2>7. Len(t.masters) = k /\ t.masters[k].conn = c /\ t.masters[k].id = k - 1
        /\ \A p \in 1..(k - 1) : t.masters[p] = y.masters[p]
    BY <1>1, <2>4, <2>5, <2>6 DEF MasterAdded
  <2>8. Renumbered(t, saved, k)
    <3>1. \A p \in 1..k : p = k \/ p \in 1..(k - 1)
      BY <1>1
    <3>2. QED
      BY <2>1, <2>7, <3>1 DEF Renumbered, c
  <2>9. QED
    BY <1>1, <2>1, <2>8
<1>10. n \in T
  <2> HIDE DEF T
  <2>1. 0..n \subseteq T
    BY <1>1, <1>8, <1>9, Induct
  <2>2. QED
    BY <1>1, <2>1
<1>11. QED
  BY <1>6, <1>10 DEF U, n

\* A mapping gives an id, and without an earlier game the master's new one.
LEMMA MappedIds ==
  ASSUME NEW before \in Seq(Nat), NEW r \in Reg, NEW id
  PROVE  /\ Mapped(before, r.masters, id) \subseteq Nat
         /\ MasterAt(r, id) # 0 => Mapped(<<>>, r.masters, id) = {MasterAt(r, id) - 1}
<1> DEFINE m == [k \in 1..Len(r.masters) |-> r.masters[k].id]
           At(b) == {k \in 1..Len(b \o m) : (b \o m)[k] = id}
           First(at) == CHOOSE k \in at : \A l \in at : k <= l
<1>1. m \in Seq(Nat) /\ Len(m) = Len(r.masters) /\ Len(r.masters) \in Nat
      /\ \A k \in 1..Len(r.masters) : m[k] = r.masters[k].id
  BY RegTypes
<1>2. \A b : Mapped(b, r.masters, id) =
               IF At(b) = {} THEN {}
               ELSE {IF First(At(b)) <= Len(b) THEN First(At(b)) - 1 ELSE First(At(b)) - Len(b) - 1}
  BY DEF Mapped
<1>3. ASSUME NEW b \in Seq(Nat), At(b) # {} PROVE First(At(b)) \in At(b)
  <2>1. At(b) \subseteq Nat
    <3>1. Len(b \o m) \in Nat
      BY <1>1, ConcatProperties, LenProperties
    <3>2. QED
      BY <3>1
  <2> HIDE DEF At
  <2>2. \E k \in At(b) : \A l \in At(b) : k <= l
    BY <1>3, <2>1, Least
  <2>3. QED
    BY <2>2
<1>4. Mapped(before, r.masters, id) \subseteq Nat
  <2>1. CASE At(before) = {}
    BY <1>2, <2>1
  <2>2. CASE At(before) # {}
    <3>1. First(At(before)) \in At(before)
      BY <1>3, <2>2
    <3>2. First(At(before)) \in Nat \ {0} /\ Len(before) \in Nat
      <4>1. before \o m \in Seq(Nat)
        BY <1>1, ConcatProperties
      <4>2. Len(before \o m) \in Nat /\ Len(before) \in Nat
        BY <4>1, LenProperties
      <4> DEFINE f == First(At(before))
      <4>3. f \in At(before)
        BY <3>1
      <4> HIDE DEF f
      <4>4. f \in Nat \ {0}
        BY <4>2, <4>3
      <4>5. QED
        BY <4>2, <4>4 DEF f
    <3> DEFINE f == First(At(before))
    <3>3. Mapped(before, r.masters, id) = {IF f <= Len(before) THEN f - 1 ELSE f - Len(before) - 1}
      BY <1>2, <2>2
    <3> HIDE DEF f
    <3>4. f \in Nat \ {0}
      BY <3>2 DEF f
    <3>5. QED
      BY <3>2, <3>3, <3>4
  <2>3. QED
    BY <2>1, <2>2
<1>5. ASSUME MasterAt(r, id) # 0 PROVE Mapped(<<>>, r.masters, id) = {MasterAt(r, id) - 1}
  <2> DEFINE at == {p \in 1..Len(r.masters) : r.masters[p].id = id}
  <2>1. at # {} /\ MasterAt(r, id) = First(at)
    BY <1>5 DEF MasterAt
  <2>2. At(<<>>) = at
    <3>1. <<>> \o m = m
      BY <1>1, ConcatEmptySeq
    <3>2. QED
      BY <1>1, <3>1
  <2>3. MasterAt(r, id) \in 1..Len(r.masters) /\ Len(<<>>) = 0
    BY <1>5, MasterAtFirst
  <2> HIDE DEF At, First, at
  <2>4. Mapped(<<>>, r.masters, id) =
          {IF First(at) <= Len(<<>>) THEN First(at) - 1 ELSE First(at) - Len(<<>>) - 1}
    BY <1>2, <2>1, <2>2
  <2>5. QED
    BY <2>1, <2>3, <2>4
<1>6. QED
  BY <1>4, <1>5


-----------------------------------------------------------------------------
(* LoadServers: the servers of the file, none of which is destroyed.       *)

\* At most a server at the address a was added, and no other was touched.
Kept(t, r, a) ==
  /\ Sound(t, {}) /\ Grown(t, r) /\ Len(t.info) <= Len(r.info) + 1
  /\ FindServer(r, a) # {} => Len(t.info) = Len(r.info)
  /\ Len(t.info) = Len(r.info) \/ FindServer(t, a) # {}
  /\ \A n \in Alives(t) : n \in Alives(r) \/ t.info[n].addr = a
  /\ \A n \in Alives(r) : r.info[n].addr # a =>
       t.info[n] = r.info[n] /\ Listing(t, n) = Listing(r, n)

LEMMA KeptSame ==
  ASSUME NEW r, Sound(r, {}), NEW a
  PROVE  Kept(r, r, a)
<1>1. Len(r.info) \in Nat
  BY RegTypes DEF Sound
<1>2. QED
  BY <1>1 DEF Kept, Grown, SameMasters

LEMMA FoundStays ==
  ASSUME NEW r, Sound(r, {}), NEW t, Grown(t, r), NEW a, FindServer(r, a) # {}
  PROVE  FindServer(t, a) # {}
<1>1. PICK o \in Alives(r) : r.info[o].addr = a
  BY DEF FindServer, Alives
<1>2. o \in 1..Len(r.info)
  BY DEF Sound, Placed
<1>3. o \in Alives(t) /\ t.info[o].addr = a
  BY <1>1, <1>2 DEF Grown
<1>4. QED
  BY <1>3 DEF FindServer, Alives

LEMMA KeptTransitive ==
  ASSUME NEW r, NEW s, NEW t, NEW a, Sound(r, {}), Kept(s, r, a), Kept(t, s, a)
  PROVE  Kept(t, r, a)
<1>1. r \in Reg /\ s \in Reg /\ t \in Reg /\ Sound(t, {}) /\ Sound(s, {})
  BY DEF Kept, Sound
<1>2. Grown(s, r) /\ Grown(t, s)
  BY DEF Kept
<1>3. Grown(t, r)
  BY <1>1, <1>2, GrownTransitive
<1>4. Len(r.info) \in Nat /\ Len(s.info) \in Nat /\ Len(t.info) \in Nat
  BY <1>1, RegTypes
<1>5. /\ FindServer(r, a) # {} => FindServer(s, a) # {}
      /\ FindServer(s, a) # {} => FindServer(t, a) # {}
  BY <1>1, <1>2, FoundStays
<1>6. /\ Len(t.info) <= Len(r.info) + 1
      /\ FindServer(r, a) # {} => Len(t.info) = Len(r.info)
      /\ Len(t.info) = Len(r.info) \/ FindServer(t, a) # {}
  BY <1>4, <1>5 DEF Kept
<1>7. ASSUME NEW n \in Alives(t) PROVE n \in Alives(r) \/ t.info[n].addr = a
  <2>1. CASE n \in Alives(s) /\ n \notin Alives(r)
    <3>1. s.info[n].addr = a /\ n \in 1..Len(s.info)
      BY <1>1, <2>1 DEF Kept, Sound, Placed
    <3>2. QED
      BY <1>2, <3>1 DEF Grown
  <2>2. QED
    BY <2>1 DEF Kept
<1>8. ASSUME NEW n \in Alives(r), r.info[n].addr # a
      PROVE  t.info[n] = r.info[n] /\ Listing(t, n) = Listing(r, n)
  <2>1. s.info[n] = r.info[n] /\ Listing(s, n) = Listing(r, n) /\ n \in Alives(s)
    BY <1>2, <1>8 DEF Kept, Grown
  <2>2. QED
    BY <1>8, <2>1 DEF Kept
<1>9. QED
  BY <1>1, <1>3, <1>6, <1>7, <1>8 DEF Kept

LEMMA AddsKept ==
  ASSUME NEW r, NEW t, Sound(r, {}), Sound(t, {}), NEW a \in Addrs, NEW view \in Views,
         NEW p \in 0..Len(r.masters), NEW o, Adds(t, r, a, view, p, o)
  PROVE  Kept(t, r, a) /\ o \in FindServer(t, a)
         /\ Listing(t, o) = Listing(r, o) \cup ({p} \ {0})
<1>1. /\ Grown(t, r) /\ o \in FindServer(t, a) /\ Len(t.info) <= Len(r.info) + 1
      /\ FindServer(r, a) # {} => Len(t.info) = Len(r.info)
      /\ \A q \in 1..Len(r.masters) :
           ListedAt(t, q) = IF q = p THEN ListedAt(r, q) \cup {a} ELSE ListedAt(r, q)
  BY AddsGrown
<1>2. r \in Reg /\ Len(r.info) \in Nat /\ Len(r.masters) \in Nat
  BY RegTypes DEF Sound
<1>3. Alives(t) = Alives(r) \cup {o} /\ Len(t.masters) = Len(r.masters)
  BY DEF Adds, SameMasters
<1>4. o \in Alives(t) /\ t.info[o].addr = a /\ o \in Nat
  BY <1>1, SoundTypes DEF FindServer, Alives, Sound, Placed
<1>5. ASSUME NEW n \in Alives(t) PROVE n \in Alives(r) \/ t.info[n].addr = a
  BY <1>3, <1>4
<1>6. \A q \in 1..Len(r.masters) : \A n :
        n \in Members(t.masters[q].list) <=> \/ n \in Members(r.masters[q].list)
                                             \/ n = o /\ q = p /\ ~Lists(r, p, a)
  <2>1. ASSUME NEW q \in 1..Len(r.masters)
        PROVE  Members(t.masters[q].list) = IF q = p /\ ~Lists(r, p, a)
                                            THEN Members(r.masters[q].list) \cup {o}
                                            ELSE Members(r.masters[q].list)
    <3>1. CASE q = p /\ ~Lists(r, p, a)
      <4>1. t.masters[q].list = Append(r.masters[q].list, o) /\ r.masters[q].list \in Seq(Nat)
        BY <1>2, <3>1, RegTypes DEF Adds
      <4>2. QED
        BY <1>4, <3>1, <4>1, MembersAppend
    <3>2. CASE ~(q = p /\ ~Lists(r, p, a))
      BY <3>2 DEF Adds
    <3>3. QED
      BY <3>1, <3>2
  <2>2. QED
    BY <2>1
<1>7. ASSUME NEW n \in Alives(r), r.info[n].addr # a
      PROVE  t.info[n] = r.info[n] /\ Listing(t, n) = Listing(r, n)
  <2>1. n \in 1..Len(r.info)
    BY DEF Sound, Placed
  <2>2. n # o
    BY <1>1, <1>4, <1>7, <2>1 DEF Grown
  <2>3. t.info[n] = r.info[n]
    BY <2>1, <2>2 DEF Adds
  <2>4. Listing(t, n) = Listing(r, n)
    BY <1>3, <1>6, <2>2 DEF Listing
  <2>5. QED
    BY <2>3, <2>4
<1>8. ASSUME p # 0, Lists(r, p, a) PROVE o \in Members(r.masters[p].list)
  <2>1. PICK k \in Members(r.masters[p].list) : r.info[k].addr = a
    BY <1>8 DEF Lists
  <2>2. k \in Alives(r) /\ k \in 1..Len(r.info)
    BY <1>2, <1>8 DEF Sound, Placed
  <2>3. k \in Alives(t) /\ t.info[k].addr = a
    BY <1>1, <2>1, <2>2 DEF Grown
  <2>4. k = o
    <3>1. PICK i \in 1..Len(t.servers), j \in 1..Len(t.servers) :
            t.servers[i] = k /\ t.servers[j] = o
      BY <1>4, <2>3 DEF Alives, Members
    <3>2. QED
      BY <1>4, <2>3, <3>1 DEF Sound, OneServerEach
  <2>5. QED
    BY <2>1, <2>4
<1>9. Listing(t, o) = Listing(r, o) \cup ({p} \ {0})
  <2>1. ASSUME NEW q \in 1..Len(r.masters)
        PROVE  q \in Listing(t, o) <=> q \in Listing(r, o) \/ q = p
    <3>1. q # 0
      BY <1>2
    <3>2. q \in Listing(t, o) <=> \/ q \in Listing(r, o)
                                  \/ q = p /\ ~Lists(r, p, a)
      BY <1>3, <1>6 DEF Listing
    <3>3. q = p /\ Lists(r, p, a) => q \in Listing(r, o)
      BY <1>8, <3>1 DEF Listing
    <3>4. QED
      BY <3>2, <3>3
  <2>2. Listing(t, o) \subseteq 1..Len(r.masters) /\ Listing(r, o) \subseteq 1..Len(r.masters)
    BY <1>3 DEF Listing
  <2>3. p = 0 \/ p \in 1..Len(r.masters)
    BY <1>2
  <2>4. 0 \notin 1..Len(r.masters)
    OBVIOUS
  <2>5. QED
    BY <2>1, <2>2, <2>3, <2>4
<1>10. Kept(t, r, a)
  BY <1>1, <1>5, <1>7 DEF Kept
<1>11. QED
  BY <1>1, <1>9, <1>10

\* AddServer, with any id.
LEMMA WithServerKept ==
  ASSUME NEW r, Sound(r, {}), NEW a \in Addrs, NEW view \in Views,
         NEW id \in Nat \cup {NoMaster}, NEW t, t = WithServer(r, a, view, id)
  PROVE  /\ Kept(t, r, a)
         /\ id = NoMaster \/ MasterAt(r, id) # 0 =>
              \E o : /\ Adds(t, r, a, view, Place(r, id), o)
                     /\ o \in FindServer(t, a)
                     /\ Listing(t, o) = Listing(r, o) \cup ({Place(r, id)} \ {0})
<1>1. CASE id # NoMaster /\ MasterAt(r, id) = 0
  <2>1. t = r
    BY <1>1 DEF WithServer
  <2>2. QED
    BY <1>1, <2>1, KeptSame
<1>2. CASE id = NoMaster \/ MasterAt(r, id) # 0
  <2>1. Sound(t, {}) /\ \E o : Adds(t, r, a, view, Place(r, id), o)
    BY <1>2, WithServerAdds
  <2> DEFINE p == Place(r, id)
  <2>2. PICK o : Adds(t, r, a, view, p, o)
    BY <2>1
  <2>3. p \in 0..Len(r.masters)
    <3>1. Len(r.masters) \in Nat
      BY RegTypes DEF Sound
    <3>2. QED
      BY <3>1, MasterAtFirst DEF Place, Sound
  <2> HIDE DEF p
  <2>4. Kept(t, r, a) /\ o \in FindServer(t, a)
        /\ Listing(t, o) = Listing(r, o) \cup ({p} \ {0})
    BY <2>1, <2>2, <2>3, AddsKept
  <2>5. QED
    BY <2>2, <2>4 DEF p
<1>3. QED
  BY <1>1, <1>2

LEMMA OneFound ==
  ASSUME NEW r, NEW dang, Sound(r, dang), NEW a,
         NEW m \in FindServer(r, a), NEW n \in FindServer(r, a)
  PROVE  m = n
<1>1. PICK i \in 1..Len(r.servers), j \in 1..Len(r.servers) :
        r.servers[i] = m /\ r.servers[j] = n
  BY DEF FindServer, Members
<1>2. QED
  BY <1>1 DEF FindServer, Sound, OneServerEach

\* The flags of a server that was there already, or of a new one.
LEMMA AddsView ==
  ASSUME NEW r, NEW dang, Sound(r, dang), NEW t, NEW a \in Addrs, NEW view \in Views,
         NEW p \in 0..Len(r.masters), NEW o, Adds(t, r, a, view, p, o),
         \A n \in FindServer(r, a) : r.info[n].view = view,
         p # 0 => "default" \in view
  PROVE  t.info[o].view = view
<1>1. r \in Reg /\ Len(r.info) \in Nat /\ Len(r.masters) \in Nat
  BY RegTypes DEF Sound
<1>2. Found(r, a, view, o) \in Info /\ Found(r, a, view, o).view = view
  <2>1. CASE o \in FindServer(r, a)
    <3>1. o \in 1..Len(r.info) /\ r.info[o].view = view
      BY <2>1 DEF FindServer, Sound, Placed, Alives
    <3>2. QED
      BY <1>1, <3>1, RegTypes DEF Found
  <2>2. CASE o = Len(r.info) + 1
    <3>1. o \notin 1..Len(r.info) /\ <<>> \in Seq(Nat)
      BY <1>1, <2>2, EmptySeq
    <3>2. QED
      BY <3>1 DEF Found, Info, Views
  <2>3. QED
    BY <2>1, <2>2 DEF Adds
<1>3. CASE p = 0
  BY <1>2, <1>3 DEF Adds
<1>4. CASE p # 0
  <2>1. r.masters[p].id \in Nat /\ "default" \in view
    BY <1>1, <1>4, RegTypes
  <2> DEFINE f == Found(r, a, view, o)
             m == r.masters[p].id
  <2>2. t.info[o] = AddMasterId(f, m) /\ m \in Nat /\ f \in Info /\ f.view = view
    BY <1>2, <1>4, <2>1 DEF Adds
  <2> HIDE DEF f, m
  <2>3. AddMasterId(f, m).view = f.view \cup {"default"}
    BY <2>2, AddMasterIdEffect
  <2>4. t.info[o].view = view \cup {"default"}
    BY <2>2, <2>3
  <2>5. QED
    BY <2>1, <2>3, <2>4
<1>5. QED
  BY <1>3, <1>4

\* The first master with an id, when the masters have their places for ids.
LEMMA RenumberedAt ==
  ASSUME NEW x \in Reg, NEW saved, Renumbered(x, saved, Len(x.masters)),
         NEW p \in 1..Len(x.masters)
  PROVE  MasterAt(x, p - 1) = p
<1>1. Len(x.masters) \in Nat /\ \A k \in 1..Len(x.masters) : x.masters[k].id = k - 1
  BY RegTypes DEF Renumbered
<1> DEFINE m == MasterAt(x, p - 1)
<1>2. /\ m \in 0..Len(x.masters) /\ m \in 1..p
      /\ m # 0 => x.masters[m].id = p - 1
  BY <1>1, MasterAtFirst
<1> HIDE DEF m
<1>3. m \in 1..Len(x.masters)
  BY <1>1, <1>2
<1>4. m = p
  BY <1>1, <1>2, <1>3
<1>5. QED
  BY <1>4 DEF m

\* The place of the master that an id of the file stands for.
Home(saved, id) == IF id = NoMaster THEN 0 ELSE MasterAt(saved, id)

Loading(y, r, a) == y \in [id : Nat \cup {NoMaster}, reg : Reg] /\ Kept(y.reg, r, a)

\* One id more; the server is added for no master, or for the one it stands for.
IdLoaded(t, y, r, i, new, id) ==
  /\ Loading(t, r, i.addr)
  /\ id = NoMaster => t.reg = WithServer(y.reg, i.addr, i.view, NoMaster)
  /\ \A n : id # NoMaster /\ new = {n} => t.reg = WithServer(y.reg, i.addr, i.view, n)

LEMMA LoadIdKept ==
  ASSUME NEW r, Sound(r, {}), NEW i \in Info, NEW y, Loading(y, r, i.addr),
         NEW new, new \subseteq Nat, NEW id \in Nat \cup {NoMaster}
  PROVE  IdLoaded(LoadId(new, i, y, id), y, r, i, new, id)
<1> DEFINE t  == LoadId(new, i, y, id)
           to == IF id = NoMaster THEN NoMaster ELSE IF new = {} THEN y.id ELSE CHOOSE n \in new : TRUE
           x == WithServer(y.reg, i.addr, i.view, to)
<1>1. to \in Nat \cup {NoMaster}
  BY DEF Loading
<1>2. t = [id |-> to, reg |-> x]
  BY DEF LoadId
<1>3. /\ id = NoMaster => to = NoMaster
      /\ \A n : id # NoMaster /\ new = {n} => to = n
  OBVIOUS
<1> HIDE DEF to
<1>4. i.addr \in Addrs /\ i.view \in Views /\ Sound(y.reg, {})
  BY DEF Info, Views, Loading, Kept
<1>5. Kept(x, y.reg, i.addr)
  BY <1>1, <1>4, WithServerKept
<1>6. t.id = to /\ t.reg = x
  BY <1>2
<1>7. x \in Reg /\ Kept(x, r, i.addr)
  <2> DEFINE w == y.reg
             a == i.addr
  <2>1. Kept(x, w, a) /\ Kept(w, r, a)
    BY <1>5 DEF Loading
  <2> HIDE DEF x, w, a
  <2>2. Kept(x, r, a)
    BY <2>1, KeptTransitive
  <2>3. x \in Reg
    BY <2>2 DEF Kept, Sound
  <2>4. QED
    BY <2>2, <2>3 DEF a
<1>8. Loading(t, r, i.addr)
  <2> HIDE DEF x
  <2>1. QED
    BY <1>1, <1>2, <1>6, <1>7 DEF Loading
<1>9. QED
  BY <1>3, <1>6, <1>8 DEF IdLoaded

\* The ids of i stand for masters of the file, and for their new ids.
Settled(saved, before, i) ==
  /\ \A id \in Members(i.ids) :
       /\ MasterAt(saved, id) # 0
       /\ Mapped(before, saved.masters, id) = {MasterAt(saved, id) - 1}
  /\ Members(i.ids) # {} => "default" \in i.view

Restored(x, saved, i, places) ==
  \E n \in FindServer(x, i.addr) : x.info[n].view = i.view /\ Listing(x, n) = places

\* One id more, for the server that is new or was loaded with the ids before it.
LEMMA RestoreId ==
  ASSUME NEW r, Sound(r, {}), NEW i \in Info, NEW saved,
         NEW to \in Nat \cup {NoMaster}, to = NoMaster \/ MasterAt(r, to) # 0,
         to # NoMaster => "default" \in i.view,
         NEW places, (FindServer(r, i.addr) = {} /\ places = {}) \/ Restored(r, saved, i, places),
         NEW t, t = WithServer(r, i.addr, i.view, to)
  PROVE  Restored(t, saved, i, places \cup ({Place(r, to)} \ {0}))
<1> DEFINE p == Place(r, to)
<1>1. i.addr \in Addrs /\ i.view \in Views
  BY DEF Info, Views
<1>2. \E o : /\ Adds(t, r, i.addr, i.view, Place(r, to), o)
             /\ o \in FindServer(t, i.addr)
             /\ Listing(t, o) = Listing(r, o) \cup ({Place(r, to)} \ {0})
  <2> DEFINE a == i.addr
             v == i.view
  <2>1. a \in Addrs /\ v \in Views /\ t = WithServer(r, a, v, to)
    BY <1>1
  <2> HIDE DEF a, v, p
  <2>2. \E o : /\ Adds(t, r, a, v, Place(r, to), o)
               /\ o \in FindServer(t, a)
               /\ Listing(t, o) = Listing(r, o) \cup ({Place(r, to)} \ {0})
    BY <2>1, WithServerKept
  <2>3. QED
    BY <2>2 DEF a, v
<1>3. PICK o : /\ Adds(t, r, i.addr, i.view, p, o)
               /\ o \in FindServer(t, i.addr)
               /\ Listing(t, o) = Listing(r, o) \cup ({p} \ {0})
  BY <1>2
<1>4. p \in 0..Len(r.masters) /\ (p # 0 => "default" \in i.view)
  <2>1. Len(r.masters) \in Nat
    BY RegTypes DEF Sound
  <2>2. QED
    BY <2>1, MasterAtFirst DEF Place, Sound
<1> HIDE DEF p
<1>5. (\A n \in FindServer(r, i.addr) : r.info[n].view = i.view) /\ Listing(r, o) = places
  <2>1. CASE FindServer(r, i.addr) = {} /\ places = {}
    <3>1. o = Len(r.info) + 1 /\ Len(r.info) \in Nat
      BY <1>3, <2>1, RegTypes DEF Adds, Sound
    <3>2. o \notin 1..Len(r.info)
      BY <3>1
    <3>3. Listing(r, o) = {}
      BY <3>2 DEF Listing, Sound, Placed
    <3>4. QED
      BY <2>1, <3>3
  <2>2. CASE Restored(r, saved, i, places)
    <3>1. PICK n \in FindServer(r, i.addr) : r.info[n].view = i.view /\ Listing(r, n) = places
      BY <2>2 DEF Restored
    <3>2. o \in FindServer(r, i.addr)
      BY <1>3, <3>1 DEF Adds
    <3>3. QED
      BY <3>1, <3>2, OneFound
  <2>3. QED
    BY <2>1, <2>2
<1>6. t.info[o].view = i.view
  BY <1>1, <1>3, <1>4, <1>5, AddsView
<1>7. QED
  BY <1>3, <1>5, <1>6 DEF Restored, p


\* A server of the file: all of its ids stand for their masters' new ones.
LEMMA LoadServerKept ==
  ASSUME NEW saved \in Reg, NEW before \in Seq(Nat), NEW i \in Info, NEW r, Sound(r, {}),
         NEW t, t = LoadServer(saved, before, i, r)
  PROVE  /\ Kept(t, r, i.addr)
         /\ /\ Settled(saved, before, i) /\ Renumbered(r, saved, Len(saved.masters))
            /\ FindServer(r, i.addr) = {}
            => Restored(t, saved, i, {MasterAt(saved, id) : id \in Members(i.ids)})
<1> DEFINE q == IF i.ids = <<>> THEN <<NoMaster>> ELSE i.ids
           n == Len(q)
           first == [id |-> Len(i.ids) + 1, reg |-> r]
           U == {y \in [id : Nat \cup {NoMaster}, reg : Reg] : Loading(y, r, i.addr)}
           F == [y \in U \X (1..n) |->
                   LoadId(Mapped(before, saved.masters, q[y[2]]), i, y[1], q[y[2]])]
           Is(s) == s = [k \in 0..n |->
                           IF k = 0 THEN first
                           ELSE LoadId(Mapped(before, saved.masters, q[k]), i, s[k - 1], q[k])]
           Places(k) == {Home(saved, q[j]) : j \in 1..k} \ {0}
<1>1. i.ids \in Seq(Nat) /\ Len(i.ids) \in Nat
  BY LenProperties DEF Info
<1>2. n \in Nat \ {0} /\ \A k \in 1..n : q[k] \in Nat \cup {NoMaster}
  <2>1. CASE i.ids = <<>>
    BY <2>1
  <2>2. CASE i.ids # <<>>
    <3>1. Len(i.ids) # 0
      BY <1>1, <2>2, EmptySeq
    <3>2. \A k \in 1..Len(i.ids) : i.ids[k] \in Nat
      BY <1>1, ElementOfSeq
    <3>3. QED
      BY <1>1, <2>2, <3>1, <3>2
  <2>3. QED
    BY <2>1, <2>2
<1>3. \A k \in 1..n : q[k] = NoMaster \/ q[k] \in Members(i.ids)
  BY DEF Members
<1>4. \/ i.ids # <<>> /\ q = i.ids /\ Members(i.ids) = {q[j] : j \in 1..n}
      \/ i.ids = <<>> /\ n = 1 /\ q[1] = NoMaster /\ Members(i.ids) = {}
  BY DEF Members
<1> HIDE DEF q, n
<1>5. first \in U
  <2>1. Kept(r, r, i.addr)
    BY KeptSame
  <2>2. QED
    BY <1>1, <2>1 DEF Loading, Sound
<1>6. ASSUME NEW y \in U, NEW k \in 1..n, NEW u,
             u = LoadId(Mapped(before, saved.masters, q[k]), i, y, q[k])
      PROVE  /\ u \in U
             /\ q[k] = NoMaster => u.reg = WithServer(y.reg, i.addr, i.view, NoMaster)
             /\ \A m : q[k] # NoMaster /\ Mapped(before, saved.masters, q[k]) = {m} =>
                         u.reg = WithServer(y.reg, i.addr, i.view, m)
  <2> DEFINE id == q[k]
             new == Mapped(before, saved.masters, id)
  <2>1. new \subseteq Nat
    BY MappedIds
  <2>2. u = LoadId(new, i, y, id) /\ id \in Nat \cup {NoMaster} /\ Loading(y, r, i.addr)
    BY <1>2, <1>6
  <2> HIDE DEF id, new, U, F, Is, first, Places
  <2>3. IdLoaded(u, y, r, i, new, id)
    BY <2>1, <2>2, LoadIdKept
  <2>4. u \in U
    BY <2>3 DEF U, Loading, IdLoaded
  <2>5. QED
    BY <2>3, <2>4 DEF id, new, IdLoaded
<1> HIDE DEF U, first
<1>7. \A y \in U, k \in 1..n : LoadId(Mapped(before, saved.masters, q[k]), i, y, q[k]) \in U
  BY <1>6
<1>8. StepsOn(F, U, n) /\ \A x \in U, k \in 1..n : F[<<x, k>>] = LoadId(Mapped(before, saved.masters, q[k]), i, x, q[k])
  BY <1>7 DEF StepsOn
<1>9. \E s : Is(s)
  <2> HIDE DEF F
  <2>1. n \in Nat
    BY <1>2
  <2>2. PICK s : Iterated(s, F, U, first, n)
    BY <1>5, <1>8, <2>1, Iterates
  <2>3. s \in [0..n -> U] /\ s[0] = first /\ \A k \in 1..n : s[k] = LoadId(Mapped(before, saved.masters, q[k]), i, s[k - 1], q[k])
    <3>1. s \in [0..n -> U] /\ s[0] = first /\ \A k \in 1..n : s[k] = F[<<s[k - 1], k>>]
      BY <2>2 DEF Iterated
    <3>2. \A k \in 1..n : s[k - 1] \in U
      BY <2>1, <3>1
    <3>3. QED
      BY <1>8, <3>1, <3>2
  <2>4. Is(s)
    BY <2>1, <2>3
  <2>5. QED
    BY <2>4
<1>10. PICK s : Is(s) /\ t = s[n].reg
  <2> DEFINE c == CHOOSE s : Is(s)
  <2>1. Is(c)
    <3> HIDE DEF Is
    <3>1. QED
      BY <1>9
  <2>2. t = c[n].reg
    BY DEF Loop, LoadServer, q, n, first
  <2>3. QED
    BY <2>1, <2>2
<1>11. s[0] = first /\ \A k \in 1..n : s[k] = LoadId(Mapped(before, saved.masters, q[k]), i, s[k - 1], q[k])
  BY <1>2, <1>10
<1> HIDE DEF Is, F
<1>12. first.reg = r
  BY DEF first
<1> DEFINE Good == /\ Settled(saved, before, i) /\ Renumbered(r, saved, Len(saved.masters))
                   /\ FindServer(r, i.addr) = {}
           Half(x, k) == IF k = 0 THEN x = r ELSE Restored(x, saved, i, Places(k))
           T == {k \in 0..n : s[k] \in U /\ (Good => Half(s[k].reg, k))}
<1>13. 0 \in T
  BY <1>2, <1>5, <1>11, <1>12
<1>14. ASSUME NEW k \in 1..n, k - 1 \in T PROVE k \in T
  <2> DEFINE y == s[k - 1]
             x == y.reg
             u == s[k]
  <2>1. y \in U /\ u = LoadId(Mapped(before, saved.masters, q[k]), i, y, q[k])
    BY <1>11, <1>14
  <2> HIDE DEF y, u
  <2>2. /\ u \in U
        /\ q[k] = NoMaster => u.reg = WithServer(x, i.addr, i.view, NoMaster)
        /\ \A m : q[k] # NoMaster /\ Mapped(before, saved.masters, q[k]) = {m} =>
                    u.reg = WithServer(x, i.addr, i.view, m)
    BY <1>6, <2>1
  <2>3. Kept(x, r, i.addr)
    BY <2>1 DEF U, Loading
  <2>4. Good => Half(x, k - 1)
    BY <1>14 DEF y
  <2> HIDE DEF x, Half
  <2>5. ASSUME Good PROVE Half(u.reg, k)
    <3>1. Sound(x, {}) /\ x \in Reg /\ SameMasters(x, r)
      BY <2>3 DEF Kept, Grown, Sound
    <3>2. Renumbered(x, saved, Len(x.masters)) /\ Len(x.masters) = Len(saved.masters)
      BY <2>5, <3>1 DEF Renumbered, SameMasters
    <3>3. PICK to \in Nat \cup {NoMaster} :
            /\ u.reg = WithServer(x, i.addr, i.view, to)
            /\ to = NoMaster \/ MasterAt(x, to) # 0
            /\ Place(x, to) = Home(saved, q[k])
            /\ to # NoMaster => Members(i.ids) # {}
      <4>1. CASE q[k] = NoMaster
        <5>1. u.reg = WithServer(x, i.addr, i.view, NoMaster)
          BY <2>2, <4>1
        <5>2. Place(x, NoMaster) = Home(saved, q[k])
          BY <4>1 DEF Place, Home
        <5>3. QED
          BY <5>1, <5>2
      <4>2. CASE q[k] # NoMaster
        <5> DEFINE m == MasterAt(saved, q[k])
        <5>1. q[k] \in Members(i.ids)
          BY <1>3, <4>2
        <5>2. m # 0 /\ Mapped(before, saved.masters, q[k]) = {m - 1}
          BY <2>5, <5>1 DEF Settled
        <5>3. m \in 1..Len(x.masters)
          <6>1. Len(saved.masters) \in Nat
            BY RegTypes
          <6>2. QED
            BY <3>2, <5>2, <6>1, MasterAtFirst
        <5>4. Home(saved, q[k]) = m
          BY <4>2 DEF Home
        <5> HIDE DEF m
        <5>5. u.reg = WithServer(x, i.addr, i.view, m - 1)
          BY <2>2, <4>2, <5>2
        <5>6. MasterAt(x, m - 1) = m
          BY <3>1, <3>2, <5>3, RenumberedAt
        <5>7. m - 1 \in Nat /\ m - 1 # NoMaster
          <6>1. Len(x.masters) \in Nat
            BY <3>1, RegTypes
          <6>2. QED
            BY <5>3, <6>1 DEF NoMaster
        <5>8. Place(x, m - 1) = m
          BY <5>6, <5>7 DEF Place
        <5>9. QED
          BY <5>1, <5>2, <5>4, <5>5, <5>6, <5>7, <5>8
      <4>3. QED
        BY <4>1, <4>2
    <3> DEFINE places == Places(k - 1)
    <3>4. (FindServer(x, i.addr) = {} /\ places = {}) \/ Restored(x, saved, i, places)
      <4>1. CASE k = 1
        <5>1. x = r
          BY <2>4, <2>5, <4>1 DEF Half
        <5>2. 1..(k - 1) = {}
          BY <4>1
        <5>3. places = {}
          BY <5>2
        <5>4. QED
          BY <2>5, <5>1, <5>3
      <4>2. CASE k # 1
        <5>1. k - 1 # 0
          BY <1>2, <4>2
        <5>2. QED
          BY <2>4, <2>5, <5>1 DEF Half
      <4>3. QED
        BY <4>1, <4>2
    <3>5. Places(k) = places \cup ({Place(x, to)} \ {0})
      <4>1. 1..k = (1..(k - 1)) \cup {k}
        BY <1>2
      <4>2. QED
        BY <3>3, <4>1
    <3> HIDE DEF places, Places
    <3>6. to # NoMaster => "default" \in i.view
      BY <2>5, <3>3 DEF Settled
    <3>7. Restored(u.reg, saved, i, places \cup ({Place(x, to)} \ {0}))
      BY <3>1, <3>3, <3>4, <3>6, RestoreId
    <3>8. k # 0
      BY <1>2
    <3>9. QED
      BY <3>5, <3>7, <3>8 DEF Half
  <2>6. s[k] \in U /\ (Good => Half(s[k].reg, k))
    BY <2>2, <2>5 DEF u
  <2> HIDE DEF Good
  <2>7. QED
    BY <1>2, <2>6
<1>15. n \in T
  <2> HIDE DEF T
  <2>1. 0..n \subseteq T
    BY <1>2, <1>13, <1>14, Induct
  <2>2. QED
    BY <1>2, <2>1
<1>16. Kept(t, r, i.addr)
  BY <1>10, <1>15 DEF U, Loading
<1>17. ASSUME Good PROVE Restored(t, saved, i, {MasterAt(saved, id) : id \in Members(i.ids)})
  <2>1. Restored(t, saved, i, Places(n))
    BY <1>2, <1>10, <1>15, <1>17
  <2>2. Places(n) = {MasterAt(saved, id) : id \in Members(i.ids)}
    <3>1. CASE i.ids = <<>> /\ n = 1 /\ q[1] = NoMaster /\ Members(i.ids) = {}
      <4>1. Places(n) = {}
        BY <3>1 DEF Home
      <4>2. QED
        BY <3>1, <4>1
    <3>2. CASE i.ids # <<>> /\ q = i.ids /\ Members(i.ids) = {q[j] : j \in 1..n}
      <4>1. \A j \in 1..n : q[j] \in Nat /\ MasterAt(saved, q[j]) # 0
        <5>1. \A j \in 1..n : q[j] \in Members(i.ids)
          BY <3>2
        <5>2. QED
          BY <1>1, <1>17, <5>1, MembersIn DEF Settled
      <4>2. \A j \in 1..n : Home(saved, q[j]) = MasterAt(saved, q[j]) /\ MasterAt(saved, q[j]) # 0
        BY <4>1 DEF Home, NoMaster
      <4>3. QED
        BY <3>2, <4>2
    <3>3. QED
      BY <1>4, <3>1, <3>2
  <2>3. QED
    BY <2>1, <2>2
<1>18. QED
  BY <1>16, <1>17


LEMMA RestoredStays ==
  ASSUME NEW r, Sound(r, {}), NEW t, NEW a, Kept(t, r, a), NEW saved, NEW i, i.addr # a,
         NEW places, Restored(r, saved, i, places)
  PROVE  Restored(t, saved, i, places)
<1>1. PICK n \in FindServer(r, i.addr) : r.info[n].view = i.view /\ Listing(r, n) = places
  BY DEF Restored
<1>2. n \in Alives(r) /\ r.info[n].addr = i.addr
  BY DEF FindServer, Alives
<1>3. t.info[n] = r.info[n] /\ Listing(t, n) = Listing(r, n) /\ n \in Alives(t)
  BY <1>2 DEF Kept, Grown
<1>4. n \in FindServer(t, i.addr)
  BY <1>2, <1>3 DEF FindServer, Alives
<1>5. QED
  BY <1>1, <1>3, <1>4 DEF Restored

Homes(saved, i) == {MasterAt(saved, id) : id \in Members(i.ids)}

LoadAll(saved, before) ==
  Loop(LAMBDA r, o : LoadServer(saved, before, saved.info[o], r),
       LoadMasters(saved), saved.servers)

LEMMA LoadAllSound ==
  ASSUME NEW saved, NEW dang, Sound(saved, dang), NEW before \in Seq(Nat),
         NEW x, x = LoadAll(saved, before)
  PROVE  /\ Sound(x, {}) /\ Len(x.info) <= Len(saved.servers)
         /\ Renumbered(x, saved, Len(saved.masters))
         /\ \A o \in Alives(saved) :
              Settled(saved, before, saved.info[o]) =>
                Restored(x, saved, saved.info[o], Homes(saved, saved.info[o]))
<1> DEFINE n == Len(saved.servers)
           i(k) == saved.info[saved.servers[k]]
           m == LoadMasters(saved)
           U == {y \in Reg : Sound(y, {}) /\ SameMasters(y, m)}
           F == [y \in U \X (1..n) |-> LoadServer(saved, before, i(y[2]), y[1])]
           Is(s) == s = [k \in 0..n |-> IF k = 0 THEN m ELSE LoadServer(saved, before, i(k), s[k - 1])]
<1>1. n \in Nat /\ saved \in Reg /\ \A k \in 1..n : i(k) \in Info
  BY SoundTypes, RegTypes DEF Sound
<1>2. /\ Sound(m, {}) /\ m.servers = <<>> /\ m.info = <<>>
      /\ Renumbered(m, saved, Len(saved.masters))
  BY LoadMastersSound
<1>3. \A j, k \in 1..n : i(j).addr = i(k).addr => j = k
  BY DEF Sound, OneServerEach
<1> HIDE DEF n, m
<1>4. m \in U
  BY <1>2 DEF SameMasters, Sound
<1>5. ASSUME NEW y \in U, NEW k \in 1..n
      PROVE  LET t == LoadServer(saved, before, i(k), y) IN
             /\ t \in U /\ Kept(t, y, i(k).addr)
             /\ Settled(saved, before, i(k)) /\ FindServer(y, i(k).addr) = {} =>
                  Restored(t, saved, i(k), Homes(saved, i(k)))
  <2> DEFINE e == i(k)
             t == LoadServer(saved, before, e, y)
  <2>1. e \in Info /\ Sound(y, {}) /\ SameMasters(y, m)
    BY <1>1
  <2>2. Renumbered(y, saved, Len(saved.masters))
    BY <1>2, <2>1 DEF Renumbered, SameMasters
  <2> HIDE DEF e, U, F, Is
  <2>3. /\ Kept(t, y, e.addr)
        /\ /\ Settled(saved, before, e) /\ Renumbered(y, saved, Len(saved.masters))
           /\ FindServer(y, e.addr) = {}
           => Restored(t, saved, e, {MasterAt(saved, id) : id \in Members(e.ids)})
    BY <1>1, <2>1, LoadServerKept
  <2> HIDE DEF t
  <2>4. Sound(t, {}) /\ SameMasters(t, m) /\ t \in Reg
    <3>1. Sound(t, {}) /\ SameMasters(t, y)
      BY <2>3 DEF Kept, Grown
    <3>2. QED
      BY <2>1, <3>1, SameMastersTransitive DEF Sound
  <2>5. t \in U
    BY <2>4 DEF U
  <2>6. QED
    BY <2>2, <2>3, <2>5 DEF t, e, Homes
<1> HIDE DEF U
<1>6. \A y \in U, k \in 1..n : LoadServer(saved, before, i(k), y) \in U
  BY <1>5
<1>7. StepsOn(F, U, n) /\ \A y \in U, k \in 1..n : F[<<y, k>>] = LoadServer(saved, before, i(k), y)
  BY <1>6 DEF StepsOn
<1>8. \E s : Is(s)
  <2> HIDE DEF F
  <2>1. n \in Nat
    BY <1>1
  <2>2. PICK s : Iterated(s, F, U, m, n)
    BY <1>4, <1>7, <2>1, Iterates
  <2>3. s \in [0..n -> U] /\ s[0] = m /\ \A k \in 1..n : s[k] = LoadServer(saved, before, i(k), s[k - 1])
    <3>1. s \in [0..n -> U] /\ s[0] = m /\ \A k \in 1..n : s[k] = F[<<s[k - 1], k>>]
      BY <2>2 DEF Iterated
    <3>2. \A k \in 1..n : s[k - 1] \in U
      BY <2>1, <3>1
    <3>3. QED
      BY <1>7, <3>1, <3>2
  <2>4. Is(s)
    BY <2>1, <2>3
  <2>5. QED
    BY <2>4
<1>9. PICK s : Is(s) /\ x = s[n]
  <2> DEFINE c == CHOOSE s : Is(s)
  <2>1. Is(c)
    <3> HIDE DEF Is
    <3>1. QED
      BY <1>8
  <2>2. x = c[n]
    BY DEF Loop, LoadAll, n, m
  <2>3. QED
    BY <2>1, <2>2
<1>10. s[0] = m /\ \A k \in 1..n : s[k] = LoadServer(saved, before, i(k), s[k - 1])
  BY <1>1, <1>9
<1> HIDE DEF Is, F, i
<1> DEFINE Known(y, k) == \A h \in Alives(y) : \E j \in 1..k : y.info[h].addr = i(j).addr
           Back(y, k) == \A j \in 1..k : Settled(saved, before, i(j)) =>
                                           Restored(y, saved, i(j), Homes(saved, i(j)))
           T == {k \in 0..n : /\ s[k] \in U /\ Len(s[k].info) <= k
                              /\ Known(s[k], k) /\ Back(s[k], k)}
<1>11. 0 \in T
  <2>1. Len(m.info) <= 0 /\ Alives(m) = {}
    BY <1>2 DEF Alives, Members
  <2>2. Known(m, 0) /\ Back(m, 0)
    BY <2>1
  <2> HIDE DEF Known, Back
  <2>3. QED
    BY <1>1, <1>4, <1>10, <2>1, <2>2
<1>12. ASSUME NEW k \in 1..n, k - 1 \in T PROVE k \in T
  <2> DEFINE y == s[k - 1]
             t == s[k]
             a == i(k).addr
  <2>1. /\ y \in U /\ Len(y.info) <= k - 1 /\ Known(y, k - 1) /\ Back(y, k - 1)
        /\ t = LoadServer(saved, before, i(k), y)
    BY <1>10, <1>12
  <2>2. /\ t \in U /\ Kept(t, y, a)
        /\ Settled(saved, before, i(k)) /\ FindServer(y, a) = {} =>
             Restored(t, saved, i(k), Homes(saved, i(k)))
    BY <1>5, <2>1
  <2> HIDE DEF y, t, a
  <2>3. Sound(y, {}) /\ Sound(t, {}) /\ y \in Reg /\ t \in Reg /\ Len(y.info) \in Nat /\ Len(t.info) \in Nat
    BY <2>1, <2>2, RegTypes DEF U, Sound
  <2>4. \A j \in 1..(k - 1) : j \in 1..n /\ j \in 1..k /\ i(j).addr # a
    BY <1>1, <1>3 DEF a
  <2>5. FindServer(y, a) = {}
    BY <2>1, <2>4 DEF FindServer, Alives
  <2>6. Len(t.info) <= k
    BY <1>1, <2>1, <2>2, <2>3 DEF Kept
  <2>7. Known(t, k)
    <3>1. ASSUME NEW h \in Alives(t) PROVE \E j \in 1..k : t.info[h].addr = i(j).addr
      <4>1. CASE h \in Alives(y)
        <5>1. h \in 1..Len(y.info)
          BY <2>3, <4>1 DEF Sound, Placed
        <5>2. t.info[h].addr = y.info[h].addr
          BY <2>2, <5>1 DEF Kept, Grown
        <5>3. PICK j \in 1..(k - 1) : y.info[h].addr = i(j).addr
          BY <2>1, <4>1
        <5>4. QED
          BY <2>4, <5>2, <5>3
      <4>2. CASE h \notin Alives(y)
        <5>1. t.info[h].addr = a /\ k \in 1..k
          BY <1>1, <2>2, <4>2 DEF Kept
        <5>2. QED
          BY <5>1 DEF a
      <4>3. QED
        BY <4>1, <4>2
    <3>2. QED
      BY <3>1
  <2>8. Back(t, k)
    <3>1. ASSUME NEW j \in 1..k, Settled(saved, before, i(j))
          PROVE  Restored(t, saved, i(j), Homes(saved, i(j)))
      <4>1. CASE j = k
        BY <2>2, <2>5, <3>1, <4>1
      <4>2. CASE j # k
        <5>1. j \in 1..(k - 1)
          BY <1>1, <4>2
        <5> DEFINE e == i(j)
                   places == Homes(saved, e)
        <5>2. Restored(y, saved, e, places) /\ e.addr # a
          BY <2>1, <2>4, <3>1, <5>1
        <5> HIDE DEF e, places
        <5>3. Restored(t, saved, e, places)
          BY <2>2, <2>3, <5>2, RestoredStays
        <5>4. QED
          BY <5>3 DEF e, places
      <4>3. QED
        BY <4>1, <4>2
    <3>2. QED
      BY <3>1
  <2> HIDE DEF Known, Back
  <2>9. QED
    BY <1>1, <2>2, <2>6, <2>7, <2>8 DEF t
<1>13. n \in T
  <2> HIDE DEF T
  <2>1. 0..n \subseteq T
    BY <1>1, <1>11, <1>12, Induct
  <2>2. QED
    BY <1>1, <2>1
<1>14. x \in U /\ Len(x.info) <= n /\ Back(x, n)
  BY <1>9, <1>13
<1>15. Sound(x, {}) /\ Renumbered(x, saved, Len(saved.masters))
  BY <1>2, <1>14 DEF U, Renumbered, SameMasters
<1>16. ASSUME NEW o \in Alives(saved), Settled(saved, before, saved.info[o])
       PROVE  Restored(x, saved, saved.info[o], Homes(saved, saved.info[o]))
  <2>1. PICK j \in 1..n : saved.servers[j] = o
    BY DEF Alives, Members, n
  <2>2. i(j) = saved.info[o]
    BY <2>1 DEF i
  <2>3. QED
    BY <1>14, <1>16, <2>2
<1>17. QED
  BY <1>14, <1>15, <1>16 DEF n


\* What the next start has, with the default master.
LEMMA ReloadSound ==
  ASSUME NEW saved, NEW dang, Sound(saved, dang), NEW before \in Seq(Nat),
         NEW x, x = Reload(saved, before)
  PROVE  /\ Sound(x, {}) /\ Len(x.info) <= Len(saved.servers)
         /\ \A p \in 1..Len(saved.masters) : x.masters[p].conn = saved.masters[p].conn
         /\ \A o \in Alives(saved) :
              Settled(saved, before, saved.info[o]) =>
                Restored(x, saved, saved.info[o], Homes(saved, saved.info[o]))
<1> DEFINE y == LoadAll(saved, before)
<1>1. /\ Sound(y, {}) /\ Len(y.info) <= Len(saved.servers)
      /\ Renumbered(y, saved, Len(saved.masters))
      /\ \A o \in Alives(saved) :
           Settled(saved, before, saved.info[o]) =>
             Restored(y, saved, saved.info[o], Homes(saved, saved.info[o]))
  BY LoadAllSound
<1>2. x = WithMaster(y, DefaultConn)
  BY DEF Reload, LoadAll, LoadMasters
<1> HIDE DEF y
<1>3. DefaultConn \in Conns
  BY RegistryAssumption
<1>4. MasterAdded(x, y, {}, DefaultConn)
  BY <1>1, <1>2, <1>3, WithMasterSound
<1>5. \A p \in 1..Len(saved.masters) : x.masters[p].conn = saved.masters[p].conn
  BY <1>1, <1>4 DEF Renumbered, MasterAdded
<1>6. \A n : Listing(x, n) = Listing(y, n)
  <2>1. CASE x = y
    BY <2>1
  <2>2. CASE x # y
    <3>1. Len(y.masters) \in Nat
      BY <1>1, RegTypes DEF Sound
    <3> DEFINE l == Len(y.masters) + 1
    <3>2. Len(x.masters) = l /\ x.masters[l].list = <<>> /\ \A p \in 1..Len(y.masters) : x.masters[p] = y.masters[p]
      BY <1>4, <2>2 DEF MasterAdded
    <3>3. Members(x.masters[l].list) = {}
      BY <3>2 DEF Members
    <3>4. 1..l = (1..Len(y.masters)) \cup {l}
      BY <3>1
    <3> HIDE DEF l
    <3>5. QED
      BY <3>2, <3>3, <3>4 DEF Listing
  <2>3. QED
    BY <2>1, <2>2
<1>7. ASSUME NEW i, NEW places, Restored(y, saved, i, places)
      PROVE  Restored(x, saved, i, places)
  BY <1>4, <1>6, <1>7 DEF Restored, FindServer, MasterAdded
<1>8. QED
  BY <1>1, <1>4, <1>5, <1>7 DEF MasterAdded

-----------------------------------------------------------------------------
(* RegistryInv holds in every state.                                       *)

LEMMA OnceIfFew ==
  ASSUME NEW r \in Reg, NEW o, ~(Cardinality(Listing(r, o)) > 1)
  PROVE  OnceListed(r, o)
<1>1. SUFFICES ASSUME NEW p \in Listing(r, o), NEW q \in Listing(r, o), p # q
               PROVE  FALSE
  BY DEF OnceListed
<1>2. Len(r.masters) \in Nat
  BY RegTypes
<1>3. IsFiniteSet(1..Len(r.masters))
  BY <1>2, FS_Interval
<1>4. IsFiniteSet(Listing(r, o))
  BY <1>3, FS_Subset DEF Listing
<1>5. IsFiniteSet({p}) /\ Cardinality({p}) = 1
  BY FS_Singleton
<1>6. IsFiniteSet({p} \cup {q}) /\ Cardinality({p} \cup {q}) = 2
  BY <1>1, <1>5, FS_AddElement
<1>7. Cardinality({p} \cup {q}) <= Cardinality(Listing(r, o))
  BY <1>4, FS_Subset
<1>8. Cardinality(Listing(r, o)) \in Nat
  BY <1>4, FS_CardinalityType
<1>9. QED
  BY <1>6, <1>7, <1>8

LEMMA SoundMore ==
  ASSUME NEW r, NEW dang, Sound(r, dang), NEW more, dang \subseteq more
  PROVE  Sound(r, more)
BY DEF Sound, Placed

\* What Delete records is what deleting needs.
LEMMA DeleteRecords ==
  ASSUME RegistryInv, NEW gone \in SUBSET Alives(reg), Delete(gone)
  PROVE  /\ Sound(reg, twice') /\ twice \subseteq twice' /\ twice' \subseteq freed'
         /\ freed' = freed \cup gone /\ freed' \subseteq 1..Len(reg.info)
         /\ \A o \in gone : o \in twice' \/ OnceListed(reg, o)
<1>1. freed' = freed \cup gone /\ twice' = twice \cup {o \in gone : Cardinality(Listing(reg, o)) > 1}
  BY DEF Delete
<1>2. Sound(reg, twice) /\ reg \in Reg
  BY DEF RegistryInv, Sound
<1>3. Sound(reg, twice')
  BY <1>1, <1>2, SoundMore
<1>4. ASSUME NEW o \in gone PROVE o \in twice' \/ OnceListed(reg, o)
  <2>1. Cardinality(Listing(reg, o)) > 1 \/ ~(Cardinality(Listing(reg, o)) > 1)
    OBVIOUS
  <2>2. QED
    BY <1>1, <1>2, <2>1, OnceIfFew
<1>5. Alives(reg) \subseteq 1..Len(reg.info)
  BY <1>2 DEF Sound, Placed
<1>6. QED
  BY <1>1, <1>3, <1>4, <1>5 DEF RegistryInv

LEMMA InitInv ==
  ASSUME Init
  PROVE  RegistryInv
<1>1. DefaultConn \in Conns /\ MaxInfos \in Nat
  BY RegistryAssumption
<1>2. Sound(Empty, {})
  BY EmptySound
<1>3. reg = WithMaster(Empty, DefaultConn) /\ freed = {} /\ twice = {} /\ undefined = FALSE
  BY DEF Init
<1>4. MasterAdded(reg, Empty, {}, DefaultConn)
  BY <1>1, <1>2, <1>3, WithMasterSound
<1>5. Len(reg.info) = 0
  BY <1>4 DEF Empty, MasterAdded
<1>6. Sound(reg, twice)
  BY <1>3, <1>4 DEF MasterAdded
<1>7. Len(reg.info) <= MaxInfos
  BY <1>1, <1>5
<1>8. QED
  BY <1>3, <1>6, <1>7 DEF RegistryInv

LEMMA AddMasterInv ==
  ASSUME RegistryInv, NEW c \in Conns, AddMaster(c)
  PROVE  RegistryInv'
<1> DEFINE t == WithMaster(reg, c)
<1>1. MasterAdded(t, reg, twice, c)
  BY WithMasterSound DEF RegistryInv
<1>2. reg' = t /\ freed' = freed /\ twice' = twice /\ undefined' = FALSE
  BY DEF AddMaster, Intact
<1> HIDE DEF t
<1>3. QED
  BY <1>1, <1>2 DEF RegistryInv, Alives, MasterAdded

\* What a master lists that is not destroyed is a server of the game.
LEMMA NotDangling ==
  ASSUME RegistryInv, NEW p \in 1..Len(reg.masters), ~Dangling(p)
  PROVE  Members(reg.masters[p].list) \subseteq Alives(reg)
BY DEF RegistryInv, Sound, Placed, Dangling

LEMMA BrokenInv ==
  ASSUME RegistryInv, Broken
  PROVE  RegistryInv'
BY DEF RegistryInv, Broken

LEMMA DeleteMasterInv ==
  ASSUME RegistryInv, NEW p \in 1..Len(reg.masters), DeleteMaster(p)
  PROVE  RegistryInv'
<1>1. CASE Dangling(p)
  BY <1>1, BrokenInv DEF DeleteMaster
<1>2. CASE ~Dangling(p)
  <2> DEFINE t == WithoutMaster(reg, p)
  <2>1. Sound(reg, twice) /\ Members(reg.masters[p].list) \subseteq Alives(reg)
    BY <1>2, NotDangling DEF RegistryInv
  <2>2. Sound(t, twice) /\ t.servers = reg.servers /\ Len(t.info) = Len(reg.info)
    BY <2>1, WithoutMasterSound
  <2>3. reg' = t /\ freed' = freed /\ twice' = twice /\ undefined' = FALSE
    BY <1>2 DEF DeleteMaster, Intact
  <2> HIDE DEF t
  <2>4. QED
    BY <2>2, <2>3 DEF RegistryInv, Alives
<1>3. QED
  BY <1>1, <1>2

LEMMA AddServerInv ==
  ASSUME RegistryInv, NEW a \in Addrs, NEW v \in {"default", "favourite"}, AddServer(a, {v})
  PROVE  RegistryInv'
<1> DEFINE view == {v}
           id == NoMaster
           t == WithServer(reg, a, view, id)
<1>1. Sound(reg, twice) /\ view \in Views /\ id \in Nat \cup {NoMaster}
  BY DEF RegistryInv, Views
<1>2. reg' = t /\ freed' = freed /\ twice' = twice /\ undefined' = FALSE /\ Len(reg.info) < MaxInfos
  BY DEF AddServer, Intact
<1> HIDE DEF view, id
<1>3. ServerAdded(t, reg, twice, a, id)
  BY <1>1, WithServerSound
<1> HIDE DEF t
<1>4. Sound(t, twice) /\ Grown(t, reg) /\ Len(t.info) <= Len(reg.info) + 1
  BY <1>3 DEF ServerAdded
<1>5. Len(t.info) \in Nat /\ Len(reg.info) \in Nat /\ MaxInfos \in Nat
  BY <1>1, <1>4, RegTypes, RegistryAssumption DEF Sound
<1>6. Len(t.info) <= MaxInfos /\ 1..Len(reg.info) \subseteq 1..Len(t.info)
  BY <1>2, <1>4, <1>5 DEF Grown
<1>7. freed \cap Alives(t) = {}
  BY <1>4, <1>5 DEF RegistryInv, Grown
<1>8. QED
  BY <1>2, <1>4, <1>6, <1>7 DEF RegistryInv

LEMMA FavourInv ==
  ASSUME RegistryInv, NEW o \in Alives(reg), Favour(o)
  PROVE  RegistryInv'
<1>1. Sound(reg, twice) /\ o \in 1..Len(reg.info)
  BY DEF RegistryInv, Sound, Placed
<1>2. PICK on \in BOOLEAN :
        reg' = [reg EXCEPT !.info[o].view = IF on THEN @ \cup {"favourite"} ELSE @ \ {"favourite"}]
  BY DEF Favour
<1> DEFINE v == IF on THEN reg.info[o].view \cup {"favourite"} ELSE reg.info[o].view \ {"favourite"}
<1> DEFINE t == WithView(reg, o, v)
<1>3. reg' = t
  BY <1>2 DEF WithView
<1>4. v = reg.info[o].view \cup {"favourite"} \/ v = reg.info[o].view \ {"favourite"}
  OBVIOUS
<1> HIDE DEF v
<1>5. Favoured(t, reg, twice)
  BY <1>1, <1>4, FavourSound
<1> HIDE DEF t
<1>6. freed' = freed /\ twice' = twice /\ undefined' = FALSE
  BY DEF Favour, Intact
<1>7. QED
  BY <1>3, <1>5, <1>6 DEF RegistryInv, Alives, Favoured

LEMMA DeleteServerInv ==
  ASSUME RegistryInv, NEW o \in Alives(reg), DeleteServer(o)
  PROVE  RegistryInv'
<1> DEFINE t == WithoutServer(reg, o)
           dang == twice'
<1>1. reg' = t /\ Delete({o}) /\ undefined' = FALSE
  BY DEF DeleteServer, Intact
<1>2. /\ Sound(reg, twice') /\ twice \subseteq twice' /\ twice' \subseteq freed'
      /\ freed' = freed \cup {o} /\ freed' \subseteq 1..Len(reg.info)
      /\ \A k \in {o} : k \in twice' \/ OnceListed(reg, k)
  BY <1>1, DeleteRecords
<1>3. o \in 1..Len(reg.info)
  BY <1>2
<1> HIDE DEF t, dang
<1>4. Sound(reg, dang) /\ (o \in dang \/ OnceListed(reg, o))
  BY <1>2 DEF dang
<1>5. /\ Sound(t, dang) /\ SameMasters(t, reg) /\ SameAddrs(t, reg)
      /\ Alives(t) = Alives(reg) \ {o}
      /\ \A q \in 1..Len(reg.masters) :
           Members(t.masters[q].list) \subseteq Members(reg.masters[q].list)
  BY <1>3, <1>4, WithoutServerSound DEF t
<1>6. Len(t.info) = Len(reg.info)
  BY <1>5 DEF SameAddrs
<1>7. QED
  BY <1>1, <1>2, <1>5, <1>6 DEF RegistryInv, dang

LEMMA UpdateMasterInv ==
  ASSUME RegistryInv, NEW p \in 1..Len(reg.masters), NEW gone \in SUBSET Alives(reg),
         NEW answered \in BOOLEAN, NEW answer \in Seq(Addrs),
         UpdateMaster(p, gone, answered, answer)
  PROVE  RegistryInv'
<1> DEFINE cleaned == WithoutServers(reg, gone)
           dangles == \E q \in {p, MasterAt(reg, reg.masters[p].id)} :
                        Members(cleaned.masters[q].list) \cap (freed \cup gone) # {}
           dang == twice'
<1>1. /\ reg' = IF answered /\ ~dangles THEN Listed(cleaned, p, answer) ELSE cleaned
      /\ Len(reg'.info) <= MaxInfos /\ Delete(gone) /\ undefined' \in BOOLEAN
  BY DEF UpdateMaster
<1>2. /\ Sound(reg, twice') /\ twice \subseteq twice' /\ twice' \subseteq freed'
      /\ freed' = freed \cup gone /\ freed' \subseteq 1..Len(reg.info)
      /\ \A o \in gone : o \in twice' \/ OnceListed(reg, o)
  BY <1>1, DeleteRecords
<1>3. cleaned = WithoutServers(reg, gone)
  OBVIOUS
<1> HIDE DEF cleaned, dang
<1>4. Cleaned(cleaned, reg, dang) /\ Alives(cleaned) \cap gone = {}
  <2>1. Sound(reg, dang) /\ \A o \in gone : o \in dang \/ OnceListed(reg, o)
    BY <1>2 DEF dang
  <2>2. QED
    BY <1>3, <2>1, WithoutServersSound
<1>5. /\ Sound(cleaned, dang) /\ Len(cleaned.info) = Len(reg.info)
      /\ p \in 1..Len(cleaned.masters) /\ Alives(cleaned) \subseteq Alives(reg)
  BY <1>4 DEF Cleaned, SameAddrs, SameMasters
<1>6. freed' \cap Alives(cleaned) = {}
  BY <1>2, <1>4, <1>5 DEF RegistryInv
<1>7. CASE answered /\ ~dangles
  <2> DEFINE x == Listed(cleaned, p, answer)
  <2>1. reg' = x
    BY <1>1, <1>7
  <2>2. Members(cleaned.masters[p].list) \subseteq Alives(cleaned)
    <3>1. Members(cleaned.masters[p].list) \cap freed' = {}
      BY <1>2, <1>7
    <3>2. QED
      BY <1>2, <1>5, <3>1 DEF Sound, Placed, dang
  <2>3. x = Listed(cleaned, p, answer)
    OBVIOUS
  <2> HIDE DEF x, dangles
  <2>4. /\ Sound(x, dang) /\ Grown(x, cleaned)
        /\ MasterAt(cleaned, cleaned.masters[p].id) = p =>
             \A q \in 1..Len(cleaned.masters) :
               ListedAt(x, q) = IF q = p THEN Members(answer) ELSE ListedAt(cleaned, q)
    BY <1>5, <2>2, <2>3, ListedSound
  <2>5. Len(x.info) \in Nat /\ Len(reg.info) \in Nat
    BY <1>2, <2>4, RegTypes DEF Sound
  <2>6. 1..Len(reg.info) \subseteq 1..Len(x.info)
    BY <1>5, <2>4, <2>5 DEF Grown
  <2>7. freed' \cap Alives(x) = {}
    BY <1>2, <1>5, <1>6, <2>4, <2>5 DEF Grown
  <2>8. QED
    BY <1>1, <1>2, <2>1, <2>4, <2>6, <2>7 DEF RegistryInv, dang
<1>8. CASE ~(answered /\ ~dangles)
  <2>1. reg' = cleaned
    BY <1>1, <1>8
  <2>2. QED
    BY <1>1, <1>2, <1>5, <1>6, <2>1 DEF RegistryInv, dang
<1>9. QED
  BY <1>7, <1>8

LEMMA EarlierIds == Earlier \subseteq Seq(Nat)
<1>1. ASSUME NEW n \in 0..MaxEarlier, NEW e \in [1..n -> 0..MaxEarlier]
      PROVE  e \in Seq(Nat)
  <2>1. n \in Nat /\ 0..MaxEarlier \subseteq Nat
    BY RegistryAssumption
  <2>2. e \in [1..n -> Nat]
    BY <2>1
  <2>3. QED
    BY <2>1, <2>2, IsASeq
<1>2. QED
  BY <1>1 DEF Earlier

LEMMA RestartInv ==
  ASSUME RegistryInv, Restart
  PROVE  RegistryInv'
<1>1. PICK before \in Earlier : reg' = Reload(reg, before)
  BY DEF Restart
<1>2. Sound(reg, twice) /\ before \in Seq(Nat)
  BY EarlierIds DEF RegistryInv
<1> DEFINE x == Reload(reg, before)
<1>3. x = Reload(reg, before)
  OBVIOUS
<1> HIDE DEF x
<1>4. /\ Sound(x, {}) /\ Len(x.info) <= Len(reg.servers)
      /\ \A p \in 1..Len(reg.masters) : x.masters[p].conn = reg.masters[p].conn
      /\ \A o \in Alives(reg) :
           Settled(reg, before, reg.info[o]) =>
             Restored(x, reg, reg.info[o], Homes(reg, reg.info[o]))
  BY <1>2, <1>3, ReloadSound
<1>5. Len(reg.servers) \in Nat /\ Len(reg.info) \in Nat /\ Len(x.info) \in Nat /\ MaxInfos \in Nat
  BY <1>2, <1>4, RegTypes, RegistryAssumption DEF Sound
<1>6. Len(x.info) <= MaxInfos
  BY <1>4, <1>5 DEF RegistryInv, Sound, Placed
<1>7. freed' = {} /\ twice' = {} /\ undefined' = FALSE /\ reg' = x
  BY <1>1, <1>3 DEF Restart, Intact
<1>8. QED
  BY <1>4, <1>6, <1>7 DEF RegistryInv

LEMMA AnswersAreLists == Answers \subseteq Seq(Addrs)
<1>1. ASSUME NEW n \in 0..MaxList, NEW e \in [1..n -> Addrs]
      PROVE  e \in Seq(Addrs)
  BY RegistryAssumption, IsASeq
<1>2. QED
  BY <1>1 DEF Answers

LEMMA NextInv ==
  ASSUME RegistryInv, [Next]_vars
  PROVE  RegistryInv'
<1>1. CASE UNCHANGED vars
  BY <1>1 DEF vars, RegistryInv
<1>2. CASE Next
  <2>1. ASSUME NEW c \in Conns, AddMaster(c) PROVE RegistryInv'
    BY <2>1, AddMasterInv
  <2>2. ASSUME NEW p \in 1..Len(reg.masters), DeleteMaster(p) PROVE RegistryInv'
    BY <2>2, DeleteMasterInv
  <2>3. ASSUME NEW p \in 1..Len(reg.masters), Display(p) PROVE RegistryInv'
    BY <2>3, BrokenInv DEF Display
  <2>4. ASSUME NEW a \in Addrs, NEW v \in {"default", "favourite"}, AddServer(a, {v}) PROVE RegistryInv'
    BY <2>4, AddServerInv
  <2>5. ASSUME NEW o \in Alives(reg), Favour(o) \/ DeleteServer(o) PROVE RegistryInv'
    BY <2>5, FavourInv, DeleteServerInv
  <2>6. CASE Update
    <3>1. PICK p \in 1..Len(reg.masters), gone \in SUBSET Alives(reg) :
            \/ UpdateMaster(p, gone, FALSE, <<>>)
            \/ \E answer \in Answers : UpdateMaster(p, gone, TRUE, answer)
      BY <2>6 DEF Update, Alives
    <3>2. CASE UpdateMaster(p, gone, FALSE, <<>>)
      <4>1. <<>> \in Seq(Addrs)
        BY EmptySeq
      <4>2. QED
        BY <3>2, <4>1, UpdateMasterInv
    <3>3. ASSUME NEW answer \in Answers, UpdateMaster(p, gone, TRUE, answer) PROVE RegistryInv'
      <4>1. answer \in Seq(Addrs)
        BY AnswersAreLists
      <4>2. QED
        BY <3>3, <4>1, UpdateMasterInv
    <3>4. QED
      BY <3>1, <3>2, <3>3
  <2>7. CASE Restart
    BY <2>7, RestartInv
  <2>8. QED
    BY <1>2, <2>1, <2>2, <2>3, <2>4, <2>5, <2>6, <2>7 DEF Next, Alives
<1>3. QED
  BY <1>1, <1>2

\* RegistryInv holds in every state, however many masters, servers and ids there
\* are: every handler of the frame and its dialogs keeps it.
THEOREM RegistryInductive == Spec => []RegistryInv
<1>1. Init => RegistryInv
  BY InitInv
<1>2. RegistryInv /\ [Next]_vars => RegistryInv'
  BY NextInv
<1>3. QED
  BY <1>1, <1>2, PTL DEF Spec

-----------------------------------------------------------------------------
(* What follows from it.                                                   *)

LEMMA SeqWithin ==
  ASSUME NEW S, NEW s \in Seq(S), NEW T, Members(s) \subseteq T
  PROVE  s \in Seq(T)
<1>1. Len(s) \in Nat /\ s \in [1..Len(s) -> S]
  BY LenProperties
<1>2. \A k \in 1..Len(s) : s[k] \in T
  BY DEF Members
<1>3. s \in [1..Len(s) -> T]
  BY <1>1, <1>2
<1>4. QED
  BY <1>1, <1>3, IsASeq

\* The state has its types: no list names a server that was never created, and the
\* next start never needs more than the last one had.
THEOREM RegistryTypes == Spec => []TypeOK
<1>1. RegistryInv => TypeOK
  <2>1. SUFFICES ASSUME RegistryInv PROVE TypeOK
    OBVIOUS
  <2>2. reg \in Reg /\ Sound(reg, twice) /\ MaxInfos \in Nat
    BY <2>1, RegistryAssumption DEF RegistryInv, Sound
  <2>3. Len(reg.info) \in Nat /\ 1..Len(reg.info) \subseteq Infos
    BY <2>1, <2>2, RegTypes DEF RegistryInv, Infos
  <2>4. reg.servers \in Seq(Infos)
    <3>1. Members(reg.servers) \subseteq Infos
      BY <2>2, <2>3 DEF Sound, Placed, Alives
    <3>2. QED
      BY <2>2, <3>1, RegTypes, SeqWithin
  <2>5. reg.masters \in Seq(Master)
    <3>1. ASSUME NEW p \in 1..Len(reg.masters) PROVE reg.masters[p] \in Master
      <4>1. reg.masters[p] \in Entry /\ reg.masters[p].list \in Seq(Nat)
        BY <2>2, RegTypes
      <4>2. Members(reg.masters[p].list) \subseteq Infos
        BY <2>2, <2>3 DEF Sound, Placed
      <4>3. reg.masters[p].list \in Seq(Infos)
        BY <4>1, <4>2, SeqWithin
      <4>4. QED
        BY <4>1, <4>3 DEF Entry, Master
    <3>2. Members(reg.masters) \subseteq Master
      BY <3>1 DEF Members
    <3>3. QED
      BY <2>2, <3>2, RegTypes, SeqWithin
  <2>6. QED
    BY <2>1, <2>2, <2>3, <2>4, <2>5 DEF TypeOK, RegistryInv, Reg
<1>2. QED
  BY <1>1, RegistryInductive, PTL

\* A server keeps the id of every master that lists it, which at most one master
\* with that id does: UnrefServer never asks for an id that is not there.
THEOREM IdsCover == Spec => []IdsCoverLists
<1>1. RegistryInv => IdsCoverLists
  <2>1. SUFFICES ASSUME RegistryInv, NEW o \in Alives(reg), NEW id
                 PROVE  Cardinality({p \in Listing(reg, o) : reg.masters[p].id = id})
                          <= Occurrences(reg.info[o].ids, id)
    BY DEF IdsCoverLists, Alive, Alives
  <2> DEFINE S == {p \in Listing(reg, o) : reg.masters[p].id = id}
             I == {i \in 1..Len(reg.info[o].ids) : reg.info[o].ids[i] = id}
  <2>2. Sound(reg, twice) /\ reg \in Reg /\ o \in 1..Len(reg.info)
    BY <2>1 DEF RegistryInv, Sound, Placed
  <2>3. Len(reg.info[o].ids) \in Nat
    BY <2>2, RegTypes, LenProperties
  <2>4. IsFiniteSet(I) /\ Cardinality(I) \in Nat
    <3>1. IsFiniteSet(1..Len(reg.info[o].ids))
      BY <2>3, FS_Interval
    <3>2. I \subseteq 1..Len(reg.info[o].ids)
      OBVIOUS
    <3>3. IsFiniteSet(I)
      BY <3>1, <3>2, FS_Subset
    <3>4. QED
      BY <3>3, FS_CardinalityType
  <2>5. Cardinality(S) <= Cardinality(I)
    <3>1. CASE S = {}
      <4>1. Cardinality(S) = 0
        BY <3>1, FS_EmptySet
      <4> HIDE DEF S, I
      <4>2. QED
        BY <2>4, <4>1
    <3>2. CASE S # {}
      <4>1. PICK p \in S : TRUE
        BY <3>2
      <4>2. p \in 1..Len(reg.masters) /\ o \in Members(reg.masters[p].list) /\ reg.masters[p].id = id
        BY <4>1 DEF Listing
      <4>3. ASSUME NEW q \in S PROVE q = p
        <5>1. q \in 1..Len(reg.masters) /\ o \in Members(reg.masters[q].list) /\ reg.masters[q].id = id
          BY DEF Listing
        <5>2. QED
          BY <2>2, <4>2, <5>1, ListersDiffer
      <4>4. S = {p}
        BY <4>1, <4>3
      <4>5. id \in Members(reg.info[o].ids)
        BY <2>1, <2>2, <4>2 DEF Sound, IdsKept
      <4>6. I # {}
        BY <4>5 DEF Members
      <4> HIDE DEF S, I
      <4>7. Cardinality(S) = 1
        BY <4>4, FS_Singleton
      <4>8. Cardinality(I) # 0
        BY <2>4, <4>6, FS_EmptySet
      <4>9. QED
        BY <2>4, <4>7, <4>8
    <3>3. QED
      BY <3>1, <3>2
  <2>6. QED
    BY <2>5 DEF Occurrences
<1>2. QED
  BY <1>1, RegistryInductive, PTL

\* A list names a destroyed server only if two masters listed it when it was
\* destroyed: DeleteServer's loop, which skips an id when UnrefServer takes one
\* away, always finds the only master that lists a server.
THEOREM OnlyTwiceListedDangle == Spec => []DanglingOnlyIfTwice
<1>1. RegistryInv => DanglingOnlyIfTwice
  BY DEF RegistryInv, Sound, Placed, DanglingOnlyIfTwice
<1>2. QED
  BY <1>1, RegistryInductive, PTL

\* However the servers came in, none is there twice, a list holds none twice, a
\* master with an earlier one's id lists none, and what is listed is shown.
THEOREM ListsAreSound == Spec => []ListsSound
<1>1. RegistryInv => ListsSound
  <2>1. SUFFICES ASSUME RegistryInv PROVE ListsSound
    OBVIOUS
  <2>2. Sound(reg, twice) /\ reg \in Reg /\ Len(reg.masters) \in Nat
    BY <2>1, RegTypes DEF RegistryInv, Sound
  <2>3. \A i, j \in 1..Len(reg.servers) :
          reg.info[reg.servers[i]].addr = reg.info[reg.servers[j]].addr => i = j
    BY <2>2 DEF Sound, OneServerEach
  <2>4. ASSUME NEW p \in 1..Len(reg.masters)
        PROVE  /\ IsInjective(reg.masters[p].list)
               /\ MasterAt(reg, reg.masters[p].id) # p => reg.masters[p].list = <<>>
    <3> DEFINE q == MasterAt(reg, reg.masters[p].id)
    <3>1. q \in 1..p /\ q \in 0..Len(reg.masters) /\ (q # 0 => reg.masters[q].id = reg.masters[p].id)
      BY <2>2, MasterAtFirst
    <3> HIDE DEF q
    <3>2. ASSUME q # p PROVE reg.masters[p].list = <<>>
      <4>1. q \in 1..Len(reg.masters) /\ q < p /\ reg.masters[q].id = reg.masters[p].id
        BY <2>2, <3>1, <3>2
      <4>2. QED
        BY <2>2, <4>1 DEF Sound, FirstLists
    <3>3. QED
      BY <2>2, <3>2 DEF Sound, FirstLists, q
  <2>5. \A o \in Alives(reg) : Listing(reg, o) # {} => "default" \in reg.info[o].view
    BY <2>2 DEF Sound, IdsKept, Listing
  <2>6. QED
    BY <2>3, <2>4, <2>5 DEF ListsSound, Alive, Alives
<1>2. QED
  BY <1>1, RegistryInductive, PTL

\* A master's answer becomes its list, and no other list changes.
THEOREM AnswersReplaceLists == Spec => []AnswerReplaces
<1>1. RegistryInv => AnswerReplaces
  <2>1. SUFFICES ASSUME RegistryInv, NEW p \in 1..Len(reg.masters), NEW answer \in Answers,
                        ~Dangling(p), MasterAt(reg, reg.masters[p].id) = p
                 PROVE  \A q \in 1..Len(reg.masters) :
                          ListedAt(Listed(reg, p, answer), q) =
                            IF q = p THEN Members(answer) ELSE ListedAt(reg, q)
    BY DEF AnswerReplaces
  <2> DEFINE x == Listed(reg, p, answer)
  <2>2. Sound(reg, twice) /\ Members(reg.masters[p].list) \subseteq Alives(reg) /\ answer \in Seq(Addrs)
    BY <2>1, NotDangling, AnswersAreLists DEF RegistryInv
  <2>3. x = Listed(reg, p, answer)
    OBVIOUS
  <2> HIDE DEF x
  <2>4. /\ Sound(x, twice) /\ Grown(x, reg)
        /\ MasterAt(reg, reg.masters[p].id) = p =>
             \A q \in 1..Len(reg.masters) :
               ListedAt(x, q) = IF q = p THEN Members(answer) ELSE ListedAt(reg, q)
    BY <2>2, <2>3, ListedSound
  <2>5. QED
    BY <2>1, <2>4 DEF x
<1>2. QED
  BY <1>1, RegistryInductive, PTL

\* The ids of a server that only its masters gave it stand for their new ones.
LEMMA ConsistentSettled ==
  ASSUME RegistryInv, NEW before \in Seq(Nat), NEW o \in Alives(reg),
         Consistent(o), Agrees(before, o)
  PROVE  /\ Settled(reg, before, reg.info[o])
         /\ Homes(reg, reg.info[o]) = Listing(reg, o)
<1>1. Sound(reg, twice) /\ reg \in Reg /\ Len(reg.masters) \in Nat
  BY RegTypes DEF RegistryInv, Sound
<1>2. ASSUME NEW p \in Listing(reg, o)
      PROVE  MasterAt(reg, reg.masters[p].id) = p
  <2>1. p \in 1..Len(reg.masters) /\ reg.masters[p].list # <<>>
    BY DEF Listing, Members
  <2> DEFINE q == MasterAt(reg, reg.masters[p].id)
  <2>2. q \in 1..p /\ q \in 0..Len(reg.masters) /\ (q # 0 => reg.masters[q].id = reg.masters[p].id)
    BY <1>1, <2>1, MasterAtFirst
  <2> HIDE DEF q
  <2>3. ~(q < p)
    <3>1. q \in 1..Len(reg.masters) /\ reg.masters[q].id = reg.masters[p].id
      BY <1>1, <2>1, <2>2
    <3>2. QED
      BY <1>1, <2>1, <3>1 DEF Sound, FirstLists
  <2>4. q = p
    BY <1>1, <2>1, <2>2, <2>3
  <2>5. QED
    BY <2>4 DEF q
<1>3. ASSUME NEW p \in Listing(reg, o)
      PROVE  reg.masters[p].id \in Members(reg.info[o].ids) /\ "default" \in reg.info[o].view
  BY <1>1 DEF Sound, IdsKept, Listing
<1>4. ASSUME NEW id \in Members(reg.info[o].ids)
      PROVE  /\ MasterAt(reg, id) \in Listing(reg, o) /\ MasterAt(reg, id) # 0
             /\ Mapped(before, reg.masters, id) = {MasterAt(reg, id) - 1}
             /\ "default" \in reg.info[o].view
  <2>1. PICK p \in Listing(reg, o) : reg.masters[p].id = id
    BY DEF Consistent
  <2>2. MasterAt(reg, id) = p /\ p # 0
    BY <1>1, <1>2, <2>1 DEF Listing
  <2>3. Mapped(<<>>, reg.masters, id) = {MasterAt(reg, id) - 1}
    BY <1>1, <2>2, MappedIds
  <2>4. Mapped(before, reg.masters, id) = Mapped(<<>>, reg.masters, id)
    BY DEF Agrees
  <2>5. QED
    BY <1>3, <2>1, <2>2, <2>3, <2>4
<1>5. Settled(reg, before, reg.info[o])
  BY <1>4 DEF Settled
<1>6. Homes(reg, reg.info[o]) = Listing(reg, o)
  BY <1>2, <1>3, <1>4 DEF Homes
<1>7. QED
  BY <1>5, <1>6

\* A server is there again after a restart, with its flags and in its masters'
\* lists, whatever places they have then.
THEOREM RestartRestores == Spec => []RestartKeeps
<1>1. RegistryInv => RestartKeeps
  <2>1. SUFFICES ASSUME RegistryInv, NEW before \in Earlier, NEW o \in Alives(reg),
                        Consistent(o), Agrees(before, o)
                 PROVE  LET r == Reload(reg, before) IN
                        \E n \in Members(r.servers) :
                          /\ r.info[n].addr = reg.info[o].addr
                          /\ r.info[n].view = reg.info[o].view
                          /\ ConnsListing(r, n) = ConnsListing(reg, o)
    BY DEF RestartKeeps, Alive, Alives
  <2> DEFINE x == Reload(reg, before)
             i == reg.info[o]
  <2>2. Sound(reg, twice) /\ before \in Seq(Nat)
    BY <2>1, EarlierIds DEF RegistryInv
  <2>3. x = Reload(reg, before)
    OBVIOUS
  <2> HIDE DEF x
  <2>4. /\ Sound(x, {}) /\ Len(x.info) <= Len(reg.servers)
        /\ \A p \in 1..Len(reg.masters) : x.masters[p].conn = reg.masters[p].conn
        /\ \A k \in Alives(reg) :
             Settled(reg, before, reg.info[k]) =>
               Restored(x, reg, reg.info[k], Homes(reg, reg.info[k]))
    BY <2>2, <2>3, ReloadSound
  <2>5. Restored(x, reg, i, Listing(reg, o))
    BY <2>1, <2>2, <2>4, ConsistentSettled
  <2>6. PICK n \in FindServer(x, i.addr) : x.info[n].view = i.view /\ Listing(x, n) = Listing(reg, o)
    BY <2>5 DEF Restored
  <2>7. n \in Members(x.servers) /\ x.info[n].addr = i.addr
    BY DEF FindServer
  <2>8. ConnsListing(x, n) = ConnsListing(reg, o)
    <3>1. Listing(reg, o) \subseteq 1..Len(reg.masters)
      BY DEF Listing
    <3>2. QED
      BY <2>4, <2>6, <3>1 DEF ConnsListing
  <2>9. QED
    BY <2>6, <2>7, <2>8 DEF x
<1>2. QED
  BY <1>1, RegistryInductive, PTL
=============================================================================
