------------------------------- MODULE Registry -------------------------------
(***************************************************************************)
(* One game's masters and servers (src/engine/CslGame.cpp) and everything  *)
(* in CslFrame and the dialogs that adds or deletes one.                   *)
(*                                                                         *)
(* A CslServerInfo is owned by the game's m_servers and pointed to by the  *)
(* m_servers of the masters that announced it; it keeps the ids of those   *)
(* masters.  Here it is an index into reg.info, so that an index in a list *)
(* whose object was deleted is a dangling pointer.  All of this runs in    *)
(* the GUI thread, and a handler runs to its end: one action per handler.  *)
(***************************************************************************)
EXTENDS Integers, Sequences, FiniteSets, SequencesExt

CONSTANTS
  Addrs,        \* what operator== of CslServerInfo compares: host and both ports
  Conns,        \* what operator== of CslMaster compares: the connection
  DefaultConn,  \* the connection CslFrame adds when it starts
  MaxInfos,     \* bound: servers created between two starts
  MaxList,      \* bound: addserver lines in a master's answer
  MaxIds,       \* bound: ids one server keeps
  MaxEarlier    \* bound: masters and ids of an earlier game in the servers' file

ASSUME RegistryAssumption ==
  /\ DefaultConn \in Conns
  /\ MaxInfos \in Nat /\ MaxList \in Nat /\ MaxIds \in Nat /\ MaxEarlier \in Nat

NoMaster == -1

VARIABLES
  reg,         \* the CslGame: [masters, servers, info]
  freed,       \* the servers DeleteServer destroyed
  twice,       \* history: those of them that two masters listed
  undefined    \* a destroyed server has been read: anything may follow

vars == <<reg, freed, twice, undefined>>

Infos == 1..MaxInfos
Info   == [addr : Addrs, ids : Seq(Nat), view : SUBSET {"default", "favourite"}]
Master == [conn : Conns, id : Nat, list : Seq(Infos)]

Members(s) == {s[i] : i \in 1..Len(s)}

\* What a loop over q leaves of r: Body makes the next value of this one and an
\* element.  A recursive function, so that the proofs can follow it.
Loop(Body(_, _), r, q) ==
  LET s[k \in 0..Len(q)] == IF k = 0 THEN r ELSE Body(s[k - 1], q[k])
  IN s[Len(q)]

-----------------------------------------------------------------------------
(* CslMaster and CslServerInfo.                                            *)

\* The first master with this id, or 0.
MasterAt(r, id) ==
  LET at == {p \in 1..Len(r.masters) : r.masters[p].id = id}
  IN IF at = {} THEN 0 ELSE CHOOSE p \in at : \A q \in at : p <= q

\* CslServerInfo::AddMaster
AddMasterId(i, id) == [i EXCEPT !.ids = Append(@, id), !.view = @ \cup {"default"}]

\* CslServerInfo::RemoveMaster.  Its test does not stop remove(-1), which moves
\* every element one place down.
RemoveMasterId(i, id) ==
  LET left == IF id \in Members(i.ids) THEN RemoveFirst(i.ids, id) ELSE Tail(i.ids)
  IN [i EXCEPT !.ids = left, !.view = IF left = <<>> THEN @ \ {"default"} ELSE @]

\* Mutation: the server does not learn the master's id.
ListServerOnly(r, p, o) ==
  LET listed == \E q \in Members(r.masters[p].list) : r.info[q].addr = r.info[o].addr
  IN [r EXCEPT !.masters[p].list = IF listed THEN @ ELSE Append(@, o)]

\* Mutation: a server that is listed is listed again.
ListServerAgain(r, p, o) ==
  [r EXCEPT !.masters[p].list = Append(@, o), !.info[o] = AddMasterId(@, r.masters[p].id)]

\* CslMaster::AddServer: an equal server is not listed again, its id is.
ListServer(r, p, o) ==
  LET m == r.masters[p]
      listed == \E q \in Members(m.list) : r.info[q].addr = r.info[o].addr
  IN [r EXCEPT !.masters[p].list = IF listed THEN @ ELSE Append(@, o),
               !.info[o] = AddMasterId(@, m.id)]

\* CslMaster::UnrefServer
UnrefServer(r, p, o) ==
  IF p = 0 \/ o \notin Members(r.masters[p].list) THEN r
  ELSE [r EXCEPT !.masters[p].list = RemoveFirst(@, o),
                 !.info[o] = RemoveMasterId(@, r.masters[p].id)]

\* CslMaster::UnrefServers
UnrefServers(r, p) ==
  Loop(LAMBDA s, o : UnrefServer(s, p, o), r, Reverse(r.masters[p].list))

-----------------------------------------------------------------------------
(* CslGame.                                                                *)

\* Mutation: the id is the number of masters less one.
WithMasterBelow(r, c) ==
  IF \E m \in Members(r.masters) : m.conn = c THEN r
  ELSE [r EXCEPT !.masters = Append(@, [conn |-> c, id |-> Len(@) - 1, list |-> <<>>])]

\* AddMaster: the id is the number of masters, whether or not it is in use.
WithMaster(r, c) ==
  IF \E m \in Members(r.masters) : m.conn = c THEN r
  ELSE [r EXCEPT !.masters = Append(@, [conn |-> c, id |-> Len(@), list |-> <<>>])]

\* DeleteMaster
WithoutMaster(r, p) ==
  LET s == UnrefServers(r, p) IN [s EXCEPT !.masters = RemoveAt(@, p)]

\* The servers equal to one at a, one at most.
FindServer(r, a) == {o \in Members(r.servers) : r.info[o].addr = a}

\* AddServer(new CslServerInfo(a, view), id): a server that is known is not added
\* again, and one for a master that is not there is not added at all.
WithServer(r, a, view, id) ==
  LET known == FindServer(r, a)
      o == IF known = {} THEN Len(r.info) + 1 ELSE CHOOSE k \in known : TRUE
      s == IF known # {} THEN r
           ELSE [r EXCEPT !.servers = Append(@, o),
                          !.info = Append(@, [addr |-> a, ids |-> <<>>, view |-> view])]
  IN IF id = NoMaster THEN s
     ELSE IF MasterAt(r, id) = 0 THEN r
     ELSE ListServer(s, MasterAt(r, id), o)

\* Mutation: the masters keep the server they list.
WithoutServerOnly(r, o) ==
  [r EXCEPT !.servers = RemoveFirst(@, o), !.info[o].ids = <<>>, !.info[o].view = {}]

\* DeleteServer: the loop over m_masterIDs goes on to the next index when
\* UnrefServer has just taken the id at this one away.
UnrefIdAt(r, o, k) ==
  IF k > Len(r.info[o].ids) THEN r ELSE UnrefServer(r, MasterAt(r, r.info[o].ids[k]), o)

UnrefIds(r, o) ==
  Loop(LAMBDA s, k : UnrefIdAt(s, o, k), r, [k \in 1..Len(r.info[o].ids) |-> k])

WithoutServer(r, o) ==
  [UnrefIds(r, o) EXCEPT !.servers = RemoveFirst(@, o),
                         !.info[o] = [addr |-> @.addr, ids |-> <<>>, view |-> {}]]

Listing(r, o) == {p \in 1..Len(r.masters) : o \in Members(r.masters[p].list)}

\* The servers in gone are deleted, the last in m_servers first.
Delete(gone) ==
  /\ freed' = freed \cup gone
  /\ twice' = twice \cup {o \in gone : Cardinality(Listing(reg, o)) > 1}

WithoutServers(r, gone) ==
  Loop(LAMBDA s, o : IF o \in gone THEN WithoutServer(s, o) ELSE s, r, Reverse(r.servers))

-----------------------------------------------------------------------------
(* What the user, the masters and the other programs do.                   *)

Dangling(p) == Members(reg.masters[p].list) \cap freed # {}

\* The frame starts with the default master; nothing is saved yet.
Empty == [masters |-> <<>>, servers |-> <<>>, info |-> <<>>]

Init ==
  /\ reg = WithMaster(Empty, DefaultConn)
  /\ freed = {} /\ twice = {} /\ undefined = FALSE

\* Reading a destroyed server is the last step the code defines.
Broken == undefined' = TRUE /\ UNCHANGED <<reg, freed, twice>>
Intact == undefined' = FALSE

\* CslDlgAddMaster and MENU_ADD
AddMaster(c) ==
  /\ \A m \in Members(reg.masters) : m.conn # c
  /\ reg' = WithMaster(reg, c)
  /\ Intact /\ UNCHANGED <<freed, twice>>

\* MENU_DEL on the tree: TreeRemoveMaster
DeleteMaster(p) ==
  IF Dangling(p) THEN Broken
  ELSE reg' = WithoutMaster(reg, p) /\ Intact /\ UNCHANGED <<freed, twice>>

\* The master list control shows the selected master's servers on every timer.
Display(p) == Dangling(p) /\ Broken

\* CslDlgAddServer (a favourite), and a server another program names in a URI
\* and nobody knows yet (OnIPC).
AddServer(a, view) ==
  /\ Len(reg.info) < MaxInfos
  /\ reg' = WithServer(reg, a, view, NoMaster)
  /\ reg' # reg
  /\ Intact /\ UNCHANGED <<freed, twice>>

\* The favourite flag, from the list controls, the search and OnIPC.
Favour(o) ==
  /\ \E on \in BOOLEAN :
       reg' = [reg EXCEPT !.info[o].view = IF on THEN @ \cup {"favourite"} ELSE @ \ {"favourite"}]
  /\ Intact /\ UNCHANGED <<freed, twice>>

\* MENU_DEL, posted by ListDeleteServers for a server that was not locked then.
DeleteServer(o) ==
  /\ reg' = WithoutServer(reg, o)
  /\ Delete({o})
  /\ Intact

\* Mutation: the answer is added to the old list.
ListedToo(r, p, answer) ==
  Loop(LAMBDA s, a : WithServer(s, a, {"default"}, r.masters[p].id), r, answer)

\* UpdateMaster: the servers the settings call outdated are deleted, then the
\* master's answer, if there is one, replaces its list.
Listed(r, p, answer) ==
  Loop(LAMBDA s, a : WithServer(s, a, {"default"}, r.masters[p].id),
       UnrefServers(r, p), answer)

UpdateMaster(p, gone, answered, answer) ==
  LET cleaned == WithoutServers(reg, gone)
      read    == {p, MasterAt(reg, reg.masters[p].id)}
      dangles == \E q \in read : Members(cleaned.masters[q].list) \cap (freed \cup gone) # {}
  IN /\ reg' = IF answered /\ ~dangles THEN Listed(cleaned, p, answer) ELSE cleaned
     /\ Len(reg'.info) <= MaxInfos
     /\ \A o \in Members(reg'.servers) : Len(reg'.info[o].ids) <= MaxIds
     /\ Delete(gone)
     /\ undefined' = (answered /\ dangles)

-----------------------------------------------------------------------------
(* SaveServers at the end, LoadServers and the frame's constructor at the  *)
(* next start.                                                             *)

\* The ids that the masters of a game before this one have in the file: an id was
\* the master's place when it was added, and places only get smaller.
Earlier == {e \in UNION {[1..n -> 0..MaxEarlier] : n \in 0..MaxEarlier} :
              \A k \in 1..Len(e) : e[k] >= k - 1}

\* The new ids of the first mapping with this old id, none or one: the list holds
\* the mappings of the games before this one, then those of its own masters.
Mapped(before, masters, id) ==
  LET old == before \o [k \in 1..Len(masters) |-> masters[k].id]
      at  == {k \in 1..Len(old) : old[k] = id}
      first == CHOOSE k \in at : \A l \in at : k <= l
  IN IF at = {} THEN {}
     ELSE {IF first <= Len(before) THEN first - 1 ELSE first - Len(before) - 1}

\* Mutation: the ids of the file are taken as they are.
LoadServerRaw(saved, before, i, r) ==
  Loop(LAMBDA s, id : WithServer(s, i.addr, i.view, id), r,
       IF i.ids = <<>> THEN <<NoMaster>> ELSE i.ids)

\* One entry of the file: an id that no mapping has leaves the variable as it
\* was, at first the number of keys that were tried.
LoadId(new, i, s, id) ==
  LET to == IF id = NoMaster THEN NoMaster
            ELSE IF new = {} THEN s.id ELSE CHOOSE n \in new : TRUE
  IN [id |-> to, reg |-> WithServer(s.reg, i.addr, i.view, to)]

LoadServer(saved, before, i, r) ==
  Loop(LAMBDA s, id : LoadId(Mapped(before, saved.masters, id), i, s, id),
       [id |-> Len(i.ids) + 1, reg |-> r],
       IF i.ids = <<>> THEN <<NoMaster>> ELSE i.ids).reg

Reload(saved, before) ==
  LET masters == Loop(LAMBDA r, m : WithMaster(r, m.conn), Empty, saved.masters)
      loaded  == Loop(LAMBDA r, o : LoadServer(saved, before, saved.info[o], r),
                      masters, saved.servers)
  IN WithMaster(loaded, DefaultConn)

Restart ==
  /\ \E before \in Earlier : reg' = Reload(reg, before)
  /\ freed' = {} /\ twice' = {} /\ Intact

-----------------------------------------------------------------------------
Answers == UNION {[1..n -> Addrs] : n \in 0..MaxList}

Update ==
  \E p \in 1..Len(reg.masters), gone \in SUBSET Members(reg.servers) :
    \/ UpdateMaster(p, gone, FALSE, <<>>)
    \/ \E answer \in Answers : UpdateMaster(p, gone, TRUE, answer)

Next ==
  /\ ~undefined
  /\ \/ \E c \in Conns : AddMaster(c)
     \/ \E p \in 1..Len(reg.masters) : DeleteMaster(p) \/ Display(p)
     \/ \E a \in Addrs, v \in {"default", "favourite"} : AddServer(a, {v})
     \/ \E o \in Members(reg.servers) : Favour(o) \/ DeleteServer(o)
     \/ Update
     \/ Restart

Spec == Init /\ [][Next]_vars

-----------------------------------------------------------------------------
(* Properties.                                                             *)

TypeOK ==
  /\ reg.masters \in Seq(Master)
  /\ reg.servers \in Seq(Infos)
  /\ reg.info \in Seq(Info) /\ Len(reg.info) <= MaxInfos
  /\ freed \subseteq Infos /\ twice \subseteq freed /\ undefined \in BOOLEAN

Alive == Members(reg.servers)
Occurrences(s, e) == Cardinality({i \in 1..Len(s) : s[i] = e})

\* A server keeps at least as many ids as masters with that id list it, so that
\* UnrefServer always finds the one it takes away and RemoveMaster never asks a
\* vector to remove position -1 (CslGame.cpp:422-427).
IdsCoverLists ==
  \A o \in Alive : \A id \in {m.id : m \in Members(reg.masters)} :
    Cardinality({p \in Listing(reg, o) : reg.masters[p].id = id})
      <= Occurrences(reg.info[o].ids, id)

\* A server that is deleted while one master at most lists it leaves no pointer
\* behind; only two masters make the deletion miss one (CslGame.cpp:187-199).
DanglingOnlyIfTwice ==
  \A p \in 1..Len(reg.masters) : Members(reg.masters[p].list) \cap freed \subseteq twice

\* Whichever of the ways above servers came in: no two of a game are equal; a
\* master lists none twice, and one whose id an earlier master has lists none at
\* all, as AddServer gives them to the other; what a master lists has the default
\* flag, without which its list would not show it (CslGame.cpp:97-110,145-168,
\* CslListCtrlServer.cpp:1143).
ListsSound ==
  /\ \A i, j \in 1..Len(reg.servers) :
       reg.info[reg.servers[i]].addr = reg.info[reg.servers[j]].addr => i = j
  /\ \A p \in 1..Len(reg.masters) :
       /\ IsInjective(reg.masters[p].list)
       /\ MasterAt(reg, reg.masters[p].id) # p => reg.masters[p].list = <<>>
  /\ \A o \in Alive : Listing(reg, o) # {} => "default" \in reg.info[o].view

ListedAt(r, p) == {r.info[o].addr : o \in Members(r.masters[p].list)}

\* An answer replaces the list of the master it came from, unless its id is also
\* an earlier master's, and changes no other (CslEngine.cpp:467-510).
AnswerReplaces ==
  \A p \in 1..Len(reg.masters), answer \in Answers :
    ~Dangling(p) /\ MasterAt(reg, reg.masters[p].id) = p =>
      LET r == Listed(reg, p, answer)
      IN \A q \in 1..Len(reg.masters) :
           ListedAt(r, q) = IF q = p THEN Members(answer) ELSE ListedAt(reg, q)

\* A server whose ids are all of masters that list it would be there again after
\* a restart, with its flags and in the same masters' lists, although the masters
\* may have other ids then, if no game before this one in the file has a master
\* with one of its ids and another place (CslFrame.cpp:1434-1704).
Consistent(o) ==
  \A id \in Members(reg.info[o].ids) : \E p \in Listing(reg, o) : reg.masters[p].id = id

Agrees(before, o) ==
  \A id \in Members(reg.info[o].ids) :
    Mapped(before, reg.masters, id) = Mapped(<<>>, reg.masters, id)

ConnsListing(r, o) == {r.masters[p].conn : p \in Listing(r, o)}

RestartKeeps ==
  \A before \in Earlier :
    LET r == Reload(reg, before)
    IN \A o \in {k \in Alive : Consistent(k) /\ Agrees(before, k)} :
         \E n \in Members(r.servers) :
           /\ r.info[n].addr = reg.info[o].addr
           /\ r.info[n].view = reg.info[o].view
           /\ ConnsListing(r, n) = ConnsListing(reg, o)
=============================================================================
