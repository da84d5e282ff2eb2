---------------------------- MODULE DwPollProofs ----------------------------
(***************************************************************************)
(* The interest that the three back ends of src/dw_poll.c keep, for every  *)
(* set of descriptors, every size of the arrays and everything callers     *)
(* attach: an entry is of the last call for its descriptor, and select,    *)
(* poll and epoll implement AbsPoll.                                       *)
(*                                                                         *)
(* EntriesAreCurrent is not inductive.  What carries it is that a          *)
(* descriptor that is not open is asked for nothing, hence has no entry    *)
(* that a dw_poll_add could double, and, for the refinement, what the      *)
(* ONESHOT flag of an entry says of the last call and of its revents.      *)
(***************************************************************************)
EXTENDS DwPoll, WellFoundedInduction, TLAPS

Aux == {"none"} \cup UNION {AuxValues[f] : f \in Fds}
Entries == [fd : Fds, flags : SUBSET Flags, aux : Aux]
PollEntries == [fd : Fds, flags : SUBSET Flags, aux : Aux, revents : SUBSET Events]
Asks == [flags : SUBSET Events, aux : Aux]

Typed ==
  /\ poll_type \in {"DW_SELECT", "DW_POLL", "DW_EPOLL"}
  /\ rd \in Seq(Entries) /\ wr \in Seq(Entries) /\ pl \in Seq(PollEntries)
  /\ ep \in [Fds -> Asks]
  /\ asked \in [Fds -> Asks]
  /\ iter \in Nat
  /\ once \in SUBSET Fds
  /\ Listen \in open

\* The lists of the other back ends are not used.
OwnLists ==
  /\ poll_type # "DW_SELECT" => rd = <<>> /\ wr = <<>>
  /\ poll_type # "DW_POLL" => pl = <<>>

\* A descriptor has one entry in a list.
Uniq(l) == \A i, j \in DOMAIN l : l[i].fd = l[j].fd => i = j

\* An entry of a list of the select back end, for the event e.
SelectEntry(x, e) ==
  /\ e \in asked[x.fd].flags /\ x.aux = asked[x.fd].aux
  /\ "ONESHOT" \in x.flags => x.fd \in once

\* An entry of the poll back end.  One with ONESHOT is for one event.
PolledEntry(x) ==
  /\ x.flags \cap Events # {} /\ x.flags \cap Events \subseteq asked[x.fd].flags
  /\ x.aux = asked[x.fd].aux
  /\ "ONESHOT" \in x.flags =>
       x.fd \in once /\ \E e \in Events : x.flags \cap Events = {e} /\ x.revents \subseteq {e}

Lists ==
  /\ Uniq(rd) /\ \A x \in ToSet(rd) : SelectEntry(x, "IN")
  /\ Uniq(wr) /\ \A x \in ToSet(wr) : SelectEntry(x, "OUT")
  /\ Uniq(pl) /\ \A x \in ToSet(pl) : PolledEntry(x)
  /\ poll_type = "DW_EPOLL" => \A f \in Fds : ep[f].flags \subseteq asked[f].flags

\* Nothing is asked of a descriptor that is closed.
ClosedIsForgotten == \A f \in Fds : f \notin open => asked[f] = Nothing

IInv == /\ Typed /\ OwnLists /\ Lists /\ ClosedIsForgotten
        /\ pc # "handle" => call = <<>>
-----------------------------------------------------------------------------
\* The entries of a list are of the type of the list.
LEMMA Elements == ASSUME NEW S, NEW l \in Seq(S) PROVE \A x \in ToSet(l) : x \in S
BY DEF ToSet

\* Deletion by moving the last entry into the hole, of dw_select_del_rd_pos,
\* dw_select_del_wr_pos and dw_poll_del_pos: that entry goes, and no other.
LEMMA DelList ==
  ASSUME NEW S, NEW l \in Seq(S), Uniq(l), NEW i \in 1 .. Len(l)
  PROVE  /\ DelPos(l, i) \in Seq(S) /\ Uniq(DelPos(l, i))
         /\ ToSet(DelPos(l, i)) = ToSet(l) \ {l[i]}
<1> DEFINE n == Len(l)
           d == DelPos(l, i)
           F == SubSeq(l, 1, n - 1)
<1>1. n \in Nat \ {0} /\ DOMAIN l = 1 .. n /\ i \in 1 .. n
  OBVIOUS
<1>2. F \in Seq(S) /\ Len(F) = n - 1 /\ DOMAIN F = 1 .. n - 1
      /\ \A j \in 1 .. n - 1 : F[j] = l[j]
  BY <1>1
<1>3. /\ d \in Seq(S) /\ DOMAIN d = 1 .. n - 1
      /\ \A j \in 1 .. n - 1 : j # i => d[j] = l[j]
      /\ i \in 1 .. n - 1 => d[i] = l[n]
  <2>1. CASE i = n
    <3>1. d = F
      BY <2>1 DEF DelPos, Front
    <3> QED
      BY <2>1, <3>1, <1>1, <1>2
  <2>2. CASE i # n
    <3>1. d = [F EXCEPT ![i] = l[n]]
      BY <2>2 DEF DelPos, Front, Last
    <3> HIDE DEF d, F, n
    <3>2. i \in 1 .. n - 1
      BY <2>2, <1>1
    <3> QED
      BY <3>1, <3>2, <1>1, <1>2
  <2> QED
    BY <2>1, <2>2
<1> HIDE DEF d, F, n
<1>4. \A j, k \in 1 .. n : l[j].fd = l[k].fd => j = k
  BY <1>1 DEF Uniq
<1>5. Uniq(d)
  <2> SUFFICES ASSUME NEW j \in 1 .. n - 1, NEW k \in 1 .. n - 1, d[j].fd = d[k].fd
               PROVE  j = k
    BY <1>3 DEF Uniq
  <2>1. j \in 1 .. n /\ k \in 1 .. n /\ n \in 1 .. n /\ j # n /\ k # n
    BY <1>1
  <2>2. CASE j = i /\ k # i
    BY Zenon, <2>1, <2>2, <1>3, <1>4
  <2>3. CASE j # i /\ k = i
    BY Zenon, <2>1, <2>3, <1>3, <1>4
  <2>4. CASE j # i /\ k # i
    BY Zenon, <2>1, <2>4, <1>3, <1>4
  <2> QED
    BY ZenonT(30), <2>2, <2>3, <2>4
<1>6. ToSet(d) = ToSet(l) \ {l[i]}
  <2>1. ASSUME NEW j \in 1 .. n - 1 PROVE d[j] \in ToSet(l) \ {l[i]}
    <3>1. j \in 1 .. n /\ n \in 1 .. n /\ j # n /\ i \in 1 .. n
      BY <1>1
    <3>2. CASE j = i
      <4>1. d[j] = l[n] /\ n # i
        BY <3>1, <3>2, <1>3
      <4>2. l[n] # l[i]
        BY Zenon, <4>1, <3>1, <1>4
      <4> QED
        BY Zenon, <4>1, <4>2, <3>1, <1>1 DEF ToSet
    <3>3. CASE j # i
      <4>1. d[j] = l[j] /\ l[j] # l[i]
        BY Zenon, <3>1, <3>3, <1>3, <1>4
      <4> QED
        BY Zenon, <4>1, <3>1, <1>1 DEF ToSet
    <3> QED
      BY Zenon, <3>2, <3>3
  <2>2. ASSUME NEW j \in 1 .. n, l[j] # l[i] PROVE l[j] \in ToSet(d)
    <3>1. j # i
      BY <2>2
    <3>2. CASE j = n
      <4>1. i \in 1 .. n - 1
        BY <3>1, <3>2, <1>1
      <4> QED
        BY <3>2, <4>1, <1>3 DEF ToSet
    <3>3. CASE j # n
      <4>1. j \in 1 .. n - 1
        BY <3>3, <1>1
      <4> QED
        BY Zenon, <4>1, <3>1, <1>3 DEF ToSet
    <3> QED
      BY Zenon, <3>2, <3>3
  <2>3. ToSet(d) = {d[j] : j \in 1 .. n - 1} /\ ToSet(l) = {l[j] : j \in 1 .. n}
    BY Zenon, <1>1, <1>3 DEF ToSet
  <2> QED
    BY Zenon, <2>1, <2>2, <2>3
<1> QED
  BY <1>3, <1>5, <1>6 DEF d

\* A new entry at the end, for a descriptor that has none.
LEMMA AddList ==
  ASSUME NEW S, NEW l \in Seq(S), Uniq(l), NEW x \in S,
         \A y \in ToSet(l) : y.fd # x.fd
  PROVE  /\ Append(l, x) \in Seq(S) /\ Uniq(Append(l, x))
         /\ ToSet(Append(l, x)) = ToSet(l) \cup {x}
<1> DEFINE n == Len(l)
           d == Append(l, x)
<1>1. n \in Nat /\ DOMAIN l = 1 .. n
  OBVIOUS
<1>2. /\ d \in Seq(S) /\ DOMAIN d = 1 .. n + 1
      /\ d[n + 1] = x /\ \A j \in 1 .. n : d[j] = l[j]
  OBVIOUS
<1> HIDE DEF n, d
<1>3. \A j \in 1 .. n : l[j].fd # x.fd
  BY <1>1 DEF ToSet
<1>4. \A j \in 1 .. n + 1 : j \in 1 .. n \/ j = n + 1
  BY <1>1
<1>5. Uniq(d)
  <2> SUFFICES ASSUME NEW j \in 1 .. n + 1, NEW k \in 1 .. n + 1, d[j].fd = d[k].fd
               PROVE  j = k
    BY <1>2 DEF Uniq
  <2> QED
    BY Zenon, <1>1, <1>2, <1>3, <1>4 DEF Uniq
<1>6. ToSet(d) = ToSet(l) \cup {x}
  <2>1. ToSet(d) = {d[j] : j \in 1 .. n + 1} /\ ToSet(l) = {l[j] : j \in 1 .. n}
    BY Zenon, <1>1, <1>2 DEF ToSet
  <2>2. n + 1 \in 1 .. n + 1 /\ \A j \in 1 .. n : j \in 1 .. n + 1
    BY <1>1
  <2> QED
    BY Zenon, <2>1, <2>2, <1>2, <1>4
<1> QED
  BY Zenon, <1>2, <1>5, <1>6 DEF d

\* The search for a descriptor finds its entry, if it has one.
LEMMA Found ==
  ASSUME NEW S, NEW l \in Seq(S), Uniq(l), NEW f
  PROVE  \/ /\ Position(l, f) \in 1 .. Len(l)
            /\ l[Position(l, f)].fd = f
            /\ \A x \in ToSet(l) : x.fd = f => x = l[Position(l, f)]
         \/ Position(l, f) = Len(l) + 1 /\ \A x \in ToSet(l) : x.fd # f
<1> DEFINE at == {i \in DOMAIN l : l[i].fd = f}
<1>1. DOMAIN l = 1 .. Len(l) /\ Len(l) \in Nat
  OBVIOUS
<1>2. CASE at = {}
  BY <1>2 DEF Position, ToSet
<1>3. CASE at # {}
  <2>1. PICK i \in DOMAIN l : l[i].fd = f
    BY <1>3
  <2>2. at = {i}
    BY <2>1 DEF Uniq
  <2>3. Min({i}) = i
    <3>1. i \in Int
      BY <2>1, <1>1
    <3> QED
      BY <3>1 DEF Min
  <2>4. Position(l, f) = i
    BY Zenon, <2>2, <2>3 DEF Position
  <2>5. \A x \in ToSet(l) : x.fd = f => x = l[i]
    BY Zenon, <2>1 DEF ToSet, Uniq
  <2> QED
    BY Zenon, <2>1, <2>4, <2>5, <1>1
<1> QED
  BY Zenon, <1>2, <1>3
-----------------------------------------------------------------------------
\* What a list l becomes when the entries of f are replaced by those of New.
Replaced(l, m, f, New) ==
  /\ Uniq(m)
  /\ \A x \in ToSet(m) : (x \in ToSet(l) /\ x.fd # f) \/ x \in New
  /\ \A x \in ToSet(l) : x.fd # f => x \in ToSet(m)

\* The entries that dw_poll_add and dw_poll_mod make for f.
SelectEntriesOf(e, f, flags, aux) ==
  {x \in Entries : e \in flags /\ x.fd = f /\ x.aux = aux /\ x.flags \subseteq flags}
PollEntriesOf(f, flags, aux) ==
  {x \in PollEntries : /\ x.flags \cap Events # {} /\ x.flags \subseteq flags
                       /\ x.flags \cap Events = flags \cap Events
                       /\ x.fd = f /\ x.aux = aux
                       /\ "ONESHOT" \in x.flags => x.revents = {}}

\* Deletion as a change of the entries of one descriptor.
LEMMA Deleted ==
  ASSUME NEW S, NEW l \in Seq(S), Uniq(l), NEW i \in 1 .. Len(l), NEW New
  PROVE  LET m == DelPos(l, i)
         IN  /\ m \in Seq(S) /\ Replaced(l, m, l[i].fd, New)
             /\ \A x \in ToSet(m) : x.fd # l[i].fd
<1> DEFINE m == DelPos(l, i)
<1>1. m \in Seq(S) /\ Uniq(m) /\ ToSet(m) = ToSet(l) \ {l[i]}
  BY Zenon, DelList
<1>2. \A x \in ToSet(l) : x.fd = l[i].fd => x = l[i]
  BY DEF ToSet, Uniq
<1> HIDE DEF m
<1>3. m \in Seq(S) /\ Replaced(l, m, l[i].fd, New) /\ \A x \in ToSet(m) : x.fd # l[i].fd
  BY Zenon, <1>1, <1>2 DEF Replaced
<1> QED
  BY <1>3 DEF m

\* Addition as a change of the entries of one descriptor.
LEMMA Added ==
  ASSUME NEW S, NEW l \in Seq(S), Uniq(l), NEW x \in S, NEW New, x \in New,
         \A y \in ToSet(l) : y.fd # x.fd
  PROVE  LET m == Append(l, x)
         IN  m \in Seq(S) /\ Replaced(l, m, x.fd, New) /\ x \in ToSet(m)
<1> DEFINE m == Append(l, x)
<1>1. m \in Seq(S) /\ Uniq(m) /\ ToSet(m) = ToSet(l) \cup {x}
  BY AddList
<1> HIDE DEF m
<1>2. m \in Seq(S) /\ Replaced(l, m, x.fd, New) /\ x \in ToSet(m)
  BY <1>1 DEF Replaced
<1> QED
  BY Zenon, <1>2 DEF m

\* An entry rewritten in its place.
LEMMA Rewritten ==
  ASSUME NEW S, NEW l \in Seq(S), Uniq(l), NEW i \in 1 .. Len(l), NEW x \in S,
         x.fd = l[i].fd, NEW New, x \in New, NEW d, d = [l EXCEPT ![i] = x]
  PROVE  d \in Seq(S) /\ Replaced(l, d, x.fd, New) /\ x \in ToSet(d)
<1> DEFINE n == Len(l)
<1>1. n \in Nat /\ DOMAIN l = 1 .. n /\ i \in 1 .. n
  OBVIOUS
<1>2. d \in Seq(S) /\ DOMAIN d = 1 .. n /\ d[i] = x
      /\ \A j \in 1 .. n : j # i => d[j] = l[j]
  OBVIOUS
<1> HIDE DEF n
<1>3. \A j, k \in 1 .. n : l[j].fd = l[k].fd => j = k
  BY <1>1 DEF Uniq
<1>4. \A j \in 1 .. n : d[j].fd = l[j].fd
  BY Zenon, <1>1, <1>2
<1>5. Uniq(d)
  BY <1>2, <1>3, <1>4 DEF Uniq
<1>6. ToSet(d) = (ToSet(l) \ {l[i]}) \cup {x}
  <2>1. ToSet(d) = {d[j] : j \in 1 .. n} /\ ToSet(l) = {l[j] : j \in 1 .. n}
    BY ZenonT(30), <1>1, <1>2 DEF ToSet
  <2>2. \A j \in 1 .. n : l[j] = l[i] => j = i
    BY Zenon, <1>1, <1>3
  <2>3. ASSUME NEW y \in ToSet(d) PROVE y \in (ToSet(l) \ {l[i]}) \cup {x}
    <3>1. PICK j \in 1 .. n : y = d[j]
      BY Zenon, <2>1
    <3> QED
      BY Zenon, <3>1, <2>1, <2>2, <1>2
  <2>4. ASSUME NEW y \in (ToSet(l) \ {l[i]}) \cup {x} PROVE y \in ToSet(d)
    <3>1. CASE y = x
      BY Zenon, <3>1, <2>1, <1>1, <1>2
    <3>2. CASE y \in ToSet(l) \ {l[i]}
      <4>1. PICK j \in 1 .. n : y = l[j] /\ j # i
        BY Zenon, <3>2, <2>1
      <4> QED
        BY Zenon, <4>1, <2>1, <1>2
    <3> QED
      BY Zenon, <3>1, <3>2
  <2> QED
    BY Zenon, <2>3, <2>4
<1>7. \A y \in ToSet(l) : y.fd = x.fd => y = l[i]
  BY DEF ToSet, Uniq
<1> QED
  BY Zenon, <1>2, <1>5, <1>6, <1>7 DEF Replaced

\* dw_poll_mod for select leaves f in the list of e exactly if it asks for e.
LEMMA SelectModList ==
  ASSUME NEW l \in Seq(Entries), Uniq(l), NEW e \in Events, NEW f \in Fds,
         NEW flags \in SUBSET Flags, NEW aux \in Aux,
         NEW m, m = SelectMod(l, e, f, flags, aux)
  PROVE  /\ m \in Seq(Entries)
         /\ Replaced(l, m, f, SelectEntriesOf(e, f, flags, aux))
         /\ (\E x \in ToSet(m) : x.fd = f) <=> e \in flags
<1> DEFINE i == Position(l, f)
           New == SelectEntriesOf(e, f, flags, aux)
           x == Entry(f, flags, aux)
           y == Entry(f, flags \ {"ONESHOT"}, aux)
<1>1. Len(l) \in Nat
  OBVIOUS
<1>2. x \in Entries /\ x.fd = f /\ x.aux = aux /\ x.flags = flags
  BY DEF Entry, Entries
<1>3. y \in Entries /\ y.fd = f /\ y.aux = aux /\ y.flags = flags \ {"ONESHOT"}
  BY DEF Entry, Entries
<1>4. /\ i <= Len(l) /\ e \notin flags => m = DelPos(l, i)
      /\ i > Len(l) /\ ~(i <= Len(l)) /\ e \in flags => m = Append(l, x)
      /\ i <= Len(l) /\ ~(i > Len(l)) /\ e \in flags => m = [l EXCEPT ![i] = y]
      /\ i > Len(l) /\ ~(i <= Len(l)) /\ e \notin flags => m = l
  BY DEF SelectMod
<1> HIDE DEF x, y
<1>5. e \in flags => x \in New /\ y \in New
  BY Zenon, <1>2, <1>3 DEF SelectEntriesOf
<1> HIDE DEF New
<1>6. CASE i \in 1 .. Len(l) /\ l[i].fd = f
  <2>0. i <= Len(l) /\ ~(i > Len(l))
    BY <1>1, <1>6
  <2> HIDE DEF i
  <2>1. CASE e \notin flags
    <3>1. m = DelPos(l, i)
      BY Zenon, <2>0, <2>1, <1>4
    <3>2. m \in Seq(Entries) /\ Replaced(l, m, l[i].fd, New) /\ \A z \in ToSet(m) : z.fd # l[i].fd
      BY Zenon, <3>1, <1>6, Deleted
    <3> QED
      BY Zenon, <3>2, <2>1, <1>6 DEF New
  <2>2. CASE e \in flags
    <3>1. m = [l EXCEPT ![i] = y]
      BY Zenon, <2>0, <2>2, <1>4
    <3>2. m \in Seq(Entries) /\ Replaced(l, m, y.fd, New) /\ y \in ToSet(m)
      BY Zenon, <3>1, <2>2, <1>3, <1>5, <1>6, Rewritten
    <3> QED
      BY Zenon, <3>2, <2>2, <1>3 DEF New
  <2> QED
    BY Zenon, <2>1, <2>2
<1>7. CASE i = Len(l) + 1 /\ \A z \in ToSet(l) : z.fd # f
  <2>0. i > Len(l) /\ ~(i <= Len(l))
    BY <1>1, <1>7
  <2> HIDE DEF i
  <2>1. CASE e \notin flags
    <3>1. m = l
      BY Zenon, <2>0, <2>1, <1>4
    <3> QED
      BY Zenon, <3>1, <2>1, <1>7 DEF Replaced
  <2>2. CASE e \in flags
    <3>1. m = Append(l, x)
      BY Zenon, <2>0, <2>2, <1>4
    <3>2. m \in Seq(Entries) /\ Replaced(l, m, x.fd, New) /\ x \in ToSet(m)
      BY ZenonT(30), <3>1, <2>2, <1>2, <1>5, <1>7, Added
    <3> QED
      BY Zenon, <3>2, <2>2, <1>2 DEF New
  <2> QED
    BY <2>1, <2>2
<1> QED
  BY <1>6, <1>7, Found

\* The flags of the calls of src/dw_node.c.
Legal(flags) == flags \in AddFlags \cup ModFlags \cup {{}}

\* The flags that callers pass, ONESHOT with one event only.
LEMMA LegalFlags ==
  ASSUME NEW flags, Legal(flags)
  PROVE  /\ flags \in SUBSET Flags
         /\ flags \cap Events = {} => flags = {}
         /\ "ONESHOT" \in flags => \E e \in Events : flags \cap Events = {e}
BY Zenon DEF Legal, AddFlags, ModFlags, Flags, Events

\* dw_poll_mod for poll leaves f an entry with the events it asks for, if any.
LEMMA PollModList ==
  ASSUME NEW l \in Seq(PollEntries), Uniq(l), NEW f \in Fds,
         NEW flags, Legal(flags), NEW aux \in Aux, NEW m, m = PollMod(l, f, flags, aux)
  PROVE  /\ m \in Seq(PollEntries)
         /\ Replaced(l, m, f, PollEntriesOf(f, flags, aux))
         /\ (\E x \in ToSet(m) : x.fd = f) <=> flags \cap Events # {}
<1> DEFINE i == Position(l, f)
           New == PollEntriesOf(f, flags, aux)
           x == PollEntry(f, flags, aux, {})
           y == PollEntry(f, flags \ {"ONESHOT"}, aux, l[i].revents)
           any == flags \cap Events # {}
<1>0. flags \in SUBSET Flags /\ (flags \cap Events = {} => flags = {})
  BY Zenon, LegalFlags
<1>1. Len(l) \in Nat
  OBVIOUS
<1>2. x \in PollEntries /\ x.fd = f /\ x.aux = aux /\ x.flags = flags /\ x.revents = {}
  BY Zenon, <1>0 DEF PollEntry, PollEntries
<1>3. ASSUME l[i] \in PollEntries
      PROVE  y \in PollEntries /\ y.fd = f /\ y.aux = aux /\ y.flags = flags \ {"ONESHOT"}
  BY Zenon, <1>0, <1>3 DEF PollEntry, PollEntries
<1>4. /\ i <= Len(l) /\ ~any => m = DelPos(l, i)
      /\ i > Len(l) /\ ~(i <= Len(l)) /\ any => m = Append(l, x)
      /\ i <= Len(l) /\ ~(i > Len(l)) /\ any => m = [l EXCEPT ![i] = y]
      /\ i > Len(l) /\ ~(i <= Len(l)) /\ ~any => m = l
  BY Zenon, <1>0 DEF PollMod
<1> HIDE DEF x, y
<1>5. any => x \in New /\ (l[i] \in PollEntries => y \in New)
  BY <1>0, <1>2, <1>3 DEF PollEntriesOf, Events
<1> HIDE DEF New
<1>6. CASE i \in 1 .. Len(l) /\ l[i].fd = f
  <2>0. i <= Len(l) /\ ~(i > Len(l)) /\ l[i] \in PollEntries
    BY <1>1, <1>6
  <2> HIDE DEF i, any
  <2>1. CASE ~any
    <3>1. m = DelPos(l, i)
      BY Zenon, <2>0, <2>1, <1>4
    <3>2. m \in Seq(PollEntries) /\ Replaced(l, m, l[i].fd, New) /\ \A z \in ToSet(m) : z.fd # l[i].fd
      BY Zenon, <3>1, <1>6, Deleted
    <3> QED
      BY Zenon, <3>2, <2>1, <1>6 DEF New, any
  <2>2. CASE any
    <3>1. m = [l EXCEPT ![i] = y]
      BY Zenon, <2>0, <2>2, <1>4
    <3>2. m \in Seq(PollEntries) /\ Replaced(l, m, y.fd, New) /\ y \in ToSet(m)
      BY Zenon, <3>1, <2>0, <2>2, <1>3, <1>5, <1>6, Rewritten
    <3> QED
      BY Zenon, <3>2, <2>0, <2>2, <1>3 DEF New, any
  <2> QED
    BY Zenon, <2>1, <2>2
<1>7. CASE i = Len(l) + 1 /\ \A z \in ToSet(l) : z.fd # f
  <2>0. i > Len(l) /\ ~(i <= Len(l))
    BY <1>1, <1>7
  <2> HIDE DEF i, any
  <2>1. CASE ~any
    <3>1. m = l
      BY Zenon, <2>0, <2>1, <1>4
    <3> QED
      BY Zenon, <3>1, <2>1, <1>7 DEF Replaced, any
  <2>2. CASE any
    <3>1. m = Append(l, x)
      BY Zenon, <2>0, <2>2, <1>4
    <3>2. m \in Seq(PollEntries) /\ Replaced(l, m, x.fd, New) /\ x \in ToSet(m)
      BY ZenonT(30), <3>1, <2>2, <1>2, <1>5, <1>7, Added
    <3> QED
      BY <3>2, <2>2, <1>2 DEF New, any
  <2> QED
    BY <2>1, <2>2
<1> QED
  BY Zenon, <1>6, <1>7, Found

\* Every nonempty set of naturals has a least element.
LEMMA LeastElement ==
  ASSUME NEW T \in SUBSET Nat, T # {}
  PROVE  \E x \in T : \A y \in T : x <= y
<1> DEFINE R == {p \in Nat \X Nat : p[1] < p[2]}
<1>1. IsWellFoundedOn(R, Nat)
  BY Zenon, NatLessThanWellFounded DEF OpToRel
<1>2. \E x \in T : \A y \in T : ~ (<<y, x>> \in R)
  <2> HIDE DEF R
  <2> QED
    BY Zenon, <1>1, WFMin
<1>3. PICK x \in T : \A y \in T : ~ (<<y, x>> \in R)
  BY Zenon, <1>2
<1>4. \A y \in T : y \in Nat /\ x \in Nat /\ (y < x => <<y, x>> \in R)
  OBVIOUS
<1> HIDE DEF R
<1>5. \A y \in T : ~(y < x)
  BY Zenon, <1>3, <1>4
<1>6. \A y \in T : x <= y
  BY <1>4, <1>5
<1> QED
  BY Zenon, <1>6

\* dw_poll_next stops at an entry of the list, and at one of those it looks for.
LEMMA ScanFinds ==
  ASSUME NEW S, NEW l \in Seq(S), NEW from \in Nat, NEW found
  PROVE  /\ Scan(l, from, found) \in Nat
         /\ Scan(l, from, found) < Len(l) =>
              /\ Scan(l, from, found) + 1 \in 1 .. Len(l)
              /\ l[Scan(l, from, found) + 1] \in found
<1> DEFINE hits == {i \in from .. Len(l) - 1 : l[i + 1] \in found}
<1>1. Len(l) \in Nat
  OBVIOUS
<1>2. CASE hits = {}
  <2>1. Scan(l, from, found) = Max({from, Len(l)})
    BY <1>2 DEF Scan
  <2>2. \E x \in {from, Len(l)} : \A y \in {from, Len(l)} : x >= y
    BY <1>1
  <2>3. Max({from, Len(l)}) \in {from, Len(l)} /\ \A y \in {from, Len(l)} : Max({from, Len(l)}) >= y
    BY Zenon, <2>2 DEF Max
  <2> QED
    BY <2>1, <2>3, <1>1
<1>3. CASE hits # {}
  <2>1. Scan(l, from, found) = Min(hits)
    BY ZenonT(30), <1>3 DEF Scan
  <2>2. hits \in SUBSET Nat
    BY <1>1
  <2>3. \E x \in hits : \A y \in hits : x <= y
    <3> HIDE DEF hits
    <3> QED
      BY ZenonT(30), <2>2, <1>3, LeastElement
  <2>4. Min(hits) \in hits
    <3> HIDE DEF hits
    <3> QED
      BY ZenonT(30), <2>3 DEF Min
  <2> QED
    BY <2>1, <2>4, <1>1
<1> QED
  BY <1>2, <1>3
-----------------------------------------------------------------------------
\* Polled, as a function of the lists.
PolledOf(t, r, w, p, q, f) ==
  CASE t = "DW_SELECT" ->
         {e \in Events : \E i \in DOMAIN (IF e = "IN" THEN r ELSE w) :
                           (IF e = "IN" THEN r ELSE w)[i].fd = f}
    [] t = "DW_POLL" ->
         UNION {p[i].flags \cap Events : i \in {j \in DOMAIN p : p[j].fd = f}}
    [] OTHER -> q[f].flags

\* What is polled is a function of the lists.
LEMMA PolledAsValue ==
  /\ \A f \in Fds : Polled(f) = PolledOf(poll_type, rd, wr, pl, ep, f)
  /\ \A f \in Fds : Polled(f)' = PolledOf(poll_type', rd', wr', pl', ep', f)
BY ZenonT(30) DEF Polled, PolledOf

\* Which events a descriptor is polled for, by the entries it has.
LEMMA PolledIs ==
  ASSUME NEW r, NEW w, NEW p, NEW q, NEW f
  PROVE  /\ PolledOf("DW_SELECT", r, w, p, q, f) \subseteq Events
         /\ "IN" \in PolledOf("DW_SELECT", r, w, p, q, f) <=> \E x \in ToSet(r) : x.fd = f
         /\ "OUT" \in PolledOf("DW_SELECT", r, w, p, q, f) <=> \E x \in ToSet(w) : x.fd = f
         /\ \A e : e \in PolledOf("DW_POLL", r, w, p, q, f) <=>
                     \E x \in ToSet(p) : x.fd = f /\ e \in x.flags \cap Events
         /\ PolledOf("DW_EPOLL", r, w, p, q, f) = q[f].flags
<1>1. PolledOf("DW_SELECT", r, w, p, q, f) =
         {e \in Events : \E i \in DOMAIN (IF e = "IN" THEN r ELSE w) :
                           (IF e = "IN" THEN r ELSE w)[i].fd = f}
  BY DEF PolledOf
<1>2. PolledOf("DW_POLL", r, w, p, q, f) =
         UNION {p[i].flags \cap Events : i \in {j \in DOMAIN p : p[j].fd = f}}
  BY DEF PolledOf
<1>3. PolledOf("DW_EPOLL", r, w, p, q, f) = q[f].flags
  BY Zenon DEF PolledOf
<1>4. "IN" \in PolledOf("DW_SELECT", r, w, p, q, f) <=> \E i \in DOMAIN r : r[i].fd = f
  BY Zenon, <1>1 DEF Events
<1>5. "OUT" \in PolledOf("DW_SELECT", r, w, p, q, f) <=> \E i \in DOMAIN w : w[i].fd = f
  BY Zenon, <1>1 DEF Events
<1>6. ASSUME NEW e
      PROVE  e \in PolledOf("DW_POLL", r, w, p, q, f) <=>
               \E i \in DOMAIN p : p[i].fd = f /\ e \in p[i].flags \cap Events
  BY Zenon, <1>2
<1> QED
  BY ZenonT(30), <1>1, <1>3, <1>4, <1>5, <1>6 DEF ToSet

\* What a call for f does to the lists.
Redone(f, flags, aux) ==
  /\ rd' \in Seq(Entries) /\ wr' \in Seq(Entries) /\ pl' \in Seq(PollEntries)
  /\ ep' \in [Fds -> Asks]
  /\ OwnLists' /\ UNCHANGED poll_type
  /\ poll_type = "DW_SELECT" =>
       /\ Replaced(rd, rd', f, SelectEntriesOf("IN", f, flags, aux))
       /\ Replaced(wr, wr', f, SelectEntriesOf("OUT", f, flags, aux))
       /\ (\E x \in ToSet(rd') : x.fd = f) <=> "IN" \in flags
       /\ (\E x \in ToSet(wr') : x.fd = f) <=> "OUT" \in flags
  /\ poll_type = "DW_POLL" =>
       /\ Replaced(pl, pl', f, PollEntriesOf(f, flags, aux))
       /\ (\E x \in ToSet(pl') : x.fd = f) <=> flags \cap Events # {}
  /\ poll_type = "DW_EPOLL" =>
       /\ ep'[f].flags = flags \cap Events
       /\ \A g \in Fds : g # f => ep'[g] = ep[g]

\* What a call leaves in asked and once.
LEMMA AskedFor ==
  ASSUME IInv, NEW f \in Fds, NEW flags, Legal(flags), NEW aux \in Aux,
         Asked(f, flags, aux)
  PROVE  /\ asked' \in [Fds -> Asks] /\ once' \in SUBSET Fds
         /\ asked'[f].flags = flags \cap Events
         /\ flags \cap Events # {} => asked'[f].aux = aux
         /\ flags \cap Events = {} => asked'[f] = Nothing
         /\ "ONESHOT" \in flags => f \in once'
         /\ \A g \in Fds : g # f => asked'[g] = asked[g] /\ (g \in once => g \in once')
<1> DEFINE v == IF flags \cap Events = {} THEN Nothing
                ELSE [flags |-> flags \cap Events, aux |-> aux]
<1>1. v \in Asks /\ v.flags = flags \cap Events
  BY Zenon DEF Asks, Nothing, Aux
<1>2. asked \in [Fds -> Asks] /\ once \in SUBSET Fds
  BY Zenon DEF IInv, Typed
<1>3. /\ flags \cap Events # {} => v.aux = aux
      /\ flags \cap Events = {} => v = Nothing
  BY Zenon
<1>4. asked' = [asked EXCEPT ![f] = v]
  BY Zenon DEF Asked
<1>5. once' = IF "ONESHOT" \in flags THEN once \cup {f} ELSE once \ {f}
  BY DEF Asked
<1> HIDE DEF v
<1> QED
  BY Zenon, <1>1, <1>2, <1>3, <1>4, <1>5

\* A call makes the entries of its descriptor current and leaves the others.
LEMMA AskLists ==
  ASSUME IInv, NEW f \in Fds, NEW flags, Legal(flags), NEW aux \in Aux,
         Asked(f, flags, aux), Redone(f, flags, aux)
  PROVE  Lists'
<1>1. /\ asked'[f].flags = flags \cap Events
      /\ flags \cap Events # {} => asked'[f].aux = aux
      /\ "ONESHOT" \in flags => f \in once'
      /\ \A g \in Fds : g # f => asked'[g] = asked[g] /\ (g \in once => g \in once')
  BY Zenon, AskedFor
<1>2. IInv /\ poll_type \in {"DW_SELECT", "DW_POLL", "DW_EPOLL"}
  BY Zenon DEF IInv, Typed
<1>3. ASSUME NEW e \in Events, NEW l \in Seq(Entries), NEW x \in ToSet(l), x.fd # f,
             SelectEntry(x, e)
      PROVE  SelectEntry(x, e)'
  <2>1. x.fd \in Fds
    <3>1. x \in Entries
      BY Zenon, Elements
    <3> QED
      BY Zenon, <3>1 DEF Entries
  <2> QED
    BY Zenon, <1>1, <1>3, <2>1 DEF SelectEntry
<1>4. ASSUME NEW e \in Events, NEW x \in SelectEntriesOf(e, f, flags, aux)
      PROVE  SelectEntry(x, e)'
  <2>1. e \in flags /\ x.fd = f /\ x.aux = aux /\ x.flags \subseteq flags
    BY Zenon DEF SelectEntriesOf
  <2> QED
    BY Zenon, <1>1, <2>1 DEF SelectEntry
<1>5. ASSUME NEW x \in ToSet(pl), x.fd # f, PolledEntry(x)
      PROVE  PolledEntry(x)'
  <2>1. x.fd \in Fds
    <3>1. x \in PollEntries
      BY Zenon, Elements DEF IInv, Typed
    <3> QED
      BY Zenon, <3>1 DEF PollEntries
  <2> QED
    BY Zenon, <1>1, <1>5, <2>1 DEF PolledEntry
<1>6. ASSUME NEW x \in PollEntriesOf(f, flags, aux)
      PROVE  PolledEntry(x)'
  <2>1. /\ x.flags \cap Events # {} /\ x.flags \subseteq flags
        /\ x.flags \cap Events = flags \cap Events
        /\ x.fd = f /\ x.aux = aux
        /\ "ONESHOT" \in x.flags => x.revents = {}
    BY DEF PollEntriesOf
  <2>2. "ONESHOT" \in flags => \E e \in Events : flags \cap Events = {e}
    BY Zenon, LegalFlags
  <2> QED
    BY Zenon, <1>1, <2>1, <2>2 DEF PolledEntry
<1>7. ToSet(<<>>) = {} /\ Uniq(<<>>)
  BY DEF ToSet, Uniq
<1>8. CASE poll_type = "DW_SELECT"
  <2>1. pl' = <<>> /\ poll_type' # "DW_EPOLL"
    BY Zenon, <1>8 DEF Redone, OwnLists
  <2>2. Uniq(rd') /\ \A x \in ToSet(rd') : SelectEntry(x, "IN")'
    <3>1. "IN" \in Events /\ rd \in Seq(Entries)
      BY Zenon DEF Events, IInv, Typed
    <3>2. \A x \in ToSet(rd) : SelectEntry(x, "IN")
      BY Zenon DEF IInv, Lists
    <3> QED
      BY Zenon, <1>3, <1>4, <1>8, <3>1, <3>2 DEF Redone, Replaced
  <2>3. Uniq(wr') /\ \A x \in ToSet(wr') : SelectEntry(x, "OUT")'
    <3>1. "OUT" \in Events /\ wr \in Seq(Entries)
      BY Zenon DEF Events, IInv, Typed
    <3>2. \A x \in ToSet(wr) : SelectEntry(x, "OUT")
      BY Zenon DEF IInv, Lists
    <3> QED
      BY <1>3, <1>4, <1>8, <3>1, <3>2 DEF Redone, Replaced
  <2> QED
    BY Zenon, <2>1, <2>2, <2>3, <1>7 DEF Lists
<1>9. CASE poll_type = "DW_POLL"
  <2>1. rd' = <<>> /\ wr' = <<>> /\ poll_type' # "DW_EPOLL"
    BY Zenon, <1>9 DEF Redone, OwnLists
  <2>2. Uniq(pl') /\ \A x \in ToSet(pl') : PolledEntry(x)'
    <3>1. \A x \in ToSet(pl) : PolledEntry(x)
      BY Zenon DEF IInv, Lists
    <3> QED
      BY <1>5, <1>6, <1>9, <3>1 DEF Redone, Replaced
  <2> QED
    BY Zenon, <2>1, <2>2, <1>7 DEF Lists
<1>10. CASE poll_type = "DW_EPOLL"
  <2>1. rd' = <<>> /\ wr' = <<>> /\ pl' = <<>>
    BY Zenon, <1>10 DEF Redone, OwnLists
  <2>2. \A g \in Fds : ep'[g].flags \subseteq asked'[g].flags
    BY Zenon, <1>1, <1>10 DEF IInv, Lists, Redone
  <2> QED
    BY Zenon, <2>1, <2>2, <1>7 DEF Lists
<1> QED
  BY Zenon, <1>2, <1>8, <1>9, <1>10

\* The interest after a call is what it asks for, and that in other
\* descriptors is what it was.
LEMMA AskPolled ==
  ASSUME IInv, NEW f \in Fds, NEW flags, Legal(flags), NEW aux \in Aux,
         Redone(f, flags, aux)
  PROVE  \A g \in Fds : Polled(g)' = IF g = f THEN flags \cap Events ELSE Polled(g)
<1> SUFFICES ASSUME NEW g \in Fds
             PROVE  Polled(g)' = IF g = f THEN flags \cap Events ELSE Polled(g)
  BY Zenon
<1>1. /\ Polled(g) = PolledOf(poll_type, rd, wr, pl, ep, g)
      /\ Polled(g)' = PolledOf(poll_type, rd', wr', pl', ep', g)
  BY Zenon, PolledAsValue DEF Redone
<1>2. poll_type \in {"DW_SELECT", "DW_POLL", "DW_EPOLL"}
  BY Zenon DEF IInv, Typed
<1>3. CASE poll_type = "DW_SELECT"
  <2>1. /\ "IN" \in Polled(g) <=> \E x \in ToSet(rd) : x.fd = g
        /\ "OUT" \in Polled(g) <=> \E x \in ToSet(wr) : x.fd = g
        /\ Polled(g) \subseteq Events
    BY <1>1, <1>3, PolledIs
  <2>2. /\ "IN" \in Polled(g)' <=> \E x \in ToSet(rd') : x.fd = g
        /\ "OUT" \in Polled(g)' <=> \E x \in ToSet(wr') : x.fd = g
        /\ Polled(g)' \subseteq Events
    BY <1>1, <1>3, PolledIs
  <2>3. CASE g = f
    <3>1. /\ "IN" \in Polled(g)' <=> "IN" \in flags
          /\ "OUT" \in Polled(g)' <=> "OUT" \in flags
      BY Zenon, <2>2, <2>3, <1>3 DEF Redone
    <3> QED
      BY Zenon, <3>1, <2>2, <2>3 DEF Events
  <2>4. CASE g # f
    <3>1. (\E x \in ToSet(rd') : x.fd = g) <=> \E x \in ToSet(rd) : x.fd = g
      BY ZenonT(30), <2>4, <1>3 DEF Redone, Replaced, SelectEntriesOf
    <3>2. (\E x \in ToSet(wr') : x.fd = g) <=> \E x \in ToSet(wr) : x.fd = g
      BY ZenonT(30), <2>4, <1>3 DEF Redone, Replaced, SelectEntriesOf
    <3> QED
      BY <3>1, <3>2, <2>1, <2>2, <2>4 DEF Events
  <2> QED
    BY Zenon, <2>3, <2>4
<1>4. CASE poll_type = "DW_POLL"
  <2>1. \A e : e \in Polled(g) <=> \E x \in ToSet(pl) : x.fd = g /\ e \in x.flags \cap Events
    BY <1>1, <1>4, PolledIs
  <2>2. \A e : e \in Polled(g)' <=> \E x \in ToSet(pl') : x.fd = g /\ e \in x.flags \cap Events
    BY <1>1, <1>4, PolledIs
  <2>3. Replaced(pl, pl', f, PollEntriesOf(f, flags, aux))
        /\ ((\E x \in ToSet(pl') : x.fd = f) <=> flags \cap Events # {})
    BY Zenon, <1>4 DEF Redone
  <2>4. CASE g = f
    <3>1. \A x \in ToSet(pl') : x.fd = f => x.flags \cap Events = flags \cap Events
      BY Zenon, <2>3 DEF Replaced, PollEntriesOf
    <3>2. \A e : e \in Polled(g)' <=> e \in flags \cap Events
      BY Zenon, <2>2, <2>3, <2>4, <3>1
    <3> QED
      BY Zenon, <3>2, <2>4
  <2>5. CASE g # f
    <3>1. \A x : (x \in ToSet(pl') /\ x.fd = g) <=> (x \in ToSet(pl) /\ x.fd = g)
      BY <2>3, <2>5 DEF Replaced, PollEntriesOf
    <3>2. \A e : e \in Polled(g)' <=> e \in Polled(g)
      BY ZenonT(30), <2>1, <2>2, <3>1
    <3> QED
      BY Zenon, <3>2, <2>5
  <2> QED
    BY <2>4, <2>5
<1>5. CASE poll_type = "DW_EPOLL"
  <2>1. Polled(g) = ep[g].flags /\ Polled(g)' = ep'[g].flags
    BY <1>1, <1>5, PolledIs
  <2> QED
    BY Zenon, <2>1, <1>5 DEF Redone
<1> QED
  BY Zenon, <1>2, <1>3, <1>4, <1>5
-----------------------------------------------------------------------------
\* A step that AbsPoll allows.
PollStep == [Interest!Next]_(Interest!vars)

\* How the interest changes in a call, in an event and otherwise.
LEMMA AskStep ==
  ASSUME NEW f \in Fds, NEW E \in SUBSET Events, call' = <<f, E>>,
         once' \in {once \ {f}, once \cup {f}},
         \A g \in Fds : Polled(g)' = IF g = f THEN E ELSE Polled(g)
  PROVE  PollStep
<1> DEFINE P == [g \in Fds |-> Polled(g)]
           Q == [g \in Fds |-> Polled(g)']
<1>1. Q = [P EXCEPT ![f] = E]
  BY Zenon
<1>2. Interest!Ask(f, E)
  BY Zenon, <1>1 DEF Interest!Ask
<1> QED
  BY Zenon, <1>2 DEF PollStep, Interest!Next

\* Forgetting events of a ONESHOT descriptor is a Deliver of AbsPoll.
LEMMA DeliverStep ==
  ASSUME NEW f \in once \cap Fds, NEW E \in SUBSET Events, call' = <<>>, UNCHANGED once,
         \A g \in Fds : Polled(g)' = IF g = f THEN Polled(g) \ E ELSE Polled(g)
  PROVE  PollStep
<1> DEFINE P == [g \in Fds |-> Polled(g)]
           Q == [g \in Fds |-> Polled(g)']
<1>1. Q = [P EXCEPT ![f] = @ \ E]
  BY Zenon
<1>2. f \in {f} \cap once
  OBVIOUS
<1>3. Interest!Deliver(f, E)
  BY Zenon, <1>1, <1>2 DEF Interest!Deliver
<1> QED
  BY ZenonT(30), <1>3 DEF PollStep, Interest!Next

\* A step that polls for the same as before is at most an event of AbsPoll.
LEMMA SilentStep ==
  ASSUME UNCHANGED once, call' = call \/ call' = <<>>, Listen \in Fds,
         \A g \in Fds : Polled(g)' = Polled(g)
  PROVE  PollStep
<1> DEFINE P == [g \in Fds |-> Polled(g)]
           Q == [g \in Fds |-> Polled(g)']
<1>1. Q = P
  OBVIOUS
<1>2. CASE call' = call
  BY <1>1, <1>2 DEF PollStep, Interest!vars
<1>3. CASE call' = <<>>
  <2>1. Interest!Deliver(Listen, {})
    BY Zenon, <1>1, <1>3 DEF Interest!Deliver
  <2> QED
    BY Zenon, <2>1 DEF PollStep, Interest!Next
<1> QED
  BY Zenon, <1>2, <1>3
-----------------------------------------------------------------------------
\* dw_poll_mod.
LEMMA ModRedone ==
  ASSUME IInv, NEW f \in Fds, NEW flags, Legal(flags), NEW aux \in Aux,
         dw_poll_mod(f, flags, aux), UNCHANGED poll_type
  PROVE  Redone(f, flags, aux)
<1>1. /\ rd \in Seq(Entries) /\ wr \in Seq(Entries) /\ pl \in Seq(PollEntries)
      /\ ep \in [Fds -> Asks] /\ poll_type \in {"DW_SELECT", "DW_POLL", "DW_EPOLL"}
      /\ Uniq(rd) /\ Uniq(wr) /\ Uniq(pl) /\ OwnLists
  BY DEF IInv, Typed, Lists
<1>2. flags \in SUBSET Flags /\ (flags \cap Events = {} => flags = {})
  BY Zenon, LegalFlags
<1>3. CASE poll_type = "DW_SELECT"
  <2>1. /\ rd' = SelectMod(rd, "IN", f, flags, aux)
        /\ wr' = SelectMod(wr, "OUT", f, flags, aux)
        /\ UNCHANGED <<pl, ep>>
    BY Zenon, <1>3 DEF dw_poll_mod
  <2>2. "IN" \in Events /\ "OUT" \in Events
    BY Zenon DEF Events
  <2>3. /\ rd' \in Seq(Entries) /\ Replaced(rd, rd', f, SelectEntriesOf("IN", f, flags, aux))
        /\ (\E x \in ToSet(rd') : x.fd = f) <=> "IN" \in flags
    BY <2>1, <2>2, <1>1, <1>2, SelectModList
  <2>4. /\ wr' \in Seq(Entries) /\ Replaced(wr, wr', f, SelectEntriesOf("OUT", f, flags, aux))
        /\ (\E x \in ToSet(wr') : x.fd = f) <=> "OUT" \in flags
    BY <2>1, <2>2, <1>1, <1>2, SelectModList
  <2> QED
    BY Zenon, <2>1, <2>3, <2>4, <1>1, <1>3 DEF Redone, OwnLists
<1>4. CASE poll_type = "DW_POLL"
  <2>1. pl' = PollMod(pl, f, flags, aux) /\ UNCHANGED <<rd, wr, ep>>
    BY ZenonT(30), <1>4 DEF dw_poll_mod
  <2>2. /\ pl' \in Seq(PollEntries) /\ Replaced(pl, pl', f, PollEntriesOf(f, flags, aux))
        /\ (\E x \in ToSet(pl') : x.fd = f) <=> flags \cap Events # {}
    BY <2>1, <1>1, <1>2, PollModList
  <2> QED
    BY ZenonT(30), <2>1, <2>2, <1>1, <1>4 DEF Redone, OwnLists
<1>5. CASE poll_type = "DW_EPOLL"
  <2> DEFINE v == IF flags \cap Events = {} THEN Nothing
                  ELSE [flags |-> flags \cap Events, aux |-> aux]
  <2>1. ep' = [ep EXCEPT ![f] = v] /\ UNCHANGED <<rd, wr, pl>>
    BY ZenonT(30), <1>5 DEF dw_poll_mod
  <2>2. v \in Asks /\ v.flags = flags \cap Events
    BY ZenonT(30) DEF Asks, Nothing, Aux
  <2> HIDE DEF v
  <2>3. /\ ep' \in [Fds -> Asks] /\ ep'[f].flags = flags \cap Events
        /\ \A g \in Fds : g # f => ep'[g] = ep[g]
    BY ZenonT(30), <2>1, <2>2, <1>1
  <2> QED
    BY ZenonT(30), <2>1, <2>3, <1>1, <1>5 DEF Redone, OwnLists
<1> QED
  BY Zenon, <1>1, <1>3, <1>4, <1>5

\* dw_poll_add, of a descriptor that is not open yet.
LEMMA AddRedone ==
  ASSUME IInv, NEW f \in Fds, f \notin open, NEW flags \in AddFlags, NEW aux \in Aux,
         dw_poll_add(f, flags, aux), UNCHANGED poll_type
  PROVE  Redone(f, flags, aux)
<1>1. /\ rd \in Seq(Entries) /\ wr \in Seq(Entries) /\ pl \in Seq(PollEntries)
      /\ ep \in [Fds -> Asks] /\ poll_type \in {"DW_SELECT", "DW_POLL", "DW_EPOLL"}
      /\ Uniq(rd) /\ Uniq(wr) /\ Uniq(pl) /\ OwnLists
  BY Zenon DEF IInv, Typed, Lists
<1>2. flags \in SUBSET Flags /\ flags \in SUBSET Events /\ "ONESHOT" \notin flags /\ flags # {}
  BY Zenon DEF AddFlags, Flags, Events
<1>3. asked[f].flags = {}
  BY DEF IInv, ClosedIsForgotten, Nothing
<1>4. /\ \A x \in ToSet(rd) : x.fd # f
      /\ \A x \in ToSet(wr) : x.fd # f
      /\ \A x \in ToSet(pl) : x.fd # f
  BY ZenonT(30), <1>3 DEF IInv, Lists, SelectEntry, PolledEntry
<1>5. ASSUME NEW e \in Events, NEW l \in Seq(Entries), Uniq(l), \A x \in ToSet(l) : x.fd # f,
             NEW m, m = IF e \in flags THEN Append(l, Entry(f, flags, aux)) ELSE l
      PROVE  /\ m \in Seq(Entries) /\ Replaced(l, m, f, SelectEntriesOf(e, f, flags, aux))
             /\ (\E x \in ToSet(m) : x.fd = f) <=> e \in flags
  <2>1. CASE e \notin flags
    BY ZenonT(30), <2>1, <1>5 DEF Replaced
  <2>2. CASE e \in flags
    <3> DEFINE x == Entry(f, flags, aux)
               New == SelectEntriesOf(e, f, flags, aux)
    <3>1. x \in Entries /\ x.fd = f /\ x.aux = aux /\ x.flags = flags
      BY Zenon, <1>2 DEF Entry, Entries
    <3>2. m = Append(l, x)
      BY Zenon, <2>2, <1>5
    <3> HIDE DEF x
    <3>3. x \in New
      BY <3>1, <2>2 DEF SelectEntriesOf
    <3> HIDE DEF New
    <3>4. m \in Seq(Entries) /\ Replaced(l, m, x.fd, New) /\ x \in ToSet(m)
      <4>1. Uniq(l) /\ x \in Entries /\ \A y \in ToSet(l) : y.fd # x.fd
        BY Zenon, <3>1, <1>5
      <4> QED
        BY Zenon, <4>1, <3>2, <3>3, Added
    <3> QED
      BY ZenonT(30), <3>1, <3>4, <2>2 DEF New
  <2> QED
    BY ZenonT(30), <2>1, <2>2
<1>6. CASE poll_type = "DW_SELECT"
  <2>1. /\ rd' = IF "IN" \in flags THEN Append(rd, Entry(f, flags, aux)) ELSE rd
        /\ wr' = IF "OUT" \in flags THEN Append(wr, Entry(f, flags, aux)) ELSE wr
        /\ UNCHANGED <<pl, ep>>
    BY Zenon, <1>6 DEF dw_poll_add
  <2>2. "IN" \in Events /\ "OUT" \in Events
    BY DEF Events
  <2>3. /\ rd' \in Seq(Entries) /\ Replaced(rd, rd', f, SelectEntriesOf("IN", f, flags, aux))
        /\ (\E x \in ToSet(rd') : x.fd = f) <=> "IN" \in flags
    BY Zenon, <2>1, <2>2, <1>1, <1>4, <1>5
  <2>4. /\ wr' \in Seq(Entries) /\ Replaced(wr, wr', f, SelectEntriesOf("OUT", f, flags, aux))
        /\ (\E x \in ToSet(wr') : x.fd = f) <=> "OUT" \in flags
    BY Zenon, <2>1, <2>2, <1>1, <1>4, <1>5
  <2> QED
    BY Zenon, <2>1, <2>3, <2>4, <1>1, <1>6 DEF Redone, OwnLists
<1>7. CASE poll_type = "DW_POLL"
  <2> DEFINE x == PollEntry(f, flags, aux, {})
             New == PollEntriesOf(f, flags, aux)
  <2>1. pl' = Append(pl, x) /\ UNCHANGED <<rd, wr, ep>>
    BY Zenon, <1>7 DEF dw_poll_add
  <2>2. x \in PollEntries /\ x.fd = f /\ x.aux = aux /\ x.flags = flags
    BY Zenon, <1>2 DEF PollEntry, PollEntries
  <2> HIDE DEF x
  <2>3. x \in New
    BY Zenon, <2>2, <1>2 DEF PollEntriesOf, Events
  <2> HIDE DEF New
  <2>4. pl' \in Seq(PollEntries) /\ Replaced(pl, pl', x.fd, New) /\ x \in ToSet(pl')
    BY Zenon, <2>1, <2>2, <2>3, <1>1, <1>4, Added
  <2>5. flags \cap Events # {}
    BY Zenon, <1>2
  <2> QED
    BY Zenon, <2>1, <2>2, <2>4, <2>5, <1>1, <1>7 DEF Redone, OwnLists, New
<1>8. CASE poll_type = "DW_EPOLL"
  <2> DEFINE v == [flags |-> flags, aux |-> aux]
  <2>1. ep' = [ep EXCEPT ![f] = v] /\ UNCHANGED <<rd, wr, pl>>
    BY Zenon, <1>8 DEF dw_poll_add
  <2>2. v \in Asks /\ v.flags = flags \cap Events
    BY Zenon, <1>2 DEF Asks
  <2> HIDE DEF v
  <2>3. /\ ep' \in [Fds -> Asks] /\ ep'[f].flags = flags \cap Events
        /\ \A g \in Fds : g # f => ep'[g] = ep[g]
    BY Zenon, <2>1, <2>2, <1>1
  <2> QED
    BY <2>1, <2>3, <1>1, <1>8 DEF Redone, OwnLists
<1> QED
  BY ZenonT(30), <1>1, <1>6, <1>7, <1>8

\* A call of a handler keeps the invariant, and is one of AbsPoll's.
LEMMA CallInv ==
  ASSUME IInv, NEW f \in Fds, NEW flags, Legal(flags), NEW aux \in Aux,
         Asked(f, flags, aux), Redone(f, flags, aux), UNCHANGED <<iter, pc>>,
         pc = "handle", Listen \in open',
         \A g \in Fds : g \notin open' => g \notin open \/ (g = f /\ flags = {}),
         f \in open' \/ flags = {}
  PROVE  IInv' /\ PollStep
<1>1. Lists'
  BY Zenon, AskLists
<1>2. /\ asked' \in [Fds -> Asks] /\ once' \in SUBSET Fds
      /\ flags \cap Events = {} => asked'[f] = Nothing
      /\ \A g \in Fds : g # f => asked'[g] = asked[g]
  BY Zenon, AskedFor
<1>3. Typed'
  BY Zenon, <1>2 DEF IInv, Typed, Redone
<1>4. ClosedIsForgotten'
  BY Zenon, <1>2 DEF IInv, ClosedIsForgotten
<1>5. IInv'
  BY <1>1, <1>3, <1>4 DEF IInv, Redone
<1>6. PollStep
  <2>1. \A g \in Fds : Polled(g)' = IF g = f THEN flags \cap Events ELSE Polled(g)
    BY Zenon, AskPolled
  <2>2. call' = <<f, flags \cap Events>> /\ once' \in {once \ {f}, once \cup {f}}
    BY Zenon DEF Asked
  <2>3. flags \cap Events \in SUBSET Events
    BY Zenon
  <2> QED
    BY Zenon, <2>1, <2>2, <2>3, AskStep
<1> QED
  BY Zenon, <1>5, <1>6

\* dw_poll_add on a new descriptor.
LEMMA AddFdInv ==
  ASSUME IInv, NEW f \in Fds, NEW flags \in AddFlags, NEW aux \in Aux,
         AddFd(f, flags, aux)
  PROVE  IInv' /\ PollStep
<1>1. /\ pc = "handle" /\ f \notin open /\ open' = open \cup {f}
      /\ UNCHANGED <<poll_type, iter, pc>>
  BY Zenon DEF AddFd
<1>2. Listen \in open' /\ Listen \in Fds
  BY Zenon, <1>1, PollConstants DEF IInv, Typed
<1>3. CASE UNCHANGED <<lists, asked, once, call, ready>>
  <2>1. UNCHANGED <<rd, wr, pl, ep, asked, once, call>>
    BY Zenon, <1>3 DEF lists
  <2>2. Typed' /\ OwnLists'
    BY Zenon, <1>1, <1>2, <2>1 DEF IInv, Typed, OwnLists
  <2>3. Lists'
    BY Zenon, <1>1, <2>1 DEF IInv, Lists, SelectEntry, PolledEntry
  <2>4. ClosedIsForgotten'
    BY Zenon, <1>1, <2>1 DEF IInv, ClosedIsForgotten
  <2>5. IInv'
    BY Zenon, <1>1, <2>2, <2>3, <2>4 DEF IInv
  <2>6. PollStep
    <3>1. \A g \in Fds : Polled(g)' = Polled(g)
      BY Zenon, <1>1, <2>1 DEF Polled
    <3> QED
      BY Zenon, <1>2, <2>1, <3>1, SilentStep
  <2> QED
    BY Zenon, <2>5, <2>6
<1>4. CASE dw_poll_add(f, flags, aux)
  <2>1. Legal(flags)
    BY Zenon DEF Legal
  <2>2. Redone(f, flags, aux)
    BY Zenon, <1>1, <1>4, AddRedone
  <2>3. Asked(f, flags, aux)
    BY <1>4 DEF dw_poll_add
  <2>4. f \in open' /\ \A g \in Fds : g \notin open' => g \notin open \/ (g = f /\ flags = {})
    BY Zenon, <1>1
  <2> QED
    BY Zenon, <1>1, <1>2, <2>1, <2>2, <2>3, <2>4, CallInv
<1> QED
  BY Zenon, <1>3, <1>4 DEF AddFd

\* dw_poll_mod on a descriptor that is polled.
LEMMA ModFdInv ==
  ASSUME IInv, NEW f \in Fds, NEW flags \in ModFlags, NEW aux \in Aux,
         ModFd(f, flags, aux)
  PROVE  IInv' /\ PollStep
<1>1. /\ pc = "handle" /\ asked[f] # Nothing /\ dw_poll_mod(f, flags, aux)
      /\ UNCHANGED <<poll_type, iter, pc, open>>
  BY Zenon DEF ModFd
<1>2. Listen \in open' /\ f \in open' /\ \A g \in Fds : g \notin open' => g \notin open
  BY Zenon, <1>1 DEF IInv, Typed, ClosedIsForgotten
<1>3. Legal(flags)
  BY Zenon DEF Legal
<1>4. Redone(f, flags, aux) /\ Asked(f, flags, aux)
  BY Zenon, <1>1, <1>3, ModRedone DEF dw_poll_mod
<1> QED
  BY Zenon, <1>1, <1>2, <1>3, <1>4, CallInv

\* A descriptor is taken off the lists, then closed.
LEMMA CloseFdInv ==
  ASSUME IInv, NEW f \in Fds, CloseFd(f)
  PROVE  IInv' /\ PollStep
<1>1. /\ pc = "handle" /\ f # Listen /\ dw_poll_mod(f, {}, "none")
      /\ open' = open \ {f} /\ UNCHANGED <<poll_type, iter, pc>>
  BY Zenon DEF CloseFd
<1>2. Listen \in open' /\ \A g \in Fds : g \notin open' => g \notin open \/ (g = f /\ {} = {})
  BY Zenon, <1>1 DEF IInv, Typed
<1>3. Legal({}) /\ "none" \in Aux
  BY DEF Legal, Aux
<1>4. Redone(f, {}, "none") /\ Asked(f, {}, "none")
  BY Zenon, <1>1, <1>3, ModRedone DEF dw_poll_mod
<1> QED
  BY Zenon, <1>1, <1>2, <1>3, <1>4, CallInv
-----------------------------------------------------------------------------
\* The poll() array when only revents is rewritten: by poll(), for what was
\* asked.
Refreshed(p, q) ==
  /\ q \in Seq(PollEntries) /\ DOMAIN q = DOMAIN p
  /\ \A i \in DOMAIN p : /\ q[i].fd = p[i].fd /\ q[i].flags = p[i].flags
                         /\ q[i].aux = p[i].aux
                         /\ q[i].revents \subseteq p[i].flags \cap Events

\* New revents leave the entries as they are otherwise.
LEMMA Refresh ==
  ASSUME NEW p \in Seq(PollEntries), NEW R,
         \A i \in DOMAIN p : R[i] \subseteq p[i].flags \cap Events,
         NEW q, q = [i \in DOMAIN p |-> [p[i] EXCEPT !.revents = R[i]]]
  PROVE  Refreshed(p, q)
<1>1. DOMAIN p = 1 .. Len(p) /\ Len(p) \in Nat
  OBVIOUS
<1>2. ASSUME NEW i \in DOMAIN p
      PROVE  /\ q[i] \in PollEntries
             /\ q[i].fd = p[i].fd /\ q[i].flags = p[i].flags /\ q[i].aux = p[i].aux
             /\ q[i].revents = R[i]
  <2>1. p[i] \in PollEntries /\ R[i] \in SUBSET Events
    OBVIOUS
  <2>2. q[i] = [p[i] EXCEPT !.revents = R[i]]
    OBVIOUS
  <2> QED
    BY Zenon, <2>1, <2>2 DEF PollEntries
<1>3. DOMAIN q = DOMAIN p /\ q = [i \in 1 .. Len(p) |-> q[i]]
  BY Zenon, <1>1
<1>4. q \in Seq(PollEntries)
  BY <1>1, <1>2, <1>3
<1> QED
  BY Zenon, <1>2, <1>3, <1>4 DEF Refreshed

\* A step in which nothing is asked and the entries stay.
LEMMA WalkInv ==
  ASSUME IInv, UNCHANGED <<poll_type, rd, wr, ep, asked, once, open>>,
         pl' = pl \/ Refreshed(pl, pl'), iter' \in Nat,
         call' = call \/ call' = <<>>, pc' # "handle" => call' = <<>>
  PROVE  IInv' /\ PollStep
<1>1. pl \in Seq(PollEntries)
  BY ZenonT(30) DEF IInv, Typed
<1>2. /\ pl' \in Seq(PollEntries) /\ DOMAIN pl' = DOMAIN pl
      /\ \A i \in DOMAIN pl : /\ pl'[i].fd = pl[i].fd /\ pl'[i].flags = pl[i].flags
                              /\ pl'[i].aux = pl[i].aux
                              /\ \/ pl'[i].revents = pl[i].revents
                                 \/ pl'[i].revents \subseteq pl[i].flags \cap Events
  BY Zenon, <1>1 DEF Refreshed
<1>3. Typed'
  BY ZenonT(30), <1>2 DEF IInv, Typed
<1>4. OwnLists'
  <2>1. ASSUME pl = <<>> PROVE pl' = <<>>
    <3>1. DOMAIN pl' = {} /\ DOMAIN pl' = 1 .. Len(pl') /\ Len(pl') \in Nat
      BY <1>2, <2>1
    <3> QED
      BY <1>2, <3>1
  <2> QED
    BY ZenonT(30), <2>1 DEF IInv, OwnLists
<1>5. Uniq(pl') /\ \A x \in ToSet(pl') : PolledEntry(x)'
  <2>1. Uniq(pl')
    BY Zenon, <1>2 DEF IInv, Lists, Uniq
  <2>2. ASSUME NEW y \in ToSet(pl') PROVE PolledEntry(y)'
    <3>1. PICK i \in DOMAIN pl : y = pl'[i]
      BY ZenonT(30), <1>2 DEF ToSet
    <3> DEFINE x == pl[i]
    <3>2. PolledEntry(x)
      BY ZenonT(30) DEF IInv, Lists, ToSet
    <3>3. /\ y.fd = x.fd /\ y.flags = x.flags /\ y.aux = x.aux
          /\ y.revents = x.revents \/ y.revents \subseteq x.flags \cap Events
      BY ZenonT(30), <1>2, <3>1
    <3> HIDE DEF x
    <3> QED
      BY Zenon, <3>2, <3>3 DEF PolledEntry
  <2> QED
    BY ZenonT(30), <2>1, <2>2
<1>6. Lists'
  BY Zenon, <1>5 DEF IInv, Lists, SelectEntry
<1>7. ClosedIsForgotten'
  BY DEF IInv, ClosedIsForgotten
<1>8. \A g \in Fds : Polled(g)' = Polled(g)
  BY <1>2 DEF Polled
<1>9. PollStep
  BY ZenonT(30), <1>8, PollConstants, SilentStep
<1> QED
  BY ZenonT(30), <1>3, <1>4, <1>6, <1>7, <1>9 DEF IInv

\* dw_poll_wait fills in what is ready.
LEMMA WaitInv ==
  ASSUME IInv, dw_poll_wait
  PROVE  IInv' /\ PollStep
<1> DEFINE revents(f, flags) == {e \in flags \cap Events : <<f, e>> \in ready}
           R == [i \in DOMAIN pl |-> revents(pl[i].fd, pl[i].flags)]
<1>1. /\ pc = "wait" /\ pc' = "next" /\ iter' = 0
      /\ UNCHANGED <<poll_type, rd, wr, ep, asked, once, open, call>>
  BY ZenonT(30) DEF dw_poll_wait
<1>2. call' = <<>> /\ pl \in Seq(PollEntries)
      /\ poll_type \in {"DW_SELECT", "DW_POLL", "DW_EPOLL"}
  BY ZenonT(30), <1>1 DEF IInv, Typed
<1>3. pl' = pl \/ Refreshed(pl, pl')
  <2>1. CASE poll_type = "DW_POLL"
    <3>1. pl' = [i \in DOMAIN pl |-> [pl[i] EXCEPT !.revents = revents(pl[i].fd, pl[i].flags)]]
      BY Zenon, <2>1 DEF dw_poll_wait
    <3>2. pl' = [i \in DOMAIN pl |-> [pl[i] EXCEPT !.revents = R[i]]]
      BY Zenon, <3>1
    <3>3. \A i \in DOMAIN pl : R[i] \subseteq pl[i].flags \cap Events
      BY Zenon
    <3> HIDE DEF R
    <3> QED
      BY Zenon, <3>2, <3>3, <1>2, Refresh
  <2>2. CASE poll_type = "DW_SELECT"
    BY Zenon, <2>2 DEF dw_poll_wait
  <2>3. CASE poll_type = "DW_EPOLL"
    BY Zenon, <2>3 DEF dw_poll_wait
  <2> QED
    BY ZenonT(30), <2>1, <2>2, <2>3, <1>2
<1> QED
  BY ZenonT(30), <1>1, <1>2, <1>3, WalkInv

\* dw_poll_next at the end of the lists.
LEMMA NoMoreInv ==
  ASSUME IInv, NoMore, UNCHANGED <<poll_type, asked, once, open>>, pc = "next"
  PROVE  IInv' /\ PollStep
<1> DEFINE R == [i \in DOMAIN pl |-> {}]
<1>1. /\ pc' = "wait" /\ iter' = 0 /\ call' = call /\ UNCHANGED <<rd, wr, ep>>
      /\ pl' = [i \in DOMAIN pl |-> [pl[i] EXCEPT !.revents = {}]]
  BY Zenon DEF NoMore
<1>2. call' = <<>> /\ pl \in Seq(PollEntries)
  BY Zenon, <1>1 DEF IInv, Typed
<1>3. Refreshed(pl, pl')
  <2>1. pl' = [i \in DOMAIN pl |-> [pl[i] EXCEPT !.revents = R[i]]]
    BY Zenon, <1>1
  <2>2. \A i \in DOMAIN pl : R[i] \subseteq pl[i].flags \cap Events
    BY Zenon
  <2> HIDE DEF R
  <2> QED
    BY Zenon, <2>1, <2>2, <1>2, Refresh
<1> QED
  BY Zenon, <1>1, <1>2, <1>3, WalkInv

\* An event of an entry with ONESHOT: the entry goes, and with it the
\* interest in the event.
LEMMA ReadOnce ==
  ASSUME IInv, pc = "next", poll_type = "DW_SELECT", NEW i \in 1 .. Len(rd),
         "ONESHOT" \in rd[i].flags, rd' = DelPos(rd, i), iter' \in Nat,
         UNCHANGED <<poll_type, wr, pl, ep, asked, once, open, call>>
  PROVE  IInv' /\ PollStep
<1> DEFINE x == rd[i]
           f == x.fd
<1>1. /\ rd \in Seq(Entries) /\ Uniq(rd) /\ x \in ToSet(rd) /\ x \in Entries
      /\ call' = <<>>
  BY DEF IInv, Typed, Lists, ToSet
<1>2. f \in once \cap Fds
  BY Zenon, <1>1 DEF IInv, Lists, SelectEntry, Entries
<1>3. rd' \in Seq(Entries) /\ Replaced(rd, rd', f, {}) /\ \A y \in ToSet(rd') : y.fd # f
  BY Zenon, <1>1, Deleted
<1> HIDE DEF x
<1>4. Typed' /\ OwnLists' /\ ClosedIsForgotten'
  BY ZenonT(30), <1>3 DEF IInv, Typed, OwnLists, ClosedIsForgotten
<1>5. Lists'
  <2>1. \A y \in ToSet(rd') : y \in ToSet(rd)
    BY ZenonT(30), <1>3 DEF Replaced
  <2>2. Uniq(rd')
    BY ZenonT(30), <1>3 DEF Replaced
  <2> QED
    BY Zenon, <2>1, <2>2 DEF IInv, Lists, SelectEntry, PolledEntry
<1>6. ASSUME NEW g \in Fds
      PROVE  Polled(g)' = IF g = f THEN Polled(g) \ {"IN"} ELSE Polled(g)
  <2>1. /\ Polled(g) = PolledOf("DW_SELECT", rd, wr, pl, ep, g)
        /\ Polled(g)' = PolledOf("DW_SELECT", rd', wr, pl, ep, g)
    BY Zenon, PolledAsValue
  <2>2. /\ "IN" \in Polled(g) <=> \E y \in ToSet(rd) : y.fd = g
        /\ "OUT" \in Polled(g) <=> \E y \in ToSet(wr) : y.fd = g
        /\ Polled(g) \subseteq Events
    BY <2>1, PolledIs
  <2>3. /\ "IN" \in Polled(g)' <=> \E y \in ToSet(rd') : y.fd = g
        /\ "OUT" \in Polled(g)' <=> \E y \in ToSet(wr) : y.fd = g
        /\ Polled(g)' \subseteq Events
    BY <2>1, PolledIs
  <2>4. g # f => ((\E y \in ToSet(rd') : y.fd = g) <=> \E y \in ToSet(rd) : y.fd = g)
    BY Zenon, <1>3 DEF Replaced
  <2>5. g = f => ~\E y \in ToSet(rd') : y.fd = g
    BY Zenon, <1>3
  <2> HIDE DEF f
  <2>6. CASE g = f
    <3>1. "IN" \notin Polled(g)' /\ ("OUT" \in Polled(g)' <=> "OUT" \in Polled(g))
      BY Zenon, <2>2, <2>3, <2>5, <2>6
    <3>2. Polled(g)' = Polled(g) \ {"IN"}
      BY Zenon, <3>1, <2>2, <2>3 DEF Events
    <3> QED
      BY Zenon, <3>2, <2>6
  <2>7. CASE g # f
    <3>1. /\ "IN" \in Polled(g)' <=> "IN" \in Polled(g)
          /\ "OUT" \in Polled(g)' <=> "OUT" \in Polled(g)
      BY Zenon, <2>2, <2>3, <2>4, <2>7
    <3>2. Polled(g) \subseteq {"IN", "OUT"} /\ Polled(g)' \subseteq {"IN", "OUT"}
      BY Zenon, <2>2, <2>3 DEF Events
    <3>3. \A e : e \in Polled(g)' <=> e \in Polled(g)
      BY Zenon, <3>1, <3>2
    <3>4. Polled(g)' = Polled(g)
      BY Zenon, <3>3
    <3> QED
      BY Zenon, <3>4, <2>7
  <2> QED
    BY ZenonT(30), <2>6, <2>7
<1>7. PollStep
  <2>1. {"IN"} \in SUBSET Events
    BY Zenon DEF Events
  <2> HIDE DEF f
  <2> QED
    BY Zenon, <2>1, <1>1, <1>2, <1>6, DeliverStep
<1> QED
  BY Zenon, <1>1, <1>4, <1>5, <1>7 DEF IInv

\* dw_poll_next deletes a ONESHOT entry of select.
LEMMA WriteOnce ==
  ASSUME IInv, pc = "next", poll_type = "DW_SELECT", NEW i \in 1 .. Len(wr),
         "ONESHOT" \in wr[i].flags, wr' = DelPos(wr, i), iter' \in Nat,
         UNCHANGED <<poll_type, rd, pl, ep, asked, once, open, call>>
  PROVE  IInv' /\ PollStep
<1> DEFINE x == wr[i]
           f == x.fd
<1>1. /\ wr \in Seq(Entries) /\ Uniq(wr) /\ x \in ToSet(wr) /\ x \in Entries
      /\ call' = <<>>
  BY DEF IInv, Typed, Lists, ToSet
<1>2. f \in once \cap Fds
  BY ZenonT(30), <1>1 DEF IInv, Lists, SelectEntry, Entries
<1>3. wr' \in Seq(Entries) /\ Replaced(wr, wr', f, {}) /\ \A y \in ToSet(wr') : y.fd # f
  BY Zenon, <1>1, Deleted
<1> HIDE DEF x
<1>4. Typed' /\ OwnLists' /\ ClosedIsForgotten'
  BY Zenon, <1>3 DEF IInv, Typed, OwnLists, ClosedIsForgotten
<1>5. Lists'
  <2>1. \A y \in ToSet(wr') : y \in ToSet(wr)
    BY <1>3 DEF Replaced
  <2>2. Uniq(wr')
    BY <1>3 DEF Replaced
  <2> QED
    BY Zenon, <2>1, <2>2 DEF IInv, Lists, SelectEntry, PolledEntry
<1>6. ASSUME NEW g \in Fds
      PROVE  Polled(g)' = IF g = f THEN Polled(g) \ {"OUT"} ELSE Polled(g)
  <2>1. /\ Polled(g) = PolledOf("DW_SELECT", rd, wr, pl, ep, g)
        /\ Polled(g)' = PolledOf("DW_SELECT", rd, wr', pl, ep, g)
    BY PolledAsValue
  <2>2. /\ "IN" \in Polled(g) <=> \E y \in ToSet(rd) : y.fd = g
        /\ "OUT" \in Polled(g) <=> \E y \in ToSet(wr) : y.fd = g
        /\ Polled(g) \subseteq Events
    BY <2>1, PolledIs
  <2>3. /\ "IN" \in Polled(g)' <=> \E y \in ToSet(rd) : y.fd = g
        /\ "OUT" \in Polled(g)' <=> \E y \in ToSet(wr') : y.fd = g
        /\ Polled(g)' \subseteq Events
    BY <2>1, PolledIs
  <2>4. g # f => ((\E y \in ToSet(wr') : y.fd = g) <=> \E y \in ToSet(wr) : y.fd = g)
    BY <1>3 DEF Replaced
  <2>5. g = f => ~\E y \in ToSet(wr') : y.fd = g
    BY <1>3
  <2> HIDE DEF f
  <2>6. CASE g = f
    <3>1. "OUT" \notin Polled(g)' /\ ("IN" \in Polled(g)' <=> "IN" \in Polled(g))
      BY Zenon, <2>2, <2>3, <2>5, <2>6
    <3>2. Polled(g)' = Polled(g) \ {"OUT"}
      BY Zenon, <3>1, <2>2, <2>3 DEF Events
    <3> QED
      BY <3>2, <2>6
  <2>7. CASE g # f
    <3>1. /\ "OUT" \in Polled(g)' <=> "OUT" \in Polled(g)
          /\ "IN" \in Polled(g)' <=> "IN" \in Polled(g)
      BY Zenon, <2>2, <2>3, <2>4, <2>7
    <3>2. Polled(g) \subseteq {"IN", "OUT"} /\ Polled(g)' \subseteq {"IN", "OUT"}
      BY Zenon, <2>2, <2>3 DEF Events
    <3>3. \A e : e \in Polled(g)' <=> e \in Polled(g)
      BY Zenon, <3>1, <3>2
    <3>4. Polled(g)' = Polled(g)
      BY Zenon, <3>3
    <3> QED
      BY Zenon, <3>4, <2>7
  <2> QED
    BY ZenonT(30), <2>6, <2>7
<1>7. PollStep
  <2>1. {"OUT"} \in SUBSET Events
    BY Zenon DEF Events
  <2> HIDE DEF f
  <2> QED
    BY Zenon, <2>1, <1>1, <1>2, <1>6, DeliverStep
<1> QED
  BY <1>1, <1>4, <1>5, <1>7 DEF IInv

\* dw_poll_next deletes a ONESHOT entry of poll.
LEMMA PollOnce ==
  ASSUME IInv, pc = "next", poll_type = "DW_POLL", NEW i \in 1 .. Len(pl),
         "ONESHOT" \in pl[i].flags, pl[i].revents # {}, pl' = DelPos(pl, i), iter' \in Nat,
         UNCHANGED <<poll_type, rd, wr, ep, asked, once, open, call>>
  PROVE  IInv' /\ PollStep
<1> DEFINE x == pl[i]
           f == x.fd
           E == x.revents
<1>1. /\ pl \in Seq(PollEntries) /\ Uniq(pl) /\ x \in ToSet(pl) /\ x \in PollEntries
      /\ call' = <<>>
  BY DEF IInv, Typed, Lists, ToSet
<1>2. f \in once \cap Fds /\ E \in SUBSET Events /\ x.flags \cap Events = E
  <2>1. PolledEntry(x)
    BY Zenon, <1>1 DEF IInv, Lists
  <2>2. PICK e \in Events : x.flags \cap Events = {e} /\ x.revents \subseteq {e}
    BY Zenon, <2>1 DEF PolledEntry
  <2>3. E = {e}
    BY Zenon, <2>2
  <2> QED
    BY Zenon, <2>1, <2>2, <2>3, <1>1 DEF PolledEntry, PollEntries
<1>3. pl' \in Seq(PollEntries) /\ Replaced(pl, pl', f, {}) /\ \A y \in ToSet(pl') : y.fd # f
  BY Zenon, <1>1, Deleted
<1>4. \A y \in ToSet(pl) : y.fd = f => y = x
  BY Zenon, <1>1 DEF ToSet, Uniq
<1> HIDE DEF x
<1>5. Typed' /\ OwnLists' /\ ClosedIsForgotten'
  BY Zenon, <1>3 DEF IInv, Typed, OwnLists, ClosedIsForgotten
<1>6. Lists'
  <2>1. \A y \in ToSet(pl') : y \in ToSet(pl)
    BY Zenon, <1>3 DEF Replaced
  <2>2. Uniq(pl')
    BY Zenon, <1>3 DEF Replaced
  <2> QED
    BY Zenon, <2>1, <2>2 DEF IInv, Lists, SelectEntry, PolledEntry
<1>7. ASSUME NEW g \in Fds
      PROVE  Polled(g)' = IF g = f THEN Polled(g) \ E ELSE Polled(g)
  <2>1. /\ Polled(g) = PolledOf("DW_POLL", rd, wr, pl, ep, g)
        /\ Polled(g)' = PolledOf("DW_POLL", rd, wr, pl', ep, g)
    BY Zenon, PolledAsValue
  <2>2. \A e : e \in Polled(g) <=> \E y \in ToSet(pl) : y.fd = g /\ e \in y.flags \cap Events
    BY <2>1, PolledIs
  <2>3. \A e : e \in Polled(g)' <=> \E y \in ToSet(pl') : y.fd = g /\ e \in y.flags \cap Events
    BY <2>1, PolledIs
  <2>4. CASE g = f
    <3>1. Polled(g)' = {}
      BY Zenon, <2>3, <2>4, <1>3
    <3>2. \A e : e \in Polled(g) => e \in E
      BY Zenon, <2>2, <2>4, <1>2, <1>4
    <3> QED
      BY Zenon, <3>1, <3>2, <2>4
  <2>5. CASE g # f
    <3>1. \A y : (y \in ToSet(pl') /\ y.fd = g) <=> (y \in ToSet(pl) /\ y.fd = g)
      BY Zenon, <2>5, <1>3 DEF Replaced
    <3>2. \A e : e \in Polled(g)' <=> e \in Polled(g)
      BY Zenon, <2>2, <2>3, <3>1
    <3> QED
      BY Zenon, <3>2, <2>5
  <2> QED
    BY Zenon, <2>4, <2>5
<1>8. PollStep
  <2> HIDE DEF f, E
  <2> QED
    BY Zenon, <1>1, <1>2, <1>7, DeliverStep
<1> QED
  BY Zenon, <1>1, <1>5, <1>6, <1>8 DEF IInv
-----------------------------------------------------------------------------
\* dw_poll_next returns an event and leaves the lists, or deletes an entry
\* with ONESHOT, or finds no more.
LEMMA NextEventInv ==
  ASSUME IInv, dw_poll_next
  PROVE  IInv' /\ PollStep
<1>1. pc = "next" /\ UNCHANGED <<poll_type, asked, once, open>>
  BY Zenon DEF dw_poll_next
<1>2. /\ rd \in Seq(Entries) /\ wr \in Seq(Entries) /\ pl \in Seq(PollEntries)
      /\ iter \in Nat /\ call = <<>>
  BY Zenon, <1>1 DEF IInv, Typed
<1>3. Len(rd) \in Nat
  BY <1>2
<1>4. ASSUME UNCHANGED <<rd, wr, pl, ep, call>>, iter' \in Nat PROVE IInv' /\ PollStep
  BY Zenon, <1>1, <1>2, <1>4, WalkInv
<1>5. CASE NoMore
  BY Zenon, <1>1, <1>5, NoMoreInv
<1>6. CASE SelectNext
  <2> DEFINE inRd == {x \in ToSet(rd) : <<x.fd, "IN">> \in isset}
             inWr == {x \in ToSet(wr) : <<x.fd, "OUT">> \in isset}
             i == Scan(rd, iter, inRd)
             j == Scan(wr, i - Len(rd), inWr)
  <2>1. i \in Nat /\ (i < Len(rd) => i + 1 \in 1 .. Len(rd))
    BY Zenon, <1>2, ScanFinds
  <2>2. CASE i < Len(rd)
    <3>1. /\ IF "ONESHOT" \in rd[i + 1].flags
             THEN rd' = DelPos(rd, i + 1) /\ iter' = i
             ELSE iter' = i + 1 /\ UNCHANGED rd
          /\ UNCHANGED <<wr, pl, ep, call>>
      BY Zenon, <2>2, <1>6 DEF SelectNext, Returned
    <3> HIDE DEF i
    <3>2. CASE "ONESHOT" \in rd[i + 1].flags
      BY Zenon, <3>1, <3>2, <2>1, <2>2, <1>1, <1>6, ReadOnce DEF SelectNext
    <3>3. CASE "ONESHOT" \notin rd[i + 1].flags
      BY <3>1, <3>3, <2>1, <1>4
    <3> QED
      BY Zenon, <3>2, <3>3
  <2>3. CASE ~(i < Len(rd))
    <3>1. i - Len(rd) \in Nat
      BY <2>1, <2>3, <1>3
    <3>2. j \in Nat /\ (j < Len(wr) => j + 1 \in 1 .. Len(wr))
      BY Zenon, <3>1, <1>2, ScanFinds
    <3>3. CASE j < Len(wr)
      <4>1. /\ IF "ONESHOT" \in wr[j + 1].flags
               THEN wr' = DelPos(wr, j + 1) /\ iter' = Len(rd) + j
               ELSE iter' = Len(rd) + j + 1 /\ UNCHANGED wr
            /\ UNCHANGED <<rd, pl, ep, call>>
        BY Zenon, <2>3, <3>3, <1>6 DEF SelectNext, Returned
      <4> HIDE DEF i, j
      <4>2. CASE "ONESHOT" \in wr[j + 1].flags
        <5>1. iter' = Len(rd) + j /\ wr' = DelPos(wr, j + 1)
          BY Zenon, <4>1, <4>2
        <5>2. iter' \in Nat /\ j + 1 \in 1 .. Len(wr)
          BY <5>1, <3>2, <3>3, <1>3
        <5> QED
          BY Zenon, <4>1, <4>2, <5>1, <5>2, <1>1, <1>6, WriteOnce DEF SelectNext
      <4>3. CASE "ONESHOT" \notin wr[j + 1].flags
        <5>1. iter' = Len(rd) + j + 1
          BY Zenon, <4>1, <4>3
        <5>2. iter' \in Nat
          BY <5>1, <3>2, <1>3
        <5> QED
          BY Zenon, <4>1, <4>3, <5>2, <1>4
      <4> QED
        BY <4>2, <4>3
    <3>4. CASE ~(j < Len(wr))
      <4>1. NoMore
        BY Zenon, <2>3, <3>4, <1>6 DEF SelectNext
      <4> QED
        BY Zenon, <4>1, <1>5
    <3> QED
      BY Zenon, <3>3, <3>4
  <2> QED
    BY Zenon, <2>2, <2>3
<1>7. CASE PollNext
  <2> DEFINE hot == {x \in ToSet(pl) : x.revents # {}}
             i == Scan(pl, iter, hot)
  <2>1. i \in Nat /\ (i < Len(pl) => i + 1 \in 1 .. Len(pl) /\ pl[i + 1] \in hot)
    BY Zenon, <1>2, ScanFinds
  <2>2. CASE i < Len(pl)
    <3>1. /\ IF "ONESHOT" \in pl[i + 1].flags
             THEN pl' = DelPos(pl, i + 1) /\ iter' = i
             ELSE iter' = i + 1 /\ UNCHANGED pl
          /\ UNCHANGED <<rd, wr, ep, call>>
      BY Zenon, <2>2, <1>7 DEF PollNext, Returned
    <3>2. pl[i + 1].revents # {} /\ i + 1 \in 1 .. Len(pl)
      BY Zenon, <2>1, <2>2
    <3> HIDE DEF i
    <3>3. CASE "ONESHOT" \in pl[i + 1].flags
      BY Zenon, <3>1, <3>2, <3>3, <2>1, <1>1, <1>7, PollOnce DEF PollNext
    <3>4. CASE "ONESHOT" \notin pl[i + 1].flags
      BY <3>1, <3>4, <2>1, <1>4
    <3> QED
      BY <3>3, <3>4
  <2>3. CASE ~(i < Len(pl))
    <3>1. NoMore
      BY Zenon, <2>3, <1>7 DEF PollNext
    <3> QED
      BY <3>1, <1>5
  <2> QED
    BY Zenon, <2>2, <2>3
<1>8. CASE EpollNext
  <2>1. CASE iter < Len(evs)
    <3>1. UNCHANGED <<rd, wr, pl, ep, call>> /\ iter' = iter + 1
      BY Zenon, <2>1, <1>8 DEF EpollNext, Returned, lists
    <3> QED
      BY <3>1, <1>2, <1>4
  <2>2. CASE ~(iter < Len(evs))
    <3>1. NoMore
      BY Zenon, <2>2, <1>8 DEF EpollNext
    <3> QED
      BY <3>1, <1>5
  <2> QED
    BY Zenon, <2>1, <2>2
<1> QED
  BY Zenon, <1>6, <1>7, <1>8 DEF dw_poll_next

\* The other steps of the loop, and what the kernel does.
LEMMA IdleInv ==
  ASSUME IInv, HandlerDone \/ (\E f \in Fds, e \in Events : Kernel(f, e)) \/ UNCHANGED vars
  PROVE  IInv' /\ PollStep
<1>1. /\ UNCHANGED <<poll_type, rd, wr, pl, ep, asked, once, open>> /\ iter' = iter
      /\ call' = call \/ call' = <<>>
      /\ pc' # "handle" => call' = <<>>
  BY Zenon DEF HandlerDone, Kernel, vars, lists, IInv
<1>2. iter' \in Nat
  BY Zenon, <1>1 DEF IInv, Typed
<1> QED
  BY Zenon, <1>1, <1>2, WalkInv

\* What is polled was asked for.
LEMMA PolledSubset ==
  ASSUME IInv, NEW f \in Fds
  PROVE  Polled(f) \subseteq asked[f].flags /\ Polled(f) \in SUBSET Events
<1>1. asked[f].flags \in SUBSET Events /\ poll_type \in {"DW_SELECT", "DW_POLL", "DW_EPOLL"}
  BY Zenon DEF IInv, Typed, Asks
<1>2. Polled(f) = PolledOf(poll_type, rd, wr, pl, ep, f)
  BY Zenon, PolledAsValue
<1>3. Polled(f) \subseteq asked[f].flags
  <2>1. CASE poll_type = "DW_SELECT"
    <3>1. /\ "IN" \in Polled(f) <=> \E x \in ToSet(rd) : x.fd = f
          /\ "OUT" \in Polled(f) <=> \E x \in ToSet(wr) : x.fd = f
          /\ Polled(f) \subseteq Events
      BY <1>2, <2>1, PolledIs
    <3>2. /\ "IN" \in Polled(f) => "IN" \in asked[f].flags
          /\ "OUT" \in Polled(f) => "OUT" \in asked[f].flags
      BY Zenon, <3>1 DEF IInv, Lists, SelectEntry
    <3> QED
      BY Zenon, <3>1, <3>2 DEF Events
  <2>2. CASE poll_type = "DW_POLL"
    <3>1. \A e : e \in Polled(f) => \E x \in ToSet(pl) : x.fd = f /\ e \in x.flags \cap Events
      BY <1>2, <2>2, PolledIs
    <3> QED
      BY ZenonT(30), <3>1 DEF IInv, Lists, PolledEntry
  <2>3. CASE poll_type = "DW_EPOLL"
    <3>1. Polled(f) = ep[f].flags
      BY <1>2, <2>3, PolledIs
    <3> QED
      BY ZenonT(30), <3>1, <2>3 DEF IInv, Lists
  <2> QED
    BY Zenon, <1>1, <2>1, <2>2, <2>3
<1> QED
  BY Zenon, <1>1, <1>3

\* The listening socket alone is polled.
LEMMA InitInv == Init => IInv /\ Interest!Init
<1> SUFFICES ASSUME Init PROVE IInv /\ Interest!Init
  BY ZenonT(30)
<1> DEFINE x == Entry(Listen, {"IN"}, "none")
           y == PollEntry(Listen, {"IN"}, "none", {})
           a == [Nothing EXCEPT !.flags = {"IN"}]
<1>1. /\ Listen \in Fds /\ poll_type \in {"DW_SELECT", "DW_POLL", "DW_EPOLL"}
      /\ "none" \in Aux /\ {"IN"} \in SUBSET Flags /\ {"IN"} \in SUBSET Events
      /\ "ONESHOT" \notin {"IN"} /\ {"IN"} \cap Events = {"IN"}
  BY Zenon, PollConstants DEF Init, Aux, Flags, Events
<1>2. x \in Entries /\ x.fd = Listen /\ x.flags = {"IN"} /\ x.aux = "none"
  BY ZenonT(30), <1>1 DEF Entry, Entries
<1>3. y \in PollEntries /\ y.fd = Listen /\ y.flags = {"IN"} /\ y.aux = "none"
  BY <1>1 DEF PollEntry, PollEntries
<1>4. a \in Asks /\ a.flags = {"IN"} /\ a.aux = "none" /\ Nothing \in Asks
  BY Zenon, <1>1 DEF Nothing, Asks
<1>5. asked = [f \in Fds |-> IF f = Listen THEN a ELSE Nothing]
  BY Zenon DEF Init
<1> HIDE DEF x, y, a
<1>6. asked \in [Fds -> Asks] /\ asked[Listen] = a /\ \A f \in Fds : f # Listen => asked[f] = Nothing
  BY Zenon, <1>1, <1>4, <1>5
<1>7. /\ rd = IF poll_type = "DW_SELECT" THEN <<x>> ELSE <<>>
      /\ wr = <<>>
      /\ pl = IF poll_type = "DW_POLL" THEN <<y>> ELSE <<>>
      /\ ep = IF poll_type = "DW_EPOLL" THEN asked ELSE [f \in Fds |-> Nothing]
      /\ iter = 0 /\ once = {} /\ call = <<>> /\ open = {Listen} /\ pc = "wait"
  BY Zenon DEF Init, x, y
<1>8. /\ ToSet(<<>>) = {} /\ ToSet(<<x>>) = {x} /\ ToSet(<<y>>) = {y}
      /\ Uniq(<<>>) /\ Uniq(<<x>>) /\ Uniq(<<y>>)
  <2>1. DOMAIN <<x>> = {1} /\ <<x>>[1] = x /\ DOMAIN <<y>> = {1} /\ <<y>>[1] = y
    OBVIOUS
  <2>2. ToSet(<<x>>) = {x} /\ ToSet(<<y>>) = {y}
    BY Zenon, <2>1 DEF ToSet
  <2>3. Uniq(<<x>>) /\ Uniq(<<y>>)
    BY Zenon, <2>1 DEF Uniq
  <2>4. DOMAIN <<>> = {}
    OBVIOUS
  <2> QED
    BY Zenon, <2>2, <2>3, <2>4 DEF ToSet, Uniq
<1>9. <<x>> \in Seq(Entries) /\ <<y>> \in Seq(PollEntries)
      /\ <<>> \in Seq(Entries) /\ <<>> \in Seq(PollEntries)
  BY <1>2, <1>3
<1>10. Typed
  <2>1. rd \in Seq(Entries) /\ wr \in Seq(Entries) /\ pl \in Seq(PollEntries)
    BY ZenonT(30), <1>7, <1>9
  <2>2. ep \in [Fds -> Asks]
    BY ZenonT(30), <1>4, <1>6, <1>7
  <2> QED
    BY ZenonT(30), <1>1, <1>6, <1>7, <2>1, <2>2 DEF Typed
<1>11. OwnLists
  BY Zenon, <1>7 DEF OwnLists
<1>12. Lists
  <2>1. SelectEntry(x, "IN") /\ PolledEntry(y)
    BY Zenon, <1>1, <1>2, <1>3, <1>4, <1>6 DEF SelectEntry, PolledEntry
  <2>2. poll_type = "DW_EPOLL" => \A f \in Fds : ep[f].flags \subseteq asked[f].flags
    BY Zenon, <1>7
  <2>3. ToSet(rd) \subseteq {x} /\ ToSet(wr) = {} /\ ToSet(pl) \subseteq {y}
    BY Zenon, <1>7, <1>8
  <2>4. Uniq(rd) /\ Uniq(wr) /\ Uniq(pl)
    BY Zenon, <1>7, <1>8
  <2> QED
    BY Zenon, <2>1, <2>2, <2>3, <2>4 DEF Lists
<1>13. ClosedIsForgotten
  BY Zenon, <1>6, <1>7 DEF ClosedIsForgotten
<1>14. IInv
  BY Zenon, <1>7, <1>10, <1>11, <1>12, <1>13 DEF IInv
<1>15. \A f \in Fds : Polled(f) \in SUBSET Events
  BY Zenon, <1>14, PolledSubset
<1> QED
  BY ZenonT(30), <1>7, <1>14, <1>15 DEF Interest!Init

\* IInv is inductive, and every step is one of AbsPoll or does not show.
LEMMA NextInv == IInv /\ [Next]_vars => IInv' /\ PollStep
<1> SUFFICES ASSUME IInv, [Next]_vars PROVE IInv' /\ PollStep
  BY Zenon
<1>1. CASE dw_poll_wait
  BY Zenon, <1>1, WaitInv
<1>2. CASE dw_poll_next
  BY <1>2, NextEventInv
<1>3. CASE HandlerDone
  BY Zenon, <1>3, IdleInv
<1>4. ASSUME NEW f \in Fds, CloseFd(f) PROVE IInv' /\ PollStep
  BY Zenon, <1>4, CloseFdInv
<1>5. ASSUME NEW f \in Fds, NEW e \in Events, Kernel(f, e) PROVE IInv' /\ PollStep
  BY Zenon, <1>5, IdleInv
<1>6. ASSUME NEW f \in Fds, NEW aux \in AuxValues[f] PROVE aux \in Aux
  BY Zenon DEF Aux
<1>7. ASSUME NEW f \in Fds, NEW aux \in AuxValues[f], NEW flags \in AddFlags,
             AddFd(f, flags, aux)
      PROVE  IInv' /\ PollStep
  BY Zenon, <1>6, <1>7, AddFdInv
<1>8. ASSUME NEW f \in Fds, NEW aux \in AuxValues[f], NEW flags \in ModFlags,
             ModFd(f, flags, aux)
      PROVE  IInv' /\ PollStep
  BY <1>6, <1>8, ModFdInv
<1>9. CASE UNCHANGED vars
  BY Zenon, <1>9, IdleInv
<1> QED
  BY Zenon, <1>1, <1>2, <1>3, <1>4, <1>5, <1>7, <1>8, <1>9 DEF Next

\* dw_poll_add, dw_poll_mod, dw_poll_wait and dw_poll_next keep the lists of
\* the three back ends in step with what was asked.
THEOREM PollInductive == Spec => []IInv
BY InitInv, NextInv, PTL DEF Spec

\* Of dw_poll_mod, dw_poll_next and the three del_pos functions of
\* src/dw_poll.c, for any number of descriptors and entries: a descriptor has
\* one entry in an array, for nothing but what the last call for it asked,
\* with what that call attached, whatever was deleted while the array is
\* walked.
THEOREM EntriesStayCurrent == Spec => []EntriesAreCurrent
<1>1. IInv => EntriesAreCurrent
  <2> SUFFICES ASSUME IInv PROVE EntriesAreCurrent
    BY Zenon
  <2>1. \A f \in Fds : Polled(f) \subseteq asked[f].flags
    BY Zenon, PolledSubset
  <2>2. \A l \in {rd, wr, pl} : Uniq(l) /\ \A x \in ToSet(l) : x.aux = asked[x.fd].aux
    BY Zenon DEF IInv, Lists, SelectEntry, PolledEntry
  <2>3. ASSUME NEW l \in {rd, wr, pl}, NEW i \in DOMAIN l, NEW j \in DOMAIN l
        PROVE  (l[i].fd = l[j].fd => i = j) /\ l[i].aux = asked[l[i].fd].aux
    BY Zenon, <2>2 DEF Uniq, ToSet
  <2> QED
    BY Zenon, <2>1, <2>3 DEF EntriesAreCurrent
<1> QED
  BY <1>1, PollInductive, PTL

\* select, poll and epoll implement the interest that AbsPoll describes: only
\* calls for a descriptor change it, and an event at most ends the interest
\* in itself, when the last call had DW_POLLONESHOT.
THEOREM PollImplementsInterest == Spec => ImplementsInterest
<1>1. IInv /\ [Next]_vars => [Interest!Next]_(Interest!vars)
  BY Zenon, NextInv DEF PollStep
<1> QED
  BY <1>1, InitInv, PollInductive, PTL DEF Spec, ImplementsInterest, Interest!Spec
=============================================================================
