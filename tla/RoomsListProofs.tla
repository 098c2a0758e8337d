----------------------------- MODULE RoomsListProofs -----------------------------
(***************************************************************************)
(* Theorems about RoomsList: the details of a room that is listed are      *)
(* there and not replaced, whatever happens step by step (SteadySpec); and *)
(* what comes from the SDK's list alone is shown as it is listed           *)
(* (ListedSpec).                                                           *)
(*                                                                         *)
(* The argument for the second follows each room through the updates that  *)
(* are queued and those that the loop has still to post: they lead from    *)
(* the entry that the widget has to the one that the loop means it to      *)
(* have.                                                                   *)
(***************************************************************************)
EXTENDS RoomsList, FiniteSetTheorems, SequenceTheorems, WellFoundedInduction, TLAPS

----------------------------------------------------------------------------
(* Induction.                                                               *)

\* The numbers are in any set that has 0 and the successor of each of its members:
\* the least that was missing would have the smallest interval below it.
LEMMA SetInduction ==
    ASSUME NEW S, 0 \in S, \A n \in Nat : n \in S => n + 1 \in S
    PROVE  Nat \subseteq S
<1> DEFINE Missing == {n \in Nat : n \notin S}
           Below == {1..n : n \in Missing}
<1> SUFFICES ASSUME Missing # {} PROVE FALSE
    OBVIOUS
<1>1. IsWellFoundedOn(StrictSubsetOrdering(Nat), FiniteSubsetsOf(Nat))
    BY FS_StrictSubsetOrderingWellFounded
<1>2. Below \subseteq FiniteSubsetsOf(Nat) /\ Below # {}
  <2> SUFFICES ASSUME NEW n \in Nat PROVE 1..n \in FiniteSubsetsOf(Nat)
      OBVIOUS
  <2>1. IsFiniteSet(1..n)
      BY FS_Interval
  <2> QED BY <2>1 DEF FiniteSubsetsOf
<1>3. PICK b \in Below : \A d \in Below : ~ (<<d, b>> \in StrictSubsetOrdering(Nat))
  <2> HIDE DEF Below
  <2> QED BY <1>1, <1>2, WFMin, Zenon
<1>4. PICK n \in Missing : b = 1..n
    OBVIOUS
<1>5. n - 1 \in Missing
    OBVIOUS
<1>6. <<1..(n - 1), 1..n>> \in StrictSubsetOrdering(Nat)
  <2>1. n \in 1..n /\ n \notin 1..(n - 1) /\ 1..(n - 1) \subseteq 1..n
      BY <1>5
  <2> QED BY <2>1 DEF StrictSubsetOrdering
<1> QED BY <1>3, <1>4, <1>5, <1>6

----------------------------------------------------------------------------
(* Runs.  T is a set of steps <<x, e, y>>, that go from x to y by e; the    *)
(* steps by the members of s, one after the other, lead from x to y.        *)

Run(T, s, c) == DOMAIN c = 1..Len(s) + 1 /\ \A i \in 1..Len(s) : <<c[i], s[i], c[i + 1]>> \in T
Leads(T, s, x, y) == \E c : Run(T, s, c) /\ c[1] = x /\ c[Len(s) + 1] = y

LEMMA LeadsNowhere ==
    ASSUME NEW T, NEW x
    PROVE  Leads(T, <<>>, x, x)
<1>1. Run(T, <<>>, [i \in 1..1 |-> x])
    BY DEF Run
<1> QED BY <1>1 DEF Leads

LEMMA LeadsByNothing ==
    ASSUME NEW T, NEW x, NEW y, Leads(T, <<>>, x, y)
    PROVE  x = y
BY DEF Leads, Run

LEMMA LeadsOnce ==
    ASSUME NEW T, NEW e, NEW x, NEW y, <<x, e, y>> \in T
    PROVE  Leads(T, <<e>>, x, y)
<1> DEFINE c == [i \in 1..2 |-> IF i = 1 THEN x ELSE y]
<1>1. Run(T, <<e>>, c)
    BY DEF Run
<1> QED BY <1>1 DEF Leads

LEMMA LeadsOn ==
    ASSUME NEW T, NEW E, NEW s \in Seq(E), NEW t \in Seq(E), NEW x, NEW y, NEW z,
           Leads(T, s, x, y), Leads(T, t, y, z)
    PROVE  Leads(T, s \o t, x, z)
<1>1. PICK c : Run(T, s, c) /\ c[1] = x /\ c[Len(s) + 1] = y
    BY DEF Leads
<1>2. PICK d : Run(T, t, d) /\ d[1] = y /\ d[Len(t) + 1] = z
    BY DEF Leads
<1> DEFINE n == Len(s)
           m == Len(t)
           b == [i \in 1..(n + m) + 1 |-> IF i <= n THEN c[i] ELSE d[i - n]]
<1>3. n \in Nat /\ m \in Nat /\ s \o t \in Seq(E) /\ Len(s \o t) = n + m
    BY LenProperties, ConcatProperties
<1>4. \A i \in 1..n : (s \o t)[i] = s[i]
    BY <1>3, ConcatProperties
<1>5. \A i \in 1..m : (s \o t)[n + i] = t[i]
    BY <1>3, ConcatProperties
<1>6. ASSUME NEW i \in 1..(n + m)
      PROVE  <<b[i], (s \o t)[i], b[i + 1]>> \in T
  <2>1. CASE i < n
      BY <1>1, <1>3, <1>4, <2>1 DEF Run
  <2>2. CASE i = n
      BY <1>1, <1>2, <1>3, <1>4, <2>2 DEF Run
  <2>3. CASE i > n
    <3> DEFINE j == i - n
    <3>1. j \in 1..m /\ i = n + j
        BY <1>3, <2>3
    <3>2. <<d[j], t[j], d[j + 1]>> \in T
        BY <1>2, <3>1 DEF Run
    <3>3. (s \o t)[i] = t[j] /\ b[i] = d[j] /\ b[i + 1] = d[j + 1]
        BY <1>3, <1>5, <2>3, <3>1
    <3> QED BY <3>2, <3>3
  <2>4. i < n \/ i = n \/ i > n
      BY <1>3
  <2> QED BY <2>1, <2>2, <2>3, <2>4, Zenon
<1>7. Run(T, s \o t, b)
    BY <1>3, <1>6 DEF Run
<1>8. b[1] = x /\ b[(n + m) + 1] = z
    BY <1>1, <1>2, <1>3 DEF Run
<1> QED BY <1>3, <1>7, <1>8 DEF Leads

LEMMA LeadsFrom ==
    ASSUME NEW T, NEW E, NEW s \in Seq(E), s # <<>>, NEW x, NEW y, Leads(T, s, x, y)
    PROVE  \E z : <<x, Head(s), z>> \in T /\ Leads(T, Tail(s), z, y)
<1>1. PICK c : Run(T, s, c) /\ c[1] = x /\ c[Len(s) + 1] = y
    BY DEF Leads
<1> DEFINE n == Len(s)
           d == [i \in 1..n |-> c[i + 1]]
<1>2. /\ n \in Nat \ {0} /\ Head(s) = s[1] /\ Tail(s) \in Seq(E) /\ Len(Tail(s)) = n - 1
      /\ \A i \in 1..(n - 1) : Tail(s)[i] = s[i + 1]
    BY HeadTailProperties, EmptySeq, LenProperties
<1>3. Run(T, Tail(s), d)
    BY <1>1, <1>2 DEF Run
<1>4. d[1] = c[2] /\ d[Len(Tail(s)) + 1] = y
    BY <1>1, <1>2 DEF Run
<1>5. <<x, Head(s), c[2]>> \in T
    BY <1>1, <1>2 DEF Run
<1> QED BY <1>3, <1>4, <1>5 DEF Leads

LEMMA LeadsIdly ==
    ASSUME NEW T, NEW E, NEW s \in Seq(E), NEW x, \A e \in Range(s) : <<x, e, x>> \in T
    PROVE  Leads(T, s, x, x)
<1> DEFINE c == [i \in 1..Len(s) + 1 |-> x]
<1>1. Len(s) \in Nat /\ DOMAIN s = 1..Len(s)
    BY LenProperties
<1>2. Run(T, s, c)
    BY <1>1 DEF Run, Range
<1> QED BY <1>1, <1>2 DEF Leads

\* A run of T is followed by one of U, if each step of it is.
LEMMA LeadsAlong ==
    ASSUME NEW T, NEW U, NEW R, NEW E, NEW s \in Seq(E), NEW x, NEW y, NEW v, Leads(T, s, x, y),
           <<x, v>> \in R,
           \A e \in Range(s) : \A a, b, w :
               <<a, e, b>> \in T /\ <<a, w>> \in R => \E z : <<w, e, z>> \in U /\ <<b, z>> \in R
    PROVE  \E z : Leads(U, s, v, z) /\ <<y, z>> \in R
<1>1. PICK c : Run(T, s, c) /\ c[1] = x /\ c[Len(s) + 1] = y
    BY DEF Leads
<1> DEFINE n == Len(s)
           Follows(k, d) == /\ DOMAIN d = 1..k + 1 /\ d[1] = v /\ <<c[k + 1], d[k + 1]>> \in R
                            /\ \A i \in 1..k : <<d[i], s[i], d[i + 1]>> \in U
           Followed == {k \in Nat : k <= n => \E d : Follows(k, d)}
<1>2. n \in Nat /\ DOMAIN s = 1..n
    BY LenProperties
<1>3. 0 \in Followed
  <2>1. Follows(0, [i \in 1..1 |-> v])
      BY <1>1
  <2> QED BY <2>1
<1>4. ASSUME NEW k \in Nat, k \in Followed PROVE k + 1 \in Followed
  <2> SUFFICES ASSUME k + 1 <= n PROVE \E d : Follows(k + 1, d)
      OBVIOUS
  <2>0. \E d : Follows(k, d)
    <3> HIDE DEF Follows
    <3> QED BY <1>2, <1>4
  <2>1. PICK d : Follows(k, d)
      BY <2>0, Zenon
  <2>2. k + 1 \in 1..n /\ s[k + 1] \in Range(s)
      BY <1>2 DEF Range
  <2>3. <<c[k + 1], s[k + 1], c[(k + 1) + 1]>> \in T /\ <<c[k + 1], d[k + 1]>> \in R
      BY <1>1, <2>1, <2>2 DEF Run
  <2>4. PICK z : <<d[k + 1], s[k + 1], z>> \in U /\ <<c[(k + 1) + 1], z>> \in R
      BY <2>2, <2>3, Zenon
  <2> DEFINE f == [i \in 1..(k + 1) + 1 |-> IF i = (k + 1) + 1 THEN z ELSE d[i]]
  <2>5. DOMAIN f = 1..(k + 1) + 1 /\ f[1] = v /\ f[(k + 1) + 1] = z
      BY <2>1
  <2>6. ASSUME NEW i \in 1..k + 1 PROVE <<f[i], s[i], f[i + 1]>> \in U
    <3>1. CASE i = k + 1
      <4>1. f[i] = d[k + 1] /\ f[i + 1] = z
          BY <3>1
      <4> QED BY <2>4, <3>1, <4>1
    <3>2. CASE i \in 1..k
        BY <2>1, <3>2
    <3> QED BY <3>1, <3>2
  <2>7. Follows(k + 1, f)
      BY <2>4, <2>5, <2>6
  <2> QED BY <2>7
<1>5. Nat \subseteq Followed
  <2> HIDE DEF Followed
  <2> QED BY <1>3, <1>4, SetInduction
<1>6. PICK d : Follows(n, d)
    BY <1>2, <1>5
<1> QED BY <1>1, <1>6 DEF Leads, Run

\* What each step keeps, the run keeps.
LEMMA LeadsWithin ==
    ASSUME NEW T, NEW I, NEW E, NEW s \in Seq(E), NEW x, NEW y, Leads(T, s, x, y), x \in I,
           \A e \in Range(s) : \A a, b : a \in I /\ <<a, e, b>> \in T => b \in I
    PROVE  y \in I
<1>1. PICK c : Run(T, s, c) /\ c[1] = x /\ c[Len(s) + 1] = y
    BY DEF Leads
<1> DEFINE n == Len(s)
           Within == {k \in Nat : k <= n => c[k + 1] \in I}
<1>2. n \in Nat /\ DOMAIN s = 1..n
    BY LenProperties
<1>3. 0 \in Within
    BY <1>1
<1>4. ASSUME NEW k \in Nat, k \in Within PROVE k + 1 \in Within
  <2> SUFFICES ASSUME k + 1 <= n PROVE c[(k + 1) + 1] \in I
      OBVIOUS
  <2>1. k + 1 \in 1..n /\ s[k + 1] \in Range(s) /\ c[k + 1] \in I
      BY <1>2, <1>4 DEF Range
  <2>2. <<c[k + 1], s[k + 1], c[(k + 1) + 1]>> \in T
      BY <1>1, <2>1 DEF Run
  <2> QED BY <2>1, <2>2, Zenon
<1>5. Nat \subseteq Within
  <2> HIDE DEF Within
  <2> QED BY <1>3, <1>4, SetInduction
<1> QED BY <1>1, <1>2, <1>5

----------------------------------------------------------------------------
(* What sequences hold.                                                     *)

LEMMA RangeOfNothing == Range(<<>>) = {}
BY DEF Range

LEMMA RangeOfOne ==
    ASSUME NEW e
    PROVE  Range(<<e>>) = {e}
BY DEF Range

LEMMA PairIsConcat ==
    ASSUME NEW a, NEW b
    PROVE  <<a, b>> = <<a>> \o <<b>>
<1> DEFINE E == {a, b}
           s == <<a, b>>
           t == <<a>> \o <<b>>
<1>1. s \in Seq(E) /\ Len(s) = 2 /\ s[1] = a /\ s[2] = b
    OBVIOUS
<1>2. /\ <<a>> \in Seq(E) /\ <<b>> \in Seq(E) /\ Len(<<a>>) = 1 /\ Len(<<b>>) = 1
      /\ <<a>>[1] = a /\ <<b>>[1] = b
    OBVIOUS
<1>3. /\ t \in Seq(E) /\ Len(t) = Len(<<a>>) + Len(<<b>>)
      /\ \A i \in 1..Len(<<a>>) + Len(<<b>>) :
            t[i] = IF i <= Len(<<a>>) THEN <<a>>[i] ELSE <<b>>[i - Len(<<a>>)]
    BY <1>2, ConcatProperties
<1>4. Len(t) = 2 /\ t[1] = a /\ t[2] = b
  <2>1. t[1] = <<a>>[1] /\ t[2] = <<b>>[1]
      BY <1>2, <1>3
  <2> QED BY <1>2, <1>3, <2>1
<1> HIDE DEF s, t, E
<1>5. \A i \in 1..Len(s) : s[i] = t[i]
    BY <1>1, <1>4
<1>6. s = t
    BY <1>1, <1>3, <1>4, <1>5, SeqEqual
<1> QED BY <1>6 DEF s, t

LEMMA RangeOfConcat ==
    ASSUME NEW E, NEW s \in Seq(E), NEW t \in Seq(E)
    PROVE  Range(s \o t) = Range(s) \union Range(t)
<1> DEFINE n == Len(s)
           m == Len(t)
<1>1. /\ n \in Nat /\ m \in Nat /\ DOMAIN s = 1..n /\ DOMAIN t = 1..m
      /\ DOMAIN (s \o t) = 1..(n + m)
    BY LenProperties, ConcatProperties
<1>2. \A i \in 1..n : (s \o t)[i] = s[i]
    BY <1>1, ConcatProperties
<1>3. \A i \in 1..m : (s \o t)[n + i] = t[i]
    BY <1>1, ConcatProperties
<1>4. \A i \in 1..n : i \in 1..(n + m)
    BY <1>1
<1>5. \A i \in 1..m : n + i \in 1..(n + m)
    BY <1>1
<1>6. \A i \in 1..(n + m) : i \in 1..n \/ (i - n \in 1..m /\ i = n + (i - n))
    BY <1>1
<1>7. Range(s \o t) \subseteq Range(s) \union Range(t)
  <2> SUFFICES ASSUME NEW i \in 1..(n + m) PROVE (s \o t)[i] \in Range(s) \union Range(t)
      BY <1>1 DEF Range
  <2>1. CASE i \in 1..n
      BY <1>1, <1>2, <2>1 DEF Range
  <2>2. CASE i - n \in 1..m /\ i = n + (i - n)
      BY <1>1, <1>3, <2>2 DEF Range
  <2> QED BY <1>6, <2>1, <2>2
<1>8. Range(s) \subseteq Range(s \o t)
  <2> SUFFICES ASSUME NEW i \in 1..n PROVE s[i] \in Range(s \o t)
      BY <1>1 DEF Range
  <2> QED BY <1>1, <1>2, <1>4 DEF Range
<1>9. Range(t) \subseteq Range(s \o t)
  <2> SUFFICES ASSUME NEW i \in 1..m PROVE t[i] \in Range(s \o t)
      BY <1>1 DEF Range
  <2> QED BY <1>1, <1>3, <1>5 DEF Range
<1> QED BY <1>7, <1>8, <1>9

LEMMA RangeOfPair ==
    ASSUME NEW a, NEW b
    PROVE  Range(<<a, b>>) = {a, b}
BY DEF Range

LEMMA ThreeInOrder ==
    ASSUME NEW E, NEW s \in Seq(E), NEW t \in Seq(E), NEW u \in Seq(E)
    PROVE  /\ s \o t \o u \in Seq(E) /\ s \o t \in Seq(E) /\ t \o u \in Seq(E)
           /\ s \o t \o u = s \o (t \o u)
           /\ Range(s \o t \o u) = Range(s) \union Range(t) \union Range(u)
<1>1. s \o t \in Seq(E) /\ t \o u \in Seq(E)
    BY ConcatProperties
<1>2. s \o t \o u \in Seq(E)
    BY <1>1, ConcatProperties
<1>3. s \o t \o u = s \o (t \o u)
    BY ConcatAssociative
<1>4. Range(s \o t) = Range(s) \union Range(t)
    BY RangeOfConcat
<1>5. Range((s \o t) \o u) = Range(s \o t) \union Range(u)
    BY <1>1, RangeOfConcat
<1> QED BY <1>1, <1>2, <1>3, <1>4, <1>5

LEMMA RangeOfHead ==
    ASSUME NEW E, NEW s \in Seq(E), s # <<>>
    PROVE  /\ Range(s) = {Head(s)} \union Range(Tail(s))
           /\ Head(s) \in E /\ Tail(s) \in Seq(E)
<1>1. Head(s) \in E /\ Tail(s) \in Seq(E) /\ s = <<Head(s)>> \o Tail(s) /\ <<Head(s)>> \in Seq(E)
    BY HeadTailProperties, EmptySeq
<1>2. Range(<<Head(s)>> \o Tail(s)) = Range(<<Head(s)>>) \union Range(Tail(s))
    BY <1>1, RangeOfConcat
<1>3. Range(<<Head(s)>>) = {Head(s)}
    BY RangeOfOne
<1> QED BY <1>1, <1>2, <1>3

LEMMA RangeOfAppend ==
    ASSUME NEW E, NEW s \in Seq(E), NEW e \in E
    PROVE  /\ Range(Append(s, e)) = Range(s) \union {e}
           /\ Append(s, e) = s \o <<e>> /\ Append(s, e) \in Seq(E) /\ <<e>> \in Seq(E)
<1>1. Append(s, e) = s \o <<e>> /\ Append(s, e) \in Seq(E) /\ <<e>> \in Seq(E)
    BY AppendIsConcat, AppendProperties
<1>2. Range(s \o <<e>>) = Range(s) \union Range(<<e>>)
    BY <1>1, RangeOfConcat
<1>3. Range(<<e>>) = {e}
    BY RangeOfOne
<1> QED BY <1>1, <1>2, <1>3

LEMMA RangeType ==
    ASSUME NEW E, NEW s \in Seq(E)
    PROVE  Range(s) \subseteq E
BY LenProperties, ElementOfSeq DEF Range

----------------------------------------------------------------------------
(* Types.                                                                   *)

Lookups(T) == UNION {[D -> T] : D \in SUBSET Rooms}

Updates ==
    [is : {"AddInvitedRoom", "UpdateRoomName"}, room : Rooms, name : Name]
    \union [is : {"AddJoinedRoom"}, room : Rooms, info : {i \in JoinedRoomInfo : ~i.placeholder}]
    \union [is : {"UpdateIsDirect"}, room : Rooms, direct : BOOLEAN]
    \union [is : {"Tags"}, room : Rooms, tag : Tag]
    \union [is : {"RemoveRoom", "HideRoom", "UnhideRoom"}, room : Rooms]
    \union [is : {"ClearRooms", "RoomOrderUpdate"}]

Steps ==
    [does : {"post"}, update : Updates] \union [does : {"insert", "drop"}, room : Rooms]
    \union [does : {"drop all"}] \union [does : {"remove", "append"}, rooms : SUBSET Rooms]

Diffs == [kind : {"Reset", "Clear", "Append", "Insert", "Remove", "Set", "Move"},
          rooms : SUBSET Rooms]

Widgets ==
    [joined : Lookups(JoinedRoomInfo), invited : Lookups(Name), hidden : SUBSET Rooms,
     shown : [Lists -> SUBSET Rooms], filtered : BOOLEAN, needsSort : BOOLEAN,
     draining : BOOLEAN]

ListType ==
    /\ live \in [Rooms -> RoomInfo]
    /\ diffs \in Seq(Diffs)
    /\ known \in Lookups(RoomInfo)
    /\ todo \in Seq(Steps)
    /\ allJoined \subseteq Rooms
    /\ listener \in [Rooms -> Name \union {"idle", "heard"}]
    /\ leaving \subseteq Rooms
    /\ creating \subseteq [room : Rooms, name : Name]
    /\ queue \in Seq(Updates)
    /\ ui \in Widgets

LEMMA WithType ==
    ASSUME NEW T, NEW f \in Lookups(T), NEW r \in Rooms, NEW v \in T
    PROVE  /\ With(f, r, v) \in Lookups(T)
           /\ DOMAIN With(f, r, v) = DOMAIN f \union {r}
           /\ With(f, r, v)[r] = v
           /\ \A x \in DOMAIN f : x # r => With(f, r, v)[x] = f[x]
<1> DEFINE g == With(f, r, v)
<1>1. PICK D \in SUBSET Rooms : f \in [D -> T]
    BY DEF Lookups
<1>2. g \in [D \union {r} -> T] /\ D \union {r} \in SUBSET Rooms
    BY <1>1 DEF With
<1>3. g \in Lookups(T)
  <2> HIDE DEF g
  <2> QED BY <1>2 DEF Lookups
<1> QED BY <1>1, <1>2, <1>3 DEF With

LEMMA WithoutType ==
    ASSUME NEW T, NEW f \in Lookups(T), NEW r
    PROVE  /\ Without(f, r) \in Lookups(T)
           /\ DOMAIN Without(f, r) = DOMAIN f \ {r}
           /\ \A x \in DOMAIN f \ {r} : Without(f, r)[x] = f[x]
<1> DEFINE g == Without(f, r)
<1>1. PICK D \in SUBSET Rooms : f \in [D -> T]
    BY DEF Lookups
<1>2. g \in [D \ {r} -> T] /\ D \ {r} \in SUBSET Rooms
    BY <1>1 DEF Without, Restrict
<1>3. g \in Lookups(T)
  <2> HIDE DEF g
  <2> QED BY <1>2 DEF Lookups
<1> QED BY <1>1, <1>2, <1>3 DEF Without, Restrict

LEMMA LookupsType ==
    ASSUME NEW T, NEW f \in Lookups(T)
    PROVE  DOMAIN f \subseteq Rooms /\ f \in [DOMAIN f -> T]
BY DEF Lookups

LEMMA NothingType ==
    ASSUME NEW T
    PROVE  Nothing \in Lookups(T) /\ DOMAIN Nothing = {}
<1>1. Nothing \in [{} -> T] /\ DOMAIN Nothing = {}
    BY DEF Nothing
<1> QED BY <1>1 DEF Lookups

LEMMA ReadInfoType ==
    ASSUME ListType, NEW r \in Rooms
    PROVE  ReadInfo(r) \in RoomInfo /\ ReadInfo(r).state = live[r].state
BY DEF ListType, ReadInfo, RoomInfo, Tag

\* The steps of the loop that concern r, and the sorting.
About(r) ==
    {e \in Steps : \/ e.does \in {"insert", "drop"} /\ e.room = r
                   \/ e.does = "post" /\ e.update.is = "RoomOrderUpdate"
                   \/ /\ e.does = "post" /\ e.update.is \notin {"ClearRooms", "RoomOrderUpdate"}
                      /\ e.update.room = r}

LEMMA AboutRoom ==
    ASSUME NEW r \in Rooms
    PROVE  /\ InsertDetails(r) \in About(r) /\ DropDetails(r) \in About(r)
           /\ Post(RoomOrderUpdate) \in About(r)
           /\ Post(RemoveRoom(r)) \in About(r) /\ Post(HideRoom(r)) \in About(r)
           /\ Post(UnhideRoom(r)) \in About(r)
           /\ \A n \in Name : /\ Post(AddInvitedRoom(r, n)) \in About(r)
                              /\ Post(UpdateRoomName(r, n)) \in About(r)
           /\ \A d \in BOOLEAN : Post(UpdateIsDirect(r, d)) \in About(r)
           /\ \A t \in Tag : Post(NewTags(r, t)) \in About(r)
<1>1. /\ RemoveRoom(r) \in Updates /\ HideRoom(r) \in Updates /\ UnhideRoom(r) \in Updates
      /\ RoomOrderUpdate \in Updates
      /\ \A n \in Name : AddInvitedRoom(r, n) \in Updates /\ UpdateRoomName(r, n) \in Updates
      /\ \A d \in BOOLEAN : UpdateIsDirect(r, d) \in Updates
      /\ \A t \in Tag : NewTags(r, t) \in Updates
    BY DEF Updates, RemoveRoom, HideRoom, UnhideRoom, RoomOrderUpdate, AddInvitedRoom,
           UpdateRoomName, UpdateIsDirect, NewTags
<1>2. \A u \in Updates : Post(u) \in Steps /\ Post(u).does = "post" /\ Post(u).update = u
    BY DEF Post, Steps
<1>3. InsertDetails(r) \in About(r) /\ DropDetails(r) \in About(r)
    BY DEF InsertDetails, DropDetails, About, Steps
<1>4. \A u \in Updates : u.is = "RoomOrderUpdate"
                         \/ (u.is \notin {"ClearRooms", "RoomOrderUpdate"} /\ u.room = r)
                         => Post(u) \in About(r)
    BY <1>2 DEF About
<1>5. RoomOrderUpdate.is = "RoomOrderUpdate"
    BY DEF RoomOrderUpdate
<1>6. \A u \in {RemoveRoom(r), HideRoom(r), UnhideRoom(r)} :
          u.is \notin {"ClearRooms", "RoomOrderUpdate"} /\ u.room = r
    BY DEF RemoveRoom, HideRoom, UnhideRoom
<1>7. \A v : \A u \in {AddInvitedRoom(r, v), UpdateRoomName(r, v), UpdateIsDirect(r, v),
                       NewTags(r, v)} :
          u.is \notin {"ClearRooms", "RoomOrderUpdate"} /\ u.room = r
    BY DEF AddInvitedRoom, UpdateRoomName, UpdateIsDirect, NewTags
<1> QED BY <1>1, <1>3, <1>4, <1>5, <1>6, <1>7

LEMMA AboutJoined ==
    ASSUME NEW r \in Rooms, NEW info \in RoomInfo
    PROVE  /\ Post(AddJoinedRoom(r, info)) \in About(r)
           /\ AddJoinedRoom(r, info) \in Updates
<1>1. AddJoinedRoom(r, info) \in Updates
    BY DEF AddJoinedRoom, Updates, JoinedRoomInfo, RoomInfo
<1> QED BY <1>1 DEF About, Steps, Post, AddJoinedRoom

LEMMA add_new_roomType ==
    ASSUME NEW r \in Rooms, NEW info \in RoomInfo
    PROVE  add_new_room(r, info) \in Seq(About(r))
<1>1. /\ Post(AddInvitedRoom(r, info.name)) \in About(r) /\ Post(RemoveRoom(r)) \in About(r)
      /\ InsertDetails(r) \in About(r) /\ Post(AddJoinedRoom(r, info)) \in About(r)
      /\ Post(HideRoom(r)) \in About(r)
    BY AboutRoom, AboutJoined DEF RoomInfo
<1>2. <<Post(AddInvitedRoom(r, info.name))>> \in Seq(About(r))
    BY <1>1
<1>3. <<Post(RemoveRoom(r))>> \in Seq(About(r))
    BY <1>1
<1>4. <<InsertDetails(r), Post(AddJoinedRoom(r, info))>> \in Seq(About(r))
    BY <1>1
<1>5. When(~should_display_joined_room_entry(info), <<Post(HideRoom(r))>>) \in Seq(About(r))
    BY <1>1 DEF When
<1>6. <<InsertDetails(r), Post(AddJoinedRoom(r, info))>>
      \o When(~should_display_joined_room_entry(info), <<Post(HideRoom(r))>>) \in Seq(About(r))
    BY <1>4, <1>5, ConcatProperties
<1> QED BY <1>2, <1>3, <1>6, EmptySeq DEF add_new_room

LEMMA remove_roomType ==
    ASSUME NEW r \in Rooms
    PROVE  remove_room(r) \in Seq(About(r))
BY AboutRoom DEF remove_room

LEMMA DisplayFlipType ==
    ASSUME NEW r \in Rooms, NEW old, NEW new
    PROVE  DisplayFlip(r, old, new) \in Seq(About(r))
<1>1. <<Post(HideRoom(r))>> \in Seq(About(r)) /\ <<Post(UnhideRoom(r))>> \in Seq(About(r))
    BY AboutRoom
<1>2. /\ When(should_display_joined_room_entry(old) /\ ~should_display_joined_room_entry(new),
              <<Post(HideRoom(r))>>) \in Seq(About(r))
      /\ When(~should_display_joined_room_entry(old) /\ should_display_joined_room_entry(new),
              <<Post(UnhideRoom(r))>>) \in Seq(About(r))
    BY <1>1, EmptySeq DEF When
<1> QED BY <1>2, ConcatProperties DEF DisplayFlip

LEMMA ChangesOfType ==
    ASSUME NEW r \in Rooms, NEW old \in RoomInfo, NEW new \in RoomInfo
    PROVE  ChangesOf(r, old, new) \in Seq(About(r))
<1>1. /\ <<Post(UpdateRoomName(r, new.name))>> \in Seq(About(r))
      /\ <<Post(NewTags(r, new.tag))>> \in Seq(About(r))
      /\ <<Post(UpdateIsDirect(r, new.direct))>> \in Seq(About(r))
    BY AboutRoom DEF RoomInfo
<1>2. When(old.name # new.name, <<Post(UpdateRoomName(r, new.name))>>) \in Seq(About(r))
    BY <1>1, EmptySeq DEF When
<1>3. When(new.state = "Joined" /\ old.tag # new.tag, <<Post(NewTags(r, new.tag))>>)
          \in Seq(About(r))
    BY <1>1, EmptySeq DEF When
<1>4. When(new.state = "Joined" /\ old.direct # new.direct,
           <<Post(UpdateIsDirect(r, new.direct))>>) \in Seq(About(r))
    BY <1>1, EmptySeq DEF When
<1> QED BY <1>2, <1>3, <1>4, ConcatProperties DEF ChangesOf

LEMMA update_roomType ==
    ASSUME NEW r \in Rooms, NEW old \in RoomInfo, NEW new \in RoomInfo
    PROVE  update_room(r, old, new) \in Seq(About(r))
<1>1. (CASE old.state = new.state -> ChangesOf(r, old, new)
         [] old.state # new.state /\ new.state \in {"Banned", "Left"} -> remove_room(r)
         [] old.state # new.state /\ new.state \notin {"Banned", "Left"} ->
               add_new_room(r, new)) \in Seq(About(r))
    BY add_new_roomType, remove_roomType, ChangesOfType
<1> QED BY <1>1, DisplayFlipType, ConcatProperties DEF update_room

LEMMA AboutSteps ==
    ASSUME NEW r
    PROVE  About(r) \subseteq Steps /\ Seq(About(r)) \subseteq Seq(Steps)
<1>1. About(r) \subseteq Steps
    BY DEF About
<1> QED BY <1>1, SeqMonotonic

LEMMA StepsType ==
    /\ Sort \in Seq(Steps) /\ <<DropAll>> \in Seq(Steps) /\ <<Post(ClearRooms)>> \in Seq(Steps)
    /\ <<DropAll, Post(ClearRooms)>> \in Seq(Steps)
    /\ \A rooms \in SUBSET Rooms :
          /\ RemoveRooms(rooms) \in Seq(Steps) /\ AppendRooms(rooms) \in Seq(Steps)
          /\ When(rooms # {}, Sort) \in Seq(Steps)
<1>1. Post(RoomOrderUpdate) \in Steps /\ DropAll \in Steps /\ Post(ClearRooms) \in Steps
    BY DEF Post, RoomOrderUpdate, DropAll, ClearRooms, Steps, Updates
<1>2. \A rooms \in SUBSET Rooms : \A does \in {"remove", "append"} :
          [does |-> does, rooms |-> rooms] \in Steps
    BY DEF Steps
<1> QED BY <1>1, <1>2, EmptySeq DEF Sort, RemoveRooms, AppendRooms, When

----------------------------------------------------------------------------
(* The diffs lead from the rooms that the loop knows, or is about to add,   *)
(* to those that the SDK lists.                                             *)

Follows(p, d, q) ==
    \/ d.kind = "Reset" /\ q = d.rooms
    \/ d.kind = "Clear" /\ q = {}
    \/ d.kind = "Append" /\ p = {} /\ q = d.rooms
    \/ d.kind = "Insert" /\ (\E r \in Rooms : d.rooms = {r} /\ r \notin p /\ q = p \union {r})
    \/ d.kind = "Remove" /\ (\E r \in p : d.rooms = {r} /\ q = p \ {r})
    \/ d.kind \in {"Set", "Move"} /\ q = p /\ (\E r \in p : d.rooms = {r})

DiffSteps == {t \in (SUBSET Rooms) \X Diffs \X (SUBSET Rooms) : Follows(t[1], t[2], t[3])}

\* What is to be added is added at the end, and only the sorting comes after it.
AppendsLast(s) ==
    \A i, j \in 1..Len(s) : i < j /\ s[i].does = "append" => s[j] = Post(RoomOrderUpdate)
Appended(s) == {r \in Rooms : \E e \in Range(s) : e.does = "append" /\ r \in e.rooms}

DiffsOK ==
    /\ AppendsLast(todo)
    /\ Appended(todo) \cap DOMAIN known = {}
    /\ Leads(DiffSteps, diffs, DOMAIN known \union Appended(todo), Listed)

LEMMA DiffStep ==
    ASSUME NEW p, NEW d, NEW q
    PROVE  <<p, d, q>> \in DiffSteps <=> /\ p \in SUBSET Rooms /\ d \in Diffs /\ q \in SUBSET Rooms
                                         /\ Follows(p, d, q)
BY DEF DiffSteps

LEMMA AppendsLastFrom ==
    ASSUME NEW s \in Seq(Steps), s # <<>>, AppendsLast(s)
    PROVE  /\ AppendsLast(Tail(s))
           /\ Head(s).does = "append" => \A e \in Range(Tail(s)) : e = Post(RoomOrderUpdate)
<1>1. /\ Len(s) \in Nat \ {0} /\ Tail(s) \in Seq(Steps) /\ Len(Tail(s)) = Len(s) - 1
      /\ \A i \in 1..Len(Tail(s)) : Tail(s)[i] = s[i + 1]
      /\ Head(s) = s[1] /\ DOMAIN Tail(s) = 1..Len(Tail(s))
    BY HeadTailProperties, EmptySeq, LenProperties
<1>2. \A i \in 1..Len(Tail(s)) : i + 1 \in 1..Len(s) /\ 1 < i + 1
    BY <1>1
<1>3. ASSUME NEW i \in 1..Len(Tail(s)), NEW j \in 1..Len(Tail(s)), i < j,
             Tail(s)[i].does = "append"
      PROVE  Tail(s)[j] = Post(RoomOrderUpdate)
  <2>1. i + 1 < j + 1 /\ s[i + 1].does = "append"
      BY <1>1, <1>3
  <2> QED BY <1>1, <1>2, <2>1 DEF AppendsLast
<1>4. ASSUME Head(s).does = "append", NEW e \in Range(Tail(s)) PROVE e = Post(RoomOrderUpdate)
  <2>1. PICK i \in 1..Len(Tail(s)) : e = Tail(s)[i]
      BY <1>1 DEF Range
  <2> QED BY <1>1, <1>2, <1>4, <2>1 DEF AppendsLast
<1> QED BY <1>3, <1>4 DEF AppendsLast

LEMMA AppendsLastAfter ==
    ASSUME NEW s \in Seq(Steps), NEW t \in Seq(Steps), AppendsLast(t),
           \A e \in Range(s) : e.does # "append"
    PROVE  AppendsLast(s \o t)
<1> DEFINE n == Len(s)
           m == Len(t)
<1>1. /\ n \in Nat /\ m \in Nat /\ Len(s \o t) = n + m /\ DOMAIN s = 1..n
      /\ \A i \in 1..n : (s \o t)[i] = s[i]
      /\ \A i \in 1..(n + m) : i > n => (s \o t)[i] = t[i - n]
    BY LenProperties, ConcatProperties
<1>2. \A i \in 1..n : s[i].does # "append"
    BY <1>1 DEF Range
<1> SUFFICES ASSUME NEW i \in 1..(n + m), NEW j \in 1..(n + m), i < j,
                    (s \o t)[i].does = "append"
             PROVE  (s \o t)[j] = Post(RoomOrderUpdate)
    BY <1>1 DEF AppendsLast
<1>3. i > n
    BY <1>1, <1>2
<1>4. i - n \in 1..m /\ j - n \in 1..m /\ i - n < j - n
    BY <1>1, <1>3
<1>5. (s \o t)[i] = t[i - n] /\ (s \o t)[j] = t[j - n]
    BY <1>1, <1>3
<1> QED BY <1>4, <1>5 DEF AppendsLast

LEMMA AppendsLastBefore ==
    ASSUME NEW s \in Seq(Steps), \A e \in Range(s) : e = Post(RoomOrderUpdate),
           NEW rooms \in SUBSET Rooms
    PROVE  AppendsLast(AppendRooms(rooms) \o s)
<1> DEFINE t == AppendRooms(rooms)
<1>1. t \in Seq(Steps) /\ Len(t) \in {0, 1}
    BY StepsType DEF AppendRooms, When
<1>2. /\ Len(s) \in Nat /\ Len(t \o s) = Len(t) + Len(s) /\ DOMAIN s = 1..Len(s)
      /\ \A i \in 1..(Len(t) + Len(s)) : i > Len(t) => (t \o s)[i] = s[i - Len(t)]
    BY <1>1, LenProperties, ConcatProperties
<1> SUFFICES ASSUME NEW j \in 1..(Len(t) + Len(s)), 1 < j
             PROVE  (t \o s)[j] = Post(RoomOrderUpdate)
    BY <1>1, <1>2 DEF AppendsLast
<1> HIDE DEF t
<1>3. \A m \in Nat, n \in {0, 1} : \A i \in 1..(n + m) : 1 < i => i - n \in 1..m /\ i > n
    OBVIOUS
<1>4. j - Len(t) \in 1..Len(s) /\ j > Len(t)
    BY <1>1, <1>2, <1>3
<1> QED BY <1>2, <1>4 DEF Range

LEMMA NoAppends ==
    ASSUME NEW s \in Seq(Steps), \A e \in Range(s) : e.does # "append"
    PROVE  AppendsLast(s) /\ Appended(s) = {}
<1>1. DOMAIN s = 1..Len(s)
    BY LenProperties
<1> QED BY <1>1 DEF AppendsLast, Appended, Range

LEMMA AppendedConcat ==
    ASSUME NEW s \in Seq(Steps), NEW t \in Seq(Steps)
    PROVE  Appended(s \o t) = Appended(s) \union Appended(t)
BY RangeOfConcat DEF Appended

LEMMA AboutAppends ==
    ASSUME NEW r \in Rooms, NEW s \in Seq(About(r))
    PROVE  /\ s \in Seq(Steps) /\ AppendsLast(s) /\ Appended(s) = {}
           /\ \A e \in Range(s) : e \in About(r) /\ e.does # "append"
<1>1. s \in Seq(Steps)
    BY AboutSteps
<1>2. Range(s) \subseteq About(r)
    BY RangeType
<1>3. \A e \in About(r) : e.does # "append"
    BY DEF About
<1> QED BY <1>1, <1>2, <1>3, NoAppends

LEMMA AppendedRooms ==
    ASSUME NEW rooms \in SUBSET Rooms
    PROVE  /\ Appended(AppendRooms(rooms)) = rooms
           /\ AppendsLast(AppendRooms(rooms) \o When(rooms # {}, Sort))
           /\ Appended(AppendRooms(rooms) \o When(rooms # {}, Sort)) = rooms
           /\ AppendRooms(rooms) \in Seq(Steps) /\ When(rooms # {}, Sort) \in Seq(Steps)
<1>1. AppendRooms(rooms) \in Seq(Steps) /\ When(rooms # {}, Sort) \in Seq(Steps)
    BY StepsType
<1>2. \A e \in Range(When(rooms # {}, Sort)) : e = Post(RoomOrderUpdate)
    BY RangeOfOne, RangeOfNothing DEF When, Sort
<1>3. Post(RoomOrderUpdate).does # "append"
    BY DEF Post
<1>4. Appended(When(rooms # {}, Sort)) = {}
    BY <1>1, <1>2, <1>3, NoAppends
<1>5. Appended(AppendRooms(rooms)) = rooms
  <2>1. CASE rooms = {}
      BY <2>1, RangeOfNothing DEF AppendRooms, When, Appended
  <2>2. CASE rooms # {}
    <3>1. Range(AppendRooms(rooms)) = {[does |-> "append", rooms |-> rooms]}
        BY <2>2, RangeOfOne DEF AppendRooms, When
    <3> QED BY <3>1 DEF Appended
  <2> QED BY <2>1, <2>2
<1>6. Appended(AppendRooms(rooms) \o When(rooms # {}, Sort))
      = Appended(AppendRooms(rooms)) \union Appended(When(rooms # {}, Sort))
    BY <1>1, AppendedConcat
<1>7. AppendsLast(AppendRooms(rooms) \o When(rooms # {}, Sort))
    BY <1>1, <1>2, AppendsLastBefore
<1> QED BY <1>1, <1>4, <1>5, <1>6, <1>7

----------------------------------------------------------------------------
(* What the SDK does.                                                       *)

Sound == ListType /\ DiffsOK

LEMMA Reported ==
    ASSUME ListType, NEW r \in Rooms, NEW info \in RoomInfo, Reports(r, info),
           NEW p, Leads(DiffSteps, diffs, p, Listed)
    PROVE  /\ live' \in [Rooms -> RoomInfo] /\ diffs' \in Seq(Diffs)
           /\ Leads(DiffSteps, diffs', p, Listed')
           /\ Range(diffs) \subseteq Range(diffs')
           /\ r \in Listed \union Listed' => \E d \in Range(diffs') : r \in d.rooms
           /\ r \in Listed' <=> Matches(r, info)
           /\ \A q \in Rooms \ {r} : live'[q] = live[q]
<1>1. /\ live \in [Rooms -> RoomInfo] /\ diffs \in Seq(Diffs)
      /\ live' = [live EXCEPT ![r] = info]
    BY DEF ListType, Reports
<1>2. /\ r \in Listed <=> Matches(r, live[r])
      /\ r \in Listed' <=> Matches(r, info)
      /\ \A q \in Rooms \ {r} : q \in Listed' <=> q \in Listed
    BY <1>1 DEF Listed, Matches
<1>3. Listed \in SUBSET Rooms /\ Listed' \in SUBSET Rooms
    BY DEF Listed
<1>4. CASE ~Matches(r, live[r]) /\ ~Matches(r, info)
  <2>1. diffs' = diffs
      BY <1>4 DEF Reports
  <2>2. Listed' = Listed
      BY <1>2, <1>3, <1>4
  <2> QED BY <1>1, <1>2, <1>4, <2>1, <2>2
<1>5. CASE Matches(r, live[r]) \/ Matches(r, info)
  <2>1. PICK kind \in {"Insert", "Remove", "Set", "Move"} :
            /\ (kind = "Insert") = (~Matches(r, live[r]) /\ Matches(r, info))
            /\ (kind = "Remove") = (Matches(r, live[r]) /\ ~Matches(r, info))
            /\ diffs' = Append(diffs, Diff(kind, {r}))
      BY <1>5 DEF Reports
  <2> DEFINE d == Diff(kind, {r})
  <2>2. d \in Diffs /\ d.rooms = {r} /\ d.kind = kind
      BY DEF Diff, Diffs
  <2>3. Follows(Listed, d, Listed')
    <3>1. CASE ~Matches(r, live[r]) /\ Matches(r, info)
      <4>1. kind = "Insert" /\ r \notin Listed /\ Listed' = Listed \union {r}
          BY <1>2, <1>3, <2>1, <3>1
      <4> QED BY <2>2, <4>1 DEF Follows
    <3>2. CASE Matches(r, live[r]) /\ ~Matches(r, info)
      <4>1. kind = "Remove" /\ r \in Listed /\ Listed' = Listed \ {r}
          BY <1>2, <1>3, <2>1, <3>2
      <4> QED BY <2>2, <4>1 DEF Follows
    <3>3. CASE Matches(r, live[r]) /\ Matches(r, info)
      <4>1. kind \in {"Set", "Move"}
          BY <2>1, <3>3
      <4>2. r \in Listed /\ r \in Listed'
          BY <1>2, <3>3
      <4>3. Listed' = Listed
          BY <1>2, <1>3, <4>2
      <4> QED BY <2>2, <4>1, <4>2, <4>3 DEF Follows
    <3> QED BY <1>5, <3>1, <3>2, <3>3
  <2>4. Leads(DiffSteps, <<d>>, Listed, Listed')
      BY <1>3, <2>2, <2>3, DiffStep, LeadsOnce
  <2>a. diffs' = Append(diffs, d)
      BY <2>1
  <2> HIDE DEF d
  <2>5. /\ diffs' = diffs \o <<d>> /\ <<d>> \in Seq(Diffs) /\ diffs' \in Seq(Diffs)
        /\ Range(diffs') = Range(diffs) \union {d}
    <3>1. diffs \in Seq(Diffs) /\ d \in Diffs
        BY <1>1, <2>2
    <3> QED BY <2>a, <3>1, RangeOfAppend
  <2>6. Leads(DiffSteps, diffs \o <<d>>, p, Listed')
      BY <1>1, <2>4, <2>5, LeadsOn
  <2>7. r \in d.rooms
      BY <2>2
  <2> QED BY <1>1, <1>2, <2>5, <2>6, <2>7
<1> QED BY <1>4, <1>5

LEMMA OneChangeType ==
    ASSUME NEW info \in RoomInfo
    PROVE  OneChange(info) \subseteq RoomInfo
<1>1. \A s \in States : [info EXCEPT !.state = s] \in RoomInfo
    BY DEF RoomInfo
<1>2. [info EXCEPT !.direct = ~@] \in RoomInfo
    BY DEF RoomInfo
<1>3. \A n \in Name : [info EXCEPT !.name = n] \in RoomInfo
    BY DEF RoomInfo
<1>4. \A t \in Tag : [info EXCEPT !.tag = t] \in RoomInfo
    BY DEF RoomInfo
<1>5. OneChange(info) \subseteq {[info EXCEPT !.state = s] : s \in States}
                               \union {[info EXCEPT !.direct = ~@]}
                               \union {[info EXCEPT !.name = n] : n \in Name}
                               \union {[info EXCEPT !.tag = t] : t \in Tag}
    BY SMTT(30) DEF OneChange
<1>6. {[info EXCEPT !.state = s] : s \in States} \subseteq RoomInfo
    BY <1>1
<1>7. {[info EXCEPT !.name = n] : n \in Name} \subseteq RoomInfo
    BY <1>3
<1>8. {[info EXCEPT !.tag = t] : t \in Tag} \subseteq RoomInfo
    BY <1>4
<1> QED BY <1>2, <1>5, <1>6, <1>7, <1>8, Zenon

LEMMA RoomChangesKeeps ==
    ASSUME Sound, NEW r \in Rooms, RoomChanges(r)
    PROVE  Sound'
<1>1. PICK info \in OneChange(live[r]) :
          /\ Reports(r, info)
          /\ listener' = IF /\ info.state = "Invited" /\ live[r].state # "Invited"
                            /\ listener[r] = "idle"
                         THEN [listener EXCEPT ![r] = "heard"] ELSE listener
    BY DEF RoomChanges
<1>2. info \in RoomInfo
    BY OneChangeType DEF Sound, ListType
<1>3. UNCHANGED <<leaving, creating, known, todo, allJoined, queue, ui>>
    BY DEF RoomChanges, loopVars
<1>4. listener' \in [Rooms -> Name \union {"idle", "heard"}]
    BY <1>1 DEF Sound, ListType
<1>5. /\ live' \in [Rooms -> RoomInfo] /\ diffs' \in Seq(Diffs)
      /\ Leads(DiffSteps, diffs', DOMAIN known \union Appended(todo), Listed')
    BY <1>1, <1>2, Reported DEF Sound, DiffsOK
<1> QED BY <1>3, <1>4, <1>5 DEF Sound, ListType, DiffsOK

LEMMA UserLeavesKeeps ==
    ASSUME Sound, NEW r \in Rooms, UserLeaves(r)
    PROVE  Sound'
<1> DEFINE info == [live[r] EXCEPT !.state = "Left"]
<1>1. info \in RoomInfo
    BY RoomsAssumption DEF Sound, ListType, RoomInfo
<1>2. /\ Reports(r, info) /\ leaving' = leaving \union {r}
      /\ UNCHANGED <<creating, known, todo, allJoined, listener, queue, ui>>
    BY DEF UserLeaves, loopVars, listenerVars
<1>3. /\ live' \in [Rooms -> RoomInfo] /\ diffs' \in Seq(Diffs)
      /\ Leads(DiffSteps, diffs', DOMAIN known \union Appended(todo), Listed')
  <2> HIDE DEF info
  <2> QED BY <1>1, <1>2, Reported DEF Sound, DiffsOK
<1> QED BY <1>2, <1>3 DEF Sound, ListType, DiffsOK

LEMMA UserCreatesKeeps ==
    ASSUME Sound, NEW r \in Rooms, UserCreates(r)
    PROVE  Sound'
<1> DEFINE info == [live[r] EXCEPT !.state = "Joined"]
<1>1. info \in RoomInfo /\ live[r].name \in Name
    BY RoomsAssumption DEF Sound, ListType, RoomInfo
<1>2. /\ Reports(r, info)
      /\ creating' = creating \union {[room |-> r, name |-> live[r].name]}
      /\ UNCHANGED <<leaving, known, todo, allJoined, listener, queue, ui>>
    BY DEF UserCreates, loopVars, listenerVars
<1>3. /\ live' \in [Rooms -> RoomInfo] /\ diffs' \in Seq(Diffs)
      /\ Leads(DiffSteps, diffs', DOMAIN known \union Appended(todo), Listed')
  <2> HIDE DEF info
  <2> QED BY <1>1, <1>2, Reported DEF Sound, DiffsOK
<1>4. creating' \subseteq [room : Rooms, name : Name]
    BY <1>1, <1>2 DEF Sound, ListType
<1> QED BY <1>2, <1>3, <1>4 DEF Sound, ListType, DiffsOK

LEMMA ListIsResetKeeps ==
    ASSUME Sound, ListIsReset
    PROVE  /\ Sound' /\ Range(diffs) \subseteq Range(diffs')
<1> DEFINE p == DOMAIN known \union Appended(todo)
           reset == Diff("Reset", Listed)
           clear == Diff("Clear", {})
           append == Diff("Append", Listed)
<1>1. /\ diffs' \in {Append(diffs, reset), diffs \o <<clear, append>>}
      /\ UNCHANGED <<live, leaving, creating, known, todo, allJoined, listener, queue, ui>>
    BY DEF ListIsReset, loopVars, listenerVars
<1>a. Listed' = Listed /\ Listed \in SUBSET Rooms /\ diffs \in Seq(Diffs)
    BY <1>1 DEF Listed, Sound, ListType
<1>b. reset \in Diffs /\ clear \in Diffs /\ append \in Diffs
    BY <1>a DEF Diffs, Diff
<1>2. /\ <<reset>> \in Seq(Diffs) /\ <<clear, append>> \in Seq(Diffs)
      /\ <<clear>> \in Seq(Diffs) /\ <<append>> \in Seq(Diffs)
      /\ <<clear, append>> = <<clear>> \o <<append>>
  <2> HIDE DEF reset, clear, append
  <2>1. <<reset>> \in Seq(Diffs) /\ <<clear>> \in Seq(Diffs) /\ <<append>> \in Seq(Diffs)
      BY <1>b
  <2>2. <<clear, append>> \in Seq(Diffs)
      BY <1>b
  <2> QED BY <2>1, <2>2, PairIsConcat
<1>3. Append(diffs, reset) = diffs \o <<reset>>
    BY <1>a, <1>b, AppendIsConcat
<1>4. /\ Leads(DiffSteps, <<reset>>, Listed, Listed) /\ Leads(DiffSteps, <<clear>>, Listed, {})
      /\ Leads(DiffSteps, <<append>>, {}, Listed)
  <2>1. /\ Follows(Listed, reset, Listed) /\ Follows(Listed, clear, {})
        /\ Follows({}, append, Listed)
      BY DEF Follows, Diff
  <2> HIDE DEF reset, clear, append
  <2> QED BY <1>a, <1>b, <2>1, DiffStep, LeadsOnce
<1> HIDE DEF reset, clear, append
<1>5. Leads(DiffSteps, <<clear>> \o <<append>>, Listed, Listed)
    BY <1>2, <1>4, LeadsOn
<1>6. PICK s \in Seq(Diffs) : diffs' = diffs \o s /\ Leads(DiffSteps, s, Listed, Listed)
    BY <1>1, <1>2, <1>3, <1>4, <1>5
<1>7. Leads(DiffSteps, diffs, p, Listed)
    BY DEF Sound, DiffsOK
<1>8. /\ diffs' \in Seq(Diffs) /\ Range(diffs') = Range(diffs) \union Range(s)
    BY <1>a, <1>6, ConcatProperties, RangeOfConcat
<1>9. Leads(DiffSteps, diffs', p, Listed')
  <2>1. Leads(DiffSteps, diffs \o s, p, Listed)
      BY <1>a, <1>6, <1>7, LeadsOn
  <2> QED BY <1>a, <1>6, <2>1
<1> QED BY <1>1, <1>8, <1>9 DEF Sound, ListType, DiffsOK

----------------------------------------------------------------------------
(* What the loop does.                                                      *)

LEMMA Taken ==
    ASSUME Sound, NEW kind, NEW rooms, Takes(kind, rooms)
    PROVE  /\ todo = <<>> /\ diffs \in Seq(Diffs) /\ diffs # <<>> /\ diffs' = Tail(diffs)
           /\ diffs' \in Seq(Diffs) /\ Range(diffs) = {Head(diffs)} \union Range(diffs')
           /\ Head(diffs) \in Diffs /\ Head(diffs).kind = kind /\ Head(diffs).rooms = rooms
           /\ UNCHANGED <<live, leaving, creating, count, allJoined, enqueued, listener, queue,
                          ui, Listed>>
           /\ \E q \in SUBSET Rooms : /\ Follows(DOMAIN known, Head(diffs), q)
                                      /\ Leads(DiffSteps, diffs', q, Listed')
<1>1. /\ todo = <<>> /\ diffs # <<>> /\ diffs' = Tail(diffs) /\ Head(diffs) = Diff(kind, rooms)
      /\ UNCHANGED <<live, leaving, creating, count, allJoined, enqueued, listener, queue, ui>>
    BY DEF Takes, listenerVars
<1>2. diffs \in Seq(Diffs) /\ Listed' = Listed
    BY <1>1 DEF Sound, ListType, Listed
<1>3. Appended(todo) = {}
    BY <1>1, RangeOfNothing DEF Appended
<1>4. Leads(DiffSteps, diffs, DOMAIN known, Listed)
    BY <1>3 DEF Sound, DiffsOK
<1>5. PICK q : <<DOMAIN known, Head(diffs), q>> \in DiffSteps
               /\ Leads(DiffSteps, Tail(diffs), q, Listed)
    BY <1>1, <1>2, <1>4, LeadsFrom
<1>6. q \in SUBSET Rooms /\ Follows(DOMAIN known, Head(diffs), q)
    BY <1>5, DiffStep
<1>7. Range(diffs) = {Head(diffs)} \union Range(diffs') /\ diffs' \in Seq(Diffs)
      /\ Head(diffs) \in Diffs
    BY <1>1, <1>2, RangeOfHead
<1>8. Head(diffs).kind = kind /\ Head(diffs).rooms = rooms
    BY <1>1 DEF Diff
<1> QED BY <1>1, <1>2, <1>5, <1>6, <1>7, <1>8

LEMMA TakenKeeps ==
    ASSUME Sound, NEW kind, NEW rooms, Takes(kind, rooms), known' \in Lookups(RoomInfo),
           todo' \in Seq(Steps), AppendsLast(todo'), Appended(todo') \cap DOMAIN known' = {},
           Follows(DOMAIN known, Head(diffs), DOMAIN known' \union Appended(todo')),
           \A q : Follows(DOMAIN known, Head(diffs), q) => q = DOMAIN known' \union Appended(todo')
    PROVE  Sound'
<1>1. Leads(DiffSteps, diffs', DOMAIN known' \union Appended(todo'), Listed')
    BY Taken
<1>2. /\ diffs' \in Seq(Diffs)
      /\ UNCHANGED <<live, leaving, creating, count, allJoined, enqueued, listener, queue, ui>>
    BY Taken
<1> QED BY <1>1, <1>2 DEF Sound, ListType, DiffsOK

LEMMA SortType ==
    ASSUME NEW r \in Rooms
    PROVE  Sort \in Seq(About(r))
BY AboutRoom DEF Sort

\* The diffs of one room leave it known, unless they remove it.
LEMMA OneRoomTaken ==
    ASSUME Sound, NEW kind \in {"Insert", "Set", "Move", "Remove"}, NEW r \in Rooms,
           Takes(kind, {r}), known' \in Lookups(RoomInfo), todo' \in Seq(About(r)),
           DOMAIN known' = IF kind = "Remove" THEN DOMAIN known \ {r}
                           ELSE DOMAIN known \union {r}
    PROVE  Sound' /\ (kind = "Insert" <=> r \notin DOMAIN known)
<1>1. /\ todo' \in Seq(Steps) /\ AppendsLast(todo') /\ Appended(todo') = {}
    BY AboutAppends
<1>2. Head(diffs).kind = kind /\ Head(diffs).rooms = {r}
    BY Taken
<1>3. PICK q \in SUBSET Rooms : Follows(DOMAIN known, Head(diffs), q)
    BY Taken
<1>4. kind = "Insert" <=> r \notin DOMAIN known
    BY <1>2, <1>3 DEF Follows
<1>5. \A p : Follows(DOMAIN known, Head(diffs), p) => p = DOMAIN known'
    BY <1>2, <1>4 DEF Follows
<1>6. q = DOMAIN known'
    BY <1>3, <1>5
<1> QED BY <1>1, <1>3, <1>4, <1>5, <1>6, TakenKeeps

LEMMA InsertDiffKeeps ==
    ASSUME Sound, NEW r \in Rooms, InsertDiff(r)
    PROVE  Sound' /\ r \notin DOMAIN known /\ todo' \in Seq(About(r))
<1>1. ReadInfo(r) \in RoomInfo /\ known \in Lookups(RoomInfo)
    BY ReadInfoType DEF Sound, ListType
<1>2. known' \in Lookups(RoomInfo) /\ DOMAIN known' = DOMAIN known \union {r}
  <2>1. known' = With(known, r, ReadInfo(r))
      BY DEF InsertDiff
  <2>2. /\ With(known, r, ReadInfo(r)) \in Lookups(RoomInfo)
        /\ DOMAIN With(known, r, ReadInfo(r)) = DOMAIN known \union {r}
      BY <1>1, WithType
  <2> QED BY <2>1, <2>2
<1>3. todo' \in Seq(About(r))
    BY <1>1, add_new_roomType, SortType, ConcatProperties DEF InsertDiff
<1>4. Takes("Insert", {r})
    BY DEF InsertDiff
<1> QED BY <1>2, <1>3, <1>4, OneRoomTaken

LEMMA SetDiffKeeps ==
    ASSUME Sound, NEW r \in Rooms, SetDiff(r) \/ MoveDiff(r)
    PROVE  Sound' /\ r \in DOMAIN known /\ todo' \in Seq(About(r)) /\ known[r] \in RoomInfo
<1>1. ReadInfo(r) \in RoomInfo /\ known \in Lookups(RoomInfo)
    BY ReadInfoType DEF Sound, ListType
<1>2. /\ known' = With(known, r, ReadInfo(r))
      /\ Takes("Set", {r}) \/ Takes("Move", {r})
      /\ \/ todo' = update_room(r, known[r], ReadInfo(r))
         \/ todo' = Sort \o update_room(r, known[r], ReadInfo(r)) \o Sort
    BY DEF SetDiff, MoveDiff
<1>3. known' \in Lookups(RoomInfo) /\ DOMAIN known' = DOMAIN known \union {r}
  <2>1. /\ With(known, r, ReadInfo(r)) \in Lookups(RoomInfo)
        /\ DOMAIN With(known, r, ReadInfo(r)) = DOMAIN known \union {r}
      BY <1>1, WithType
  <2> QED BY <1>2, <2>1
<1>4. r \in DOMAIN known
  <2>1. PICK q : Follows(DOMAIN known, Head(diffs), q)
      BY <1>2, Taken
  <2>2. Head(diffs).kind \in {"Set", "Move"} /\ Head(diffs).rooms = {r}
      BY <1>2, Taken
  <2> QED BY <2>1, <2>2 DEF Follows
<1>5. known[r] \in RoomInfo
    BY <1>1, <1>4, LookupsType
<1>6. todo' \in Seq(About(r))
  <2>1. update_room(r, known[r], ReadInfo(r)) \in Seq(About(r)) /\ Sort \in Seq(About(r))
      BY <1>1, <1>5, update_roomType, SortType
  <2> QED BY <1>2, <2>1, ConcatProperties
<1> QED BY <1>2, <1>3, <1>4, <1>5, <1>6, OneRoomTaken

LEMMA RemoveDiffKeeps ==
    ASSUME Sound, NEW r \in Rooms, RemoveDiff(r)
    PROVE  Sound' /\ r \in DOMAIN known /\ todo' \in Seq(About(r))
<1>1. known \in Lookups(RoomInfo)
    BY DEF Sound, ListType
<1>2. known' \in Lookups(RoomInfo) /\ DOMAIN known' = DOMAIN known \ {r}
  <2>1. known' = Without(known, r)
      BY DEF RemoveDiff
  <2> QED BY <1>1, <2>1, WithoutType
<1>3. todo' \in Seq(About(r))
    BY remove_roomType, SortType, ConcatProperties DEF RemoveDiff
<1>4. Takes("Remove", {r})
    BY DEF RemoveDiff
<1> QED BY <1>2, <1>3, <1>4, OneRoomTaken

LEMMA ResetTodo ==
    ASSUME NEW rooms \in SUBSET Rooms, NEW old \in SUBSET Rooms
    PROVE  LET clearing == RemoveRooms(old) \o <<DropAll, Post(ClearRooms)>> \o Sort
               all == RemoveRooms(old) \o <<DropAll, Post(ClearRooms)>> \o Sort
                      \o AppendRooms(rooms) \o When(rooms # {}, Sort)
           IN  /\ all = clearing \o (AppendRooms(rooms) \o When(rooms # {}, Sort))
               /\ clearing \in Seq(Steps) /\ all \in Seq(Steps) /\ AppendsLast(all)
               /\ Appended(all) = rooms
<1> DEFINE clearing == RemoveRooms(old) \o <<DropAll, Post(ClearRooms)>> \o Sort
           adding == AppendRooms(rooms) \o When(rooms # {}, Sort)
           two == <<DropAll, Post(ClearRooms)>>
<1>1. /\ RemoveRooms(old) \in Seq(Steps) /\ two \in Seq(Steps) /\ Sort \in Seq(Steps)
      /\ AppendRooms(rooms) \in Seq(Steps) /\ When(rooms # {}, Sort) \in Seq(Steps)
    BY StepsType
<1> HIDE DEF two
<1>2. clearing \in Seq(Steps) /\ adding \in Seq(Steps)
  <2>1. RemoveRooms(old) \o two \o Sort \in Seq(Steps)
      BY <1>1, ThreeInOrder
  <2>2. AppendRooms(rooms) \o When(rooms # {}, Sort) \in Seq(Steps)
      BY <1>1, ConcatProperties
  <2> QED BY <2>1, <2>2 DEF two
<1>3. clearing \o adding = (clearing \o AppendRooms(rooms)) \o When(rooms # {}, Sort)
  <2> HIDE DEF clearing
  <2>1. (clearing \o AppendRooms(rooms)) \o When(rooms # {}, Sort)
        = clearing \o (AppendRooms(rooms) \o When(rooms # {}, Sort))
    <3> DEFINE a == AppendRooms(rooms)
               b == When(rooms # {}, Sort)
    <3>1. a \in Seq(Steps) /\ b \in Seq(Steps)
        BY <1>1, Zenon
    <3> HIDE DEF a, b
    <3>2. (clearing \o a) \o b = clearing \o (a \o b)
        BY <1>2, <3>1, ThreeInOrder
    <3> QED BY <3>2, Zenon DEF a, b
  <2> QED BY <2>1, Zenon
<1>4. \A e \in Range(clearing) : e.does # "append"
  <2>1. Range(clearing) = (Range(RemoveRooms(old)) \union Range(two)) \union Range(Sort)
    <3>1. Range(RemoveRooms(old) \o two \o Sort)
          = (Range(RemoveRooms(old)) \union Range(two)) \union Range(Sort)
        BY <1>1, ThreeInOrder
    <3> QED BY <3>1 DEF two
  <2>2. \A e \in Range(RemoveRooms(old)) : e.does # "append"
      BY RangeOfOne, RangeOfNothing DEF RemoveRooms, When
  <2>3. \A e \in Range(two) : e.does # "append"
    <3>1. DropAll.does # "append" /\ Post(ClearRooms).does # "append"
        BY DEF DropAll, Post
    <3>2. Range(two) = {DropAll, Post(ClearRooms)}
        BY RangeOfPair DEF two
    <3> QED BY <3>1, <3>2
  <2>4. \A e \in Range(Sort) : e.does # "append"
      BY RangeOfOne DEF Sort, Post
  <2> QED BY <2>1, <2>2, <2>3, <2>4
<1>5. AppendsLast(adding) /\ Appended(adding) = rooms
    BY AppendedRooms
<1> HIDE DEF clearing, adding
<1>6. AppendsLast(clearing \o adding)
    BY <1>2, <1>4, <1>5, AppendsLastAfter
<1>7. Appended(clearing \o adding) = Appended(clearing) \union rooms
    BY <1>2, <1>5, AppendedConcat
<1>8. Appended(clearing) = {}
    BY <1>2, <1>4, NoAppends
<1>9. clearing \o adding \in Seq(Steps)
    BY <1>2, ConcatProperties
<1> QED BY <1>2, <1>3, <1>6, <1>7, <1>8, <1>9 DEF clearing, adding

LEMMA ResetDiffKeeps ==
    ASSUME Sound, NEW rooms \in SUBSET Rooms, ResetDiff(rooms)
    PROVE  Sound'
<1>1. Takes("Reset", rooms) /\ known' = Nothing
    BY DEF ResetDiff
<1>2. DOMAIN known \in SUBSET Rooms
    BY LookupsType DEF Sound, ListType
<1>3. todo' \in Seq(Steps) /\ AppendsLast(todo') /\ Appended(todo') = rooms
    BY <1>2, ResetTodo DEF ResetDiff
<1>4. known' \in Lookups(RoomInfo) /\ DOMAIN known' = {}
    BY <1>1, NothingType
<1>5. Head(diffs).kind = "Reset" /\ Head(diffs).rooms = rooms
    BY <1>1, Taken
<1>6. /\ Follows(DOMAIN known, Head(diffs), rooms)
      /\ \A q : Follows(DOMAIN known, Head(diffs), q) => q = rooms
    BY <1>5 DEF Follows
<1> QED BY <1>1, <1>3, <1>4, <1>6, TakenKeeps

LEMMA ClearDiffKeeps ==
    ASSUME Sound, ClearDiff
    PROVE  Sound' /\ todo' = <<DropAll>> \o Sort \o <<Post(ClearRooms)>>
<1>1. Takes("Clear", {}) /\ known' = Nothing
      /\ todo' = <<DropAll>> \o Sort \o <<Post(ClearRooms)>>
    BY DEF ClearDiff
<1>2. <<DropAll>> \in Seq(Steps) /\ Sort \in Seq(Steps) /\ <<Post(ClearRooms)>> \in Seq(Steps)
    BY StepsType
<1>3. /\ todo' \in Seq(Steps)
      /\ Range(todo') = Range(<<DropAll>>) \union Range(Sort) \union Range(<<Post(ClearRooms)>>)
  <2> DEFINE s == <<DropAll>>
             t == <<Post(ClearRooms)>>
  <2>1. s \in Seq(Steps) /\ t \in Seq(Steps) /\ Sort \in Seq(Steps)
      BY <1>2
  <2> HIDE DEF s, t
  <2>2. s \o Sort \o t \in Seq(Steps) /\ Range(s \o Sort \o t) = Range(s) \union Range(Sort) \union Range(t)
      BY <2>1, ThreeInOrder
  <2> QED BY <1>1, <2>2 DEF s, t
<1>4. Range(todo') = {DropAll, Post(RoomOrderUpdate), Post(ClearRooms)}
    BY <1>3, RangeOfOne DEF Sort
<1>5. \A e \in Range(todo') : e.does # "append"
  <2>1. DropAll.does # "append" /\ \A u : Post(u).does # "append"
      BY DEF DropAll, Post
  <2> QED BY <1>4, <2>1
<1>6. AppendsLast(todo') /\ Appended(todo') = {}
    BY <1>3, <1>5, NoAppends
<1>7. known' \in Lookups(RoomInfo) /\ DOMAIN known' = {}
    BY <1>1, NothingType
<1>8. Head(diffs).kind = "Clear"
    BY <1>1, Taken
<1>9. /\ Follows(DOMAIN known, Head(diffs), {})
      /\ \A q : Follows(DOMAIN known, Head(diffs), q) => q = {}
    BY <1>8 DEF Follows
<1> QED BY <1>1, <1>3, <1>6, <1>7, <1>9, TakenKeeps

LEMMA AppendDiffKeeps ==
    ASSUME Sound, NEW rooms \in SUBSET Rooms, AppendDiff(rooms)
    PROVE  Sound' /\ DOMAIN known = {}
<1>1. Takes("Append", rooms) /\ known' = known
      /\ todo' = AppendRooms(rooms) \o When(rooms # {}, Sort)
    BY DEF AppendDiff
<1>2. AppendsLast(todo') /\ Appended(todo') = rooms /\ todo' \in Seq(Steps)
    BY <1>1, AppendedRooms, ConcatProperties
<1>3. Head(diffs).kind = "Append" /\ Head(diffs).rooms = rooms
    BY <1>1, Taken
<1>4. PICK q : Follows(DOMAIN known, Head(diffs), q)
    BY <1>1, Taken
<1>5. DOMAIN known = {}
    BY <1>3, <1>4 DEF Follows
<1>6. /\ Follows(DOMAIN known, Head(diffs), rooms)
      /\ \A p : Follows(DOMAIN known, Head(diffs), p) => p = rooms
    BY <1>3, <1>5 DEF Follows
<1>7. known' \in Lookups(RoomInfo) /\ DOMAIN known' = {}
    BY <1>1, <1>5 DEF Sound, ListType
<1> QED BY <1>1, <1>2, <1>5, <1>6, <1>7, TakenKeeps

----------------------------------------------------------------------------
(* What the widget does.                                                    *)

\* The fields of the widget that its next value has.
Holds(joined, invited, hidden, shown) ==
    /\ ui' \in Widgets /\ ui'.joined = joined /\ ui'.invited = invited /\ ui'.hidden = hidden
    /\ ui'.shown = shown /\ ui'.filtered = ui.filtered

LEMMA Handled ==
    ASSUME Sound, NEW kind, Handles(kind)
    PROVE  /\ queue \in Seq(Updates) /\ queue # <<>> /\ queue' = Tail(queue)
           /\ queue' \in Seq(Updates) /\ Head(queue) \in Updates /\ Head(queue).is = kind
           /\ UNCHANGED <<live, diffs, known, todo, allJoined, enqueued, listener, leaving,
                          creating, count>>
<1>1. /\ queue # <<>> /\ queue' = Tail(queue) /\ Head(queue).is = kind /\ queue \in Seq(Updates)
      /\ UNCHANGED <<live, diffs, known, todo, allJoined, enqueued, listener, leaving,
                     creating, count>>
    BY DEF Handles, Sound, ListType, sdkVars, loopVars, listenerVars
<1> QED BY <1>1, RangeOfHead

LEMMA BecomesHolds ==
    ASSUME NEW w \in Widgets, Becomes(w), w.filtered = ui.filtered
    PROVE  Holds(w.joined, w.invited, w.hidden, w.shown)
BY DEF Becomes, Widgets, Holds

LEMMA UpdateFields ==
    ASSUME NEW u \in Updates
    PROVE  /\ u.is \in {"AddInvitedRoom", "UpdateRoomName"} => u.room \in Rooms /\ u.name \in Name
           /\ u.is = "AddJoinedRoom" => /\ u.room \in Rooms
                                        /\ u.info \in JoinedRoomInfo /\ ~u.info.placeholder
           /\ u.is = "UpdateIsDirect" => u.room \in Rooms /\ u.direct \in BOOLEAN
           /\ u.is = "Tags" => u.room \in Rooms /\ u.tag \in Tag
           /\ u.is \in {"RemoveRoom", "HideRoom", "UnhideRoom"} => u.room \in Rooms
           /\ u.is \notin {"ClearRooms", "RoomOrderUpdate"} => u.room \in Rooms
BY DEF Updates

LEMMA DisplayedType ==
    ASSUME NEW list \in Lists, NEW r \in Rooms, NEW should, ui \in Widgets
    PROVE  Displayed(list, r, should) \in SUBSET Rooms
BY DEF Displayed, Widgets

LEMMA ListOfType ==
    ASSUME NEW info, info.direct \in BOOLEAN, info.tag \in Tag
    PROVE  ListOf(info) \in Lists
BY RoomsAssumption DEF ListOf, Lists, Tag

LEMMA GeneratedType ==
    ASSUME NEW w \in Widgets
    PROVE  Generated(w) \in [Lists -> SUBSET Rooms]
<1>1. DOMAIN w.joined \subseteq Rooms /\ DOMAIN w.invited \subseteq Rooms
    BY LookupsType DEF Widgets
<1> QED BY <1>1 DEF Generated

LEMMA AddInvitedRoomEffect ==
    ASSUME Sound, HandlesAddInvitedRoom
    PROVE  LET u == Head(queue)
           IN  Holds(ui.joined, With(ui.invited, u.room, u.name), ui.hidden,
                     [ui.shown EXCEPT !["invited"] =
                          Displayed("invited", u.room, ShouldDisplay(u.room, u.name))])
<1> DEFINE u == Head(queue)
           with == With(ui.invited, u.room, u.name)
           displayed == Displayed("invited", u.room, ShouldDisplay(u.room, u.name))
           w == [ui EXCEPT !.invited = with, !.shown["invited"] = displayed]
<1>1. Handles("AddInvitedRoom") /\ Becomes(w)
    BY DEF HandlesAddInvitedRoom
<1>2. u.room \in Rooms /\ u.name \in Name
    BY <1>1, Handled, UpdateFields
<1>3. with \in Lookups(Name)
    BY <1>2, WithType DEF Sound, ListType, Widgets
<1>4. displayed \in SUBSET Rooms
    BY <1>2, DisplayedType DEF Sound, ListType, Lists
<1> HIDE DEF with, displayed
<1>5. /\ w \in Widgets /\ w.joined = ui.joined /\ w.invited = with /\ w.hidden = ui.hidden
      /\ w.shown = [ui.shown EXCEPT !["invited"] = displayed] /\ w.filtered = ui.filtered
    BY <1>3, <1>4 DEF Sound, ListType, Widgets, Lists
<1> HIDE DEF w
<1> QED BY <1>1, <1>5, BecomesHolds DEF with, displayed

LEMMA Least ==
    ASSUME NEW I, I \subseteq Nat, I # {}
    PROVE  Min(I) \in I
<1> DEFINE Below == {n \in Nat : \A m \in I : n <= m}
<1>1. \E x \in I : \A y \in I : x <= y
  <2> SUFFICES ASSUME \A x \in I : \E y \in I : ~(x <= y) PROVE FALSE
      OBVIOUS
  <2>1. 0 \in Below
      OBVIOUS
  <2>2. ASSUME NEW n \in Nat, n \in Below PROVE n + 1 \in Below
    <3>1. \A m \in I : n <= m /\ m # n
        BY <2>2
    <3> QED BY <3>1
  <2>3. Nat \subseteq Below
    <3> HIDE DEF Below
    <3> QED BY <2>1, <2>2, SetInduction
  <2>4. PICK m \in I : m + 1 \in Below
      BY <2>3
  <2> QED BY <2>4
<1> QED BY <1>1 DEF Min

LEMMA WithoutFirstIs ==
    ASSUME ui \in Widgets, NEW lists \in Seq(Lists), NEW r
    PROVE  \/ WithoutFirst(lists, r) = ui.shown /\ \A l \in Range(lists) : r \notin ui.shown[l]
           \/ \E l \in Range(lists) : /\ r \in ui.shown[l]
                                      /\ WithoutFirst(lists, r) = [ui.shown EXCEPT ![l] = @ \ {r}]
<1> DEFINE I == {i \in 1..Len(lists) : r \in ui.shown[lists[i]]}
           i == IF I # {} THEN Min(I) ELSE 0
<1>1. WithoutFirst(lists, r) = IF i = 0 THEN ui.shown
                               ELSE [ui.shown EXCEPT ![lists[i]] = @ \ {r}]
    BY DEF WithoutFirst, SelectInSeq
<1>2. DOMAIN lists = 1..Len(lists) /\ Len(lists) \in Nat
    BY LenProperties
<1>3. CASE I = {}
    BY <1>1, <1>2, <1>3 DEF Range
<1>4. CASE I # {}
  <2>a. I \subseteq Nat
      OBVIOUS
  <2>1. i \in I
    <3> HIDE DEF I
    <3> QED BY <1>4, <2>a, Least
  <2> HIDE DEF i
  <2>2. i # 0 /\ lists[i] \in Range(lists) /\ r \in ui.shown[lists[i]]
      BY <1>2, <2>1 DEF Range
  <2> HIDE DEF i
  <2> QED BY <1>1, <2>2
<1> QED BY <1>3, <1>4

LEMMA WithoutFirstType ==
    ASSUME ui \in Widgets, NEW lists \in Seq(Lists), NEW r
    PROVE  WithoutFirst(lists, r) \in [Lists -> SUBSET Rooms]
<1>1. ui.shown \in [Lists -> SUBSET Rooms]
    BY DEF Widgets
<1>2. \A l : [ui.shown EXCEPT ![l] = @ \ {r}] \in [Lists -> SUBSET Rooms]
    BY <1>1
<1> QED BY <1>1, <1>2, WithoutFirstIs

LEMMA AddJoinedRoomEffect ==
    ASSUME Sound, HandlesAddJoinedRoom
    PROVE  LET u == Head(queue)
               added == IF ShouldDisplay(u.room, u.info.name)
                        THEN [ui.shown EXCEPT ![ListOf(u.info)] = @ \union {u.room}] ELSE ui.shown
           IN  Holds(With(ui.joined, u.room, u.info), Without(ui.invited, u.room), ui.hidden,
                     IF u.room \in DOMAIN ui.invited
                     THEN [added EXCEPT !["invited"] = @ \ {u.room}] ELSE added)
<1> DEFINE u == Head(queue)
           added == IF ShouldDisplay(u.room, u.info.name)
                    THEN [ui.shown EXCEPT ![ListOf(u.info)] = @ \union {u.room}] ELSE ui.shown
           with == With(ui.joined, u.room, u.info)
           without == Without(ui.invited, u.room)
           shown == IF u.room \in DOMAIN ui.invited
                    THEN [added EXCEPT !["invited"] = @ \ {u.room}] ELSE added
           w == [ui EXCEPT !.joined = with, !.invited = without, !.shown = shown]
<1>1. Handles("AddJoinedRoom") /\ Becomes(w)
    BY DEF HandlesAddJoinedRoom
<1>2. u.room \in Rooms /\ u.info \in JoinedRoomInfo
    BY <1>1, Handled, UpdateFields
<1>3. with \in Lookups(JoinedRoomInfo) /\ without \in Lookups(Name)
    BY <1>2, WithType, WithoutType DEF Sound, ListType, Widgets
<1>4. ListOf(u.info) \in Lists
    BY <1>2, ListOfType DEF JoinedRoomInfo
<1>5. added \in [Lists -> SUBSET Rooms]
    BY <1>2, <1>4 DEF Sound, ListType, Widgets
<1>6. shown \in [Lists -> SUBSET Rooms]
    BY <1>5
<1> HIDE DEF with, without, shown
<1>7. /\ w \in Widgets /\ w.joined = with /\ w.invited = without /\ w.hidden = ui.hidden
      /\ w.shown = shown /\ w.filtered = ui.filtered
    BY <1>3, <1>6 DEF Sound, ListType, Widgets
<1> HIDE DEF w
<1>8. Holds(with, without, ui.hidden, shown)
    BY <1>1, <1>7, BecomesHolds
<1> QED BY <1>8 DEF with, without, shown

LEMMA UpdateRoomNameEffect ==
    ASSUME Sound, HandlesUpdateRoomName
    PROVE  LET u == Head(queue)
               list == IF u.room \in DOMAIN ui.joined THEN ListOf(ui.joined[u.room]) ELSE "invited"
               shown == [ui.shown EXCEPT ![list] =
                            Displayed(list, u.room, ShouldDisplay(u.room, u.name))]
           IN  \/ /\ u.room \in DOMAIN ui.joined
                  /\ Holds([ui.joined EXCEPT ![u.room].name = u.name], ui.invited, ui.hidden, shown)
               \/ /\ u.room \in DOMAIN ui.invited \ DOMAIN ui.joined
                  /\ Holds(ui.joined, [ui.invited EXCEPT ![u.room] = u.name], ui.hidden, shown)
               \/ /\ u.room \notin DOMAIN ui.joined \union DOMAIN ui.invited
                  /\ Holds(ui.joined, ui.invited, ui.hidden, ui.shown)
<1> DEFINE u == Head(queue)
           list == IF u.room \in DOMAIN ui.joined THEN ListOf(ui.joined[u.room]) ELSE "invited"
           displayed == Displayed(list, u.room, ShouldDisplay(u.room, u.name))
           joined == [ui EXCEPT !.joined[u.room].name = u.name, !.shown[list] = displayed]
           invited == [ui EXCEPT !.invited[u.room] = u.name, !.shown[list] = displayed]
<1>1. /\ Handles("UpdateRoomName")
      /\ \/ u.room \in DOMAIN ui.joined /\ Becomes(joined)
         \/ u.room \in DOMAIN ui.invited \ DOMAIN ui.joined /\ Becomes(invited)
         \/ u.room \notin DOMAIN ui.joined \union DOMAIN ui.invited /\ Becomes(ui)
    BY Zenon DEF HandlesUpdateRoomName
<1>2. u.room \in Rooms /\ u.name \in Name /\ ui \in Widgets
    BY <1>1, Handled, UpdateFields DEF Sound, ListType
<1>3. ui.joined \in Lookups(JoinedRoomInfo) /\ ui.invited \in Lookups(Name)
      /\ ui.shown \in [Lists -> SUBSET Rooms]
    BY <1>2 DEF Widgets
<1>4. u.room \in DOMAIN ui.joined => ui.joined[u.room] \in JoinedRoomInfo
    BY <1>3, LookupsType
<1>5. list \in Lists
  <2>1. u.room \in DOMAIN ui.joined => ListOf(ui.joined[u.room]) \in Lists
      BY <1>4, ListOfType DEF JoinedRoomInfo
  <2> QED BY <2>1 DEF Lists
<1> HIDE DEF list
<1>6. displayed \in SUBSET Rooms
    BY <1>2, <1>5, DisplayedType
<1> HIDE DEF displayed
<1> DEFINE shown == [ui.shown EXCEPT ![list] = displayed]
<1>7. CASE u.room \in DOMAIN ui.joined /\ Becomes(joined)
  <2> DEFINE new == [ui.joined EXCEPT ![u.room].name = u.name]
  <2>1. new \in Lookups(JoinedRoomInfo)
    <3>1. PICK D \in SUBSET Rooms : ui.joined \in [D -> JoinedRoomInfo]
        BY <1>3 DEF Lookups
    <3>2. new \in [D -> JoinedRoomInfo]
        BY <1>2, <1>4, <1>7, <3>1 DEF JoinedRoomInfo
    <3> HIDE DEF new
    <3> QED BY <3>2 DEF Lookups
  <2>2. joined = [ui EXCEPT !.joined = new, !.shown = shown]
      BY <1>2 DEF Widgets
  <2> HIDE DEF new
  <2> DEFINE w == [ui EXCEPT !.joined = new, !.shown = shown]
  <2>3. /\ w \in Widgets /\ w.joined = new /\ w.invited = ui.invited /\ w.hidden = ui.hidden
        /\ w.shown = shown /\ w.filtered = ui.filtered
      BY <1>2, <1>5, <1>6, <2>1 DEF Widgets
  <2> HIDE DEF w
  <2>4. Holds(new, ui.invited, ui.hidden, shown)
      BY <1>7, <2>2, <2>3, BecomesHolds DEF w
  <2> QED BY <1>7, <2>4 DEF new, list, displayed
<1>8. CASE u.room \in DOMAIN ui.invited \ DOMAIN ui.joined /\ Becomes(invited)
  <2> DEFINE new == [ui.invited EXCEPT ![u.room] = u.name]
  <2>1. new \in Lookups(Name)
    <3>1. PICK D \in SUBSET Rooms : ui.invited \in [D -> Name]
        BY <1>3 DEF Lookups
    <3>2. new \in [D -> Name]
        BY <1>2, <3>1
    <3> HIDE DEF new
    <3> QED BY <3>2 DEF Lookups
  <2>2. invited = [ui EXCEPT !.invited = new, !.shown = shown]
      BY <1>2 DEF Widgets
  <2> HIDE DEF new
  <2> DEFINE w == [ui EXCEPT !.invited = new, !.shown = shown]
  <2>3. /\ w \in Widgets /\ w.joined = ui.joined /\ w.invited = new /\ w.hidden = ui.hidden
        /\ w.shown = shown /\ w.filtered = ui.filtered
      BY <1>2, <1>5, <1>6, <2>1 DEF Widgets
  <2> HIDE DEF w
  <2>4. Holds(ui.joined, new, ui.hidden, shown)
      BY <1>8, <2>2, <2>3, BecomesHolds DEF w
  <2> QED BY <1>8, <2>4 DEF new, list, displayed
<1>9. CASE u.room \notin DOMAIN ui.joined \union DOMAIN ui.invited /\ Becomes(ui)
  <2>1. Holds(ui.joined, ui.invited, ui.hidden, ui.shown)
      BY <1>2, <1>9, BecomesHolds
  <2> QED BY <1>9, <2>1
<1> QED BY <1>1, <1>7, <1>8, <1>9

LEMMA UpdateIsDirectEffect ==
    ASSUME Sound, HandlesUpdateIsDirect
    PROVE  LET u == Head(queue)
               from == IF ui.joined[u.room].direct THEN <<"direct">>
                       ELSE <<"favorite", "low_priority", "regular">>
               room == [ui.joined[u.room] EXCEPT !.direct = u.direct]
               removed == WithoutFirst(from, u.room)
           IN  IF u.room \in DOMAIN ui.joined /\ ui.joined[u.room].direct # u.direct
               THEN Holds([ui.joined EXCEPT ![u.room] = room], ui.invited, ui.hidden,
                          IF ShouldDisplay(u.room, room.name)
                          THEN [removed EXCEPT ![ListOf(room)] = @ \union {u.room}] ELSE removed)
               ELSE Holds(ui.joined, ui.invited, ui.hidden, ui.shown)
<1> DEFINE u == Head(queue)
           from == IF ui.joined[u.room].direct THEN <<"direct">>
                   ELSE <<"favorite", "low_priority", "regular">>
           room == [ui.joined[u.room] EXCEPT !.direct = u.direct]
           removed == WithoutFirst(from, u.room)
           new == [ui.joined EXCEPT ![u.room] = room]
           shown == IF ShouldDisplay(u.room, room.name)
                    THEN [removed EXCEPT ![ListOf(room)] = @ \union {u.room}] ELSE removed
           w == [ui EXCEPT !.joined = new, !.shown = shown]
<1>1. /\ Handles("UpdateIsDirect")
      /\ IF u.room \in DOMAIN ui.joined /\ ui.joined[u.room].direct # u.direct
         THEN Becomes([ui EXCEPT !.joined[u.room] = room, !.shown = shown]) ELSE Becomes(ui)
    BY Zenon DEF HandlesUpdateIsDirect
<1>2. u.room \in Rooms /\ u.direct \in BOOLEAN /\ ui \in Widgets
    BY <1>1, Handled, UpdateFields DEF Sound, ListType
<1>3. CASE u.room \in DOMAIN ui.joined /\ ui.joined[u.room].direct # u.direct
  <2>1. ui.joined \in Lookups(JoinedRoomInfo) /\ ui.joined[u.room] \in JoinedRoomInfo
      BY <1>2, <1>3, LookupsType DEF Widgets
  <2>2. room \in JoinedRoomInfo
      BY <1>2, <2>1 DEF JoinedRoomInfo
  <2>3. removed \in [Lists -> SUBSET Rooms]
    <3>a. <<"direct">> \in Seq(Lists) /\ <<"favorite", "low_priority", "regular">> \in Seq(Lists)
        BY DEF Lists
    <3>1. from \in Seq(Lists)
        BY <3>a, Zenon
    <3> QED BY <1>2, <3>1, WithoutFirstType
  <2>4. new \in Lookups(JoinedRoomInfo)
    <3>1. PICK D \in SUBSET Rooms : ui.joined \in [D -> JoinedRoomInfo]
        BY <2>1 DEF Lookups
    <3> HIDE DEF room
    <3>2. new \in [D -> JoinedRoomInfo]
        BY <2>2, <3>1
    <3> HIDE DEF new
    <3> QED BY <3>2 DEF Lookups
  <2>5. ListOf(room) \in Lists
      BY <2>2, ListOfType DEF JoinedRoomInfo
  <2> HIDE DEF room, removed
  <2>6. shown \in [Lists -> SUBSET Rooms]
      BY <1>2, <2>3, <2>5
  <2> HIDE DEF shown
  <2>7. [ui EXCEPT !.joined[u.room] = room, !.shown = shown] = w
      BY <1>2 DEF Widgets
  <2> HIDE DEF new
  <2>8. /\ w \in Widgets /\ w.joined = new /\ w.invited = ui.invited /\ w.hidden = ui.hidden
        /\ w.shown = shown /\ w.filtered = ui.filtered
      BY <1>2, <2>4, <2>6 DEF Widgets
  <2> HIDE DEF w
  <2>9. Holds(new, ui.invited, ui.hidden, shown)
      BY <1>1, <1>3, <2>7, <2>8, BecomesHolds
  <2> QED BY <1>3, <2>9 DEF new, shown, removed, room
<1>4. CASE ~(u.room \in DOMAIN ui.joined /\ ui.joined[u.room].direct # u.direct)
  <2>1. Becomes(ui)
      BY <1>1, <1>4
  <2>2. Holds(ui.joined, ui.invited, ui.hidden, ui.shown)
      BY <1>2, <2>1, BecomesHolds
  <2> QED BY <1>4, <2>2
<1> QED BY <1>3, <1>4

LEMMA TagsEffect ==
    ASSUME Sound, HandlesTags
    PROVE  LET u == Head(queue)
               tagged == [ui EXCEPT !.joined = [@ EXCEPT ![u.room].tag = u.tag]]
           IN  IF u.room \in DOMAIN ui.joined
               THEN /\ Holds(tagged.joined, ui.invited, ui.hidden, Generated(tagged))
                    /\ tagged \in Widgets
               ELSE Holds(ui.joined, ui.invited, ui.hidden, ui.shown)
<1> DEFINE u == Head(queue)
           new == [ui.joined EXCEPT ![u.room].tag = u.tag]
           tagged == [ui EXCEPT !.joined = new]
           w == [tagged EXCEPT !.shown = Generated(tagged)]
<1>1. /\ Handles("Tags")
      /\ IF u.room \in DOMAIN ui.joined THEN Becomes(w) ELSE Becomes(ui)
    BY DEF HandlesTags
<1>2. u.room \in Rooms /\ u.tag \in Tag /\ ui \in Widgets
    BY <1>1, Handled, UpdateFields DEF Sound, ListType
<1>3. CASE u.room \in DOMAIN ui.joined
  <2>1. ui.joined \in Lookups(JoinedRoomInfo) /\ ui.joined[u.room] \in JoinedRoomInfo
      BY <1>2, <1>3, LookupsType DEF Widgets
  <2>2. new \in Lookups(JoinedRoomInfo)
    <3>1. PICK D \in SUBSET Rooms : ui.joined \in [D -> JoinedRoomInfo]
        BY <2>1 DEF Lookups
    <3>2. new \in [D -> JoinedRoomInfo]
        BY <1>2, <1>3, <2>1, <3>1 DEF JoinedRoomInfo
    <3> HIDE DEF new
    <3> QED BY <3>2 DEF Lookups
  <2> HIDE DEF new
  <2>3. /\ tagged \in Widgets /\ tagged.joined = new /\ tagged.invited = ui.invited
        /\ tagged.hidden = ui.hidden /\ tagged.filtered = ui.filtered
      BY <1>2, <2>2 DEF Widgets
  <2> HIDE DEF tagged
  <2>4. Generated(tagged) \in [Lists -> SUBSET Rooms]
      BY <2>3, GeneratedType
  <2>5. /\ w \in Widgets /\ w.joined = new /\ w.invited = ui.invited /\ w.hidden = ui.hidden
        /\ w.shown = Generated(tagged) /\ w.filtered = ui.filtered
      BY <2>3, <2>4 DEF Widgets
  <2> HIDE DEF w
  <2>6. Holds(new, ui.invited, ui.hidden, Generated(tagged))
      BY <1>1, <1>3, <2>5, BecomesHolds
  <2>7. Holds(tagged.joined, ui.invited, ui.hidden, Generated(tagged))
      BY <2>3, <2>6
  <2> QED BY <1>3, <2>3, <2>7 DEF tagged, new
<1>4. CASE u.room \notin DOMAIN ui.joined
  <2>1. Holds(ui.joined, ui.invited, ui.hidden, ui.shown)
      BY <1>1, <1>2, <1>4, BecomesHolds
  <2> QED BY <1>4, <2>1
<1> QED BY <1>3, <1>4

LEMMA RemoveRoomEffect ==
    ASSUME Sound, HandlesRemoveRoom
    PROVE  LET r == Head(queue).room
               list == IF r \in DOMAIN ui.joined THEN ListOf(ui.joined[r]) ELSE "invited"
               shown == [ui.shown EXCEPT ![list] = @ \ {r}]
           IN  \/ /\ r \in DOMAIN ui.joined
                  /\ Holds(Without(ui.joined, r), ui.invited, ui.hidden \ {r}, shown)
               \/ /\ r \in DOMAIN ui.invited \ DOMAIN ui.joined
                  /\ Holds(ui.joined, Without(ui.invited, r), ui.hidden \ {r}, shown)
               \/ /\ r \notin DOMAIN ui.joined \union DOMAIN ui.invited
                  /\ Holds(ui.joined, ui.invited, ui.hidden \ {r}, ui.shown)
<1> DEFINE r == Head(queue).room
           list == IF r \in DOMAIN ui.joined THEN ListOf(ui.joined[r]) ELSE "invited"
           gone == [ui EXCEPT !.hidden = @ \ {r}]
           shown == [ui.shown EXCEPT ![list] = @ \ {r}]
           joined == [gone EXCEPT !.joined = Without(@, r), !.shown[list] = @ \ {r}]
           invited == [gone EXCEPT !.invited = Without(@, r), !.shown[list] = @ \ {r}]
<1>1. /\ Handles("RemoveRoom")
      /\ \/ r \in DOMAIN ui.joined /\ Becomes(joined)
         \/ r \in DOMAIN ui.invited \ DOMAIN ui.joined /\ Becomes(invited)
         \/ r \notin DOMAIN ui.joined \union DOMAIN ui.invited /\ Becomes(gone)
    BY Zenon DEF HandlesRemoveRoom
<1>2. r \in Rooms /\ ui \in Widgets
    BY <1>1, Handled, UpdateFields DEF Sound, ListType
<1>3. /\ Without(ui.joined, r) \in Lookups(JoinedRoomInfo)
      /\ Without(ui.invited, r) \in Lookups(Name)
  <2>1. ui.joined \in Lookups(JoinedRoomInfo) /\ ui.invited \in Lookups(Name)
      BY <1>2 DEF Widgets
  <2> QED BY <2>1, WithoutType
<1> DEFINE j == [ui EXCEPT !.joined = Without(ui.joined, r), !.hidden = @ \ {r}, !.shown = shown]
           i == [ui EXCEPT !.invited = Without(ui.invited, r), !.hidden = @ \ {r}, !.shown = shown]
<1>4. joined = j /\ invited = i
    BY <1>2 DEF Widgets
<1>5. shown \in [Lists -> SUBSET Rooms]
    BY <1>2 DEF Widgets
<1> HIDE DEF shown, joined, invited
<1>6. /\ j \in Widgets /\ j.joined = Without(ui.joined, r) /\ j.invited = ui.invited
      /\ j.hidden = ui.hidden \ {r} /\ j.shown = shown /\ j.filtered = ui.filtered
    BY <1>2, <1>3, <1>5 DEF Widgets
<1>7. /\ i \in Widgets /\ i.joined = ui.joined /\ i.invited = Without(ui.invited, r)
      /\ i.hidden = ui.hidden \ {r} /\ i.shown = shown /\ i.filtered = ui.filtered
    BY <1>2, <1>3, <1>5 DEF Widgets
<1>8. /\ gone \in Widgets /\ gone.joined = ui.joined /\ gone.invited = ui.invited
      /\ gone.hidden = ui.hidden \ {r} /\ gone.shown = ui.shown /\ gone.filtered = ui.filtered
    BY <1>2 DEF Widgets
<1> HIDE DEF i, j, gone
<1>9. \/ r \in DOMAIN ui.joined
         /\ Holds(Without(ui.joined, r), ui.invited, ui.hidden \ {r}, shown)
      \/ r \in DOMAIN ui.invited \ DOMAIN ui.joined
         /\ Holds(ui.joined, Without(ui.invited, r), ui.hidden \ {r}, shown)
      \/ r \notin DOMAIN ui.joined \union DOMAIN ui.invited
         /\ Holds(ui.joined, ui.invited, ui.hidden \ {r}, ui.shown)
  <2>1. CASE r \in DOMAIN ui.joined /\ Becomes(joined)
    <3>1. Holds(j.joined, j.invited, j.hidden, j.shown)
        BY <1>4, <1>6, <2>1, BecomesHolds
    <3> QED BY <1>6, <2>1, <3>1
  <2>2. CASE r \in DOMAIN ui.invited \ DOMAIN ui.joined /\ Becomes(invited)
    <3>1. Holds(i.joined, i.invited, i.hidden, i.shown)
        BY <1>4, <1>7, <2>2, BecomesHolds
    <3> QED BY <1>7, <2>2, <3>1
  <2>3. CASE r \notin DOMAIN ui.joined \union DOMAIN ui.invited /\ Becomes(gone)
    <3>1. Holds(gone.joined, gone.invited, gone.hidden, gone.shown)
        BY <1>8, <2>3, BecomesHolds
    <3> QED BY <1>8, <2>3, <3>1
  <2> QED BY <1>1, <2>1, <2>2, <2>3
<1> QED BY <1>9, Zenon DEF shown

LEMMA ClearRoomsEffect ==
    ASSUME Sound, HandlesClearRooms
    PROVE  Holds(Nothing, Nothing, ui.hidden, [l \in Lists |-> {}])
<1> DEFINE none == [l \in Lists |-> {}]
           w == [ui EXCEPT !.joined = Nothing, !.invited = Nothing, !.shown = none]
<1>1. Becomes(w) /\ ui \in Widgets
    BY DEF HandlesClearRooms, Sound, ListType
<1>2. Nothing \in Lookups(JoinedRoomInfo) /\ Nothing \in Lookups(Name)
    BY NothingType
<1>3. none \in [Lists -> SUBSET Rooms]
    OBVIOUS
<1> HIDE DEF none
<1>4. /\ w \in Widgets /\ w.joined = Nothing /\ w.invited = Nothing /\ w.hidden = ui.hidden
      /\ w.shown = none /\ w.filtered = ui.filtered
    BY <1>1, <1>2, <1>3 DEF Widgets
<1> HIDE DEF w
<1>5. Holds(Nothing, Nothing, ui.hidden, none)
    BY <1>1, <1>4, BecomesHolds
<1> QED BY <1>5 DEF none

AllLists == <<"regular", "direct", "invited", "favorite", "low_priority">>

LEMMA HideRoomEffect ==
    ASSUME Sound, HandlesHideRoom
    PROVE  LET r == Head(queue).room
           IN  Holds(ui.joined, ui.invited, ui.hidden \union {r}, WithoutFirst(AllLists, r))
<1> DEFINE r == Head(queue).room
           shown == WithoutFirst(AllLists, r)
           w == [ui EXCEPT !.hidden = @ \union {r}, !.shown = shown]
<1>1. Becomes(w) /\ Handles("HideRoom")
    BY DEF HandlesHideRoom, AllLists
<1>2. r \in Rooms /\ ui \in Widgets
    BY <1>1, Handled, UpdateFields DEF Sound, ListType
<1>3. shown \in [Lists -> SUBSET Rooms]
  <2>1. AllLists \in Seq(Lists)
      BY DEF AllLists, Lists
  <2> QED BY <1>2, <2>1, WithoutFirstType
<1> HIDE DEF shown
<1>4. /\ w \in Widgets /\ w.joined = ui.joined /\ w.invited = ui.invited
      /\ w.hidden = ui.hidden \union {r} /\ w.shown = shown /\ w.filtered = ui.filtered
    BY <1>2, <1>3 DEF Widgets
<1> HIDE DEF w
<1>5. Holds(ui.joined, ui.invited, ui.hidden \union {r}, shown)
    BY <1>1, <1>4, BecomesHolds
<1> QED BY <1>5 DEF shown

LEMMA UnhideRoomEffect ==
    ASSUME Sound, HandlesUnhideRoom
    PROVE  LET r == Head(queue).room
           IN  IF /\ r \in ui.hidden /\ r \in DOMAIN ui.joined
                  /\ ui.filtered => ui.joined[r].name = "Match"
               THEN Holds(ui.joined, ui.invited, ui.hidden \ {r},
                          [ui.shown EXCEPT ![ListOf(ui.joined[r])] = @ \union {r}])
               ELSE Holds(ui.joined, ui.invited, ui.hidden \ {r}, ui.shown)
<1> DEFINE r == Head(queue).room
           unhidden == [ui EXCEPT !.hidden = @ \ {r}]
           again == [unhidden EXCEPT !.shown[ListOf(ui.joined[r])] = @ \union {r}]
           shown == [ui.shown EXCEPT ![ListOf(ui.joined[r])] = @ \union {r}]
           w == [ui EXCEPT !.hidden = @ \ {r}, !.shown = shown]
           Shows == /\ r \in ui.hidden /\ r \in DOMAIN ui.joined
                    /\ ui.filtered => ui.joined[r].name = "Match"
<1>1. Handles("UnhideRoom") /\ (IF Shows THEN Becomes(again) ELSE Becomes(unhidden))
    BY DEF HandlesUnhideRoom
<1>2. r \in Rooms /\ ui \in Widgets
    BY <1>1, Handled, UpdateFields DEF Sound, ListType
<1>3. again = w
    BY <1>2 DEF Widgets
<1>4. shown \in [Lists -> SUBSET Rooms]
    BY <1>2 DEF Widgets
<1> HIDE DEF shown, again
<1>5. /\ w \in Widgets /\ w.joined = ui.joined /\ w.invited = ui.invited
      /\ w.hidden = ui.hidden \ {r} /\ w.shown = shown /\ w.filtered = ui.filtered
    BY <1>2, <1>4 DEF Widgets
<1>6. /\ unhidden \in Widgets /\ unhidden.joined = ui.joined /\ unhidden.invited = ui.invited
      /\ unhidden.hidden = ui.hidden \ {r} /\ unhidden.shown = ui.shown
      /\ unhidden.filtered = ui.filtered
    BY <1>2 DEF Widgets
<1> HIDE DEF w, unhidden
<1>7. Shows => Holds(ui.joined, ui.invited, ui.hidden \ {r}, shown)
    BY <1>1, <1>3, <1>5, BecomesHolds
<1>8. ~Shows => Holds(ui.joined, ui.invited, ui.hidden \ {r}, ui.shown)
    BY <1>1, <1>6, BecomesHolds
<1> QED BY <1>7, <1>8 DEF shown

LEMMA RoomOrderUpdateEffect ==
    ASSUME Sound, HandlesRoomOrderUpdate
    PROVE  Holds(ui.joined, ui.invited, ui.hidden, ui.shown)
BY BecomesHolds DEF HandlesRoomOrderUpdate, Becomes, Holds, Widgets, Sound, ListType

LEMMA DrainEndsEffect ==
    ASSUME Sound, DrainEnds
    PROVE  /\ \/ Holds(ui.joined, ui.invited, ui.hidden, ui.shown)
              \/ Holds(ui.joined, ui.invited, ui.hidden, Generated(ui))
           /\ UNCHANGED <<live, diffs, known, todo, allJoined, enqueued, listener, leaving,
                          creating, count, queue>>
<1>1. ui \in Widgets /\ Generated(ui) \in [Lists -> SUBSET Rooms]
    BY GeneratedType DEF Sound, ListType
<1>2. ui' = [ui EXCEPT !.draining = FALSE, !.needsSort = FALSE,
                       !.shown = IF ui.needsSort THEN Generated(ui) ELSE @]
    BY DEF DrainEnds
<1>3. \/ Holds(ui.joined, ui.invited, ui.hidden, ui.shown)
      \/ Holds(ui.joined, ui.invited, ui.hidden, Generated(ui))
    BY <1>1, <1>2 DEF Holds, Widgets
<1> QED BY <1>3 DEF DrainEnds, sdkVars, loopVars, listenerVars

LEMMA FilterChangesEffect ==
    ASSUME Sound, FilterChanges
    PROVE  /\ ui' \in Widgets /\ ui'.joined = ui.joined /\ ui'.invited = ui.invited
           /\ ui'.hidden = ui.hidden
           /\ \E w \in Widgets : /\ w.joined = ui'.joined /\ w.invited = ui'.invited
                                 /\ w.hidden = ui'.hidden /\ w.filtered = ui'.filtered
                                 /\ ui'.shown = Generated(w)
           /\ UNCHANGED <<live, diffs, known, todo, allJoined, enqueued, listener, leaving,
                          creating, queue>>
<1> DEFINE w == [ui EXCEPT !.filtered = ~@]
<1>1. /\ ui' = [w EXCEPT !.shown = Generated(w)]
      /\ UNCHANGED <<live, diffs, known, todo, allJoined, enqueued, listener, leaving,
                     creating, queue>>
    BY DEF FilterChanges, loopVars, listenerVars
<1>2. /\ w \in Widgets /\ w.joined = ui.joined /\ w.invited = ui.invited
      /\ w.hidden = ui.hidden
    BY DEF Sound, ListType, Widgets
<1> HIDE DEF w
<1>3. Generated(w) \in [Lists -> SUBSET Rooms]
    BY <1>2, GeneratedType
<1>4. /\ ui' \in Widgets /\ ui'.joined = w.joined /\ ui'.invited = w.invited
      /\ ui'.hidden = w.hidden /\ ui'.filtered = w.filtered /\ ui'.shown = Generated(w)
    BY <1>1, <1>2, <1>3 DEF Widgets
<1> QED BY <1>1, <1>2, <1>4

LEMMA HandlesCreatedEffect ==
    ASSUME Sound, NEW created \in creating, HandlesCreated(created)
    PROVE  /\ ui' \in Widgets /\ ui'.invited = ui.invited /\ ui'.hidden = ui.hidden
           /\ \/ /\ created.room \in DOMAIN ui.joined
                 /\ ui'.joined = [ui.joined EXCEPT ![created.room].name = created.name]
              \/ /\ created.room \notin DOMAIN ui.joined
                 /\ ui'.joined = With(ui.joined, created.room,
                                      [direct |-> FALSE, tag |-> "none", name |-> created.name,
                                       placeholder |-> TRUE])
           /\ creating' \subseteq creating
           /\ UNCHANGED <<live, diffs, known, todo, allJoined, enqueued, listener, leaving,
                          count, queue>>
<1> DEFINE r == created.room
           room == [direct |-> FALSE, tag |-> "none", name |-> created.name, placeholder |-> TRUE]
           new == IF r \in DOMAIN ui.joined THEN [ui.joined EXCEPT ![r].name = created.name]
                  ELSE With(ui.joined, r, room)
           w == [ui EXCEPT !.joined = new]
<1>1. /\ ui' = [w EXCEPT !.shown = Generated(w)] /\ creating' = creating \ {created}
      /\ UNCHANGED <<live, diffs, known, todo, allJoined, enqueued, listener, leaving,
                     count, queue>>
    BY DEF HandlesCreated, loopVars, listenerVars
<1>2. /\ r \in Rooms /\ created.name \in Name /\ ui \in Widgets
      /\ ui.joined \in Lookups(JoinedRoomInfo)
    BY DEF Sound, ListType, Widgets
<1>3. new \in Lookups(JoinedRoomInfo)
  <2>1. CASE r \in DOMAIN ui.joined
    <3> DEFINE named == [ui.joined EXCEPT ![r].name = created.name]
    <3>1. PICK D \in SUBSET Rooms : ui.joined \in [D -> JoinedRoomInfo]
        BY <1>2 DEF Lookups
    <3>2. named \in [D -> JoinedRoomInfo]
        BY <1>2, <2>1, <3>1 DEF JoinedRoomInfo
    <3> HIDE DEF named
    <3>3. named \in Lookups(JoinedRoomInfo)
        BY <3>2 DEF Lookups
    <3> QED BY <2>1, <3>3 DEF named
  <2>2. CASE r \notin DOMAIN ui.joined
    <3>1. room \in JoinedRoomInfo
        BY <1>2 DEF JoinedRoomInfo, Tag
    <3> HIDE DEF room
    <3>2. With(ui.joined, r, room) \in Lookups(JoinedRoomInfo)
        BY <1>2, <3>1, WithType
    <3> QED BY <2>2, <3>2
  <2> QED BY <2>1, <2>2
<1>4. new = IF r \in DOMAIN ui.joined THEN [ui.joined EXCEPT ![r].name = created.name]
            ELSE With(ui.joined, r, room)
    OBVIOUS
<1> HIDE DEF new
<1>5. /\ w \in Widgets /\ w.joined = new /\ w.invited = ui.invited /\ w.hidden = ui.hidden
    BY <1>2, <1>3 DEF Widgets
<1> HIDE DEF w
<1>6. Generated(w) \in [Lists -> SUBSET Rooms]
    BY <1>5, GeneratedType
<1>7. /\ ui' \in Widgets /\ ui'.joined = new /\ ui'.invited = ui.invited /\ ui'.hidden = ui.hidden
    BY <1>1, <1>5, <1>6 DEF Widgets
<1> QED BY <1>1, <1>4, <1>7

LEMMA WidgetKeeps ==
    ASSUME Sound, HandlesUpdate
    PROVE  Sound' /\ UNCHANGED <<live, diffs, known, todo, allJoined, leaving>>
<1>1. ASSUME NEW joined, NEW invited, NEW hidden, NEW shown, Holds(joined, invited, hidden, shown)
      PROVE  ui' \in Widgets
    BY <1>1 DEF Holds
<1>2. ui' \in Widgets
  <2> USE <1>1
  <2>1. CASE HandlesAddInvitedRoom BY <2>1, AddInvitedRoomEffect
  <2>2. CASE HandlesAddJoinedRoom BY <2>2, AddJoinedRoomEffect
  <2>3. CASE HandlesUpdateRoomName BY <2>3, UpdateRoomNameEffect
  <2>4. CASE HandlesUpdateIsDirect BY <2>4, UpdateIsDirectEffect
  <2>5. CASE HandlesTags BY <2>5, TagsEffect
  <2>6. CASE HandlesRemoveRoom BY <2>6, RemoveRoomEffect
  <2>7. CASE HandlesClearRooms BY <2>7, ClearRoomsEffect
  <2>8. CASE HandlesHideRoom BY <2>8, HideRoomEffect
  <2>9. CASE HandlesUnhideRoom BY <2>9, UnhideRoomEffect
  <2>10. CASE HandlesRoomOrderUpdate BY <2>10, RoomOrderUpdateEffect
  <2>11. CASE DrainEnds BY <2>11, DrainEndsEffect
  <2> QED BY <2>1, <2>2, <2>3, <2>4, <2>5, <2>6, <2>7, <2>8, <2>9, <2>10, <2>11
          DEF HandlesUpdate
<1>3. /\ queue' \in Seq(Updates)
      /\ UNCHANGED <<live, diffs, known, todo, allJoined, enqueued, listener, leaving,
                     creating, count>>
  <2>1. CASE DrainEnds
      BY <2>1, DrainEndsEffect DEF Sound, ListType
  <2>2. CASE ~DrainEnds
    <3>1. \E kind : Handles(kind)
        BY <2>2 DEF HandlesUpdate, HandlesAddInvitedRoom, HandlesAddJoinedRoom,
           HandlesUpdateRoomName, HandlesUpdateIsDirect, HandlesTags, HandlesRemoveRoom,
           HandlesClearRooms, HandlesHideRoom, HandlesUnhideRoom, HandlesRoomOrderUpdate
    <3> QED BY <3>1, Handled
  <2> QED BY <2>1, <2>2
<1> QED BY <1>2, <1>3 DEF Sound, ListType, DiffsOK, Listed

----------------------------------------------------------------------------
(* Whatever happens, the types and the order of the diffs are kept.         *)

LEMMA StepFields ==
    ASSUME NEW e \in Steps
    PROVE  /\ e.does = "post" => e.update \in Updates
           /\ e.does \in {"insert", "drop"} => e.room \in Rooms
           /\ e.does \in {"remove", "append"} => e.rooms \in SUBSET Rooms
BY DEF Steps

LEMMA Doing ==
    ASSUME Sound, NEW what, Does(what)
    PROVE  /\ todo \in Seq(Steps) /\ todo # <<>> /\ Head(todo) \in Steps
           /\ Head(todo).does = what /\ Tail(todo) \in Seq(Steps)
           /\ Range(todo) = {Head(todo)} \union Range(Tail(todo))
           /\ AppendsLast(Tail(todo))
           /\ what # "append" => Appended(Tail(todo)) = Appended(todo)
           /\ what = "append" => /\ \A e \in Range(Tail(todo)) : e = Post(RoomOrderUpdate)
                                 /\ Appended(Tail(todo)) = {}
                                 /\ Appended(todo) = Head(todo).rooms
                                 /\ Head(todo).rooms \in SUBSET Rooms
           /\ what = "post" => Head(todo).update \in Updates
           /\ what \in {"insert", "drop"} => Head(todo).room \in Rooms
           /\ what = "remove" => Head(todo).rooms \in SUBSET Rooms
           /\ UNCHANGED <<live, diffs, leaving, creating, count, ui>>
<1>1. /\ todo \in Seq(Steps) /\ todo # <<>> /\ Head(todo).does = what
      /\ UNCHANGED <<live, diffs, leaving, creating, count, ui>>
    BY DEF Does, Sound, ListType, sdkVars
<1>2. /\ Head(todo) \in Steps /\ Tail(todo) \in Seq(Steps)
      /\ Range(todo) = {Head(todo)} \union Range(Tail(todo))
    BY <1>1, RangeOfHead
<1>3. /\ AppendsLast(Tail(todo))
      /\ what = "append" => \A e \in Range(Tail(todo)) : e = Post(RoomOrderUpdate)
    BY <1>1, AppendsLastFrom DEF Sound, DiffsOK
<1>4. what # "append" => Appended(Tail(todo)) = Appended(todo)
    BY <1>1, <1>2 DEF Appended
<1>5. ASSUME what = "append"
      PROVE  /\ Appended(Tail(todo)) = {} /\ Appended(todo) = Head(todo).rooms
             /\ Head(todo).rooms \in SUBSET Rooms
  <2>1. Head(todo).rooms \in SUBSET Rooms
      BY <1>1, <1>2, <1>5, StepFields
  <2>2. Post(RoomOrderUpdate).does # "append"
      BY DEF Post
  <2>3. Appended(Tail(todo)) = {}
      BY <1>3, <1>5, <2>2 DEF Appended
  <2> QED BY <1>1, <1>2, <1>5, <2>1, <2>3 DEF Appended
<1>6. /\ what = "post" => Head(todo).update \in Updates
      /\ what \in {"insert", "drop"} => Head(todo).room \in Rooms
      /\ what = "remove" => Head(todo).rooms \in SUBSET Rooms
    BY <1>1, <1>2, StepFields
<1> QED BY <1>1, <1>2, <1>3, <1>4, <1>5, <1>6

LEMMA TailKeeps ==
    ASSUME Sound, NEW what \in {"post", "insert", "drop", "drop all"}, Does(what),
           todo' = Tail(todo), UNCHANGED <<known, listener>>, allJoined' \subseteq Rooms,
           queue' \in Seq(Updates)
    PROVE  Sound'
<1>1. /\ todo' \in Seq(Steps) /\ AppendsLast(todo') /\ Appended(todo') = Appended(todo)
      /\ UNCHANGED <<live, diffs, leaving, creating, count, ui>>
    BY Doing
<1>2. Listed' = Listed
    BY <1>1 DEF Listed
<1> QED BY <1>1, <1>2 DEF Sound, ListType, DiffsOK

LEMMA PostsUpdateKeeps ==
    ASSUME Sound, PostsUpdate
    PROVE  Sound'
<1>1. Does("post") /\ todo' = Tail(todo) /\ queue' = Append(queue, Head(todo).update)
      /\ UNCHANGED <<known, allJoined, listener>>
    BY DEF PostsUpdate, listenerVars
<1>2. Head(todo).update \in Updates
    BY <1>1, Doing
<1>3. queue' \in Seq(Updates)
    BY <1>1, <1>2, AppendProperties DEF Sound, ListType
<1> QED BY <1>1, <1>3, TailKeeps DEF Sound, ListType

LEMMA DetailsKeeps ==
    ASSUME Sound, InsertsDetails \/ DropsDetails \/ DropsAll
    PROVE  Sound'
<1>1. PICK what \in {"insert", "drop", "drop all"} :
          Does(what) /\ todo' = Tail(todo) /\ UNCHANGED <<known, listener, queue>>
          /\ allJoined' \in {allJoined \union {Head(todo).room}, allJoined \ {Head(todo).room}, {}}
          /\ (what # "insert" => allJoined' \subseteq allJoined)
    BY Zenon DEF InsertsDetails, DropsDetails, DropsAll, listenerVars
<1>2. what = "insert" => Head(todo).room \in Rooms
    BY <1>1, Doing
<1>3. allJoined' \subseteq Rooms
  <2>1. CASE what = "insert"
      BY <1>1, <1>2, <2>1 DEF Sound, ListType
  <2>2. CASE what # "insert"
      BY <1>1, <2>2 DEF Sound, ListType
  <2> QED BY <2>1, <2>2
<1> QED BY <1>1, <1>3, TailKeeps DEF Sound, ListType

LEMMA RemovesRoomKeeps ==
    ASSUME Sound, NEW r \in Rooms, RemovesRoom(r)
    PROVE  Sound'
<1>1. /\ Does("remove") /\ r \in Head(todo).rooms /\ UNCHANGED <<known, allJoined, listener, queue>>
      /\ todo' = remove_room(r) \o RemoveRooms(Head(todo).rooms \ {r}) \o Tail(todo)
    BY DEF RemovesRoom, TakesRoom, listenerVars
<1>2. Head(todo).rooms \in SUBSET Rooms
    BY <1>1, Doing
<1> DEFINE a == remove_room(r)
           b == RemoveRooms(Head(todo).rooms \ {r})
<1>3. a \in Seq(Steps) /\ \A e \in Range(a) : e.does # "append"
    BY remove_roomType, AboutAppends
<1>4. b \in Seq(Steps) /\ \A e \in Range(b) : e.does # "append"
    BY <1>2, StepsType, RangeOfOne, RangeOfNothing DEF RemoveRooms, When
<1>5. Tail(todo) \in Seq(Steps) /\ AppendsLast(Tail(todo)) /\ Appended(Tail(todo)) = Appended(todo)
    BY <1>1, Doing
<1>6. todo' = a \o b \o Tail(todo)
    BY <1>1
<1> HIDE DEF a, b
<1>7. /\ a \o b \in Seq(Steps) /\ Range(a \o b) = Range(a) \union Range(b)
      /\ a \o b \o Tail(todo) \in Seq(Steps)
    BY <1>3, <1>4, <1>5, ConcatProperties, RangeOfConcat
<1>8. \A e \in Range(a \o b) : e.does # "append"
    BY <1>3, <1>4, <1>7
<1>9. AppendsLast(todo')
    BY <1>5, <1>6, <1>7, <1>8, AppendsLastAfter
<1>10. Appended(todo') = Appended(todo)
  <2>1. Appended(a \o b) = {}
      BY <1>7, <1>8, NoAppends
  <2>2. Appended(a \o b \o Tail(todo)) = Appended(a \o b) \union Appended(Tail(todo))
      BY <1>5, <1>7, AppendedConcat
  <2> QED BY <1>5, <1>6, <2>1, <2>2
<1>11. UNCHANGED <<live, diffs, leaving, creating, count, ui>>
    BY <1>1, Doing
<1>12. todo' \in Seq(Steps)
    BY <1>6, <1>7
<1>13. Listed' = Listed
    BY <1>11 DEF Listed
<1> QED BY <1>1, <1>9, <1>10, <1>11, <1>12, <1>13 DEF Sound, ListType, DiffsOK

LEMMA AppendsRoomKeeps ==
    ASSUME Sound, NEW r \in Rooms, AppendsRoom(r)
    PROVE  /\ Sound' /\ r \notin DOMAIN known
           /\ known' = With(known, r, ReadInfo(r)) /\ ReadInfo(r) \in RoomInfo
<1> DEFINE rest == Head(todo).rooms \ {r}
           a == add_new_room(r, ReadInfo(r))
           b == AppendRooms(rest)
<1>1. /\ Does("append") /\ r \in Head(todo).rooms /\ UNCHANGED <<allJoined, listener, queue>>
      /\ todo' = a \o b \o Tail(todo) /\ known' = With(known, r, ReadInfo(r))
    BY DEF AppendsRoom, TakesRoom, listenerVars
<1>2. /\ Head(todo).rooms \in SUBSET Rooms /\ Appended(todo) = Head(todo).rooms
      /\ Tail(todo) \in Seq(Steps) /\ Appended(Tail(todo)) = {}
      /\ \A e \in Range(Tail(todo)) : e = Post(RoomOrderUpdate)
      /\ UNCHANGED <<live, diffs, leaving, creating, count, ui>>
    BY <1>1, Doing
<1>3. ReadInfo(r) \in RoomInfo /\ known \in Lookups(RoomInfo)
    BY ReadInfoType DEF Sound, ListType
<1>4. a \in Seq(Steps) /\ (\A e \in Range(a) : e.does # "append") /\ Appended(a) = {}
    BY <1>3, add_new_roomType, AboutAppends
<1>5. b \in Seq(Steps) /\ Appended(b) = rest /\ AppendsLast(b \o Tail(todo))
    BY <1>2, AppendedRooms, AppendsLastBefore
<1>6. r \notin DOMAIN known
    BY <1>1, <1>2 DEF Sound, DiffsOK
<1> HIDE DEF a, b
<1>7. /\ a \o b \o Tail(todo) = a \o (b \o Tail(todo)) /\ b \o Tail(todo) \in Seq(Steps)
      /\ a \o b \o Tail(todo) \in Seq(Steps)
    BY <1>2, <1>4, <1>5, ThreeInOrder
<1>8. todo' \in Seq(Steps) /\ AppendsLast(todo')
  <2>1. AppendsLast(a \o (b \o Tail(todo)))
      BY <1>4, <1>5, <1>7, AppendsLastAfter
  <2> QED BY <1>1, <1>7, <2>1
<1>9. Appended(todo') = rest
  <2>1. Appended(b \o Tail(todo)) = rest
      BY <1>2, <1>5, AppendedConcat
  <2>2. Appended(a \o (b \o Tail(todo))) = Appended(a) \union Appended(b \o Tail(todo))
      BY <1>4, <1>7, AppendedConcat
  <2> QED BY <1>1, <1>4, <1>7, <2>1, <2>2
<1>10. known' \in Lookups(RoomInfo) /\ DOMAIN known' = DOMAIN known \union {r}
  <2>1. /\ With(known, r, ReadInfo(r)) \in Lookups(RoomInfo)
        /\ DOMAIN With(known, r, ReadInfo(r)) = DOMAIN known \union {r}
      BY <1>3, WithType
  <2> QED BY <1>1, <2>1
<1>11. DOMAIN known' \union Appended(todo') = DOMAIN known \union Appended(todo)
       /\ Appended(todo') \cap DOMAIN known' = {}
    BY <1>1, <1>2, <1>9, <1>10 DEF Sound, DiffsOK
<1>12. Listed' = Listed
    BY <1>2 DEF Listed
<1> QED BY <1>1, <1>2, <1>3, <1>6, <1>8, <1>10, <1>11, <1>12 DEF Sound, ListType, DiffsOK

LEMMA LoopKeeps ==
    ASSUME Sound, LoopNext
    PROVE  Sound'
<1>1. ASSUME NEW r \in Rooms, InsertDiff(r) \/ SetDiff(r) \/ MoveDiff(r) \/ RemoveDiff(r)
      PROVE  Sound'
    BY <1>1, InsertDiffKeeps, SetDiffKeeps, RemoveDiffKeeps
<1>2. ASSUME NEW rooms \in SUBSET Rooms, ResetDiff(rooms) \/ AppendDiff(rooms)
      PROVE  Sound'
    BY <1>2, ResetDiffKeeps, AppendDiffKeeps
<1>3. ASSUME NEW r \in Rooms, RemovesRoom(r) \/ AppendsRoom(r)
      PROVE  Sound'
    BY <1>3, RemovesRoomKeeps, AppendsRoomKeeps
<1>4. ClearDiff \/ PostsUpdate \/ InsertsDetails \/ DropsDetails \/ DropsAll => Sound'
    BY ClearDiffKeeps, PostsUpdateKeeps, DetailsKeeps
<1> QED BY <1>1, <1>2, <1>3, <1>4 DEF LoopNext

LEMMA OthersKeep ==
    ASSUME Sound,
           \/ FilterChanges
           \/ \E r \in Rooms : HandlesLeft(r) \/ HearsInvite(r) \/ AddsInvite(r)
           \/ \E created \in creating : HandlesCreated(created)
    PROVE  Sound'
<1>1. CASE FilterChanges
    BY <1>1, FilterChangesEffect DEF Sound, ListType, DiffsOK, Listed
<1>2. ASSUME NEW created \in creating, HandlesCreated(created) PROVE Sound'
    BY <1>2, HandlesCreatedEffect DEF Sound, ListType, DiffsOK, Listed
<1>3. ASSUME NEW r \in Rooms, HandlesLeft(r) PROVE Sound'
  <2>1. HideRoom(r) \in Updates
      BY DEF HideRoom, Updates
  <2>2. queue' \in Seq(Updates)
      BY <1>3, <2>1, AppendProperties DEF HandlesLeft, Sound, ListType
  <2> QED BY <1>3, <2>2 DEF HandlesLeft, loopVars, listenerVars, Sound, ListType, DiffsOK, Listed
<1>4. ASSUME NEW r \in Rooms, HearsInvite(r) PROVE Sound'
  <2>1. listener' \in [Rooms -> Name \union {"idle", "heard"}]
      BY <1>4 DEF HearsInvite, Sound, ListType, RoomInfo
  <2> QED BY <1>4, <2>1 DEF HearsInvite, loopVars, sdkVars, Sound, ListType, DiffsOK, Listed
<1>5. ASSUME NEW r \in Rooms, AddsInvite(r) PROVE Sound'
  <2>1. listener[r] \in Name /\ listener' = [listener EXCEPT ![r] = "idle"]
      BY <1>5 DEF AddsInvite
  <2>2. AddInvitedRoom(r, listener[r]) \in Updates
      BY <2>1 DEF AddInvitedRoom, Updates
  <2>3. queue' \in Seq(Updates)
      BY <1>5, <2>2, AppendProperties DEF AddsInvite, Sound, ListType
  <2>4. listener' \in [Rooms -> Name \union {"idle", "heard"}]
      BY <2>1 DEF Sound, ListType
  <2> QED BY <1>5, <2>3, <2>4 DEF AddsInvite, loopVars, sdkVars, Sound, ListType, DiffsOK, Listed
<1> QED BY <1>1, <1>2, <1>3, <1>4, <1>5

LEMMA StartsSound ==
    ASSUME RoomsListInit
    PROVE  Sound
<1>1. live \in [Rooms -> RoomInfo]
    BY DEF RoomsListInit
<1>2. diffs = <<Diff("Reset", {})>> /\ Diff("Reset", {}) \in Diffs
    BY DEF RoomsListInit, Diff, Diffs
<1>3. diffs \in Seq(Diffs)
    BY <1>2
<1>4. known \in Lookups(RoomInfo) /\ DOMAIN known = {}
    BY NothingType DEF RoomsListInit
<1>5. todo \in Seq(Steps) /\ queue \in Seq(Updates) /\ AppendsLast(todo) /\ Appended(todo) = {}
    BY EmptySeq, RangeOfNothing DEF RoomsListInit, AppendsLast, Appended
<1>6. ui \in Widgets
  <2>1. Nothing \in Lookups(JoinedRoomInfo) /\ Nothing \in Lookups(Name)
      BY NothingType
  <2> QED BY <2>1 DEF RoomsListInit, Widgets
<1>7. Listed = {}
    BY DEF RoomsListInit, Listed, Matches
<1>8. Leads(DiffSteps, diffs, {}, {})
  <2>1. Follows({}, Diff("Reset", {}), {})
      BY DEF Follows, Diff
  <2>2. <<{}, Diff("Reset", {}), {}>> \in DiffSteps
      BY <1>2, <2>1, DiffStep
  <2> QED BY <1>2, <2>2, LeadsOnce
<1>9. listener \in [Rooms -> Name \union {"idle", "heard"}]
    BY DEF RoomsListInit
<1> QED BY <1>1, <1>3, <1>4, <1>5, <1>6, <1>7, <1>8, <1>9 DEF Sound, ListType, DiffsOK, RoomsListInit

LEMMA StaysSound ==
    ASSUME Sound, RoomsListNext
    PROVE  Sound'
<1>1. ASSUME NEW r \in Rooms, RoomChanges(r) \/ UserLeaves(r) \/ UserCreates(r) PROVE Sound'
    BY <1>1, RoomChangesKeeps, UserLeavesKeeps, UserCreatesKeeps
<1>2. ListIsReset => Sound'
    BY ListIsResetKeeps
<1> QED BY <1>1, <1>2, LoopKeeps, WidgetKeeps, OthersKeep DEF RoomsListNext

\* The diffs of the SDK's list always lead from the rooms that the loop knows, or is
\* about to add, to the rooms that are listed: a room is inserted only when it is not
\* known, and set, moved or removed only when it is (room_list_service_loop).
THEOREM ListAlwaysSound == RoomsListSpec => [](ListType /\ DiffsOK)
<1>1. Sound /\ UNCHANGED roomsListVars => Sound'
    BY DEF Sound, ListType, DiffsOK, Listed, roomsListVars, sdkVars, loopVars, listenerVars
<1>2. RoomsListInit => Sound
    BY StartsSound
<1>3. Sound /\ [RoomsListNext]_roomsListVars => Sound'
    BY <1>1, StaysSound
<1>4. Sound => ListType /\ DiffsOK
    BY DEF Sound
<1> QED BY <1>2, <1>3, <1>4, PTL DEF RoomsListSpec

----------------------------------------------------------------------------
(* The details and the entry of a joined room, along the steps of the loop. *)

Marks == {"details", "entry"}

Joining(r, u) == u.is = "AddJoinedRoom" /\ u.room = r
Clearing(r, u) == u.is = "ClearRooms" \/ (u.is = "RemoveRoom" /\ u.room = r)
EntryAfter(r, u, x) ==
    CASE Joining(r, u) -> x \union {"entry"}
      [] Clearing(r, u) -> x \ {"entry"}
      [] ~Joining(r, u) /\ ~Clearing(r, u) -> x

\* An entry is added where there are details, and details where there is neither.
DetailsMove(r, e, x, y) ==
    \/ /\ e.does = "post" /\ y = EntryAfter(r, e.update, x)
       /\ Joining(r, e.update) => "details" \in x
    \/ e.does = "insert" /\ e.room = r /\ x = {} /\ y = {"details"}
    \/ e.does = "insert" /\ e.room # r /\ y = x
    \/ e.does = "drop" /\ e.room = r /\ y = x \ {"details"}
    \/ e.does = "drop" /\ e.room # r /\ y = x
    \/ e.does = "drop all" /\ y = x \ {"details"}
    \/ e.does = "remove" /\ r \in e.rooms /\ y = x \ {"details"}
    \/ e.does = "append" /\ r \in e.rooms /\ x = {} /\ y = x
    \/ e.does \in {"remove", "append"} /\ r \notin e.rooms /\ y = x

EntrySteps(r) ==
    {t \in (SUBSET {"entry"}) \X Updates \X (SUBSET {"entry"}) : t[3] = EntryAfter(r, t[2], t[1])}
DetailSteps(r) ==
    {t \in (SUBSET Marks) \X Steps \X (SUBSET Marks) : DetailsMove(r, t[2], t[1], t[3])}

HasEntry(r) == IF r \in DOMAIN ui.joined /\ ~ui.joined[r].placeholder THEN {"entry"} ELSE {}
HasDetails(r) == IF r \in allJoined THEN {"details"} ELSE {}

\* In the end, the details are those of the joined rooms that the loop knows.
Detailed(r, y) ==
    /\ y \in SUBSET Marks
    /\ "entry" \in y => "details" \in y
    /\ "details" \in y => r \in DOMAIN known \ Spaces /\ known[r].state = "Joined"
DetailsOf(r, m, y) ==
    /\ Leads(EntrySteps(r), queue, HasEntry(r), m)
    /\ Leads(DetailSteps(r), todo, m \union HasDetails(r), y)
    /\ m \in SUBSET {"entry"} /\ Detailed(r, y)
DetailsOK == \A r \in Rooms : \E m, y : DetailsOf(r, m, y)

LEMMA EntryStep ==
    ASSUME NEW r, NEW u \in Updates, NEW x \in SUBSET {"entry"}, NEW y
    PROVE  <<x, u, y>> \in EntrySteps(r) <=> y = EntryAfter(r, u, x)
<1>1. EntryAfter(r, u, x) \in SUBSET {"entry"}
    BY DEF EntryAfter
<1> QED BY <1>1 DEF EntrySteps

LEMMA DetailStep ==
    ASSUME NEW r, NEW e \in Steps, NEW x \in SUBSET Marks, NEW y
    PROVE  <<x, e, y>> \in DetailSteps(r) <=> DetailsMove(r, e, x, y)
<1>1. ASSUME DetailsMove(r, e, x, y) PROVE y \in SUBSET Marks
    BY <1>1 DEF DetailsMove, EntryAfter, Marks
<1> QED BY <1>1 DEF DetailSteps

LEMMA DetailStepType ==
    ASSUME NEW r, NEW e, NEW x, NEW y, <<x, e, y>> \in DetailSteps(r)
    PROVE  x \in SUBSET Marks /\ y \in SUBSET Marks /\ e \in Steps /\ DetailsMove(r, e, x, y)
BY DEF DetailSteps

\* What is about another room, and the sorting, leaves a room's details alone.
LEMMA DetailsIdle ==
    ASSUME NEW r \in Rooms, NEW q \in Rooms, q # r, NEW s \in Seq(About(r)), NEW x \in SUBSET Marks
    PROVE  Leads(DetailSteps(q), s, x, x)
<1>1. s \in Seq(Steps) /\ Range(s) \subseteq About(r)
    BY AboutSteps, RangeType
<1>2. ASSUME NEW e \in About(r) PROVE <<x, e, x>> \in DetailSteps(q)
  <2>1. e \in Steps
      BY DEF About
  <2>2. DetailsMove(q, e, x, x)
      BY DEF About, DetailsMove, EntryAfter, Joining, Clearing
  <2> QED BY <2>1, <2>2, DetailStep
<1> QED BY <1>1, <1>2, LeadsIdly

LEMMA LeadsWhen ==
    ASSUME NEW T, NEW E, NEW c \in BOOLEAN, NEW s \in Seq(E), NEW x, NEW y, c => Leads(T, s, x, y),
           ~c => x = y
    PROVE  Leads(T, When(c, s), x, y) /\ When(c, s) \in Seq(E)
BY LeadsNowhere, EmptySeq DEF When

LEMMA SortLeads ==
    ASSUME NEW r \in Rooms, NEW x \in SUBSET Marks
    PROVE  /\ Sort \in Seq(Steps) /\ Leads(DetailSteps(r), Sort, x, x)
           /\ <<x, Post(RoomOrderUpdate), x>> \in DetailSteps(r)
<1>1. Sort \in Seq(Steps) /\ Post(RoomOrderUpdate) \in Steps
    BY StepsType, AboutRoom, AboutSteps
<1>2. DetailsMove(r, Post(RoomOrderUpdate), x, x)
    BY DEF DetailsMove, Post, RoomOrderUpdate, EntryAfter, Joining, Clearing
<1>3. <<x, Post(RoomOrderUpdate), x>> \in DetailSteps(r)
    BY <1>1, <1>2, DetailStep
<1> QED BY <1>1, <1>3, LeadsOnce DEF Sort

LEMMA PostLeads ==
    ASSUME NEW r \in Rooms, NEW x \in SUBSET Marks, NEW u, Post(u) \in About(r),
           ~Joining(r, u), ~Clearing(r, u)
    PROVE  Leads(DetailSteps(r), <<Post(u)>>, x, x) /\ <<Post(u)>> \in Seq(Steps)
<1>1. Post(u) \in Steps /\ <<Post(u)>> \in Seq(Steps)
    BY AboutSteps
<1>2. DetailsMove(r, Post(u), x, x)
    BY DEF DetailsMove, EntryAfter, Post
<1>3. <<x, Post(u), x>> \in DetailSteps(r)
    BY <1>1, <1>2, DetailStep
<1> QED BY <1>1, <1>3, LeadsOnce

LEMMA add_new_roomLeads ==
    ASSUME NEW r \in Rooms, NEW info \in RoomInfo
    PROVE  Leads(DetailSteps(r), add_new_room(r, info), {},
                 IF info.state = "Joined" /\ r \notin Spaces THEN Marks ELSE {})
<1> DEFINE T == DetailSteps(r)
<1>1. CASE info.state = "Joined" /\ r \notin Spaces
  <2> DEFINE a == InsertDetails(r)
             b == Post(AddJoinedRoom(r, info))
             h == When(~should_display_joined_room_entry(info), <<Post(HideRoom(r))>>)
  <2>1. a \in Steps /\ b \in Steps /\ Post(HideRoom(r)) \in About(r)
      BY AboutRoom, AboutJoined, AboutSteps
  <2>2. DetailsMove(r, a, {}, {"details"})
      BY DEF DetailsMove, InsertDetails
  <2>3. DetailsMove(r, b, {"details"}, Marks)
      BY DEF DetailsMove, Post, AddJoinedRoom, EntryAfter, Joining, Clearing, Marks
  <2>4. Leads(T, <<a>>, {}, {"details"})
    <3>1. <<{}, a, {"details"}>> \in T
        BY <2>1, <2>2, DetailStep
    <3> QED BY <3>1, LeadsOnce
  <2>5. Leads(T, <<b>>, {"details"}, Marks)
    <3>1. {"details"} \in SUBSET Marks
        BY DEF Marks
    <3>2. <<{"details"}, b, Marks>> \in T
        BY <2>1, <2>3, <3>1, DetailStep
    <3> QED BY <3>2, LeadsOnce
  <2>6. Leads(T, h, Marks, Marks) /\ h \in Seq(Steps)
    <3>1. ~Joining(r, HideRoom(r)) /\ ~Clearing(r, HideRoom(r))
        BY DEF Joining, Clearing, HideRoom
    <3>2. Leads(T, <<Post(HideRoom(r))>>, Marks, Marks) /\ <<Post(HideRoom(r))>> \in Seq(Steps)
        BY <2>1, <3>1, PostLeads
    <3>3. should_display_joined_room_entry(info) \in BOOLEAN
        BY DEF should_display_joined_room_entry
    <3> HIDE DEF T
    <3> QED BY <3>2, <3>3, LeadsWhen
  <2> HIDE DEF a, b, h, T
  <2>7. <<a>> \in Seq(Steps) /\ <<b>> \in Seq(Steps) /\ <<a, b>> = <<a>> \o <<b>>
      BY <2>1, PairIsConcat
  <2>8. <<a>> \o <<b>> \in Seq(Steps) /\ Leads(T, <<a>> \o <<b>>, {}, Marks)
      BY <2>4, <2>5, <2>7, LeadsOn, ConcatProperties
  <2>9. Leads(T, (<<a>> \o <<b>>) \o h, {}, Marks)
      BY <2>6, <2>8, LeadsOn
  <2>10. add_new_room(r, info) = <<a, b>> \o h
      BY <1>1 DEF add_new_room, a, b, h
  <2> QED BY <1>1, <2>7, <2>9, <2>10 DEF T
<1>2. CASE info.state = "Joined" /\ r \in Spaces
  <2>1. Post(RemoveRoom(r)) \in Steps
      BY AboutRoom, AboutSteps
  <2>2. DetailsMove(r, Post(RemoveRoom(r)), {}, {})
      BY DEF DetailsMove, Post, RemoveRoom, EntryAfter, Joining, Clearing
  <2>3. <<{}, Post(RemoveRoom(r)), {}>> \in T
      BY <2>1, <2>2, DetailStep
  <2>4. add_new_room(r, info) = <<Post(RemoveRoom(r))>>
      BY <1>2 DEF add_new_room
  <2> QED BY <1>2, <2>3, <2>4, LeadsOnce
<1>3. CASE info.state = "Invited"
  <2>1. Post(AddInvitedRoom(r, info.name)) \in About(r)
      BY AboutRoom DEF RoomInfo
  <2>2. ~Joining(r, AddInvitedRoom(r, info.name)) /\ ~Clearing(r, AddInvitedRoom(r, info.name))
      BY DEF Joining, Clearing, AddInvitedRoom
  <2>3. add_new_room(r, info) = <<Post(AddInvitedRoom(r, info.name))>>
      BY <1>3 DEF add_new_room
  <2> QED BY <1>3, <2>1, <2>2, <2>3, PostLeads
<1>4. CASE info.state \notin {"Joined", "Invited"}
  <2>1. add_new_room(r, info) = <<>>
      BY <1>4 DEF add_new_room
  <2> QED BY <1>4, <2>1, LeadsNowhere
<1> QED BY <1>1, <1>2, <1>3, <1>4

LEMMA remove_roomLeads ==
    ASSUME NEW r \in Rooms, NEW x \in SUBSET Marks
    PROVE  Leads(DetailSteps(r), remove_room(r), x, {}) /\ remove_room(r) \in Seq(Steps)
<1> DEFINE a == DropDetails(r)
           b == Post(RemoveRoom(r))
           y == x \ {"details"}
<1>1. a \in Steps /\ b \in Steps
    BY AboutRoom, AboutSteps
<1>2. y \in SUBSET Marks
    OBVIOUS
<1>3. DetailsMove(r, a, x, y)
    BY DEF DetailsMove, DropDetails
<1>4. DetailsMove(r, b, y, {})
    BY DEF DetailsMove, Post, RemoveRoom, EntryAfter, Joining, Clearing, Marks
<1>5. <<x, a, y>> \in DetailSteps(r) /\ <<y, b, {}>> \in DetailSteps(r)
    BY <1>1, <1>2, <1>3, <1>4, DetailStep
<1> HIDE DEF a, b, y
<1>6. Leads(DetailSteps(r), <<a>>, x, y) /\ Leads(DetailSteps(r), <<b>>, y, {})
    BY <1>5, LeadsOnce
<1>7. <<a>> \in Seq(Steps) /\ <<b>> \in Seq(Steps) /\ <<a, b>> = <<a>> \o <<b>>
    BY <1>1, PairIsConcat
<1>8. Leads(DetailSteps(r), <<a>> \o <<b>>, x, {}) /\ <<a>> \o <<b>> \in Seq(Steps)
    BY <1>6, <1>7, LeadsOn, ConcatProperties
<1> QED BY <1>7, <1>8 DEF remove_room, a, b

LEMMA DisplayFlipLeads ==
    ASSUME NEW r \in Rooms, NEW old, NEW new, NEW x \in SUBSET Marks
    PROVE  Leads(DetailSteps(r), DisplayFlip(r, old, new), x, x)
<1> DEFINE T == DetailSteps(r)
           before == should_display_joined_room_entry(old)
           after == should_display_joined_room_entry(new)
           hide == <<Post(HideRoom(r))>>
           unhide == <<Post(UnhideRoom(r))>>
<1>1. before \in BOOLEAN /\ after \in BOOLEAN
    BY DEF should_display_joined_room_entry
<1>2. Leads(T, hide, x, x) /\ hide \in Seq(Steps)
  <2>1. ~Joining(r, HideRoom(r)) /\ ~Clearing(r, HideRoom(r))
      BY DEF Joining, Clearing, HideRoom
  <2> QED BY <2>1, AboutRoom, PostLeads
<1>3. Leads(T, unhide, x, x) /\ unhide \in Seq(Steps)
  <2>1. ~Joining(r, UnhideRoom(r)) /\ ~Clearing(r, UnhideRoom(r))
      BY DEF Joining, Clearing, UnhideRoom
  <2> QED BY <2>1, AboutRoom, PostLeads
<1> HIDE DEF T, before, after, hide, unhide
<1>4. Leads(T, When(before /\ ~after, hide), x, x) /\ When(before /\ ~after, hide) \in Seq(Steps)
    BY <1>1, <1>2, LeadsWhen
<1>5. Leads(T, When(~before /\ after, unhide), x, x) /\ When(~before /\ after, unhide) \in Seq(Steps)
    BY <1>1, <1>3, LeadsWhen
<1>6. Leads(T, When(before /\ ~after, hide) \o When(~before /\ after, unhide), x, x)
    BY <1>4, <1>5, LeadsOn
<1> QED BY <1>6 DEF T, before, after, hide, unhide, DisplayFlip

LEMMA ChangesOfLeads ==
    ASSUME NEW r \in Rooms, NEW old \in RoomInfo, NEW new \in RoomInfo, NEW x \in SUBSET Marks
    PROVE  Leads(DetailSteps(r), ChangesOf(r, old, new), x, x)
<1> DEFINE T == DetailSteps(r)
           name == <<Post(UpdateRoomName(r, new.name))>>
           tag == <<Post(NewTags(r, new.tag))>>
           direct == <<Post(UpdateIsDirect(r, new.direct))>>
           a == When(old.name # new.name, name)
           b == When(new.state = "Joined" /\ old.tag # new.tag, tag)
           c == When(new.state = "Joined" /\ old.direct # new.direct, direct)
<1>1. /\ Post(UpdateRoomName(r, new.name)) \in About(r) /\ Post(NewTags(r, new.tag)) \in About(r)
      /\ Post(UpdateIsDirect(r, new.direct)) \in About(r)
    BY AboutRoom DEF RoomInfo
<1>2. /\ ~Joining(r, UpdateRoomName(r, new.name)) /\ ~Clearing(r, UpdateRoomName(r, new.name))
      /\ ~Joining(r, NewTags(r, new.tag)) /\ ~Clearing(r, NewTags(r, new.tag))
      /\ ~Joining(r, UpdateIsDirect(r, new.direct))
      /\ ~Clearing(r, UpdateIsDirect(r, new.direct))
    BY DEF Joining, Clearing, UpdateRoomName, NewTags, UpdateIsDirect
<1>3. /\ Leads(T, name, x, x) /\ name \in Seq(Steps) /\ Leads(T, tag, x, x) /\ tag \in Seq(Steps)
      /\ Leads(T, direct, x, x) /\ direct \in Seq(Steps)
    BY <1>1, <1>2, PostLeads
<1> HIDE DEF T, name, tag, direct
<1>4. Leads(T, a, x, x) /\ a \in Seq(Steps)
    BY <1>3, LeadsWhen
<1>5. Leads(T, b, x, x) /\ b \in Seq(Steps)
    BY <1>3, LeadsWhen
<1>6. Leads(T, c, x, x) /\ c \in Seq(Steps)
    BY <1>3, LeadsWhen
<1> HIDE DEF a, b, c
<1>7. Leads(T, a \o b, x, x) /\ a \o b \in Seq(Steps)
    BY <1>4, <1>5, LeadsOn, ConcatProperties
<1>8. Leads(T, a \o b \o c, x, x)
    BY <1>6, <1>7, LeadsOn
<1> QED BY <1>8 DEF T, name, tag, direct, a, b, c, ChangesOf

LEMMA DetailsStart ==
    ASSUME RoomsListInit
    PROVE  DetailsOK
<1> SUFFICES ASSUME NEW r \in Rooms PROVE DetailsOf(r, {}, {})
    BY DEF DetailsOK
<1>1. HasEntry(r) = {} /\ HasDetails(r) = {} /\ queue = <<>> /\ todo = <<>>
    BY DEF HasEntry, HasDetails, RoomsListInit, Nothing
<1>2. Leads(EntrySteps(r), <<>>, {}, {}) /\ Leads(DetailSteps(r), <<>>, {}, {})
    BY LeadsNowhere
<1> QED BY <1>1, <1>2 DEF DetailsOf, Detailed

\* Nothing that the details depend on changes, or the queue grows by something else.
LEMMA DetailsStay ==
    ASSUME Sound, DetailsOK, UNCHANGED <<todo, allJoined, known>>,
           \A r \in Rooms : HasEntry(r)' = HasEntry(r),
           \/ queue' = queue
           \/ \E u \in Updates : /\ queue' = Append(queue, u)
                                 /\ u.is \notin {"AddJoinedRoom", "RemoveRoom", "ClearRooms"}
    PROVE  DetailsOK'
<1> SUFFICES ASSUME NEW r \in Rooms PROVE (\E m, y : DetailsOf(r, m, y))'
    BY DEF DetailsOK
<1>1. PICK m, y : DetailsOf(r, m, y)
    BY DEF DetailsOK
<1>2. Leads(EntrySteps(r), queue', HasEntry(r), m)
  <2>1. CASE queue' = queue
      BY <1>1, <2>1 DEF DetailsOf
  <2>2. ASSUME NEW u \in Updates, queue' = Append(queue, u),
               u.is \notin {"AddJoinedRoom", "RemoveRoom", "ClearRooms"}
        PROVE  Leads(EntrySteps(r), queue', HasEntry(r), m)
    <3>1. EntryAfter(r, u, m) = m
        BY <2>2 DEF EntryAfter, Joining, Clearing
    <3>2. <<m, u, m>> \in EntrySteps(r)
        BY <1>1, <3>1, EntryStep DEF DetailsOf
    <3>3. Leads(EntrySteps(r), <<u>>, m, m)
        BY <3>2, LeadsOnce
    <3>4. queue \in Seq(Updates)
        BY DEF Sound, ListType
    <3>5. Append(queue, u) = queue \o <<u>> /\ <<u>> \in Seq(Updates)
        BY <3>4, RangeOfAppend
    <3>6. Leads(EntrySteps(r), queue \o <<u>>, HasEntry(r), m)
        BY <1>1, <3>3, <3>4, <3>5, LeadsOn DEF DetailsOf
    <3> QED BY <2>2, <3>5, <3>6
  <2> QED BY <2>1, <2>2
<1>3. HasDetails(r)' = HasDetails(r) /\ HasEntry(r)' = HasEntry(r)
    BY DEF HasDetails
<1>4. Leads(EntrySteps(r)', queue', HasEntry(r)', m)
    BY <1>2, <1>3 DEF EntrySteps
<1>5. Leads(DetailSteps(r)', todo', (m \union HasDetails(r))', y)
    BY <1>1, <1>3 DEF DetailsOf, DetailSteps
<1>6. DetailsOf(r, m, y)'
    BY <1>1, <1>4, <1>5 DEF DetailsOf, Detailed
<1> QED BY <1>6

----------------------------------------------------------------------------
(* The details of a joined room, whatever happens step by step.             *)

LEMMA EntryHandled ==
    ASSUME Sound, HandlesUpdate, ~DrainEnds, NEW q \in Rooms
    PROVE  /\ queue \in Seq(Updates) /\ queue # <<>> /\ queue' = Tail(queue)
           /\ HasEntry(q)' = EntryAfter(q, Head(queue), HasEntry(q))
<1> DEFINE u == Head(queue)
           Kept == /\ DOMAIN ui'.joined = DOMAIN ui.joined
                   /\ \A r \in DOMAIN ui.joined :
                         ui'.joined[r].placeholder = ui.joined[r].placeholder
<1>1. PICK kind : Handles(kind)
    BY DEF HandlesUpdate, HandlesAddInvitedRoom, HandlesAddJoinedRoom,
           HandlesUpdateRoomName, HandlesUpdateIsDirect, HandlesTags, HandlesRemoveRoom,
           HandlesClearRooms, HandlesHideRoom, HandlesUnhideRoom, HandlesRoomOrderUpdate
<1>2. /\ queue \in Seq(Updates) /\ queue # <<>> /\ queue' = Tail(queue) /\ u \in Updates
      /\ ui.joined \in Lookups(JoinedRoomInfo)
    BY <1>1, Handled DEF Sound, ListType, Widgets
<1>3. DOMAIN ui.joined \subseteq Rooms /\ ui.joined \in [DOMAIN ui.joined -> JoinedRoomInfo]
    BY <1>2, LookupsType
<1>4. ASSUME Kept, u.is \notin {"AddJoinedRoom", "RemoveRoom", "ClearRooms"}
      PROVE  HasEntry(q)' = EntryAfter(q, u, HasEntry(q))
  <2>1. HasEntry(q)' = HasEntry(q)
      BY <1>4 DEF HasEntry
  <2>2. EntryAfter(q, u, HasEntry(q)) = HasEntry(q)
      BY <1>4 DEF EntryAfter, Joining, Clearing
  <2> QED BY <2>1, <2>2
<1>5. HasEntry(q)' = EntryAfter(q, u, HasEntry(q))
  <2>1. ASSUME ui'.joined = ui.joined PROVE Kept
      BY <2>1
  <2> HIDE DEF u, Kept
  <2>2. CASE HandlesAddInvitedRoom
      BY <1>4, <2>1, <2>2, AddInvitedRoomEffect, Handled DEF Holds, HandlesAddInvitedRoom, u
  <2>3. CASE HandlesAddJoinedRoom
    <3>1. u.is = "AddJoinedRoom" /\ ui'.joined = With(ui.joined, u.room, u.info)
        BY <2>3, AddJoinedRoomEffect, Handled DEF Holds, HandlesAddJoinedRoom, u
    <3>2. u.room \in Rooms /\ u.info \in JoinedRoomInfo /\ ~u.info.placeholder
        BY <1>2, <3>1, UpdateFields
    <3>3. /\ DOMAIN With(ui.joined, u.room, u.info) = DOMAIN ui.joined \union {u.room}
          /\ With(ui.joined, u.room, u.info)[u.room] = u.info
          /\ \A x \in DOMAIN ui.joined : x # u.room =>
                With(ui.joined, u.room, u.info)[x] = ui.joined[x]
        BY DEF With
    <3>4. CASE q = u.room
      <4>1. HasEntry(q)' = {"entry"}
          BY <3>1, <3>2, <3>3, <3>4 DEF HasEntry
      <4> QED BY <3>1, <3>4, <4>1 DEF EntryAfter, Joining, Clearing, HasEntry
    <3>5. CASE q # u.room
      <4>1. HasEntry(q)' = HasEntry(q)
          BY <3>1, <3>3, <3>5 DEF HasEntry
      <4> QED BY <3>1, <3>5, <4>1 DEF EntryAfter, Joining, Clearing
    <3> QED BY <3>4, <3>5
  <2>4. CASE HandlesUpdateRoomName
    <3>1. u.is = "UpdateRoomName"
        BY <2>4, Handled DEF HandlesUpdateRoomName, u
    <3>2. \/ ui'.joined = ui.joined
          \/ u.room \in DOMAIN ui.joined /\ ui'.joined = [ui.joined EXCEPT ![u.room].name = u.name]
        BY <2>4, UpdateRoomNameEffect DEF Holds, u
    <3>3. Kept
        BY <1>3, <3>2 DEF Kept, JoinedRoomInfo
    <3> QED BY <1>4, <3>1, <3>3
  <2>5. CASE HandlesUpdateIsDirect
    <3>1. u.is = "UpdateIsDirect"
        BY <2>5, Handled DEF HandlesUpdateIsDirect, u
    <3>2. \/ ui'.joined = ui.joined
          \/ /\ u.room \in DOMAIN ui.joined
             /\ ui'.joined = [ui.joined EXCEPT ![u.room] = [ui.joined[u.room] EXCEPT !.direct = u.direct]]
        BY <2>5, UpdateIsDirectEffect DEF Holds, u
    <3>3. Kept
        BY <1>3, <3>2 DEF Kept, JoinedRoomInfo
    <3> QED BY <1>4, <3>1, <3>3
  <2>6. CASE HandlesTags
    <3>1. u.is = "Tags"
        BY <2>6, Handled DEF HandlesTags, u
    <3>2. \/ ui'.joined = ui.joined
          \/ /\ u.room \in DOMAIN ui.joined
             /\ ui'.joined = [ui EXCEPT !.joined = [@ EXCEPT ![u.room].tag = u.tag]].joined
        BY <2>6, TagsEffect DEF Holds, u
    <3>3. \/ ui'.joined = ui.joined
          \/ /\ u.room \in DOMAIN ui.joined
             /\ ui'.joined = [ui.joined EXCEPT ![u.room].tag = u.tag]
        BY <3>2 DEF Sound, ListType, Widgets
    <3>4. Kept
        BY <1>3, <3>3 DEF Kept, JoinedRoomInfo
    <3> QED BY <1>4, <3>1, <3>4
  <2>7. CASE HandlesRemoveRoom
    <3>1. u.is = "RemoveRoom"
        BY <2>7, Handled DEF HandlesRemoveRoom, u
    <3>2. \/ ui'.joined = Without(ui.joined, u.room)
          \/ ui'.joined = ui.joined /\ u.room \notin DOMAIN ui.joined
        BY <2>7, RemoveRoomEffect DEF Holds, u
    <3>3. /\ DOMAIN Without(ui.joined, u.room) = DOMAIN ui.joined \ {u.room}
          /\ \A x \in DOMAIN ui.joined \ {u.room} : Without(ui.joined, u.room)[x] = ui.joined[x]
      <4> DEFINE j == ui.joined
                 r == u.room
      <4>1. j \in Lookups(JoinedRoomInfo)
          BY <1>2
      <4> HIDE DEF j, r
      <4>2. /\ DOMAIN Without(j, r) = DOMAIN j \ {r}
            /\ \A x \in DOMAIN j \ {r} : Without(j, r)[x] = j[x]
          BY <4>1, WithoutType
      <4> QED BY <4>2 DEF j, r
    <3>4. CASE q = u.room
      <4>1. HasEntry(q)' = {}
          BY <3>2, <3>3, <3>4 DEF HasEntry
      <4> QED BY <3>1, <3>4, <4>1 DEF EntryAfter, Joining, Clearing, HasEntry
    <3>5. CASE q # u.room
      <4>1. HasEntry(q)' = HasEntry(q)
          BY <3>2, <3>3, <3>5 DEF HasEntry
      <4> QED BY <3>1, <3>5, <4>1 DEF EntryAfter, Joining, Clearing
    <3> QED BY <3>4, <3>5
  <2>8. CASE HandlesClearRooms
    <3>1. u.is = "ClearRooms" /\ ui'.joined = Nothing /\ DOMAIN Nothing = {}
        BY <2>8, ClearRoomsEffect, Handled, NothingType DEF Holds, HandlesClearRooms, u
    <3>2. HasEntry(q)' = {}
        BY <3>1 DEF HasEntry
    <3> QED BY <3>1, <3>2 DEF EntryAfter, Joining, Clearing, HasEntry
  <2>9. CASE HandlesHideRoom
      BY <1>4, <2>1, <2>9, HideRoomEffect, Handled DEF Holds, HandlesHideRoom, u
  <2>10. CASE HandlesUnhideRoom
      BY <1>4, <2>1, <2>10, UnhideRoomEffect, Handled DEF Holds, HandlesUnhideRoom, u
  <2>11. CASE HandlesRoomOrderUpdate
      BY <1>4, <2>1, <2>11, RoomOrderUpdateEffect, Handled DEF Holds, HandlesRoomOrderUpdate, u
  <2> QED BY <2>2, <2>3, <2>4, <2>5, <2>6, <2>7, <2>8, <2>9, <2>10, <2>11 DEF HandlesUpdate
<1> QED BY <1>2, <1>5

\* The details, when the entry is on the widget or further along the queue.
LEMMA WidgetKeepsDetails ==
    ASSUME Sound, DetailsOK, HandlesUpdate
    PROVE  DetailsOK'
<1>0. UNCHANGED <<todo, known, allJoined>>
    BY WidgetKeeps
<1>1. CASE DrainEnds
  <2>1. ui'.joined = ui.joined /\ queue' = queue
      BY <1>1, DrainEndsEffect DEF Holds
  <2>2. \A r \in Rooms : HasEntry(r)' = HasEntry(r)
      BY <2>1 DEF HasEntry
  <2> QED BY <1>0, <2>1, <2>2, DetailsStay
<1>2. CASE ~DrainEnds
  <2> SUFFICES ASSUME NEW r \in Rooms PROVE (\E m, y : DetailsOf(r, m, y))'
      BY DEF DetailsOK
  <2>1. PICK m, y : DetailsOf(r, m, y)
      BY DEF DetailsOK
  <2>2. /\ queue \in Seq(Updates) /\ queue # <<>> /\ queue' = Tail(queue)
        /\ HasEntry(r)' = EntryAfter(r, Head(queue), HasEntry(r))
      BY <1>2, EntryHandled
  <2>3. PICK z : <<HasEntry(r), Head(queue), z>> \in EntrySteps(r)
                 /\ Leads(EntrySteps(r), Tail(queue), z, m)
      BY <2>1, <2>2, LeadsFrom DEF DetailsOf
  <2>4. z = HasEntry(r)'
      BY <2>2, <2>3 DEF EntrySteps
  <2>5. Leads(EntrySteps(r), queue', HasEntry(r)', m)
      BY <2>2, <2>3, <2>4
  <2>6. Leads(DetailSteps(r)', todo', (m \union HasDetails(r))', y)
      BY <1>0, <2>1 DEF DetailsOf, DetailSteps, HasDetails
  <2>7. Leads(EntrySteps(r)', queue', HasEntry(r)', m)
      BY <2>5 DEF EntrySteps
  <2>8. DetailsOf(r, m, y)'
      BY <1>0, <2>1, <2>6, <2>7 DEF DetailsOf, Detailed
  <2> QED BY <2>8
<1> QED BY <1>1, <1>2

LEMMA OthersKeepDetails ==
    ASSUME Sound, DetailsOK,
           \/ ListIsReset \/ FilterChanges
           \/ \E r \in Rooms : RoomChanges(r) \/ UserLeaves(r) \/ UserCreates(r)
           \/ \E r \in Rooms : HandlesLeft(r) \/ HearsInvite(r) \/ AddsInvite(r)
           \/ \E created \in creating : HandlesCreated(created)
    PROVE  DetailsOK'
<1>1. ASSUME ui'.joined = ui.joined, NEW r \in Rooms PROVE HasEntry(r)' = HasEntry(r)
    BY <1>1 DEF HasEntry
<1>2. CASE ListIsReset \/ FilterChanges
  <2>1. ui'.joined = ui.joined /\ UNCHANGED <<todo, allJoined, known, queue>>
      BY <1>2, FilterChangesEffect DEF ListIsReset, loopVars
  <2> QED BY <1>1, <2>1, DetailsStay
<1>3. ASSUME NEW r \in Rooms, RoomChanges(r) \/ UserLeaves(r) \/ UserCreates(r)
      PROVE  DetailsOK'
  <2>1. ui' = ui /\ UNCHANGED <<todo, allJoined, known, queue>>
      BY <1>3 DEF RoomChanges, UserLeaves, UserCreates, loopVars
  <2> QED BY <1>1, <2>1, DetailsStay
<1>4. ASSUME NEW r \in Rooms, HandlesLeft(r) \/ HearsInvite(r) \/ AddsInvite(r)
      PROVE  DetailsOK'
  <2>1. ui' = ui /\ UNCHANGED <<todo, allJoined, known>>
      BY <1>4 DEF HandlesLeft, HearsInvite, AddsInvite, loopVars
  <2>2. \/ queue' = queue \/ queue' = Append(queue, HideRoom(r))
        \/ listener[r] \in Name /\ queue' = Append(queue, AddInvitedRoom(r, listener[r]))
      BY <1>4 DEF HandlesLeft, HearsInvite, AddsInvite
  <2>3. HideRoom(r) \in Updates /\ HideRoom(r).is = "HideRoom"
      BY DEF HideRoom, Updates
  <2>4. \A n \in Name : /\ AddInvitedRoom(r, n) \in Updates
                        /\ AddInvitedRoom(r, n).is = "AddInvitedRoom"
      BY DEF AddInvitedRoom, Updates
  <2>5. \/ queue' = queue
        \/ \E u \in Updates : /\ queue' = Append(queue, u)
                              /\ u.is \notin {"AddJoinedRoom", "RemoveRoom", "ClearRooms"}
    <3>1. CASE queue' = Append(queue, HideRoom(r))
        BY <2>3, <3>1
    <3>2. CASE listener[r] \in Name /\ queue' = Append(queue, AddInvitedRoom(r, listener[r]))
        BY <2>4, <3>2
    <3> QED BY <2>2, <3>1, <3>2
  <2> QED BY <1>1, <2>1, <2>5, DetailsStay
<1>5. ASSUME NEW created \in creating, HandlesCreated(created) PROVE DetailsOK'
  <2>1. UNCHANGED <<todo, allJoined, known, queue>>
      BY <1>5, HandlesCreatedEffect
  <2>2. ASSUME NEW r \in Rooms PROVE HasEntry(r)' = HasEntry(r)
    <3>1. ui.joined \in Lookups(JoinedRoomInfo)
        BY DEF Sound, ListType, Widgets
    <3>2. ui.joined \in [DOMAIN ui.joined -> JoinedRoomInfo]
        BY <3>1, LookupsType
    <3>3. CASE /\ created.room \in DOMAIN ui.joined
               /\ ui'.joined = [ui.joined EXCEPT ![created.room].name = created.name]
        BY <3>2, <3>3 DEF HasEntry, JoinedRoomInfo
    <3>4. CASE /\ created.room \notin DOMAIN ui.joined
               /\ ui'.joined = With(ui.joined, created.room,
                                    [direct |-> FALSE, tag |-> "none", name |-> created.name,
                                     placeholder |-> TRUE])
        BY <3>4 DEF HasEntry, With
    <3> QED BY <1>5, <3>3, <3>4, HandlesCreatedEffect
  <2> QED BY <2>1, <2>2, DetailsStay
<1> QED BY <1>2, <1>3, <1>4, <1>5

\* The head of what the loop has to do is a step of the details.
LEMMA DetailsHead ==
    ASSUME Sound, todo # <<>>, NEW r \in Rooms, NEW m, NEW y, DetailsOf(r, m, y)
    PROVE  /\ todo \in Seq(Steps) /\ Head(todo) \in Steps /\ Tail(todo) \in Seq(Steps)
           /\ m \union HasDetails(r) \in SUBSET Marks
           /\ \E z \in SUBSET Marks : /\ DetailsMove(r, Head(todo), m \union HasDetails(r), z)
                                      /\ Leads(DetailSteps(r), Tail(todo), z, y)
<1>1. todo \in Seq(Steps)
    BY DEF Sound, ListType
<1>2. Head(todo) \in Steps /\ Tail(todo) \in Seq(Steps)
    BY <1>1, RangeOfHead
<1>3. PICK z : <<m \union HasDetails(r), Head(todo), z>> \in DetailSteps(r)
               /\ Leads(DetailSteps(r), Tail(todo), z, y)
    BY <1>1, LeadsFrom DEF DetailsOf
<1>4. /\ DetailsMove(r, Head(todo), m \union HasDetails(r), z) /\ z \in SUBSET Marks
      /\ m \union HasDetails(r) \in SUBSET Marks
  <2> DEFINE x == m \union HasDetails(r)
  <2>1. <<x, Head(todo), z>> \in DetailSteps(r)
      BY <1>3
  <2> HIDE DEF x
  <2>2. x \in SUBSET Marks /\ z \in SUBSET Marks /\ DetailsMove(r, Head(todo), x, z)
      BY <2>1, DetailStepType
  <2> QED BY <2>2 DEF x
<1> QED BY <1>1, <1>2, <1>3, <1>4

LEMMA PostKeepsDetails ==
    ASSUME Sound, DetailsOK, PostsUpdate
    PROVE  DetailsOK'
<1>1. /\ Does("post") /\ todo' = Tail(todo) /\ queue' = Append(queue, Head(todo).update)
      /\ UNCHANGED <<known, allJoined>>
    BY DEF PostsUpdate
<1> DEFINE u == Head(todo).update
<1>2. u \in Updates /\ Head(todo).does = "post" /\ todo # <<>> /\ ui' = ui
    BY <1>1, Doing
<1> HIDE DEF u
<1> SUFFICES ASSUME NEW r \in Rooms PROVE (\E m, y : DetailsOf(r, m, y))'
    BY DEF DetailsOK
<1>3. PICK m, y : DetailsOf(r, m, y)
    BY DEF DetailsOK
<1> DEFINE x == m \union HasDetails(r)
<1>0. PICK n : n = EntryAfter(r, u, m)
    OBVIOUS
<1>4. PICK z \in SUBSET Marks : /\ DetailsMove(r, Head(todo), x, z)
                                /\ Leads(DetailSteps(r), Tail(todo), z, y)
    BY <1>2, <1>3, DetailsHead
<1>5. z = EntryAfter(r, u, x)
    BY <1>2, <1>4 DEF DetailsMove, u
<1>6. z = n \union HasDetails(r)
  <2>1. m \in SUBSET {"entry"} /\ HasDetails(r) \in SUBSET {"details"}
      BY <1>3 DEF DetailsOf, HasDetails
  <2> QED BY <1>0, <1>5, <2>1 DEF EntryAfter
<1>7. m \in SUBSET {"entry"} /\ n \in SUBSET {"entry"}
    BY <1>0, <1>3 DEF DetailsOf, EntryAfter
<1>8. Leads(EntrySteps(r), queue', HasEntry(r), n)
  <2>1. <<m, u, n>> \in EntrySteps(r)
      BY <1>0, <1>2, <1>7, EntryStep
  <2>2. Leads(EntrySteps(r), <<u>>, m, n)
      BY <2>1, LeadsOnce
  <2>3. queue \in Seq(Updates)
      BY DEF Sound, ListType
  <2>4. Append(queue, u) = queue \o <<u>> /\ <<u>> \in Seq(Updates)
      BY <1>2, <2>3, RangeOfAppend
  <2>5. Leads(EntrySteps(r), queue \o <<u>>, HasEntry(r), n)
      BY <1>3, <2>2, <2>3, <2>4, LeadsOn DEF DetailsOf
  <2> QED BY <1>1, <2>4, <2>5 DEF u
<1>9. Leads(EntrySteps(r)', queue', HasEntry(r)', n)
    BY <1>2, <1>8 DEF EntrySteps, HasEntry
<1>10. Leads(DetailSteps(r)', todo', (n \union HasDetails(r))', y)
  <2>1. HasDetails(r)' = HasDetails(r)
      BY <1>1 DEF HasDetails
  <2> QED BY <1>1, <1>4, <1>6, <2>1 DEF DetailSteps
<1>11. DetailsOf(r, n, y)'
    BY <1>1, <1>3, <1>7, <1>9, <1>10 DEF DetailsOf, Detailed
<1> QED BY <1>11

LEMMA TailKeepsDetails ==
    ASSUME Sound, DetailsOK, todo # <<>>, todo' = Tail(todo), UNCHANGED <<known, queue, ui>>,
           \A r \in Rooms : \A m \in SUBSET {"entry"} : \A z \in SUBSET Marks :
               DetailsMove(r, Head(todo), m \union HasDetails(r), z) => z = m \union HasDetails(r)'
    PROVE  DetailsOK'
<1> SUFFICES ASSUME NEW r \in Rooms PROVE (\E m, y : DetailsOf(r, m, y))'
    BY DEF DetailsOK
<1>1. PICK m, y : DetailsOf(r, m, y)
    BY DEF DetailsOK
<1>2. PICK z \in SUBSET Marks : /\ DetailsMove(r, Head(todo), m \union HasDetails(r), z)
                                /\ Leads(DetailSteps(r), Tail(todo), z, y)
    BY <1>1, DetailsHead
<1>3. m \in SUBSET {"entry"}
    BY <1>1 DEF DetailsOf
<1>4. z = m \union HasDetails(r)'
    BY <1>2, <1>3
<1>5. Leads(DetailSteps(r)', todo', (m \union HasDetails(r))', y)
    BY <1>2, <1>4 DEF DetailSteps
<1>6. Leads(EntrySteps(r)', queue', HasEntry(r)', m)
    BY <1>1 DEF DetailsOf, EntrySteps, HasEntry
<1>7. DetailsOf(r, m, y)'
    BY <1>1, <1>5, <1>6 DEF DetailsOf, Detailed
<1> QED BY <1>7

LEMMA InsertsKeepDetails ==
    ASSUME Sound, DetailsOK, InsertsDetails \/ DropsDetails \/ DropsAll
    PROVE  DetailsOK'
<1>1. CASE InsertsDetails
  <2>1. Does("insert") /\ todo' = Tail(todo) /\ allJoined' = allJoined \union {Head(todo).room}
        /\ UNCHANGED <<known, queue>>
      BY <1>1 DEF InsertsDetails
  <2>2. Head(todo).does = "insert" /\ todo # <<>> /\ ui' = ui
      BY <2>1, Doing
  <2>3. ASSUME NEW r \in Rooms, NEW m \in SUBSET {"entry"}, NEW z \in SUBSET Marks,
               DetailsMove(r, Head(todo), m \union HasDetails(r), z)
        PROVE  z = m \union HasDetails(r)'
    <3>1. CASE Head(todo).room = r
      <4>1. m \union HasDetails(r) = {} /\ z = {"details"}
          BY <2>2, <2>3, <3>1 DEF DetailsMove
      <4>2. HasDetails(r)' = {"details"}
          BY <2>1, <3>1 DEF HasDetails
      <4> QED BY <4>1, <4>2
    <3>2. CASE Head(todo).room # r
      <4>1. z = m \union HasDetails(r)
          BY <2>2, <2>3, <3>2 DEF DetailsMove
      <4>2. HasDetails(r)' = HasDetails(r)
          BY <2>1, <3>2 DEF HasDetails
      <4> QED BY <4>1, <4>2
    <3> QED BY <3>1, <3>2
  <2> QED BY <2>1, <2>2, <2>3, TailKeepsDetails
<1>2. CASE DropsDetails
  <2>1. Does("drop") /\ todo' = Tail(todo) /\ allJoined' = allJoined \ {Head(todo).room}
        /\ UNCHANGED <<known, queue>>
      BY <1>2 DEF DropsDetails
  <2>2. Head(todo).does = "drop" /\ todo # <<>> /\ ui' = ui
      BY <2>1, Doing
  <2>3. ASSUME NEW r \in Rooms, NEW m \in SUBSET {"entry"}, NEW z \in SUBSET Marks,
               DetailsMove(r, Head(todo), m \union HasDetails(r), z)
        PROVE  z = m \union HasDetails(r)'
    <3>1. CASE Head(todo).room = r
      <4>1. z = (m \union HasDetails(r)) \ {"details"}
          BY <2>2, <2>3, <3>1 DEF DetailsMove
      <4>2. HasDetails(r)' = {} /\ HasDetails(r) \subseteq {"details"}
          BY <2>1, <3>1 DEF HasDetails
      <4> QED BY <4>1, <4>2
    <3>2. CASE Head(todo).room # r
      <4>1. z = m \union HasDetails(r)
          BY <2>2, <2>3, <3>2 DEF DetailsMove
      <4>2. HasDetails(r)' = HasDetails(r)
          BY <2>1, <3>2 DEF HasDetails
      <4> QED BY <4>1, <4>2
    <3> QED BY <3>1, <3>2
  <2> QED BY <2>1, <2>2, <2>3, TailKeepsDetails
<1>3. CASE DropsAll
  <2>1. Does("drop all") /\ todo' = Tail(todo) /\ allJoined' = {} /\ UNCHANGED <<known, queue>>
      BY <1>3 DEF DropsAll
  <2>2. Head(todo).does = "drop all" /\ todo # <<>> /\ ui' = ui
      BY <2>1, Doing
  <2>3. ASSUME NEW r \in Rooms, NEW m \in SUBSET {"entry"}, NEW z \in SUBSET Marks,
               DetailsMove(r, Head(todo), m \union HasDetails(r), z)
        PROVE  z = m \union HasDetails(r)'
    <3>1. z = (m \union HasDetails(r)) \ {"details"}
        BY <2>2, <2>3 DEF DetailsMove
    <3>2. HasDetails(r)' = {} /\ HasDetails(r) \subseteq {"details"}
        BY <2>1 DEF HasDetails
    <3> QED BY <3>1, <3>2
  <2> QED BY <2>1, <2>2, <2>3, TailKeepsDetails
<1> QED BY <1>1, <1>2, <1>3

\* A diff is taken up when the loop has nothing else to do.
LEMMA TakenKeepsDetails ==
    ASSUME Sound, DetailsOK, NEW kind, NEW rooms, Takes(kind, rooms),
           \A r \in Rooms : \A x : Detailed(r, x) =>
               \E y : Leads(DetailSteps(r), todo', x, y) /\ Detailed(r, y)'
    PROVE  DetailsOK'
<1> SUFFICES ASSUME NEW r \in Rooms PROVE (\E m, y : DetailsOf(r, m, y))'
    BY DEF DetailsOK
<1>1. PICK m, x : DetailsOf(r, m, x)
    BY DEF DetailsOK
<1>2. todo = <<>> /\ UNCHANGED <<queue, ui, allJoined>>
    BY Taken
<1>3. x = m \union HasDetails(r)
    BY <1>1, <1>2, LeadsByNothing DEF DetailsOf
<1>4. PICK y : Leads(DetailSteps(r), todo', x, y) /\ Detailed(r, y)'
    BY <1>1 DEF DetailsOf
<1>5. Leads(DetailSteps(r)', todo', (m \union HasDetails(r))', y)
    BY <1>2, <1>3, <1>4 DEF DetailSteps, HasDetails
<1>6. Leads(EntrySteps(r)', queue', HasEntry(r)', m)
    BY <1>1, <1>2 DEF DetailsOf, EntrySteps, HasEntry
<1>7. DetailsOf(r, m, y)'
    BY <1>1, <1>4, <1>5, <1>6 DEF DetailsOf
<1> QED BY <1>7

LEMMA OneRoomKeepsDetails ==
    ASSUME Sound, DetailsOK, NEW kind, NEW r \in Rooms, Takes(kind, {r}), todo' \in Seq(About(r)),
           \A q \in Rooms \ {r} : q \in DOMAIN known =>
               q \in DOMAIN known' /\ known'[q] = known[q],
           \A x : Detailed(r, x) => \E y : Leads(DetailSteps(r), todo', x, y) /\ Detailed(r, y)'
    PROVE  DetailsOK'
<1> SUFFICES ASSUME NEW q \in Rooms, NEW x, Detailed(q, x), q # r
             PROVE  \E y : Leads(DetailSteps(q), todo', x, y) /\ Detailed(q, y)'
    BY TakenKeepsDetails
<1>1. x \in SUBSET Marks
    BY DEF Detailed
<1>2. Leads(DetailSteps(q), todo', x, x)
    BY <1>1, DetailsIdle
<1>3. Detailed(q, x)'
    BY DEF Detailed
<1> QED BY <1>2, <1>3

LEMMA update_roomLeads ==
    ASSUME NEW r \in Rooms, NEW old \in RoomInfo, NEW new \in RoomInfo, NEW x \in SUBSET Marks,
           "entry" \in x => "details" \in x,
           "details" \in x => r \notin Spaces /\ old.state = "Joined",
           old.state = "Joined" => new.state \notin {"Invited", "Knocked"}
    PROVE  \E y \in SUBSET Marks :
               /\ Leads(DetailSteps(r), update_room(r, old, new), x, y)
               /\ "entry" \in y => "details" \in y
               /\ "details" \in y => r \notin Spaces /\ new.state = "Joined"
<1> DEFINE T == DetailSteps(r)
           flip == DisplayFlip(r, old, new)
           rest == CASE old.state = new.state -> ChangesOf(r, old, new)
                     [] old.state # new.state /\ new.state \in {"Banned", "Left"} -> remove_room(r)
                     [] old.state # new.state /\ new.state \notin {"Banned", "Left"} ->
                           add_new_room(r, new)
<1>1. \E y \in SUBSET Marks : /\ Leads(T, rest, x, y)
                              /\ "entry" \in y => "details" \in y
                              /\ "details" \in y => r \notin Spaces /\ new.state = "Joined"
  <2>1. CASE old.state = new.state
    <3>1. rest = ChangesOf(r, old, new)
        BY <2>1
    <3>2. Leads(T, rest, x, x)
        BY <3>1, ChangesOfLeads
    <3> QED BY <2>1, <3>2
  <2>2. CASE old.state # new.state /\ new.state \in {"Banned", "Left"}
    <3>1. rest = remove_room(r)
        BY <2>2
    <3>2. Leads(T, rest, x, {})
        BY <3>1, remove_roomLeads
    <3> QED BY <3>2
  <2>3. CASE old.state # new.state /\ new.state \notin {"Banned", "Left"}
    <3>1. rest = add_new_room(r, new)
        BY <2>3
    <3>2. x = {}
      <4>1. new.state \in RoomState
          BY RoomsAssumption DEF RoomInfo
      <4>2. "details" \notin x
          BY <2>3, <4>1 DEF RoomState
      <4> QED BY <4>2 DEF Marks
    <3> DEFINE y == IF new.state = "Joined" /\ r \notin Spaces THEN Marks ELSE {}
    <3>3. Leads(T, rest, x, y)
        BY <3>1, <3>2, add_new_roomLeads
    <3>4. y \in SUBSET Marks /\ ("entry" \in y => "details" \in y)
          /\ ("details" \in y => r \notin Spaces /\ new.state = "Joined")
        BY DEF Marks
    <3> HIDE DEF y, rest, T
    <3> QED BY <3>3, <3>4
  <2> QED BY <2>1, <2>2, <2>3, Zenon
<1>2. rest \in Seq(Steps) /\ flip \in Seq(Steps)
  <2>1. rest \in Seq(About(r))
      BY add_new_roomType, remove_roomType, ChangesOfType
  <2> HIDE DEF rest
  <2> QED BY <2>1, DisplayFlipType, AboutSteps
<1>3. Leads(T, flip, x, x)
    BY DisplayFlipLeads
<1>4. update_room(r, old, new) = flip \o rest
    BY DEF update_room
<1> HIDE DEF rest, T, flip
<1>5. PICK y \in SUBSET Marks : /\ Leads(T, rest, x, y)
                                /\ "entry" \in y => "details" \in y
                                /\ "details" \in y => r \notin Spaces /\ new.state = "Joined"
    BY <1>1
<1>6. Leads(T, flip \o rest, x, y)
    BY <1>2, <1>3, <1>5, LeadsOn
<1>7. Leads(DetailSteps(r), update_room(r, old, new), x, y)
    BY <1>4, <1>6 DEF T
<1> WITNESS y \in SUBSET Marks
<1> QED BY <1>5, <1>7

LEMMA SortedLeads ==
    ASSUME NEW r \in Rooms, NEW s \in Seq(About(r)), NEW x \in SUBSET Marks, NEW y \in SUBSET Marks,
           Leads(DetailSteps(r), s, x, y)
    PROVE  /\ Leads(DetailSteps(r), s \o Sort, x, y) /\ Leads(DetailSteps(r), Sort \o s, x, y)
           /\ Leads(DetailSteps(r), Sort \o s \o Sort, x, y)
<1>1. s \in Seq(Steps) /\ Sort \in Seq(Steps)
    BY AboutSteps, StepsType
<1>2. Leads(DetailSteps(r), Sort, x, x) /\ Leads(DetailSteps(r), Sort, y, y)
    BY SortLeads
<1>3. Leads(DetailSteps(r), s \o Sort, x, y)
    BY <1>1, <1>2, LeadsOn
<1>4. Leads(DetailSteps(r), Sort \o s, x, y) /\ Sort \o s \in Seq(Steps)
    BY <1>1, <1>2, LeadsOn, ConcatProperties
<1>5. Leads(DetailSteps(r), (Sort \o s) \o Sort, x, y)
    BY <1>1, <1>2, <1>4, LeadsOn
<1> QED BY <1>3, <1>4, <1>5

LEMMA InsertKeepsDetails ==
    ASSUME Sound, DetailsOK, NEW r \in Rooms, InsertDiff(r)
    PROVE  DetailsOK'
<1> DEFINE info == ReadInfo(r)
<1>1. Takes("Insert", {r}) /\ todo' = add_new_room(r, info) \o Sort /\ known' = With(known, r, info)
    BY DEF InsertDiff
<1>2. info \in RoomInfo
    BY ReadInfoType DEF Sound
<1>3. r \notin DOMAIN known /\ todo' \in Seq(About(r))
    BY InsertDiffKeeps
<1> HIDE DEF info
<1>4. /\ DOMAIN known' = DOMAIN known \union {r} /\ known'[r] = info
      /\ \A q \in DOMAIN known \ {r} : known'[q] = known[q]
    BY <1>1 DEF With
<1> DEFINE y == IF info.state = "Joined" /\ r \notin Spaces THEN Marks ELSE {}
<1>5. Leads(DetailSteps(r), todo', {}, y)
  <2>1. Leads(DetailSteps(r), add_new_room(r, info), {}, y) /\ y \in SUBSET Marks
      BY <1>2, add_new_roomLeads
  <2>2. add_new_room(r, info) \in Seq(About(r))
      BY <1>2, add_new_roomType
  <2> HIDE DEF y
  <2> QED BY <1>1, <2>1, <2>2, SortedLeads
<1>6. \A w \in {y} : Detailed(r, w)'
    BY <1>4 DEF Detailed, Marks
<1>7. \A x : Detailed(r, x) => x = {}
    BY <1>3 DEF Detailed, Marks
<1> HIDE DEF y
<1> QED BY <1>1, <1>3, <1>4, <1>5, <1>6, <1>7, OneRoomKeepsDetails

LEMMA SetKeepsDetails ==
    ASSUME Sound, DetailsOK, StepByStep, NEW r \in Rooms, SetDiff(r) \/ MoveDiff(r)
    PROVE  DetailsOK'
<1> DEFINE new == ReadInfo(r)
           old == known[r]
<1>1. /\ known' = With(known, r, new)
      /\ Takes("Set", {r}) \/ Takes("Move", {r})
      /\ \/ todo' = update_room(r, old, new)
         \/ todo' = Sort \o update_room(r, old, new) \o Sort
    BY DEF SetDiff, MoveDiff
<1>2. new \in RoomInfo
    BY ReadInfoType DEF Sound
<1>3. r \in DOMAIN known /\ todo' \in Seq(About(r)) /\ old \in RoomInfo
    BY SetDiffKeeps
<1> HIDE DEF new
<1>4. /\ DOMAIN known' = DOMAIN known \union {r} /\ known'[r] = new
      /\ \A q \in DOMAIN known \ {r} : known'[q] = known[q]
    BY <1>1 DEF With
<1>5. old.state = "Joined" => new.state \notin {"Invited", "Knocked"}
    BY <1>3, <1>4 DEF StepByStep
<1>6. ASSUME NEW x, Detailed(r, x)
      PROVE  \E y : Leads(DetailSteps(r), todo', x, y) /\ Detailed(r, y)'
  <2>1. /\ x \in SUBSET Marks
        /\ "entry" \in x => "details" \in x
        /\ "details" \in x => r \notin Spaces /\ old.state = "Joined"
      BY <1>6 DEF Detailed
  <2> HIDE DEF old
  <2>2. PICK y \in SUBSET Marks :
               /\ Leads(DetailSteps(r), update_room(r, old, new), x, y)
               /\ "entry" \in y => "details" \in y
               /\ "details" \in y => r \notin Spaces /\ new.state = "Joined"
      BY <1>2, <1>3, <1>5, <2>1, update_roomLeads
  <2>3. Leads(DetailSteps(r), todo', x, y)
    <3>1. update_room(r, old, new) \in Seq(About(r))
        BY <1>2, <1>3, update_roomType
    <3>2. Leads(DetailSteps(r), Sort \o update_room(r, old, new) \o Sort, x, y)
        BY <2>1, <2>2, <3>1, SortedLeads
    <3> QED BY <1>1, <2>2, <3>2
  <2>4. Detailed(r, y)'
      BY <1>4, <2>2 DEF Detailed
  <2> QED BY <2>3, <2>4
<1> QED BY <1>1, <1>3, <1>4, <1>6, OneRoomKeepsDetails

LEMMA RemoveKeepsDetails ==
    ASSUME Sound, DetailsOK, NEW r \in Rooms, RemoveDiff(r)
    PROVE  DetailsOK'
<1>1. Takes("Remove", {r}) /\ todo' = Sort \o remove_room(r) /\ known' = Without(known, r)
    BY DEF RemoveDiff
<1>2. todo' \in Seq(About(r))
    BY RemoveDiffKeeps
<1>3. \A q \in Rooms \ {r} : q \in DOMAIN known => q \in DOMAIN known' /\ known'[q] = known[q]
    BY <1>1 DEF Without, Restrict
<1>4. ASSUME NEW x, Detailed(r, x) PROVE Leads(DetailSteps(r), todo', x, {}) /\ Detailed(r, {})'
  <2>1. x \in SUBSET Marks
      BY <1>4 DEF Detailed
  <2>2. Leads(DetailSteps(r), remove_room(r), x, {}) /\ remove_room(r) \in Seq(About(r))
      BY <2>1, remove_roomLeads, remove_roomType
  <2>3. Leads(DetailSteps(r), Sort \o remove_room(r), x, {})
      BY <2>1, <2>2, SortedLeads
  <2> QED BY <1>1, <2>3 DEF Detailed
<1> QED BY <1>1, <1>2, <1>3, <1>4, OneRoomKeepsDetails

LEMMA ClearingLeads ==
    ASSUME NEW r \in Rooms, NEW x \in SUBSET Marks
    PROVE  /\ DropAll \in Steps /\ Post(ClearRooms) \in Steps
           /\ Leads(DetailSteps(r), <<DropAll>>, x, x \ {"details"})
           /\ Leads(DetailSteps(r), <<Post(ClearRooms)>>, x \ {"details"}, {})
           /\ x \ {"details"} \in SUBSET Marks
<1> DEFINE y == x \ {"details"}
<1>1. DropAll \in Steps /\ Post(ClearRooms) \in Steps
    BY DEF Post, DropAll, ClearRooms, Steps, Updates
<1>2. y \in SUBSET Marks
    OBVIOUS
<1>3. DetailsMove(r, DropAll, x, y)
    BY DEF DetailsMove, DropAll
<1>4. DetailsMove(r, Post(ClearRooms), y, {})
    BY DEF DetailsMove, Post, ClearRooms, EntryAfter, Joining, Clearing, Marks
<1>5. <<x, DropAll, y>> \in DetailSteps(r) /\ <<y, Post(ClearRooms), {}>> \in DetailSteps(r)
    BY <1>1, <1>2, <1>3, <1>4, DetailStep
<1> HIDE DEF y
<1>6. /\ Leads(DetailSteps(r), <<DropAll>>, x, y)
      /\ Leads(DetailSteps(r), <<Post(ClearRooms)>>, y, {})
    BY <1>5, LeadsOnce
<1> QED BY <1>1, <1>2, <1>6 DEF y

\* What is to be removed loses its details, one room after the other.
LEMMA RemoveRoomsLeads ==
    ASSUME NEW r \in Rooms, NEW x \in SUBSET Marks, NEW rooms \in SUBSET Rooms
    PROVE  /\ RemoveRooms(rooms) \in Seq(Steps)
           /\ Leads(DetailSteps(r), RemoveRooms(rooms), x,
                    IF r \in rooms THEN x \ {"details"} ELSE x)
<1> DEFINE y == IF r \in rooms THEN x \ {"details"} ELSE x
           e == [does |-> "remove", rooms |-> rooms]
<1>1. RemoveRooms(rooms) \in Seq(Steps)
    BY StepsType
<1>2. CASE rooms = {}
  <2>1. RemoveRooms(rooms) = <<>> /\ y = x
      BY <1>2 DEF RemoveRooms, When
  <2> QED BY <1>1, <2>1, LeadsNowhere
<1>3. CASE rooms # {}
  <2>1. RemoveRooms(rooms) = <<e>>
      BY <1>3 DEF RemoveRooms, When
  <2>2. e \in Steps /\ DetailsMove(r, e, x, y)
      BY DEF Steps, DetailsMove
  <2>3. <<x, e, y>> \in DetailSteps(r)
      BY <2>2, DetailStep
  <2> HIDE DEF e, y
  <2>4. Leads(DetailSteps(r), <<e>>, x, y)
      BY <2>3, LeadsOnce
  <2> QED BY <1>1, <2>1, <2>4 DEF y
<1> QED BY <1>2, <1>3

LEMMA AppendRoomsLeads ==
    ASSUME NEW r \in Rooms, NEW x \in SUBSET Marks, NEW rooms \in SUBSET Rooms,
           r \in rooms => x = {}
    PROVE  AppendRooms(rooms) \in Seq(Steps) /\ Leads(DetailSteps(r), AppendRooms(rooms), x, x)
<1> DEFINE e == [does |-> "append", rooms |-> rooms]
<1>1. AppendRooms(rooms) \in Seq(Steps)
    BY StepsType
<1>2. CASE rooms = {}
  <2>1. AppendRooms(rooms) = <<>>
      BY <1>2 DEF AppendRooms, When
  <2> QED BY <1>1, <2>1, LeadsNowhere
<1>3. CASE rooms # {}
  <2>1. AppendRooms(rooms) = <<e>>
      BY <1>3 DEF AppendRooms, When
  <2>2. e \in Steps /\ DetailsMove(r, e, x, x)
      BY DEF Steps, DetailsMove
  <2>3. <<x, e, x>> \in DetailSteps(r)
      BY <2>2, DetailStep
  <2> HIDE DEF e
  <2>4. Leads(DetailSteps(r), <<e>>, x, x)
      BY <2>3, LeadsOnce
  <2> QED BY <1>1, <2>1, <2>4
<1> QED BY <1>2, <1>3

LEMMA AppendingLeads ==
    ASSUME NEW r \in Rooms, NEW rooms \in SUBSET Rooms
    PROVE  /\ AppendRooms(rooms) \o When(rooms # {}, Sort) \in Seq(Steps)
           /\ Leads(DetailSteps(r), AppendRooms(rooms) \o When(rooms # {}, Sort), {}, {})
<1> DEFINE a == AppendRooms(rooms)
           b == When(rooms # {}, Sort)
<1>1. a \in Seq(Steps) /\ Leads(DetailSteps(r), a, {}, {})
    BY AppendRoomsLeads
<1>2. b \in Seq(Steps) /\ Leads(DetailSteps(r), b, {}, {})
  <2>1. Sort \in Seq(Steps) /\ Leads(DetailSteps(r), Sort, {}, {})
      BY SortLeads
  <2> QED BY <2>1, LeadsWhen
<1> HIDE DEF a, b
<1>3. a \o b \in Seq(Steps) /\ Leads(DetailSteps(r), a \o b, {}, {})
    BY <1>1, <1>2, LeadsOn, ConcatProperties
<1> QED BY <1>3 DEF a, b

LEMMA ClearKeepsDetails ==
    ASSUME Sound, DetailsOK, ClearDiff
    PROVE  DetailsOK'
<1>1. Takes("Clear", {}) /\ todo' = <<DropAll>> \o Sort \o <<Post(ClearRooms)>>
    BY DEF ClearDiff
<1> SUFFICES ASSUME NEW r \in Rooms, NEW x, Detailed(r, x)
             PROVE  Leads(DetailSteps(r), todo', x, {}) /\ Detailed(r, {})'
    BY <1>1, TakenKeepsDetails
<1> DEFINE T == DetailSteps(r)
           a == <<DropAll>>
           b == <<Post(ClearRooms)>>
           y == x \ {"details"}
<1>2. x \in SUBSET Marks
    BY DEF Detailed
<1>3. Leads(T, a, x, y) /\ Leads(T, b, y, {}) /\ a \in Seq(Steps) /\ b \in Seq(Steps)
      /\ y \in SUBSET Marks
    BY <1>2, ClearingLeads
<1>4. Sort \in Seq(Steps) /\ Leads(T, Sort, y, y)
    BY <1>3, SortLeads
<1>5. todo' = a \o Sort \o b
    BY <1>1
<1> HIDE DEF T, a, b, y
<1>6. Leads(T, a \o Sort, x, y) /\ a \o Sort \in Seq(Steps)
    BY <1>3, <1>4, LeadsOn, ConcatProperties
<1>7. Leads(T, a \o Sort \o b, x, {})
    BY <1>3, <1>6, LeadsOn
<1> QED BY <1>5, <1>7 DEF T, Detailed

LEMMA ResetKeepsDetails ==
    ASSUME Sound, DetailsOK, NEW rooms \in SUBSET Rooms, ResetDiff(rooms)
    PROVE  DetailsOK'
<1> DEFINE two == <<DropAll, Post(ClearRooms)>>
           clearing == RemoveRooms(DOMAIN known) \o two \o Sort
           adding == AppendRooms(rooms) \o When(rooms # {}, Sort)
<1>1. /\ Takes("Reset", rooms)
      /\ todo' = RemoveRooms(DOMAIN known) \o two \o Sort \o AppendRooms(rooms)
                 \o When(rooms # {}, Sort)
    BY DEF ResetDiff
<1>2. DOMAIN known \in SUBSET Rooms
    BY LookupsType DEF Sound, ListType
<1>3. todo' = clearing \o adding /\ clearing \in Seq(Steps)
    BY <1>1, <1>2, ResetTodo
<1> SUFFICES ASSUME NEW r \in Rooms, NEW x, Detailed(r, x)
             PROVE  Leads(DetailSteps(r), todo', x, {}) /\ Detailed(r, {})'
    BY <1>1, TakenKeepsDetails
<1> DEFINE T == DetailSteps(r)
           a == <<DropAll>>
           b == <<Post(ClearRooms)>>
           c == RemoveRooms(DOMAIN known)
           y == IF r \in DOMAIN known THEN x \ {"details"} ELSE x
           z == y \ {"details"}
<1>4. x \in SUBSET Marks /\ y \in SUBSET Marks
    BY DEF Detailed
<1>5. c \in Seq(Steps) /\ Leads(T, c, x, y)
    BY <1>2, <1>4, RemoveRoomsLeads
<1>6. Sort \in Seq(Steps) /\ Leads(T, Sort, {}, {})
    BY SortLeads
<1>7. adding \in Seq(Steps) /\ Leads(T, adding, {}, {})
    BY AppendingLeads
<1> HIDE DEF T, c, y, adding
<1>8. Leads(T, a, y, z) /\ Leads(T, b, z, {}) /\ a \in Seq(Steps) /\ b \in Seq(Steps)
    BY <1>4, ClearingLeads DEF T
<1>9. two = a \o b
    BY PairIsConcat
<1> HIDE DEF a, b, z, two
<1>10. Leads(T, two, y, {}) /\ two \in Seq(Steps)
    BY <1>8, <1>9, LeadsOn, ConcatProperties
<1>11. Leads(T, c \o two, x, {}) /\ c \o two \in Seq(Steps)
    BY <1>5, <1>10, LeadsOn, ConcatProperties
<1>12. Leads(T, (c \o two) \o Sort, x, {})
    BY <1>6, <1>11, LeadsOn
<1>13. clearing = (c \o two) \o Sort
    BY DEF c
<1> HIDE DEF clearing
<1>14. Leads(T, clearing \o adding, x, {})
    BY <1>3, <1>7, <1>12, <1>13, LeadsOn
<1> QED BY <1>3, <1>14 DEF T, Detailed

LEMMA AppendKeepsDetails ==
    ASSUME Sound, DetailsOK, NEW rooms \in SUBSET Rooms, AppendDiff(rooms)
    PROVE  DetailsOK'
<1>1. Takes("Append", rooms) /\ todo' = AppendRooms(rooms) \o When(rooms # {}, Sort)
    BY DEF AppendDiff
<1>2. DOMAIN known = {}
    BY AppendDiffKeeps
<1> SUFFICES ASSUME NEW r \in Rooms, NEW x, Detailed(r, x)
             PROVE  Leads(DetailSteps(r), todo', x, {}) /\ Detailed(r, {})'
    BY <1>1, TakenKeepsDetails
<1>3. x = {}
    BY <1>2 DEF Detailed, Marks
<1>4. Leads(DetailSteps(r), AppendRooms(rooms) \o When(rooms # {}, Sort), {}, {})
    BY AppendingLeads
<1> QED BY <1>1, <1>3, <1>4 DEF Detailed

\* Only what the loop has still to do, and what it knows, changes.
LEMMA TodoKeepsDetails ==
    ASSUME Sound, DetailsOK, UNCHANGED <<queue, ui, allJoined>>, todo # <<>>,
           \A r \in Rooms : \A x, y, z \in SUBSET Marks :
               /\ DetailsMove(r, Head(todo), x, z)
               /\ Leads(DetailSteps(r), Tail(todo), z, y)
               /\ Detailed(r, y)
               => \E w : Leads(DetailSteps(r), todo', x, w) /\ Detailed(r, w)'
    PROVE  DetailsOK'
<1> SUFFICES ASSUME NEW r \in Rooms PROVE (\E m, y : DetailsOf(r, m, y))'
    BY DEF DetailsOK
<1>1. PICK m, y : DetailsOf(r, m, y)
    BY DEF DetailsOK
<1>2. PICK x : x = m \union HasDetails(r)
    OBVIOUS
<1>3. PICK z \in SUBSET Marks : /\ DetailsMove(r, Head(todo), x, z)
                                /\ Leads(DetailSteps(r), Tail(todo), z, y)
    BY <1>1, <1>2, DetailsHead
<1>4. x \in SUBSET Marks /\ y \in SUBSET Marks /\ Detailed(r, y)
    BY <1>1, <1>2, DetailsHead DEF DetailsOf, Detailed
<1>5. PICK w : Leads(DetailSteps(r), todo', x, w) /\ Detailed(r, w)'
    BY <1>3, <1>4
<1>6. Leads(DetailSteps(r)', todo', (m \union HasDetails(r))', w)
    BY <1>2, <1>5 DEF DetailSteps, HasDetails
<1>7. Leads(EntrySteps(r)', queue', HasEntry(r)', m)
    BY <1>1 DEF DetailsOf, EntrySteps, HasEntry
<1>8. DetailsOf(r, m, w)'
    BY <1>1, <1>5, <1>6, <1>7 DEF DetailsOf
<1> QED BY <1>8

\* A room whose entry is removed sooner ends as it would have.
LEMMA SoonerRemoved ==
    ASSUME NEW r \in Rooms, NEW s \in Seq(Steps), NEW z \in SUBSET {"entry"}, NEW y, y # {"entry"},
           Leads(DetailSteps(r), s, z, y)
    PROVE  Leads(DetailSteps(r), s, {}, y)
<1> DEFINE T == DetailSteps(r)
           R == {p \in (SUBSET Marks) \X (SUBSET Marks) :
                     p[1] = p[2] \/ (p[1] = {"entry"} /\ p[2] = {})}
<1>1. <<z, {}>> \in R
    BY DEF Marks
<1>2. ASSUME NEW e \in Range(s), NEW a, NEW b, NEW w, <<a, e, b>> \in T, <<a, w>> \in R
      PROVE  \E c : <<w, e, c>> \in T /\ <<b, c>> \in R
  <2>1. /\ a \in SUBSET Marks /\ b \in SUBSET Marks /\ w \in SUBSET Marks /\ e \in Steps
        /\ DetailsMove(r, e, a, b)
      BY <1>2, DetailStepType
  <2>2. CASE a = w
      BY <1>2, <2>1, <2>2
  <2>3. CASE a = {"entry"} /\ w = {}
    <3>1. "details" \notin a /\ a # {}
        BY <2>3
    <3> DEFINE c == IF b = {"entry"} THEN {} ELSE b
    <3>2. b \in {{}, {"entry"}}
        BY <2>1, <2>3, <3>1 DEF DetailsMove, EntryAfter
    <3>3. c = {}
        BY <3>2
    <3>4. DetailsMove(r, e, {}, {})
      <4>1. e.does = "post" => ~Joining(r, e.update)
          BY <2>1, <3>1 DEF DetailsMove
      <4>2. e.does = "insert" => e.room # r
          BY <2>1, <3>1 DEF DetailsMove
      <4>3. DetailsMove(r, e, a, b)
          BY <2>1
      <4> QED BY <4>1, <4>2, <4>3 DEF DetailsMove, EntryAfter
    <3>5. <<{}, e, {}>> \in T
        BY <2>1, <3>4, DetailStep
    <3>6. <<b, {}>> \in R
        BY <2>1, <3>2
    <3> QED BY <2>3, <3>5, <3>6
  <2> QED BY <1>2, <2>2, <2>3
<1> HIDE DEF T, R
<1>3. \E c : Leads(T, s, {}, c) /\ <<y, c>> \in R
  <2>1. Leads(T, s, z, y)
      BY DEF T
  <2>2. \A e \in Range(s) : \A a, b, w :
            <<a, e, b>> \in T /\ <<a, w>> \in R => \E c : <<w, e, c>> \in T /\ <<b, c>> \in R
      BY <1>2
  <2> QED BY <1>1, <2>1, <2>2, LeadsAlong
<1>4. PICK c : Leads(T, s, {}, c) /\ <<y, c>> \in R
    BY <1>3
<1>5. c = y
    BY <1>4 DEF R
<1> QED BY <1>4, <1>5 DEF T

LEMMA RemovesKeepDetails ==
    ASSUME Sound, DetailsOK, NEW r \in Rooms, RemovesRoom(r)
    PROVE  DetailsOK'
<1> DEFINE rooms == Head(todo).rooms
           a == remove_room(r)
           b == RemoveRooms(rooms \ {r})
<1>1. /\ Does("remove") /\ r \in rooms /\ UNCHANGED <<known, allJoined, queue>>
      /\ todo' = a \o b \o Tail(todo)
    BY DEF RemovesRoom, TakesRoom
<1>2. /\ todo # <<>> /\ Head(todo).does = "remove" /\ rooms \in SUBSET Rooms /\ ui' = ui
      /\ Tail(todo) \in Seq(Steps)
    BY <1>1, Doing
<1> SUFFICES ASSUME NEW q \in Rooms, NEW x \in SUBSET Marks, NEW y \in SUBSET Marks,
                    NEW z \in SUBSET Marks, DetailsMove(q, Head(todo), x, z),
                    Leads(DetailSteps(q), Tail(todo), z, y), Detailed(q, y)
             PROVE  Leads(DetailSteps(q), todo', x, y) /\ Detailed(q, y)'
    BY <1>1, <1>2, TodoKeepsDetails
<1>3. z = IF q \in rooms THEN x \ {"details"} ELSE x
    BY <1>2 DEF DetailsMove
<1> DEFINE T == DetailSteps(q)
           w == IF q = r THEN {} ELSE x
           v == IF q = r THEN {} ELSE z
<1>4. a \in Seq(Steps) /\ Leads(T, a, x, w)
  <2>1. a \in Seq(About(r)) /\ a \in Seq(Steps)
      BY remove_roomType, AboutSteps
  <2>2. q = r => Leads(T, a, x, {})
      BY remove_roomLeads
  <2>3. q # r => Leads(T, a, x, x)
      BY <2>1, DetailsIdle
  <2> QED BY <2>1, <2>2, <2>3
<1>5. b \in Seq(Steps) /\ Leads(T, b, w, v)
  <2> DEFINE rest == rooms \ {r}
  <2>1. w \in SUBSET Marks /\ rest \in SUBSET Rooms
      BY <1>2
  <2>2. v = IF q \in rest THEN w \ {"details"} ELSE w
      BY <1>3
  <2>3. b = RemoveRooms(rest)
      OBVIOUS
  <2> HIDE DEF w, v, b, rest
  <2>4. /\ RemoveRooms(rest) \in Seq(Steps)
        /\ Leads(DetailSteps(q), RemoveRooms(rest), w, IF q \in rest THEN w \ {"details"} ELSE w)
      BY <2>1, RemoveRoomsLeads
  <2> QED BY <2>2, <2>3, <2>4
<1>6. Leads(T, Tail(todo), v, y)
  <2>1. CASE q = r
    <3>1. z \in SUBSET {"entry"} /\ y # {"entry"}
        BY <1>1, <1>3, <2>1 DEF Detailed, Marks
    <3> QED BY <1>2, <2>1, <3>1, SoonerRemoved
  <2>2. CASE q # r
      BY <2>2
  <2> QED BY <2>1, <2>2
<1> HIDE DEF T, w, v, a, b
<1>7. Leads(T, a \o b, x, v) /\ a \o b \in Seq(Steps)
    BY <1>4, <1>5, LeadsOn, ConcatProperties
<1>8. Leads(T, (a \o b) \o Tail(todo), x, y)
    BY <1>2, <1>6, <1>7, LeadsOn
<1>9. Detailed(q, y)'
    BY <1>1 DEF Detailed
<1> QED BY <1>1, <1>8, <1>9 DEF T

LEMMA AppendsKeepDetails ==
    ASSUME Sound, DetailsOK, NEW r \in Rooms, AppendsRoom(r)
    PROVE  DetailsOK'
<1> DEFINE rooms == Head(todo).rooms
           info == ReadInfo(r)
           a == add_new_room(r, info)
           b == AppendRooms(rooms \ {r})
<1>1. /\ Does("append") /\ r \in rooms /\ UNCHANGED <<allJoined, queue>>
      /\ todo' = a \o b \o Tail(todo) /\ known' = With(known, r, info)
    BY DEF AppendsRoom, TakesRoom
<1>2. /\ todo # <<>> /\ Head(todo).does = "append" /\ rooms \in SUBSET Rooms /\ ui' = ui
      /\ Tail(todo) \in Seq(Steps) /\ \A e \in Range(Tail(todo)) : e = Post(RoomOrderUpdate)
    BY <1>1, Doing
<1>3. info \in RoomInfo /\ r \notin DOMAIN known
    BY AppendsRoomKeeps
<1> HIDE DEF info
<1>4. /\ DOMAIN known' = DOMAIN known \union {r} /\ known'[r] = info
      /\ \A q \in DOMAIN known \ {r} : known'[q] = known[q]
    BY <1>1 DEF With
<1> SUFFICES ASSUME NEW q \in Rooms, NEW x \in SUBSET Marks, NEW y \in SUBSET Marks,
                    NEW z \in SUBSET Marks, DetailsMove(q, Head(todo), x, z),
                    Leads(DetailSteps(q), Tail(todo), z, y), Detailed(q, y)
             PROVE  \E w : Leads(DetailSteps(q), todo', x, w) /\ Detailed(q, w)'
    BY <1>1, <1>2, TodoKeepsDetails
<1>5. z = x /\ (q \in rooms => x = {})
    BY <1>2 DEF DetailsMove
<1>6. y = z
  <2> DEFINE I == {z}
  <2>1. \A e \in Range(Tail(todo)) : \A c, d :
            c \in I /\ <<c, e, d>> \in DetailSteps(q) => d \in I
    <3> SUFFICES ASSUME NEW c, NEW d, <<c, Post(RoomOrderUpdate), d>> \in DetailSteps(q)
                 PROVE  d = c
        BY <1>2
    <3>1. DetailsMove(q, Post(RoomOrderUpdate), c, d)
        BY DetailStepType
    <3> QED BY <3>1 DEF DetailsMove, Post, RoomOrderUpdate, EntryAfter, Joining, Clearing
  <2>2. z \in I
      OBVIOUS
  <2> HIDE DEF I
  <2>3. y \in I
      BY <1>2, <2>1, <2>2, LeadsWithin
  <2> QED BY <2>3 DEF I
<1> DEFINE T == DetailSteps(q)
           w == IF q = r THEN IF info.state = "Joined" /\ r \notin Spaces THEN Marks ELSE {} ELSE x
<1>7. a \in Seq(Steps) /\ Leads(T, a, x, w)
  <2>1. a \in Seq(About(r)) /\ a \in Seq(Steps)
      BY <1>3, add_new_roomType, AboutSteps
  <2>2. q = r => Leads(T, a, x, w)
    <3>1. q = r => x = {}
        BY <1>1, <1>5
    <3> QED BY <1>3, <3>1, add_new_roomLeads
  <2>3. q # r => Leads(T, a, x, x)
      BY <2>1, DetailsIdle
  <2> QED BY <2>1, <2>2, <2>3
<1>8. w \in SUBSET Marks
    OBVIOUS
<1>9. b \in Seq(Steps) /\ Leads(T, b, w, w)
  <2>1. q \in rooms \ {r} => w = {}
      BY <1>5
  <2>2. rooms \ {r} \in SUBSET Rooms
      BY <1>2
  <2> HIDE DEF w, rooms
  <2> QED BY <1>8, <2>1, <2>2, AppendRoomsLeads
<1>10. Leads(T, Tail(todo), w, w)
    BY <1>2, <1>8, SortLeads, LeadsIdly
<1>11. \A d \in {w} : Detailed(q, d)'
  <2>1. CASE q = r
      BY <1>4, <2>1 DEF Detailed, Marks
  <2>2. CASE q # r
      BY <1>4, <1>5, <1>6, <2>2 DEF Detailed
  <2> QED BY <2>1, <2>2
<1> HIDE DEF T, w, a, b
<1>12. Leads(T, a \o b, x, w) /\ a \o b \in Seq(Steps)
    BY <1>7, <1>9, LeadsOn, ConcatProperties
<1>13. Leads(T, (a \o b) \o Tail(todo), x, w)
    BY <1>2, <1>10, <1>12, LeadsOn
<1> QED BY <1>1, <1>11, <1>13 DEF T

LEMMA SteadyKeepsDetails ==
    ASSUME Sound, DetailsOK, SteadyNext
    PROVE  DetailsOK'
<1>1. StepByStep /\ RoomsListNext
    BY DEF SteadyNext
<1>2. LoopNext => DetailsOK'
    BY <1>1, InsertKeepsDetails, SetKeepsDetails, RemoveKeepsDetails, ResetKeepsDetails,
       AppendKeepsDetails, ClearKeepsDetails, PostKeepsDetails, InsertsKeepDetails,
       RemovesKeepDetails, AppendsKeepDetails DEF LoopNext
<1>3. HandlesUpdate => DetailsOK'
    BY WidgetKeepsDetails
<1> QED BY <1>1, <1>2, <1>3, OthersKeepDetails DEF RoomsListNext

LEMMA ClearingIs ==
    ASSUME NEW r, NEW u \in Updates, Clearing(r, u)
    PROVE  u \in {RemoveRoom(r), ClearRooms}
<1>1. CASE u.is = "ClearRooms"
    BY <1>1 DEF Updates, ClearRooms
<1>2. CASE u.is = "RemoveRoom" /\ u.room = r
    BY <1>2 DEF Updates, RemoveRoom
<1> QED BY <1>1, <1>2 DEF Clearing

LEMMA PostIs ==
    ASSUME NEW e \in Steps, e.does = "post"
    PROVE  e = Post(e.update) /\ e.update \in Updates
BY DEF Steps, Post

\* An entry that nothing removes has its details.
LEMMA EntryHasDetails ==
    ASSUME Sound, DetailsOK, NEW r \in DOMAIN ui.joined, ~ui.joined[r].placeholder, ~Removal(r)
    PROVE  r \in allJoined
<1>1. r \in Rooms /\ queue \in Seq(Updates) /\ todo \in Seq(Steps)
    BY LookupsType DEF Sound, ListType, Widgets
<1>2. PICK m, y : DetailsOf(r, m, y)
    BY <1>1 DEF DetailsOK
<1> DEFINE I == {{"entry"}}
<1>3. HasEntry(r) \in I
    BY DEF HasEntry
<1>4. ASSUME NEW u \in Range(queue) PROVE ~Clearing(r, u)
  <2>1. u \in Updates
      BY <1>1, RangeType
  <2>2. u \notin {RemoveRoom(r), ClearRooms}
      BY <1>4 DEF Removal, Range
  <2> QED BY <2>1, <2>2, ClearingIs
<1>5. m \in I
  <2>1. \A u \in Range(queue) : \A a, b : a \in I /\ <<a, u, b>> \in EntrySteps(r) => b \in I
      BY <1>4 DEF EntrySteps, EntryAfter
  <2>2. Leads(EntrySteps(r), queue, HasEntry(r), m)
      BY <1>2 DEF DetailsOf
  <2> HIDE DEF I
  <2> QED BY <1>1, <1>3, <2>1, <2>2, LeadsWithin
<1> SUFFICES ASSUME r \notin allJoined PROVE FALSE
    OBVIOUS
<1>6. m \union HasDetails(r) \in I
    BY <1>5 DEF HasDetails
<1>7. y \in I
  <2> DEFINE x == m \union HasDetails(r)
  <2>1. \A e \in Range(todo) : \A a, b : a \in I /\ <<a, e, b>> \in DetailSteps(r) => b \in I
    <3> SUFFICES ASSUME NEW e \in Range(todo), NEW b, <<{"entry"}, e, b>> \in DetailSteps(r)
                 PROVE  b = {"entry"}
        OBVIOUS
    <3>1. e \in Steps /\ DetailsMove(r, e, {"entry"}, b)
        BY DetailStepType
    <3>2. e.does = "post" => ~Clearing(r, e.update)
      <4>1. e \notin {Post(RemoveRoom(r)), Post(ClearRooms)}
          BY DEF Removal, Range
      <4> QED BY <3>1, <4>1, PostIs, ClearingIs
    <3> QED BY <3>1, <3>2 DEF DetailsMove, EntryAfter
  <2>2. Leads(DetailSteps(r), todo, x, y)
      BY <1>2 DEF DetailsOf
  <2>3. x \in I
      BY <1>6
  <2> HIDE DEF I, x
  <2> QED BY <1>1, <2>1, <2>2, <2>3, LeadsWithin
<1> QED BY <1>2, <1>7 DEF DetailsOf, Detailed

LEMMA DetailsServe ==
    ASSUME Sound, DetailsOK
    PROVE  DetailsServeTheList
<1>1. ASSUME todo # <<>>, Head(todo).does = "insert"
      PROVE  Head(todo).room \notin allJoined
  <2> DEFINE r == Head(todo).room
  <2>1. r \in Rooms
      BY <1>1, RangeOfHead, StepFields DEF Sound, ListType
  <2>2. PICK m, y : DetailsOf(r, m, y)
      BY <2>1 DEF DetailsOK
  <2>3. PICK z : DetailsMove(r, Head(todo), m \union HasDetails(r), z)
      BY <1>1, <2>1, <2>2, DetailsHead
  <2>4. HasDetails(r) = {}
      BY <1>1, <2>3 DEF DetailsMove
  <2> QED BY <2>4 DEF HasDetails
<1> QED BY <1>1, EntryHasDetails DEF DetailsServeTheList

\* As long as a room is seen to be left before it is invited or knocks anew, a joined
\* room of the list has its details until its removal is on its way, and the details
\* are never replaced while they are there (add_new_room, remove_room).
THEOREM DetailsAlwaysServe == SteadySpec => []DetailsServeTheList
<1> DEFINE Inv == Sound /\ DetailsOK
<1>1. RoomsListInit => Inv
    BY StartsSound, DetailsStart
<1>2. Inv /\ [SteadyNext]_roomsListVars => Inv'
  <2>1. CASE SteadyNext
      BY <2>1, StaysSound, SteadyKeepsDetails DEF SteadyNext
  <2>2. CASE UNCHANGED roomsListVars
      BY <2>2 DEF Sound, ListType, DiffsOK, Listed, roomsListVars, sdkVars, loopVars, listenerVars,
         DetailsOK, DetailsOf, Detailed, EntrySteps, DetailSteps, HasEntry, HasDetails
  <2> QED BY <2>1, <2>2
<1>3. Inv => DetailsServeTheList
    BY DetailsServe
<1> QED BY <1>1, <1>2, <1>3, PTL DEF SteadySpec

----------------------------------------------------------------------------
(* The entry of a room and where it is shown, along the steps of the loop.  *)

Views == [is : {"none", "joined", "invited"}, info : JoinedRoomInfo, hidden : {"yes", "no"}]

JoinedAs(info) ==
    [direct |-> info.direct, tag |-> info.tag, name |-> info.name, placeholder |-> FALSE]

\* What the update u makes of the entry x of room r.
Concerns(r, u) == u.is \notin {"ClearRooms", "RoomOrderUpdate"} /\ u.room = r
Updated(r, u, x) ==
    CASE u.is = "ClearRooms" -> [x EXCEPT !.is = "none"]
      [] u.is # "ClearRooms" /\ ~Concerns(r, u) -> x
      [] u.is = "AddInvitedRoom" /\ Concerns(r, u) ->
            [x EXCEPT !.is = "invited", !.info = [@ EXCEPT !.name = u.name]]
      [] u.is = "AddJoinedRoom" /\ Concerns(r, u) -> [x EXCEPT !.is = "joined", !.info = u.info]
      [] u.is = "UpdateRoomName" /\ Concerns(r, u) -> [x EXCEPT !.info = [@ EXCEPT !.name = u.name]]
      [] u.is = "UpdateIsDirect" /\ Concerns(r, u) -> [x EXCEPT !.info = [@ EXCEPT !.direct = u.direct]]
      [] u.is = "Tags" /\ Concerns(r, u) -> [x EXCEPT !.info = [@ EXCEPT !.tag = u.tag]]
      [] u.is = "RemoveRoom" /\ Concerns(r, u) -> [x EXCEPT !.is = "none", !.hidden = "no"]
      [] u.is = "HideRoom" /\ Concerns(r, u) -> [x EXCEPT !.hidden = "yes"]
      [] u.is = "UnhideRoom" /\ Concerns(r, u) -> [x EXCEPT !.hidden = "no"]

\* What it may meet: no room is added beside a joined one, and no invite is unhidden.
Meets(r, u, x) ==
    Concerns(r, u) => /\ u.is \in {"AddInvitedRoom", "AddJoinedRoom"} => x.is # "joined"
                      /\ u.is = "UnhideRoom" => x.is # "invited"

Turned(r, e, x) ==
    CASE e.does = "post" -> Updated(r, e.update, x)
      [] e.does = "remove" /\ r \in e.rooms -> [x EXCEPT !.is = "none", !.hidden = "no"]
      [] e.does # "post" /\ ~(e.does = "remove" /\ r \in e.rooms) -> x

Proper(r, e, x) ==
    /\ e.does = "post" => Meets(r, e.update, x)
    /\ e.does = "append" /\ r \in e.rooms => x.is = "none" /\ x.hidden = "no"

UpdateSteps(r) ==
    {t \in Views \X Updates \X Views : Meets(r, t[2], t[1]) /\ t[3] = Updated(r, t[2], t[1])}
ViewSteps(r) ==
    {t \in Views \X Steps \X Views : Proper(r, t[2], t[1]) /\ t[3] = Turned(r, t[2], t[1])}

\* The widget has entry x of room r, and shows it in the list it belongs to.
HasView(r, x) ==
    /\ x.is = "joined" <=> r \in DOMAIN ui.joined
    /\ x.is = "joined" => ui.joined[r] = x.info
    /\ x.is = "invited" <=> r \in DOMAIN ui.invited
    /\ x.is = "invited" => ui.invited[r] = x.info.name
    /\ x.hidden = "yes" <=> r \in ui.hidden
ShownIn(l, x) ==
    /\ x.hidden = "no" /\ (ui.filtered => x.info.name = "Match")
    /\ \/ x.is = "invited" /\ l = "invited"
       \/ x.is = "joined" /\ l = ListOf(x.info)
Sees(r, x) ==
    /\ x \in Views /\ HasView(r, x)
    /\ \A l \in Lists : r \in ui.shown[l] <=> ShownIn(l, x)

LEMMA UpdatedType ==
    ASSUME NEW r \in Rooms, NEW u \in Updates, NEW x \in Views
    PROVE  Updated(r, u, x) \in Views
<1>1. CASE u.is = "ClearRooms"
    BY <1>1 DEF Updated, Views
<1>2. CASE u.is # "ClearRooms" /\ ~Concerns(r, u)
    BY <1>2 DEF Updated, Views, Concerns
<1>3. CASE u.is \in {"AddInvitedRoom", "UpdateRoomName"} /\ Concerns(r, u)
  <2>1. u.name \in Name
      BY <1>3, UpdateFields
  <2> QED BY <1>3, <2>1 DEF Updated, Views, JoinedRoomInfo
<1>4. CASE u.is = "AddJoinedRoom" /\ Concerns(r, u)
  <2>1. u.info \in JoinedRoomInfo
      BY <1>4, UpdateFields
  <2> QED BY <1>4, <2>1 DEF Updated, Views
<1>5. CASE u.is = "UpdateIsDirect" /\ Concerns(r, u)
  <2>1. u.direct \in BOOLEAN
      BY <1>5, UpdateFields
  <2> QED BY <1>5, <2>1 DEF Updated, Views, JoinedRoomInfo
<1>6. CASE u.is = "Tags" /\ Concerns(r, u)
  <2>1. u.tag \in Tag
      BY <1>6, UpdateFields
  <2> QED BY <1>6, <2>1 DEF Updated, Views, JoinedRoomInfo
<1>7. CASE u.is \in {"RemoveRoom", "HideRoom", "UnhideRoom"} /\ Concerns(r, u)
    BY <1>7 DEF Updated, Views
<1>8. u.is \in {"AddInvitedRoom", "UpdateRoomName", "AddJoinedRoom", "UpdateIsDirect", "Tags",
                "RemoveRoom", "HideRoom", "UnhideRoom", "ClearRooms", "RoomOrderUpdate"}
    BY DEF Updates
<1> QED BY <1>1, <1>2, <1>3, <1>4, <1>5, <1>6, <1>7, <1>8 DEF Concerns

LEMMA UpdateStep ==
    ASSUME NEW r \in Rooms, NEW u \in Updates, NEW x \in Views, NEW y
    PROVE  <<x, u, y>> \in UpdateSteps(r) <=> Meets(r, u, x) /\ y = Updated(r, u, x)
BY UpdatedType DEF UpdateSteps

LEMMA TurnedType ==
    ASSUME NEW r \in Rooms, NEW e \in Steps, NEW x \in Views
    PROVE  Turned(r, e, x) \in Views
<1>1. CASE e.does = "post"
    BY <1>1, StepFields, UpdatedType DEF Turned
<1>2. CASE e.does # "post"
    BY <1>2 DEF Turned, Views
<1> QED BY <1>1, <1>2

LEMMA ViewStep ==
    ASSUME NEW r \in Rooms, NEW e \in Steps, NEW x \in Views, NEW y
    PROVE  <<x, e, y>> \in ViewSteps(r) <=> Proper(r, e, x) /\ y = Turned(r, e, x)
BY TurnedType DEF ViewSteps

LEMMA ViewStepType ==
    ASSUME NEW r, NEW e, NEW x, NEW y, <<x, e, y>> \in ViewSteps(r)
    PROVE  /\ x \in Views /\ y \in Views /\ e \in Steps
           /\ Proper(r, e, x) /\ y = Turned(r, e, x)
BY DEF ViewSteps

LEMMA GeneratedShows ==
    ASSUME NEW w \in Widgets, NEW r \in Rooms, NEW x \in Views, NEW l \in Lists,
           x.is = "joined" <=> r \in DOMAIN w.joined,
           x.is = "joined" => w.joined[r] = x.info,
           x.is = "invited" <=> r \in DOMAIN w.invited,
           x.is = "invited" => w.invited[r] = x.info.name,
           x.hidden = "yes" <=> r \in w.hidden
    PROVE  r \in Generated(w)[l] <=> /\ x.hidden = "no" /\ (w.filtered => x.info.name = "Match")
                                     /\ \/ x.is = "invited" /\ l = "invited"
                                        \/ x.is = "joined" /\ l = ListOf(x.info)
<1>1. x.hidden = "no" <=> r \notin w.hidden
    BY DEF Views
<1>2. CASE l = "invited"
  <2>1. Generated(w)[l] = {q \in DOMAIN w.invited : q \notin w.hidden
                                                    /\ (w.filtered => w.invited[q] = "Match")}
      BY <1>2 DEF Generated, Lists
  <2>2. x.is = "joined" => ListOf(x.info) # l
      BY <1>2, RoomsAssumption DEF ListOf, Views, JoinedRoomInfo, Tag
  <2> QED BY <1>1, <1>2, <2>1, <2>2
<1>3. CASE l # "invited"
  <2>1. Generated(w)[l] = {q \in DOMAIN w.joined : /\ q \notin w.hidden
                                                   /\ w.filtered => w.joined[q].name = "Match"
                                                   /\ ListOf(w.joined[q]) = l}
      BY <1>3 DEF Generated, Lists
  <2> QED BY <1>1, <1>3, <2>1
<1> QED BY <1>2, <1>3

\* What the widget does to other rooms.
LEMMA SeesStill ==
    ASSUME NEW q \in Rooms, NEW x, Sees(q, x), ui'.filtered = ui.filtered,
           q \in DOMAIN ui'.joined <=> q \in DOMAIN ui.joined,
           q \in DOMAIN ui.joined => ui'.joined[q] = ui.joined[q],
           q \in DOMAIN ui'.invited <=> q \in DOMAIN ui.invited,
           q \in DOMAIN ui.invited => ui'.invited[q] = ui.invited[q],
           q \in ui'.hidden <=> q \in ui.hidden,
           \A l \in Lists : q \in ui'.shown[l] <=> q \in ui.shown[l]
    PROVE  Sees(q, x)'
BY DEF Sees, HasView, ShownIn

LEMMA SeesNow ==
    ASSUME NEW q \in Rooms, NEW y \in Views, HasView(q, y)', ui'.filtered = ui.filtered,
           \A l \in Lists : q \in ui'.shown[l] <=> ShownIn(l, y)
    PROVE  Sees(q, y)'
BY DEF Sees, ShownIn

LEMMA SeesType ==
    ASSUME Sound
    PROVE  /\ ui \in Widgets /\ ui.joined \in Lookups(JoinedRoomInfo) /\ ui.invited \in Lookups(Name)
           /\ DOMAIN ui.joined \subseteq Rooms /\ DOMAIN ui.invited \subseteq Rooms
           /\ ui.joined \in [DOMAIN ui.joined -> JoinedRoomInfo]
           /\ ui.invited \in [DOMAIN ui.invited -> Name]
           /\ ui.shown \in [Lists -> SUBSET Rooms]
<1>1. /\ ui \in Widgets /\ ui.joined \in Lookups(JoinedRoomInfo) /\ ui.invited \in Lookups(Name)
      /\ ui.shown \in [Lists -> SUBSET Rooms]
    BY DEF Sound, ListType, Widgets
<1>2. DOMAIN ui.joined \subseteq Rooms /\ ui.joined \in [DOMAIN ui.joined -> JoinedRoomInfo]
    BY <1>1, LookupsType
<1>3. DOMAIN ui.invited \subseteq Rooms /\ ui.invited \in [DOMAIN ui.invited -> Name]
    BY <1>1, LookupsType
<1> QED BY <1>1, <1>2, <1>3

LEMMA ListOfLists ==
    ASSUME NEW info \in JoinedRoomInfo
    PROVE  ListOf(info) \in Lists \ {"invited"}
BY RoomsAssumption DEF ListOf, JoinedRoomInfo, Tag, Lists

LEMMA SeesAddInvitedRoom ==
    ASSUME Sound, HandlesAddInvitedRoom, NEW q \in Rooms, NEW x, Sees(q, x),
           Meets(q, Head(queue), x), NEW y, y = Updated(q, Head(queue), x)
    PROVE  Sees(q, y)'
<1> DEFINE u == Head(queue)
           shown == [ui.shown EXCEPT !["invited"] =
                          Displayed("invited", u.room, ShouldDisplay(u.room, u.name))]
<1>1. u.is = "AddInvitedRoom" /\ u \in Updates /\ y = Updated(q, u, x) /\ Meets(q, u, x)
    BY Handled DEF HandlesAddInvitedRoom
<1>2. u.room \in Rooms /\ u.name \in Name
    BY <1>1, UpdateFields
<1>3. Holds(ui.joined, With(ui.invited, u.room, u.name), ui.hidden, shown)
    BY AddInvitedRoomEffect
<1>4. x \in Views /\ ui.shown \in [Lists -> SUBSET Rooms] /\ "invited" \in Lists
    BY SeesType DEF Sees, Lists
<1>5. ui' \in Widgets /\ ui'.joined = ui.joined /\ ui'.hidden = ui.hidden
      /\ ui'.filtered = ui.filtered /\ ui'.invited = With(ui.invited, u.room, u.name)
      /\ ui'.shown = shown
    BY <1>3 DEF Holds
<1> HIDE DEF u
<1>6. CASE q # u.room
  <2>1. y = x
      BY <1>1, <1>6 DEF Updated, Concerns
  <2>2. \A l \in Lists : q \in shown[l] <=> q \in ui.shown[l]
      BY <1>4, <1>6 DEF Displayed
  <2>3. /\ q \in DOMAIN ui'.invited <=> q \in DOMAIN ui.invited
        /\ q \in DOMAIN ui.invited => ui'.invited[q] = ui.invited[q]
      BY <1>5, <1>6 DEF With
  <2> HIDE DEF shown
  <2>4. Sees(q, x)'
      BY <1>5, <2>2, <2>3, SeesStill
  <2> QED BY <2>1, <2>4
<1>7. CASE q = u.room
  <2>1. y \in Views
      BY <1>1, <1>4, UpdatedType
  <2>2. y = [x EXCEPT !.is = "invited", !.info = [@ EXCEPT !.name = u.name]]
      BY <1>1, <1>7 DEF Updated, Concerns
  <2>3. y.is = "invited" /\ y.info.name = u.name /\ y.hidden = x.hidden
      BY <1>4, <2>2 DEF Views, JoinedRoomInfo
  <2>4. x.is # "joined"
      BY <1>1, <1>7 DEF Meets, Concerns
  <2>5. HasView(q, y)'
      BY <1>5, <1>7, <2>3, <2>4 DEF Sees, HasView, With
  <2>6. ASSUME NEW l \in Lists PROVE q \in shown[l] <=> ShownIn(l, y)
    <3>1. CASE l = "invited"
      <4>1. q \in shown[l] <=> ShouldDisplay(q, u.name)
          BY <1>4, <1>7, <3>1 DEF Displayed
      <4>2. x.hidden = "no" <=> q \notin ui.hidden
          BY <1>4 DEF Sees, HasView, Views
      <4> QED BY <2>3, <3>1, <4>1, <4>2 DEF ShownIn, ShouldDisplay
    <3>2. CASE l # "invited"
      <4>1. q \in shown[l] <=> ShownIn(l, x)
          BY <1>4, <3>2 DEF Sees
      <4> QED BY <2>3, <2>4, <3>2, <4>1 DEF ShownIn
    <3> QED BY <3>1, <3>2
  <2> HIDE DEF shown
  <2> QED BY <1>5, <2>1, <2>5, <2>6, SeesNow
<1> QED BY <1>6, <1>7

LEMMA SeesAddJoinedRoom ==
    ASSUME Sound, HandlesAddJoinedRoom, NEW q \in Rooms, NEW x, Sees(q, x),
           Meets(q, Head(queue), x), NEW y, y = Updated(q, Head(queue), x)
    PROVE  Sees(q, y)'
<1> DEFINE u == Head(queue)
           should == ShouldDisplay(u.room, u.info.name)
           added == IF should THEN [ui.shown EXCEPT ![ListOf(u.info)] = @ \union {u.room}]
                    ELSE ui.shown
           shown == IF u.room \in DOMAIN ui.invited
                    THEN [added EXCEPT !["invited"] = @ \ {u.room}] ELSE added
<1>1. u.is = "AddJoinedRoom" /\ u \in Updates /\ y = Updated(q, u, x) /\ Meets(q, u, x)
    BY Handled DEF HandlesAddJoinedRoom
<1>2. u.room \in Rooms /\ u.info \in JoinedRoomInfo /\ ListOf(u.info) \in Lists \ {"invited"}
    BY <1>1, UpdateFields, ListOfLists
<1>3. Holds(With(ui.joined, u.room, u.info), Without(ui.invited, u.room), ui.hidden, shown)
    BY AddJoinedRoomEffect
<1>4. x \in Views /\ ui.shown \in [Lists -> SUBSET Rooms] /\ "invited" \in Lists
    BY SeesType DEF Sees, Lists
<1>5. /\ ui' \in Widgets /\ ui'.joined = With(ui.joined, u.room, u.info)
      /\ ui'.hidden = ui.hidden /\ ui'.filtered = ui.filtered
      /\ ui'.invited = Without(ui.invited, u.room) /\ ui'.shown = shown
    BY <1>3 DEF Holds
<1> HIDE DEF u
<1>6. ASSUME NEW l \in Lists
      PROVE  q \in shown[l] <=>
                 /\ q \in ui.shown[l] \/ (q = u.room /\ should /\ l = ListOf(u.info))
                 /\ ~(l = "invited" /\ q = u.room /\ q \in DOMAIN ui.invited)
  <2>1. added \in [Lists -> SUBSET Rooms]
      BY <1>2, <1>4
  <2>2. q \in added[l] <=> q \in ui.shown[l] \/ (q = u.room /\ should /\ l = ListOf(u.info))
    <3> HIDE DEF should
    <3> QED BY <1>2, <1>4
  <2> HIDE DEF added
  <2> QED BY <1>4, <2>1, <2>2
<1>7. CASE q # u.room
  <2>1. y = x
      BY <1>1, <1>7 DEF Updated, Concerns
  <2>2. \A l \in Lists : q \in shown[l] <=> q \in ui.shown[l]
      BY <1>6, <1>7
  <2>3. /\ q \in DOMAIN ui'.invited <=> q \in DOMAIN ui.invited
        /\ q \in DOMAIN ui.invited => ui'.invited[q] = ui.invited[q]
        /\ q \in DOMAIN ui'.joined <=> q \in DOMAIN ui.joined
        /\ q \in DOMAIN ui.joined => ui'.joined[q] = ui.joined[q]
      BY <1>5, <1>7 DEF With, Without, Restrict
  <2> HIDE DEF shown
  <2>4. Sees(q, x)'
      BY <1>5, <2>2, <2>3, SeesStill
  <2> QED BY <2>1, <2>4
<1>8. CASE q = u.room
  <2>1. y \in Views
      BY <1>1, <1>4, UpdatedType
  <2>2. y = [x EXCEPT !.is = "joined", !.info = u.info]
      BY <1>1, <1>8 DEF Updated, Concerns
  <2>3. y.is = "joined" /\ y.info = u.info /\ y.hidden = x.hidden
      BY <1>4, <2>2 DEF Views
  <2>4. x.is # "joined"
      BY <1>1, <1>8 DEF Meets, Concerns
  <2>5. HasView(q, y)'
      BY <1>5, <1>8, <2>3, <2>4 DEF Sees, HasView, With, Without, Restrict
  <2>6. ASSUME NEW l \in Lists PROVE q \in shown[l] <=> ShownIn(l, y)
    <3>1. q \in ui.shown[l] => l = "invited" /\ q \in DOMAIN ui.invited
        BY <1>4, <2>4 DEF Sees, HasView, ShownIn
    <3>2. ListOf(u.info) # "invited"
        BY <1>2
    <3>3. q \in shown[l] <=> should /\ l = ListOf(u.info)
      <4> HIDE DEF shown, should
      <4> QED BY <1>6, <1>8, <3>1, <3>2
    <3>4. x.hidden = "no" <=> q \notin ui.hidden
        BY <1>4 DEF Sees, HasView, Views
    <3> QED BY <1>8, <2>3, <3>3, <3>4 DEF ShownIn, ShouldDisplay
  <2> HIDE DEF shown
  <2> QED BY <1>5, <2>1, <2>5, <2>6, SeesNow
<1> QED BY <1>7, <1>8

LEMMA SeesUpdateRoomName ==
    ASSUME Sound, HandlesUpdateRoomName, NEW q \in Rooms, NEW x, Sees(q, x),
           NEW y, y = Updated(q, Head(queue), x)
    PROVE  Sees(q, y)'
<1> DEFINE u == Head(queue)
           list == IF u.room \in DOMAIN ui.joined THEN ListOf(ui.joined[u.room]) ELSE "invited"
           should == ShouldDisplay(u.room, u.name)
           shown == [ui.shown EXCEPT ![list] = Displayed(list, u.room, should)]
<1>1. u.is = "UpdateRoomName" /\ u \in Updates /\ y = Updated(q, u, x)
    BY Handled DEF HandlesUpdateRoomName
<1>2. u.room \in Rooms /\ u.name \in Name
    BY <1>1, UpdateFields
<1>3. \/ /\ u.room \in DOMAIN ui.joined
         /\ Holds([ui.joined EXCEPT ![u.room].name = u.name], ui.invited, ui.hidden, shown)
      \/ /\ u.room \in DOMAIN ui.invited \ DOMAIN ui.joined
         /\ Holds(ui.joined, [ui.invited EXCEPT ![u.room] = u.name], ui.hidden, shown)
      \/ /\ u.room \notin DOMAIN ui.joined \union DOMAIN ui.invited
         /\ Holds(ui.joined, ui.invited, ui.hidden, ui.shown)
    BY UpdateRoomNameEffect
<1>4. /\ x \in Views /\ ui.shown \in [Lists -> SUBSET Rooms] /\ "invited" \in Lists
      /\ ui.joined \in [DOMAIN ui.joined -> JoinedRoomInfo]
    BY SeesType DEF Sees, Lists
<1>5. list \in Lists
    BY <1>4, ListOfLists
<1> HIDE DEF u
<1>6. ASSUME NEW l \in Lists
      PROVE  q \in shown[l] <=> IF l = list /\ q = u.room THEN should ELSE q \in ui.shown[l]
  <2> HIDE DEF list, should
  <2> QED BY <1>4, <1>5 DEF Displayed
<1>7. ui'.hidden = ui.hidden /\ ui'.filtered = ui.filtered
    BY <1>3 DEF Holds
<1>8. CASE q # u.room
  <2>1. y = x
      BY <1>1, <1>8 DEF Updated, Concerns
  <2>2. \A l \in Lists : q \in ui'.shown[l] <=> q \in ui.shown[l]
    <3>1. ui'.shown = shown \/ ui'.shown = ui.shown
        BY <1>3 DEF Holds
    <3> HIDE DEF shown
    <3> QED BY <1>6, <1>8, <3>1
  <2>3. /\ q \in DOMAIN ui'.invited <=> q \in DOMAIN ui.invited
        /\ q \in DOMAIN ui.invited => ui'.invited[q] = ui.invited[q]
        /\ q \in DOMAIN ui'.joined <=> q \in DOMAIN ui.joined
        /\ q \in DOMAIN ui.joined => ui'.joined[q] = ui.joined[q]
      BY <1>3, <1>8 DEF Holds
  <2>4. Sees(q, x)'
      BY <1>7, <2>2, <2>3, SeesStill
  <2> QED BY <2>1, <2>4
<1>9. CASE q = u.room
  <2>1. y \in Views
      BY <1>1, <1>4, UpdatedType
  <2>2. y = [x EXCEPT !.info = [@ EXCEPT !.name = u.name]]
      BY <1>1, <1>9 DEF Updated, Concerns
  <2>3. /\ y.is = x.is /\ y.hidden = x.hidden /\ y.info = [x.info EXCEPT !.name = u.name]
        /\ y.info.name = u.name /\ y.info.direct = x.info.direct /\ y.info.tag = x.info.tag
      BY <1>4, <2>2 DEF Views, JoinedRoomInfo
  <2>4. /\ x.is = "joined" <=> q \in DOMAIN ui.joined
        /\ x.is = "joined" => ui.joined[q] = x.info
        /\ x.is = "invited" <=> q \in DOMAIN ui.invited
        /\ x.hidden = "yes" <=> q \in ui.hidden
        /\ x.hidden = "no" <=> q \notin ui.hidden
        /\ \A l \in Lists : q \in ui.shown[l] <=> ShownIn(l, x)
      BY <1>4 DEF Sees, HasView, Views
  <2>5. HasView(q, y)'
      BY <1>3, <1>4, <1>9, <2>3, <2>4 DEF HasView, Holds
  <2>6. ListOf(y.info) = ListOf(x.info)
      BY <2>3 DEF ListOf
  <2>7. ASSUME NEW l \in Lists PROVE q \in ui'.shown[l] <=> ShownIn(l, y)
    <3>1. CASE x.is = "joined"
      <4>1. list = ListOf(x.info) /\ ui'.shown = shown
          BY <1>3, <1>9, <2>4, <3>1 DEF Holds
      <4>2. l # list => q \notin ui.shown[l]
          BY <2>4, <3>1, <4>1 DEF ShownIn
      <4>3. q \in ui'.shown[l] <=> l = list /\ should
        <5> HIDE DEF shown, list, should
        <5> QED BY <1>6, <1>9, <4>1, <4>2
      <4> QED BY <1>9, <2>3, <2>4, <2>6, <3>1, <4>1, <4>3 DEF ShownIn, ShouldDisplay
    <3>2. CASE x.is = "invited"
      <4>1. list = "invited" /\ ui'.shown = shown
          BY <1>3, <1>9, <2>4, <3>2 DEF Holds
      <4>2. l # list => q \notin ui.shown[l]
          BY <2>4, <3>2, <4>1 DEF ShownIn
      <4>3. q \in ui'.shown[l] <=> l = list /\ should
        <5> HIDE DEF shown, list, should
        <5> QED BY <1>6, <1>9, <4>1, <4>2
      <4> QED BY <1>9, <2>3, <2>4, <3>2, <4>1, <4>3 DEF ShownIn, ShouldDisplay
    <3>3. CASE x.is \notin {"joined", "invited"}
      <4>1. ui'.shown = ui.shown
          BY <1>3, <1>9, <2>4, <3>3 DEF Holds
      <4> QED BY <2>3, <2>4, <3>3, <4>1 DEF ShownIn
    <3> QED BY <3>1, <3>2, <3>3
  <2> QED BY <1>7, <2>1, <2>5, <2>7, SeesNow
<1> QED BY <1>8, <1>9

LEMMA Seen ==
    ASSUME Sound, NEW q \in Rooms, NEW x, Sees(q, x)
    PROVE  /\ x \in Views /\ x.info \in JoinedRoomInfo /\ ui.shown \in [Lists -> SUBSET Rooms]
           /\ x.is = "joined" <=> q \in DOMAIN ui.joined
           /\ x.is = "joined" => ui.joined[q] = x.info
           /\ x.is = "invited" <=> q \in DOMAIN ui.invited
           /\ x.is = "invited" => ui.invited[q] = x.info.name
           /\ x.hidden = "yes" <=> q \in ui.hidden
           /\ x.hidden = "no" <=> q \notin ui.hidden
           /\ \A l \in Lists : q \in ui.shown[l] <=> ShownIn(l, x)
           /\ ListOf(x.info) \in Lists \ {"invited"}
<1>1. x \in Views /\ x.info \in JoinedRoomInfo
    BY DEF Sees, Views
<1>2. x.hidden = "yes" <=> q \in ui.hidden
    BY DEF Sees, HasView
<1>3. x.hidden = "no" <=> q \notin ui.hidden
    BY <1>1, <1>2 DEF Views
<1> QED BY <1>1, <1>2, <1>3, SeesType, ListOfLists DEF Sees, HasView

LEMMA SeesUpdateIsDirect ==
    ASSUME Sound, HandlesUpdateIsDirect, NEW q \in Rooms, NEW x, Sees(q, x),
           NEW y, y = Updated(q, Head(queue), x)
    PROVE  Sees(q, y)'
<1> DEFINE u == Head(queue)
           from == IF ui.joined[u.room].direct THEN <<"direct">>
                   ELSE <<"favorite", "low_priority", "regular">>
           room == [ui.joined[u.room] EXCEPT !.direct = u.direct]
           removed == WithoutFirst(from, u.room)
           changes == u.room \in DOMAIN ui.joined /\ ui.joined[u.room].direct # u.direct
           should == ShouldDisplay(u.room, room.name)
           list == ListOf(room)
           shown == IF should THEN [removed EXCEPT ![list] = @ \union {u.room}] ELSE removed
<1>1. u.is = "UpdateIsDirect" /\ u \in Updates /\ y = Updated(q, u, x)
    BY Handled DEF HandlesUpdateIsDirect
<1>2. u.room \in Rooms /\ u.direct \in BOOLEAN
    BY <1>1, UpdateFields
<1>3. IF changes THEN Holds([ui.joined EXCEPT ![u.room] = room], ui.invited, ui.hidden, shown)
      ELSE Holds(ui.joined, ui.invited, ui.hidden, ui.shown)
    BY UpdateIsDirectEffect
<1>4. /\ x \in Views /\ ui.shown \in [Lists -> SUBSET Rooms] /\ ui \in Widgets
      /\ ui.joined \in [DOMAIN ui.joined -> JoinedRoomInfo]
    BY SeesType DEF Sees
<1> HIDE DEF u
<1>5. from \in Seq(Lists)
  <2>1. <<"direct">> \in Seq(Lists) /\ <<"favorite", "low_priority", "regular">> \in Seq(Lists)
      BY DEF Lists
  <2> QED BY <2>1, Zenon
<1>6. changes => list \in Lists
  <2> SUFFICES ASSUME changes PROVE list \in Lists
      OBVIOUS
  <2>1. room \in JoinedRoomInfo
      BY <1>2, <1>4 DEF JoinedRoomInfo
  <2> HIDE DEF room
  <2> QED BY <2>1, ListOfLists
<1>7. removed \in [Lists -> SUBSET Rooms]
    BY <1>4, <1>5, WithoutFirstType
<1>8. \/ removed = ui.shown /\ \A l \in Range(from) : u.room \notin ui.shown[l]
      \/ \E l \in Range(from) : /\ u.room \in ui.shown[l]
                                /\ removed = [ui.shown EXCEPT ![l] = @ \ {u.room}]
    BY <1>4, <1>5, WithoutFirstIs
<1> HIDE DEF removed
<1>9. ASSUME changes, NEW l \in Lists
      PROVE  q \in shown[l] <=> q \in removed[l] \/ (q = u.room /\ should /\ l = list)
  <2> HIDE DEF list, should
  <2> QED BY <1>6, <1>7, <1>9
<1>10. ui'.hidden = ui.hidden /\ ui'.invited = ui.invited /\ ui'.filtered = ui.filtered
    BY <1>3 DEF Holds
<1>11. CASE q # u.room
  <2>1. y = x
      BY <1>1, <1>11 DEF Updated, Concerns
  <2>2. \A l \in Lists : q \in removed[l] <=> q \in ui.shown[l]
      BY <1>4, <1>8, <1>11
  <2>3. \A l \in Lists : q \in ui'.shown[l] <=> q \in ui.shown[l]
    <3> HIDE DEF shown, changes, room
    <3> QED BY <1>3, <1>9, <1>11, <2>2 DEF Holds
  <2>4. /\ q \in DOMAIN ui'.joined <=> q \in DOMAIN ui.joined
        /\ q \in DOMAIN ui.joined => ui'.joined[q] = ui.joined[q]
    <3> HIDE DEF shown, changes, room
    <3> QED BY <1>3, <1>11 DEF Holds
  <2>5. Sees(q, x)'
      BY <1>10, <2>3, <2>4, SeesStill
  <2> QED BY <2>1, <2>5
<1>12. CASE q = u.room
  <2>1. y \in Views
      BY <1>1, <1>4, UpdatedType
  <2>2. y = [x EXCEPT !.info = [@ EXCEPT !.direct = u.direct]]
      BY <1>1, <1>12 DEF Updated, Concerns
  <2>3. /\ y.is = x.is /\ y.hidden = x.hidden /\ y.info = [x.info EXCEPT !.direct = u.direct]
        /\ y.info.name = x.info.name
      BY <1>4, <2>2 DEF Views, JoinedRoomInfo
  <2>4. CASE changes
    <3>1. x.is = "joined" /\ ui.joined[q] = x.info /\ room = y.info /\ list = ListOf(y.info)
        BY <1>12, <2>3, <2>4, Seen
    <3>2. ui'.joined = [ui.joined EXCEPT ![q] = room] /\ ui'.shown = shown
        BY <1>3, <1>12, <2>4 DEF Holds
    <3>3. HasView(q, y)'
      <4>1. DOMAIN ui'.joined = DOMAIN ui.joined /\ ui'.joined[q] = y.info /\ q \in DOMAIN ui.joined
          BY <1>12, <2>4, <3>1, <3>2
      <4>2. /\ y.is = "joined" /\ y.is # "invited" /\ q \notin DOMAIN ui.invited
            /\ y.hidden = "yes" <=> q \in ui.hidden
          BY <2>3, <3>1, Seen
      <4> QED BY <1>10, <4>1, <4>2 DEF HasView
    <3>4. ListOf(x.info) \in Range(from)
      <4>1. x.info \in JoinedRoomInfo
          BY <1>4 DEF Views
      <4>2. from = IF x.info.direct THEN <<"direct">>
                   ELSE <<"favorite", "low_priority", "regular">>
          BY <1>12, <3>1
      <4>3. CASE x.info.direct
        <5>1. from = <<"direct">> /\ ListOf(x.info) = "direct"
            BY <4>2, <4>3 DEF ListOf
        <5> HIDE DEF from
        <5> QED BY <5>1 DEF Range
      <4>4. CASE ~x.info.direct
        <5>1. from = <<"favorite", "low_priority", "regular">>
            BY <4>2, <4>4
        <5>2. ListOf(x.info) \in {"favorite", "low_priority", "regular"}
            BY <4>1, <4>4, RoomsAssumption DEF ListOf, JoinedRoomInfo, Tag
        <5> HIDE DEF from
        <5>3. from[1] = "favorite" /\ from[2] = "low_priority" /\ from[3] = "regular"
              /\ DOMAIN from = 1..3
            BY <5>1
        <5> QED BY <5>2, <5>3 DEF Range
      <4> QED BY <4>3, <4>4
    <3>5. ASSUME NEW l \in Lists PROVE q \notin removed[l]
      <4>1. \A k \in Lists : q \in ui.shown[k] => k = ListOf(x.info)
          BY <3>1, Seen DEF ShownIn
      <4>2. Range(from) \subseteq Lists
          BY <1>5, RangeType
      <4> HIDE DEF from
      <4> QED BY <1>4, <1>8, <1>12, <3>4, <4>1, <4>2
    <3>6. ASSUME NEW l \in Lists PROVE q \in ui'.shown[l] <=> ShownIn(l, y)
      <4>1. q \in shown[l] <=> should /\ l = list
        <5> HIDE DEF shown, should, list, changes
        <5> QED BY <1>9, <1>12, <2>4, <3>5
      <4>2. should <=> y.hidden = "no" /\ (ui.filtered => y.info.name = "Match")
          BY <1>12, <2>3, <3>1, Seen DEF ShouldDisplay
      <4> QED BY <2>3, <3>1, <3>2, <4>1, <4>2 DEF ShownIn
    <3> QED BY <1>10, <2>1, <3>3, <3>6, SeesNow
  <2>5. CASE ~changes
    <3>1. ui'.joined = ui.joined /\ ui'.shown = ui.shown
        BY <1>3, <2>5 DEF Holds
    <3>2. x.is = "joined" => y.info = x.info
      <4> SUFFICES ASSUME x.is = "joined" PROVE y.info = x.info
          OBVIOUS
      <4>1. ui.joined[q] = x.info /\ q \in DOMAIN ui.joined /\ x.info \in JoinedRoomInfo
          BY Seen
      <4>2. u.direct = x.info.direct
          BY <1>12, <2>5, <4>1
      <4> QED BY <2>3, <4>1, <4>2 DEF JoinedRoomInfo
    <3>3. HasView(q, y)'
        BY <1>10, <2>3, <3>1, <3>2 DEF Sees, HasView
    <3>4. \A l \in Lists : q \in ui'.shown[l] <=> ShownIn(l, y)
        BY <2>3, <3>1, <3>2, Seen DEF ShownIn
    <3> QED BY <1>10, <2>1, <3>3, <3>4, SeesNow
  <2> QED BY <2>4, <2>5
<1> QED BY <1>11, <1>12

LEMMA SeesTags ==
    ASSUME Sound, HandlesTags, NEW q \in Rooms, NEW x, Sees(q, x),
           NEW y, y = Updated(q, Head(queue), x)
    PROVE  Sees(q, y)'
<1> DEFINE u == Head(queue)
           joined == [ui.joined EXCEPT ![u.room].tag = u.tag]
           tagged == [ui EXCEPT !.joined = joined]
<1>1. u.is = "Tags" /\ u \in Updates /\ y = Updated(q, u, x)
    BY Handled DEF HandlesTags
<1>2. u.room \in Rooms /\ u.tag \in Tag
    BY <1>1, UpdateFields
<1>3. IF u.room \in DOMAIN ui.joined
      THEN Holds(tagged.joined, ui.invited, ui.hidden, Generated(tagged)) /\ tagged \in Widgets
      ELSE Holds(ui.joined, ui.invited, ui.hidden, ui.shown)
    BY TagsEffect
<1>4. /\ x \in Views /\ ui \in Widgets /\ ui.joined \in [DOMAIN ui.joined -> JoinedRoomInfo]
    BY SeesType DEF Sees
<1>5. /\ tagged.joined = joined /\ tagged.invited = ui.invited /\ tagged.hidden = ui.hidden
      /\ tagged.filtered = ui.filtered
    BY <1>4 DEF Widgets
<1> HIDE DEF u, tagged
<1>6. ui'.hidden = ui.hidden /\ ui'.invited = ui.invited /\ ui'.filtered = ui.filtered
    BY <1>3 DEF Holds
<1>7. /\ y \in Views /\ y.is = x.is /\ y.hidden = x.hidden /\ y.info.name = x.info.name
      /\ q = u.room => y.info = [x.info EXCEPT !.tag = u.tag]
      /\ q # u.room => y = x
  <2>1. y \in Views
      BY <1>1, <1>4, UpdatedType
  <2>2. CASE q # u.room
      BY <1>1, <2>1, <2>2 DEF Updated, Concerns
  <2>3. CASE q = u.room
    <3>1. y = [x EXCEPT !.info = [@ EXCEPT !.tag = u.tag]]
        BY <1>1, <2>3 DEF Updated, Concerns
    <3>2. y.info = [x.info EXCEPT !.tag = u.tag] /\ y.is = x.is /\ y.hidden = x.hidden
        BY <1>4, <3>1 DEF Views
    <3>3. y.info.name = x.info.name
        BY <1>4, <3>2 DEF Views, JoinedRoomInfo
    <3> QED BY <2>1, <2>3, <3>2, <3>3
  <2> QED BY <2>2, <2>3
<1>8. CASE u.room \in DOMAIN ui.joined
  <2>1. ui'.joined = joined /\ ui'.shown = Generated(tagged) /\ tagged \in Widgets
      BY <1>3, <1>5, <1>8 DEF Holds
  <2>2. /\ y.is = "joined" <=> q \in DOMAIN joined
        /\ y.is = "joined" => joined[q] = y.info
    <3>1. DOMAIN joined = DOMAIN ui.joined
        OBVIOUS
    <3>2. CASE q = u.room
      <4>1. x.is = "joined" /\ ui.joined[q] = x.info
          BY <1>8, <3>2, Seen
      <4> QED BY <1>4, <1>7, <1>8, <3>2, <4>1
    <3>3. CASE q # u.room
        BY <1>7, <3>3, Seen
    <3> QED BY <3>2, <3>3
  <2>3. /\ y.is = "invited" <=> q \in DOMAIN ui.invited
        /\ y.is = "invited" => ui.invited[q] = y.info.name
        /\ y.hidden = "yes" <=> q \in ui.hidden
      BY <1>7, Seen
  <2> HIDE DEF joined
  <2>4. HasView(q, y)'
      BY <1>6, <2>1, <2>2, <2>3 DEF HasView
  <2>5. ASSUME NEW l \in Lists PROVE q \in ui'.shown[l] <=> ShownIn(l, y)
      BY <1>5, <1>7, <2>1, <2>2, <2>3, GeneratedShows DEF ShownIn
  <2> QED BY <1>6, <1>7, <2>4, <2>5, SeesNow
<1>9. CASE u.room \notin DOMAIN ui.joined
  <2>1. ui'.joined = ui.joined /\ ui'.shown = ui.shown
      BY <1>3, <1>9 DEF Holds
  <2>2. x.is = "joined" => y = x
      BY <1>7, <1>9, Seen
  <2>3. HasView(q, y)'
      BY <1>6, <1>7, <2>1, <2>2 DEF Sees, HasView
  <2>4. \A l \in Lists : q \in ui'.shown[l] <=> ShownIn(l, y)
      BY <1>7, <2>1, <2>2, Seen DEF ShownIn
  <2> QED BY <1>6, <1>7, <2>3, <2>4, SeesNow
<1> QED BY <1>8, <1>9

LEMMA SeesRemoveRoom ==
    ASSUME Sound, HandlesRemoveRoom, NEW q \in Rooms, NEW x, Sees(q, x),
           NEW y, y = Updated(q, Head(queue), x)
    PROVE  Sees(q, y)'
<1> DEFINE u == Head(queue)
           list == IF u.room \in DOMAIN ui.joined THEN ListOf(ui.joined[u.room]) ELSE "invited"
           shown == [ui.shown EXCEPT ![list] = @ \ {u.room}]
<1>1. u.is = "RemoveRoom" /\ u \in Updates /\ y = Updated(q, u, x)
    BY Handled DEF HandlesRemoveRoom
<1>2. u.room \in Rooms
    BY <1>1, UpdateFields
<1>3. \/ /\ u.room \in DOMAIN ui.joined
         /\ Holds(Without(ui.joined, u.room), ui.invited, ui.hidden \ {u.room}, shown)
      \/ /\ u.room \in DOMAIN ui.invited \ DOMAIN ui.joined
         /\ Holds(ui.joined, Without(ui.invited, u.room), ui.hidden \ {u.room}, shown)
      \/ /\ u.room \notin DOMAIN ui.joined \union DOMAIN ui.invited
         /\ Holds(ui.joined, ui.invited, ui.hidden \ {u.room}, ui.shown)
    BY RemoveRoomEffect
<1>4. /\ x \in Views /\ ui.shown \in [Lists -> SUBSET Rooms] /\ "invited" \in Lists
      /\ ui.joined \in [DOMAIN ui.joined -> JoinedRoomInfo]
    BY SeesType DEF Sees, Lists
<1> HIDE DEF u
<1>5. ASSUME NEW l \in Lists
      PROVE  q \in shown[l] <=> q \in ui.shown[l] /\ ~(l = list /\ q = u.room)
  <2> HIDE DEF list
  <2> QED BY <1>4
<1>6. ui'.hidden = ui.hidden \ {u.room} /\ ui'.filtered = ui.filtered
    BY <1>3 DEF Holds
<1>7. CASE q # u.room
  <2>1. y = x
      BY <1>1, <1>7 DEF Updated, Concerns
  <2>2. \A l \in Lists : q \in ui'.shown[l] <=> q \in ui.shown[l]
    <3>1. ui'.shown = shown \/ ui'.shown = ui.shown
        BY <1>3 DEF Holds
    <3> HIDE DEF shown
    <3> QED BY <1>5, <1>7, <3>1
  <2>3. /\ q \in DOMAIN ui'.invited <=> q \in DOMAIN ui.invited
        /\ q \in DOMAIN ui.invited => ui'.invited[q] = ui.invited[q]
        /\ q \in DOMAIN ui'.joined <=> q \in DOMAIN ui.joined
        /\ q \in DOMAIN ui.joined => ui'.joined[q] = ui.joined[q]
        /\ q \in ui'.hidden <=> q \in ui.hidden
    <3> HIDE DEF shown
    <3> QED BY <1>3, <1>7 DEF Holds, Without, Restrict
  <2>4. Sees(q, x)'
      BY <1>6, <2>2, <2>3, SeesStill
  <2> QED BY <2>1, <2>4
<1>8. CASE q = u.room
  <2>1. y \in Views
      BY <1>1, <1>4, UpdatedType
  <2>2. y.is = "none" /\ y.hidden = "no"
      BY <1>1, <1>4, <1>8 DEF Updated, Concerns, Views
  <2>3. q \in DOMAIN ui.joined => q \notin DOMAIN ui.invited
      BY Seen
  <2>4. /\ q \notin DOMAIN ui'.joined /\ q \notin DOMAIN ui'.invited /\ q \notin ui'.hidden
    <3> HIDE DEF shown
    <3> QED BY <1>3, <1>8, <2>3 DEF Holds, Without, Restrict
  <2>5. ASSUME NEW l \in Lists PROVE q \notin ui'.shown[l]
    <3>1. x.is = "joined" => q \in DOMAIN ui.joined /\ list = ListOf(x.info)
        BY <1>8, Seen
    <3>2. x.is = "invited" => q \in DOMAIN ui.invited \ DOMAIN ui.joined /\ list = "invited"
        BY <1>8, Seen
    <3>3. x.is \notin {"joined", "invited"} => q \notin ui.shown[l]
        BY Seen DEF ShownIn
    <3>4. x.is \in {"joined", "invited"} /\ q \in ui.shown[l] => l = list
      <4> HIDE DEF list
      <4> QED BY <3>1, <3>2, Seen DEF ShownIn
    <3>5. x.is \in {"joined", "invited"} => ui'.shown = shown
      <4> HIDE DEF shown
      <4> QED BY <1>3, <1>8, <3>1, <3>2 DEF Holds
    <3>6. ui'.shown = shown \/ ui'.shown = ui.shown
      <4> HIDE DEF shown
      <4> QED BY <1>3 DEF Holds
    <3> HIDE DEF shown, list
    <3> QED BY <1>5, <1>8, <3>3, <3>4, <3>5, <3>6
  <2>6. HasView(q, y)'
      BY <2>2, <2>4 DEF HasView
  <2>7. \A l \in Lists : q \in ui'.shown[l] <=> ShownIn(l, y)
      BY <2>2, <2>5 DEF ShownIn
  <2> QED BY <1>6, <2>1, <2>6, <2>7, SeesNow
<1> QED BY <1>7, <1>8

LEMMA SeesClearRooms ==
    ASSUME Sound, HandlesClearRooms, NEW q \in Rooms, NEW x, Sees(q, x),
           NEW y, y = Updated(q, Head(queue), x)
    PROVE  Sees(q, y)'
<1> DEFINE u == Head(queue)
<1>1. u.is = "ClearRooms" /\ u \in Updates /\ y = Updated(q, u, x)
    BY Handled DEF HandlesClearRooms
<1>2. Holds(Nothing, Nothing, ui.hidden, [l \in Lists |-> {}])
    BY ClearRoomsEffect
<1> HIDE DEF u
<1>3. y \in Views /\ y.is = "none" /\ y.hidden = x.hidden
  <2>1. x \in Views
      BY Seen
  <2> QED BY <1>1, <2>1, UpdatedType DEF Updated, Views
<1>4. HasView(q, y)'
    BY <1>2, <1>3, NothingType, Seen DEF Holds, HasView
<1>5. \A l \in Lists : q \in ui'.shown[l] <=> ShownIn(l, y)
    BY <1>2, <1>3 DEF Holds, ShownIn
<1>6. ui'.filtered = ui.filtered
    BY <1>2 DEF Holds
<1> QED BY <1>3, <1>4, <1>5, <1>6, SeesNow

LEMMA SeesHideRoom ==
    ASSUME Sound, HandlesHideRoom, NEW q \in Rooms, NEW x, Sees(q, x),
           NEW y, y = Updated(q, Head(queue), x)
    PROVE  Sees(q, y)'
<1> DEFINE u == Head(queue)
           shown == WithoutFirst(AllLists, u.room)
<1>1. u.is = "HideRoom" /\ u \in Updates /\ y = Updated(q, u, x)
    BY Handled DEF HandlesHideRoom
<1>2. Holds(ui.joined, ui.invited, ui.hidden \union {u.room}, shown)
    BY HideRoomEffect
<1>3. x \in Views /\ ui \in Widgets /\ ui.shown \in [Lists -> SUBSET Rooms]
    BY SeesType DEF Sees
<1>4. AllLists \in Seq(Lists) /\ Range(AllLists) = Lists
  <2>1. AllLists \in Seq(Lists)
      BY DEF AllLists, Lists
  <2>2. /\ DOMAIN AllLists = 1..5 /\ AllLists[1] = "regular" /\ AllLists[2] = "direct"
        /\ AllLists[3] = "invited" /\ AllLists[4] = "favorite" /\ AllLists[5] = "low_priority"
      BY DEF AllLists
  <2> QED BY <2>1, <2>2, RangeType DEF Range, Lists
<1> HIDE DEF u
<1>5. \/ shown = ui.shown /\ \A l \in Lists : u.room \notin ui.shown[l]
      \/ \E l \in Lists : u.room \in ui.shown[l] /\ shown = [ui.shown EXCEPT ![l] = @ \ {u.room}]
    BY <1>3, <1>4, WithoutFirstIs
<1> HIDE DEF shown
<1>6. /\ ui'.joined = ui.joined /\ ui'.invited = ui.invited /\ ui'.filtered = ui.filtered
      /\ ui'.hidden = ui.hidden \union {u.room} /\ ui'.shown = shown
    BY <1>2 DEF Holds
<1>7. CASE q # u.room
  <2>1. y = x
      BY <1>1, <1>7 DEF Updated, Concerns
  <2>2. \A l \in Lists : q \in shown[l] <=> q \in ui.shown[l]
      BY <1>3, <1>5, <1>7
  <2>3. Sees(q, x)'
      BY <1>6, <1>7, <2>2, SeesStill
  <2> QED BY <2>1, <2>3
<1>8. CASE q = u.room
  <2>1. y \in Views /\ y.is = x.is /\ y.info = x.info /\ y.hidden = "yes"
    <3>1. y = [x EXCEPT !.hidden = "yes"]
        BY <1>1, <1>8 DEF Updated, Concerns
    <3> QED BY <1>3, <3>1 DEF Views
  <2>2. \A l \in Lists : q \notin shown[l]
    <3>1. \A k, l \in Lists : q \in ui.shown[k] /\ q \in ui.shown[l] => k = l
        BY Seen DEF ShownIn
    <3> QED BY <1>3, <1>5, <1>8, <3>1
  <2>3. HasView(q, y)'
      BY <1>6, <1>8, <2>1, Seen DEF HasView
  <2>4. \A l \in Lists : q \in ui'.shown[l] <=> ShownIn(l, y)
      BY <1>6, <2>1, <2>2 DEF ShownIn
  <2> QED BY <1>6, <2>1, <2>3, <2>4, SeesNow
<1> QED BY <1>7, <1>8

LEMMA SeesUnhideRoom ==
    ASSUME Sound, HandlesUnhideRoom, NEW q \in Rooms, NEW x, Sees(q, x),
           Meets(q, Head(queue), x), NEW y, y = Updated(q, Head(queue), x)
    PROVE  Sees(q, y)'
<1> DEFINE u == Head(queue)
           list == ListOf(ui.joined[u.room])
           shown == [ui.shown EXCEPT ![list] = @ \union {u.room}]
           puts == /\ u.room \in ui.hidden /\ u.room \in DOMAIN ui.joined
                   /\ ui.filtered => ui.joined[u.room].name = "Match"
<1>1. u.is = "UnhideRoom" /\ u \in Updates /\ y = Updated(q, u, x) /\ Meets(q, u, x)
    BY Handled DEF HandlesUnhideRoom
<1>2. IF puts THEN Holds(ui.joined, ui.invited, ui.hidden \ {u.room}, shown)
      ELSE Holds(ui.joined, ui.invited, ui.hidden \ {u.room}, ui.shown)
    BY UnhideRoomEffect
<1>3. /\ x \in Views /\ ui.shown \in [Lists -> SUBSET Rooms]
      /\ ui.joined \in [DOMAIN ui.joined -> JoinedRoomInfo]
    BY SeesType DEF Sees
<1> HIDE DEF u
<1>4. u.room \in DOMAIN ui.joined => list \in Lists
    BY <1>3, ListOfLists
<1>5. ASSUME puts, NEW l \in Lists
      PROVE  q \in shown[l] <=> q \in ui.shown[l] \/ (q = u.room /\ l = list)
  <2>1. u.room \in DOMAIN ui.joined
      BY <1>5
  <2> HIDE DEF list
  <2> QED BY <1>3, <1>4, <2>1
<1>6. /\ ui'.joined = ui.joined /\ ui'.invited = ui.invited /\ ui'.filtered = ui.filtered
      /\ ui'.hidden = ui.hidden \ {u.room} /\ ui'.shown = IF puts THEN shown ELSE ui.shown
  <2> HIDE DEF puts, shown
  <2> QED BY <1>2 DEF Holds
<1>7. CASE q # u.room
  <2>1. y = x
      BY <1>1, <1>7 DEF Updated, Concerns
  <2>2. \A l \in Lists : q \in ui'.shown[l] <=> q \in ui.shown[l]
    <3> HIDE DEF puts, shown, list
    <3> QED BY <1>5, <1>6, <1>7
  <2>3. Sees(q, x)'
      BY <1>6, <1>7, <2>2, SeesStill
  <2> QED BY <2>1, <2>3
<1>8. CASE q = u.room
  <2>1. y \in Views /\ y.is = x.is /\ y.info = x.info /\ y.hidden = "no"
    <3>1. y = [x EXCEPT !.hidden = "no"]
        BY <1>1, <1>8 DEF Updated, Concerns
    <3> QED BY <1>3, <3>1 DEF Views
  <2>2. x.is # "invited"
      BY <1>1, <1>8 DEF Meets, Concerns
  <2>3. HasView(q, y)'
      BY <1>6, <1>8, <2>1, Seen DEF HasView
  <2>4. ASSUME NEW l \in Lists PROVE q \in ui'.shown[l] <=> ShownIn(l, y)
    <3>1. CASE puts
      <4>1. /\ x.is = "joined" /\ list = ListOf(x.info) /\ x.hidden = "yes"
            /\ ui.filtered => x.info.name = "Match"
          BY <1>8, <3>1, Seen
      <4>2. q \notin ui.shown[l]
          BY <4>1, Seen DEF ShownIn
      <4>3. q \in ui'.shown[l] <=> l = list
        <5> HIDE DEF puts, shown, list
        <5> QED BY <1>5, <1>6, <1>8, <3>1, <4>2
      <4> QED BY <2>1, <4>1, <4>3 DEF ShownIn
    <3>2. CASE ~puts
      <4>1. ui'.shown = ui.shown
          BY <1>6, <3>2
      <4>2. x.hidden = "no" \/ x.is # "joined" \/ ~(ui.filtered => x.info.name = "Match")
          BY <1>8, <3>2, Seen
      <4>3. ShownIn(l, y) <=> ShownIn(l, x)
          BY <2>1, <2>2, <4>2 DEF ShownIn
      <4> QED BY <4>1, <4>3, Seen
    <3> QED BY <3>1, <3>2
  <2> QED BY <1>6, <2>1, <2>3, <2>4, SeesNow
<1> QED BY <1>7, <1>8

LEMMA SeesRoomOrderUpdate ==
    ASSUME Sound, HandlesRoomOrderUpdate, NEW q \in Rooms, NEW x, Sees(q, x),
           NEW y, y = Updated(q, Head(queue), x)
    PROVE  Sees(q, y)'
<1>1. Head(queue).is = "RoomOrderUpdate"
    BY Handled DEF HandlesRoomOrderUpdate
<1>2. y = x
    BY <1>1 DEF Updated, Concerns
<1>3. Holds(ui.joined, ui.invited, ui.hidden, ui.shown)
    BY RoomOrderUpdateEffect
<1>4. Sees(q, x)'
    BY <1>3, SeesStill DEF Holds
<1> QED BY <1>2, <1>4

LEMMA SeesDrainEnds ==
    ASSUME Sound, DrainEnds, NEW q \in Rooms, NEW x, Sees(q, x)
    PROVE  Sees(q, x)'
<1>1. ui'.joined = ui.joined /\ ui'.invited = ui.invited /\ ui'.hidden = ui.hidden
      /\ ui'.filtered = ui.filtered /\ (ui'.shown = ui.shown \/ ui'.shown = Generated(ui))
    BY DrainEndsEffect DEF Holds
<1>2. ui \in Widgets /\ x \in Views
    BY SeesType DEF Sees
<1>3. HasView(q, x)'
    BY <1>1 DEF Sees, HasView
<1>4. \A l \in Lists : q \in Generated(ui)[l] <=> ShownIn(l, x)
    BY <1>2, GeneratedShows, Seen DEF ShownIn
<1>5. \A l \in Lists : q \in ui'.shown[l] <=> ShownIn(l, x)
    BY <1>1, <1>4, Seen
<1> QED BY <1>1, <1>2, <1>3, <1>5, SeesNow

LEMMA SeesFilterChanges ==
    ASSUME Sound, FilterChanges, NEW q \in Rooms, NEW x, Sees(q, x)
    PROVE  Sees(q, x)'
<1>1. ui'.joined = ui.joined /\ ui'.invited = ui.invited /\ ui'.hidden = ui.hidden
    BY FilterChangesEffect
<1>2. PICK w \in Widgets : /\ w.joined = ui'.joined /\ w.invited = ui'.invited
                           /\ w.hidden = ui'.hidden /\ w.filtered = ui'.filtered
                           /\ ui'.shown = Generated(w)
    BY FilterChangesEffect
<1>3. HasView(q, x)' /\ x \in Views
    BY <1>1 DEF Sees, HasView
<1>4. \A l \in Lists : q \in ui'.shown[l] <=> ShownIn(l, x)'
    BY <1>1, <1>2, <1>3, GeneratedShows, Seen DEF ShownIn
<1> QED BY <1>3, <1>4 DEF Sees

\* The widget's entry of a room becomes what the update that it handles makes of it.
LEMMA SeesUpdated ==
    ASSUME Sound, HandlesUpdate, ~DrainEnds, NEW q \in Rooms, NEW x, Sees(q, x),
           Meets(q, Head(queue), x), NEW y, y = Updated(q, Head(queue), x)
    PROVE  Sees(q, y)'
BY SeesAddInvitedRoom, SeesAddJoinedRoom, SeesUpdateRoomName, SeesUpdateIsDirect, SeesTags,
   SeesRemoveRoom, SeesClearRooms, SeesHideRoom, SeesUnhideRoom, SeesRoomOrderUpdate
   DEF HandlesUpdate

----------------------------------------------------------------------------
(* What the loop's steps for a room make of its entry.                      *)

LEMMA ViewIdle ==
    ASSUME NEW r \in Rooms, NEW q \in Rooms, q # r, NEW s \in Seq(About(r)), NEW x \in Views
    PROVE  Leads(ViewSteps(q), s, x, x)
<1>1. s \in Seq(Steps) /\ Range(s) \subseteq About(r)
    BY AboutSteps, RangeType
<1>2. ASSUME NEW e \in About(r) PROVE <<x, e, x>> \in ViewSteps(q)
  <2>1. e \in Steps /\ e.does \notin {"remove", "append"}
      BY DEF About
  <2>2. e.does = "post" => ~Concerns(q, e.update) /\ e.update.is # "ClearRooms"
      BY DEF About, Concerns
  <2>3. Proper(q, e, x)
      BY <2>1, <2>2 DEF Proper, Meets
  <2>4. Turned(q, e, x) = x
      BY <2>1, <2>2 DEF Turned, Updated
  <2> QED BY <2>1, <2>3, <2>4, ViewStep
<1> QED BY <1>1, <1>2, LeadsIdly

LEMMA PostTurns ==
    ASSUME NEW r \in Rooms, NEW x \in Views, NEW u, Post(u) \in About(r), Meets(r, u, x)
    PROVE  /\ Updated(r, u, x) \in Views /\ <<Post(u)>> \in Seq(Steps)
           /\ Leads(ViewSteps(r), <<Post(u)>>, x, Updated(r, u, x))
<1> DEFINE e == Post(u)
           y == Updated(r, u, x)
<1>1. e \in Steps /\ e.does = "post" /\ e.update = u
    BY AboutSteps DEF Post
<1>2. u \in Updates /\ y \in Views
    BY <1>1, StepFields, UpdatedType
<1>3. Proper(r, e, x) /\ Turned(r, e, x) = y
    BY <1>1 DEF Proper, Turned
<1> HIDE DEF e, y
<1>4. <<x, e, y>> \in ViewSteps(r)
    BY <1>1, <1>3, ViewStep
<1>5. Leads(ViewSteps(r), <<e>>, x, y) /\ <<e>> \in Seq(Steps)
    BY <1>1, <1>4, LeadsOnce
<1> QED BY <1>2, <1>5 DEF e, y

LEMMA PostWhenTurns ==
    ASSUME NEW r \in Rooms, NEW x \in Views, NEW u, Post(u) \in About(r), NEW c \in BOOLEAN,
           c => Meets(r, u, x), NEW y, y = IF c THEN Updated(r, u, x) ELSE x
    PROVE  /\ y \in Views /\ When(c, <<Post(u)>>) \in Seq(Steps)
           /\ Leads(ViewSteps(r), When(c, <<Post(u)>>), x, y)
<1>1. CASE c
    BY <1>1, PostTurns DEF When
<1>2. CASE ~c
    BY <1>2, LeadsNowhere, EmptySeq DEF When
<1> QED BY <1>1, <1>2

LEMMA OneStep == \A e \in Steps : <<e>> \in Seq(Steps)
OBVIOUS

\* The steps that are no updates.
LEMMA IdleTurns ==
    ASSUME NEW r \in Rooms, NEW x \in Views, NEW e \in Steps, e.does \in {"insert", "drop", "drop all"}
    PROVE  Leads(ViewSteps(r), <<e>>, x, x) /\ <<e>> \in Seq(Steps)
<1>1. Proper(r, e, x) /\ Turned(r, e, x) = x
    BY DEF Proper, Turned
<1>2. <<x, e, x>> \in ViewSteps(r)
    BY <1>1, ViewStep
<1>3. Leads(ViewSteps(r), <<e>>, x, x)
    BY <1>2, LeadsOnce
<1> QED BY <1>3, OneStep, Zenon

LEMMA SortTurns ==
    ASSUME NEW r \in Rooms, NEW x \in Views
    PROVE  /\ Sort \in Seq(Steps) /\ Leads(ViewSteps(r), Sort, x, x)
           /\ <<x, Post(RoomOrderUpdate), x>> \in ViewSteps(r)
<1> DEFINE e == Post(RoomOrderUpdate)
<1>1. e \in Steps
    BY AboutRoom, AboutSteps
<1>2. Proper(r, e, x) /\ Turned(r, e, x) = x
    BY DEF Proper, Turned, Post, RoomOrderUpdate, Meets, Concerns, Updated
<1> HIDE DEF e
<1>3. <<x, e, x>> \in ViewSteps(r)
    BY <1>1, <1>2, ViewStep
<1>4. Leads(ViewSteps(r), <<e>>, x, x) /\ <<e>> \in Seq(Steps)
    BY <1>1, <1>3, LeadsOnce
<1> QED BY <1>3, <1>4 DEF e, Sort

LEMMA UpdatedIs ==
    ASSUME NEW r \in Rooms, NEW x \in Views
    PROVE  /\ \A n \in Name :
                 /\ Updated(r, AddInvitedRoom(r, n), x) =
                        [x EXCEPT !.is = "invited", !.info = [@ EXCEPT !.name = n]]
                 /\ Updated(r, UpdateRoomName(r, n), x) = [x EXCEPT !.info = [@ EXCEPT !.name = n]]
           /\ \A info \in RoomInfo :
                 Updated(r, AddJoinedRoom(r, info), x) =
                     [x EXCEPT !.is = "joined", !.info = JoinedAs(info)]
           /\ \A d \in BOOLEAN :
                 Updated(r, UpdateIsDirect(r, d), x) = [x EXCEPT !.info = [@ EXCEPT !.direct = d]]
           /\ \A t \in Tag :
                 Updated(r, NewTags(r, t), x) = [x EXCEPT !.info = [@ EXCEPT !.tag = t]]
           /\ Updated(r, RemoveRoom(r), x) = [x EXCEPT !.is = "none", !.hidden = "no"]
           /\ Updated(r, HideRoom(r), x) = [x EXCEPT !.hidden = "yes"]
           /\ Updated(r, UnhideRoom(r), x) = [x EXCEPT !.hidden = "no"]
<1>1. ASSUME NEW n \in Name
      PROVE  /\ Updated(r, AddInvitedRoom(r, n), x) =
                    [x EXCEPT !.is = "invited", !.info = [@ EXCEPT !.name = n]]
             /\ Updated(r, UpdateRoomName(r, n), x) = [x EXCEPT !.info = [@ EXCEPT !.name = n]]
    BY DEF Updated, Concerns, AddInvitedRoom, UpdateRoomName
<1>2. ASSUME NEW info \in RoomInfo
      PROVE  Updated(r, AddJoinedRoom(r, info), x) =
                 [x EXCEPT !.is = "joined", !.info = JoinedAs(info)]
    BY DEF Updated, Concerns, AddJoinedRoom, JoinedAs
<1>3. ASSUME NEW d \in BOOLEAN
      PROVE  Updated(r, UpdateIsDirect(r, d), x) = [x EXCEPT !.info = [@ EXCEPT !.direct = d]]
    BY DEF Updated, Concerns, UpdateIsDirect
<1>4. ASSUME NEW t \in Tag
      PROVE  Updated(r, NewTags(r, t), x) = [x EXCEPT !.info = [@ EXCEPT !.tag = t]]
    BY DEF Updated, Concerns, NewTags
<1>5. Updated(r, RemoveRoom(r), x) = [x EXCEPT !.is = "none", !.hidden = "no"]
    BY DEF Updated, Concerns, RemoveRoom
<1>6. /\ Updated(r, HideRoom(r), x) = [x EXCEPT !.hidden = "yes"]
      /\ Updated(r, UnhideRoom(r), x) = [x EXCEPT !.hidden = "no"]
    BY DEF Updated, Concerns, HideRoom, UnhideRoom
<1> QED BY <1>1, <1>2, <1>3, <1>4, <1>5, <1>6

LEMMA MeetsAnything ==
    ASSUME NEW r \in Rooms, NEW x
    PROVE  /\ \A n : Meets(r, UpdateRoomName(r, n), x)
           /\ \A d : Meets(r, UpdateIsDirect(r, d), x) /\ Meets(r, NewTags(r, d), x)
           /\ Meets(r, RemoveRoom(r), x) /\ Meets(r, HideRoom(r), x)
           /\ x.is # "invited" => Meets(r, UnhideRoom(r), x)
           /\ x.is # "joined" => /\ \A n : Meets(r, AddInvitedRoom(r, n), x)
                                 /\ \A info : Meets(r, AddJoinedRoom(r, info), x)
BY DEF Meets, UpdateRoomName, UpdateIsDirect, NewTags, RemoveRoom, HideRoom, UnhideRoom,
       AddInvitedRoom, AddJoinedRoom

LEMMA remove_roomTurns ==
    ASSUME NEW r \in Rooms, NEW x \in Views, NEW y, y = [x EXCEPT !.is = "none", !.hidden = "no"]
    PROVE  y \in Views /\ remove_room(r) \in Seq(Steps) /\ Leads(ViewSteps(r), remove_room(r), x, y)
<1> DEFINE a == <<DropDetails(r)>>
           b == <<Post(RemoveRoom(r))>>
<1>1. Leads(ViewSteps(r), a, x, x) /\ a \in Seq(Steps)
  <2>1. DropDetails(r) \in Steps /\ DropDetails(r).does = "drop"
      BY AboutRoom, AboutSteps DEF DropDetails
  <2> QED BY <2>1, IdleTurns
<1>2. Leads(ViewSteps(r), b, x, y) /\ b \in Seq(Steps) /\ y \in Views
  <2>1. Updated(r, RemoveRoom(r), x) = y
      BY UpdatedIs, Zenon
  <2> QED BY <2>1, AboutRoom, MeetsAnything, PostTurns
<1>3. remove_room(r) = a \o b
    BY PairIsConcat DEF remove_room
<1> HIDE DEF a, b
<1> QED BY <1>1, <1>2, <1>3, LeadsOn, ConcatProperties

LEMMA add_new_roomTurns ==
    ASSUME NEW r \in Rooms, NEW info \in RoomInfo, NEW x \in Views,
           info.state # "Joined" => x.is # "joined", r \notin Spaces => x.is # "joined"
    PROVE  \E y \in Views :
               /\ Leads(ViewSteps(r), add_new_room(r, info), x, y)
               /\ info.state = "Invited" =>
                      y.is = "invited" /\ y.info.name = info.name /\ y.hidden = x.hidden
               /\ info.state = "Joined" /\ r \in Spaces => y.is = "none" /\ y.hidden = "no"
               /\ info.state = "Joined" /\ r \notin Spaces =>
                      /\ y.is = "joined" /\ y.info = JoinedAs(info)
                      /\ y.hidden = IF should_display_joined_room_entry(info) THEN x.hidden ELSE "yes"
               /\ info.state \notin {"Invited", "Joined"} => y = x
<1> DEFINE T == ViewSteps(r)
<1>1. CASE info.state = "Invited"
  <2> DEFINE y == [x EXCEPT !.is = "invited", !.info = [@ EXCEPT !.name = info.name]]
  <2>1. info.name \in Name
      BY DEF RoomInfo
  <2>2. Updated(r, AddInvitedRoom(r, info.name), x) = y
      BY <2>1 DEF Updated, Concerns, AddInvitedRoom
  <2>3. y \in Views /\ Leads(T, <<Post(AddInvitedRoom(r, info.name))>>, x, y)
    <3>1. Post(AddInvitedRoom(r, info.name)) \in About(r) /\ Meets(r, AddInvitedRoom(r, info.name), x)
        BY <1>1, <2>1, AboutRoom, MeetsAnything
    <3> HIDE DEF y
    <3> QED BY <2>2, <3>1, PostTurns
  <2>4. y.is = "invited" /\ y.info.name = info.name /\ y.hidden = x.hidden
      BY DEF Views, JoinedRoomInfo
  <2>5. add_new_room(r, info) = <<Post(AddInvitedRoom(r, info.name))>>
      BY <1>1 DEF add_new_room
  <2> HIDE DEF y
  <2> QED BY <1>1, <2>3, <2>4, <2>5
<1>2. CASE info.state = "Joined" /\ r \in Spaces
  <2> DEFINE y == [x EXCEPT !.is = "none", !.hidden = "no"]
  <2>1. y \in Views /\ Leads(T, <<Post(RemoveRoom(r))>>, x, y)
    <3>1. Updated(r, RemoveRoom(r), x) = y
        BY DEF Updated, Concerns, RemoveRoom
    <3> HIDE DEF y
    <3> QED BY <3>1, AboutRoom, MeetsAnything, PostTurns
  <2>2. y.is = "none" /\ y.hidden = "no"
      BY DEF Views
  <2>3. add_new_room(r, info) = <<Post(RemoveRoom(r))>>
      BY <1>2 DEF add_new_room
  <2> HIDE DEF y
  <2> QED BY <1>2, <2>1, <2>2, <2>3
<1>3. CASE info.state = "Joined" /\ r \notin Spaces
  <2> DEFINE should == should_display_joined_room_entry(info)
             v == [x EXCEPT !.is = "joined", !.info = JoinedAs(info)]
             y == IF ~should THEN [v EXCEPT !.hidden = "yes"] ELSE v
             a == InsertDetails(r)
             b == Post(AddJoinedRoom(r, info))
             h == When(~should, <<Post(HideRoom(r))>>)
  <2>1. a \in Steps /\ b \in Steps /\ b \in About(r) /\ Post(HideRoom(r)) \in About(r) /\ a.does = "insert"
      BY AboutRoom, AboutJoined, AboutSteps DEF InsertDetails
  <2>2. Leads(T, <<a>>, x, x) /\ <<a>> \in Seq(Steps)
    <3> HIDE DEF a
    <3> QED BY <2>1, IdleTurns
  <2>3. v \in Views /\ Leads(T, <<b>>, x, v) /\ <<b>> \in Seq(Steps)
    <3>1. Updated(r, AddJoinedRoom(r, info), x) = v
        BY DEF Updated, Concerns, AddJoinedRoom, JoinedAs
    <3>2. Meets(r, AddJoinedRoom(r, info), x)
        BY <1>3, MeetsAnything
    <3> HIDE DEF v
    <3> QED BY <2>1, <3>1, <3>2, PostTurns
  <2>4. y \in Views /\ Leads(T, h, v, y) /\ h \in Seq(Steps)
    <3> HIDE DEF v
    <3>1. Updated(r, HideRoom(r), v) = [v EXCEPT !.hidden = "yes"] /\ Meets(r, HideRoom(r), v)
        BY <2>3, UpdatedIs, MeetsAnything
    <3>2. should \in BOOLEAN
        BY DEF should_display_joined_room_entry
    <3>3. y = IF ~should THEN Updated(r, HideRoom(r), v) ELSE v
        BY <3>1
    <3> HIDE DEF y, should
    <3> QED BY <2>1, <2>3, <3>1, <3>2, <3>3, PostWhenTurns
  <2>5. y.is = "joined" /\ y.info = JoinedAs(info) /\ y.hidden = IF should THEN x.hidden ELSE "yes"
    <3> HIDE DEF should
    <3> QED BY DEF Views
  <2> HIDE DEF a, b, h, v, y, T, should
  <2>6. <<a, b>> = <<a>> \o <<b>>
      BY PairIsConcat
  <2>7. <<a>> \o <<b>> \in Seq(Steps) /\ Leads(T, <<a>> \o <<b>>, x, v)
      BY <2>2, <2>3, LeadsOn, ConcatProperties
  <2>8. Leads(T, (<<a>> \o <<b>>) \o h, x, y)
      BY <2>4, <2>7, LeadsOn
  <2>9. add_new_room(r, info) = <<a, b>> \o h
      BY <1>3 DEF add_new_room, a, b, h, should
  <2>10. Leads(T, add_new_room(r, info), x, y)
      BY <2>6, <2>8, <2>9
  <2>11. y.hidden = IF should_display_joined_room_entry(info) THEN x.hidden ELSE "yes"
      BY <2>5 DEF should
  <2> QED BY <1>3, <2>4, <2>5, <2>10, <2>11 DEF T
<1>4. CASE info.state \notin {"Joined", "Invited"}
  <2>1. add_new_room(r, info) = <<>>
      BY <1>4 DEF add_new_room
  <2> QED BY <1>4, <2>1, LeadsNowhere
<1> QED BY <1>1, <1>2, <1>3, <1>4

LEMMA DisplayFlipTurns ==
    ASSUME NEW r \in Rooms, NEW old, NEW new, NEW x \in Views,
           NEW before, before = should_display_joined_room_entry(old),
           NEW after, after = should_display_joined_room_entry(new),
           ~before => x.is # "invited"
    PROVE  \E y \in Views :
               /\ Leads(ViewSteps(r), DisplayFlip(r, old, new), x, y)
               /\ y.is = x.is /\ y.info = x.info
               /\ y.hidden = IF before /\ ~after THEN "yes" ELSE IF ~before /\ after THEN "no" ELSE x.hidden
<1> DEFINE T == ViewSteps(r)
           hide == When(before /\ ~after, <<Post(HideRoom(r))>>)
           unhide == When(~before /\ after, <<Post(UnhideRoom(r))>>)
           v == IF before /\ ~after THEN [x EXCEPT !.hidden = "yes"] ELSE x
           y == IF ~before /\ after THEN [v EXCEPT !.hidden = "no"] ELSE v
<1>1. before \in BOOLEAN /\ after \in BOOLEAN
    BY DEF should_display_joined_room_entry
<1>2. v \in Views /\ Leads(T, hide, x, v) /\ hide \in Seq(Steps)
  <2>1. v = IF before /\ ~after THEN Updated(r, HideRoom(r), x) ELSE x
      BY UpdatedIs
  <2> HIDE DEF v
  <2> QED BY <1>1, <2>1, AboutRoom, MeetsAnything, PostWhenTurns
<1>3. v.is = x.is /\ v.info = x.info
    BY DEF Views
<1>4. y.is = x.is /\ y.info = x.info
      /\ y.hidden = IF before /\ ~after THEN "yes" ELSE IF ~before /\ after THEN "no" ELSE x.hidden
    BY <1>1 DEF Views
<1>5. y \in Views /\ Leads(T, unhide, v, y) /\ unhide \in Seq(Steps)
  <2> HIDE DEF v
  <2>1. y = IF ~before /\ after THEN Updated(r, UnhideRoom(r), v) ELSE v
      BY <1>2, UpdatedIs
  <2>2. ~before /\ after => Meets(r, UnhideRoom(r), v)
      BY <1>3, MeetsAnything
  <2> HIDE DEF y
  <2> QED BY <1>1, <1>2, <2>1, <2>2, AboutRoom, PostWhenTurns
<1>6. DisplayFlip(r, old, new) = hide \o unhide
    BY DEF DisplayFlip
<1> HIDE DEF T, hide, unhide, v, y
<1>7. Leads(T, hide \o unhide, x, y)
    BY <1>2, <1>5, LeadsOn
<1> QED BY <1>4, <1>5, <1>6, <1>7 DEF T

LEMMA ChangesOfTurns ==
    ASSUME NEW r \in Rooms, NEW old \in RoomInfo, NEW new \in RoomInfo, old.state = new.state,
           NEW x \in Views
    PROVE  \E y \in Views :
               /\ Leads(ViewSteps(r), ChangesOf(r, old, new), x, y)
               /\ y.is = x.is /\ y.hidden = x.hidden
               /\ x.info.name = old.name => y.info.name = new.name
               /\ new.state = "Joined" /\ x.info = JoinedAs(old) => y.info = JoinedAs(new)
<1> DEFINE T == ViewSteps(r)
           renamed == old.name # new.name
           tagged == new.state = "Joined" /\ old.tag # new.tag
           directed == new.state = "Joined" /\ old.direct # new.direct
           a == When(renamed, <<Post(UpdateRoomName(r, new.name))>>)
           b == When(tagged, <<Post(NewTags(r, new.tag))>>)
           c == When(directed, <<Post(UpdateIsDirect(r, new.direct))>>)
           v == IF renamed THEN [x EXCEPT !.info = [@ EXCEPT !.name = new.name]] ELSE x
           w == IF tagged THEN [v EXCEPT !.info = [@ EXCEPT !.tag = new.tag]] ELSE v
           y == IF directed THEN [w EXCEPT !.info = [@ EXCEPT !.direct = new.direct]] ELSE w
<1>1. /\ Post(UpdateRoomName(r, new.name)) \in About(r) /\ Post(NewTags(r, new.tag)) \in About(r)
      /\ Post(UpdateIsDirect(r, new.direct)) \in About(r)
      /\ new.name \in Name /\ new.tag \in Tag /\ new.direct \in BOOLEAN
    BY AboutRoom DEF RoomInfo
<1>2. renamed \in BOOLEAN /\ tagged \in BOOLEAN /\ directed \in BOOLEAN
    OBVIOUS
<1>3. v \in Views /\ Leads(T, a, x, v) /\ a \in Seq(Steps)
  <2>1. v = IF renamed THEN Updated(r, UpdateRoomName(r, new.name), x) ELSE x
      BY DEF Updated, Concerns, UpdateRoomName
  <2> HIDE DEF v, renamed
  <2> QED BY <1>1, <1>2, <2>1, MeetsAnything, PostWhenTurns
<1>4. w \in Views /\ Leads(T, b, v, w) /\ b \in Seq(Steps)
  <2> HIDE DEF v
  <2>1. w = IF tagged THEN Updated(r, NewTags(r, new.tag), v) ELSE v
      BY DEF Updated, Concerns, NewTags
  <2> HIDE DEF w, tagged
  <2> QED BY <1>1, <1>2, <1>3, <2>1, MeetsAnything, PostWhenTurns
<1>5. y \in Views /\ Leads(T, c, w, y) /\ c \in Seq(Steps)
  <2> HIDE DEF w
  <2>1. y = IF directed THEN Updated(r, UpdateIsDirect(r, new.direct), w) ELSE w
      BY DEF Updated, Concerns, UpdateIsDirect
  <2> HIDE DEF y, directed
  <2> QED BY <1>1, <1>2, <1>4, <2>1, MeetsAnything, PostWhenTurns
<1>6. /\ v.is = x.is /\ v.hidden = x.hidden /\ v.info.tag = x.info.tag
      /\ v.info.direct = x.info.direct /\ v.info.placeholder = x.info.placeholder
      /\ v.info.name = IF renamed THEN new.name ELSE x.info.name
  <2> HIDE DEF renamed
  <2> QED BY DEF Views, JoinedRoomInfo
<1>7. /\ w.is = v.is /\ w.hidden = v.hidden /\ w.info.name = v.info.name
      /\ w.info.direct = v.info.direct /\ w.info.placeholder = v.info.placeholder
      /\ w.info.tag = IF tagged THEN new.tag ELSE v.info.tag
  <2> HIDE DEF tagged, v
  <2> QED BY <1>3 DEF Views, JoinedRoomInfo
<1>8. /\ y.is = w.is /\ y.hidden = w.hidden /\ y.info.name = w.info.name
      /\ y.info.tag = w.info.tag /\ y.info.placeholder = w.info.placeholder
      /\ y.info.direct = IF directed THEN new.direct ELSE w.info.direct
  <2> HIDE DEF directed, w
  <2> QED BY <1>4 DEF Views, JoinedRoomInfo
<1>9. y.is = x.is /\ y.hidden = x.hidden
  <2> HIDE DEF v, w, y
  <2> QED BY <1>6, <1>7, <1>8
<1>10. x.info.name = old.name => y.info.name = new.name
  <2> HIDE DEF v, w, y
  <2> QED BY <1>6, <1>7, <1>8
<1>11. ASSUME new.state = "Joined", x.info = JoinedAs(old) PROVE y.info = JoinedAs(new)
  <2>1. /\ x.info.name = old.name /\ x.info.tag = old.tag /\ x.info.direct = old.direct
        /\ x.info.placeholder = FALSE
      BY <1>11 DEF JoinedAs
  <2> HIDE DEF v, w, y
  <2>2. /\ y.info.name = new.name /\ y.info.tag = new.tag /\ y.info.direct = new.direct
        /\ y.info.placeholder = FALSE
      BY <1>6, <1>7, <1>8, <1>11, <2>1
  <2>3. y.info \in JoinedRoomInfo
      BY <1>5 DEF Views
  <2> QED BY <2>2, <2>3 DEF JoinedAs, JoinedRoomInfo
<1>12. ChangesOf(r, old, new) = a \o b \o c
    BY DEF ChangesOf
<1> HIDE DEF T, a, b, c, v, w, y, renamed, tagged, directed
<1>13. Leads(T, a \o b, x, w) /\ a \o b \in Seq(Steps)
    BY <1>3, <1>4, LeadsOn, ConcatProperties
<1>14. Leads(T, (a \o b) \o c, x, y)
    BY <1>5, <1>13, LeadsOn
<1> QED BY <1>5, <1>9, <1>10, <1>11, <1>12, <1>14 DEF T

----------------------------------------------------------------------------
(* The entry that the loop means a room to have, and the widget's on its    *)
(* way there.                                                               *)

\* The entry x suits what the loop read of room r, which may be going to be removed.
Suits(r, info, removing, x) ==
    /\ info.state = "Invited" =>
          x.is = "invited" /\ x.info.name = info.name /\ (x.hidden = "yes" => removing)
    /\ info.state = "Joined" /\ r \in Spaces => x.is = "none"
    /\ info.state = "Joined" /\ r \notin Spaces =>
          /\ x.is = "joined" /\ x.info = JoinedAs(info)
          /\ \/ x.hidden = "yes" <=> ~should_display_joined_room_entry(info)
             \/ x.hidden = "yes" /\ removing
    /\ info.state \notin {"Invited", "Joined"} => x.is = "none" /\ (x.hidden = "yes" => removing)

Removes(r, d) == d.kind \in {"Reset", "Clear"} \/ (d.kind = "Remove" /\ r \in d.rooms)
Removing(r) == \E d \in Range(diffs) : Removes(r, d)
Fits(r, x) ==
    /\ x \in Views
    /\ r \notin DOMAIN known => x.is = "none" /\ x.hidden = "no"
    /\ r \in DOMAIN known => Suits(r, known[r], Removing(r), x)

ViewsOf(r, x, m, y) ==
    /\ Sees(r, x) /\ Leads(UpdateSteps(r), queue, x, m) /\ Leads(ViewSteps(r), todo, m, y)
    /\ m \in Views /\ Fits(r, y)
ViewsOK == \A r \in Rooms : \E x, m, y : ViewsOf(r, x, m, y)

\* What the loop read of a room is what it is, or will be read again; and a room that
\* the user leaves is about to be removed.
FreshOK ==
    \A r \in DOMAIN known : \/ known[r] = ReadInfo(r)
                            \/ \E d \in Range(diffs) : r \in d.rooms \/ Removes(r, d)
LeavingOK == \A r \in leaving : r \in DOMAIN known /\ Removing(r)

LEMMA add_new_roomSuits ==
    ASSUME NEW r \in Rooms, NEW info \in RoomInfo, NEW x \in Views, x.is = "none", x.hidden = "no",
           NEW removing
    PROVE  \E y \in Views : /\ Leads(ViewSteps(r), add_new_room(r, info), x, y)
                            /\ Suits(r, info, removing, y)
<1>1. PICK y \in Views :
          /\ Leads(ViewSteps(r), add_new_room(r, info), x, y)
          /\ info.state = "Invited" => y.is = "invited" /\ y.info.name = info.name /\ y.hidden = x.hidden
          /\ info.state = "Joined" /\ r \in Spaces => y.is = "none" /\ y.hidden = "no"
          /\ info.state = "Joined" /\ r \notin Spaces =>
                 /\ y.is = "joined" /\ y.info = JoinedAs(info)
                 /\ y.hidden = IF should_display_joined_room_entry(info) THEN x.hidden ELSE "yes"
          /\ info.state \notin {"Invited", "Joined"} => y = x
    BY add_new_roomTurns
<1>2. Suits(r, info, removing, y)
    BY <1>1 DEF Suits
<1> QED BY <1>1, <1>2

LEMMA update_roomSuits ==
    ASSUME NEW r \in Rooms, NEW old \in RoomInfo, NEW new \in RoomInfo, NEW x \in Views,
           NEW removing \in BOOLEAN, Suits(r, old, removing, x),
           old.state = "Joined" => new.state \notin {"Invited", "Knocked"},
           old.state = "Invited" => new.state # "Knocked"
    PROVE  \E y \in Views : /\ Leads(ViewSteps(r), update_room(r, old, new), x, y)
                            /\ Suits(r, new, removing, y)
<1> DEFINE T == ViewSteps(r)
           flip == DisplayFlip(r, old, new)
           rest == CASE old.state = new.state -> ChangesOf(r, old, new)
                     [] old.state # new.state /\ new.state \in {"Banned", "Left"} -> remove_room(r)
                     [] old.state # new.state /\ new.state \notin {"Banned", "Left"} ->
                           add_new_room(r, new)
<1>1. PICK before : before = should_display_joined_room_entry(old)
    OBVIOUS
<1>2. PICK after : after = should_display_joined_room_entry(new)
    OBVIOUS
<1>3. /\ before \in BOOLEAN /\ after \in BOOLEAN
      /\ ~before => old.state = "Joined"
      /\ ~after => new.state = "Joined"
    BY <1>1, <1>2 DEF should_display_joined_room_entry
<1>4. x.is = "invited" => old.state = "Invited"
    BY DEF Suits
<1>5. PICK v \in Views :
          /\ Leads(T, flip, x, v) /\ v.is = x.is /\ v.info = x.info
          /\ v.hidden = IF before /\ ~after THEN "yes" ELSE IF ~before /\ after THEN "no" ELSE x.hidden
    BY <1>1, <1>2, <1>3, <1>4, DisplayFlipTurns
<1>6. \E y \in Views : Leads(T, rest, v, y) /\ Suits(r, new, removing, y)
  <2>1. CASE old.state = new.state
    <3>1. PICK y \in Views :
              /\ Leads(T, ChangesOf(r, old, new), v, y)
              /\ y.is = v.is /\ y.hidden = v.hidden
              /\ v.info.name = old.name => y.info.name = new.name
              /\ new.state = "Joined" /\ v.info = JoinedAs(old) => y.info = JoinedAs(new)
        BY <2>1, ChangesOfTurns
    <3>2. rest = ChangesOf(r, old, new)
        BY <2>1
    <3>3. x.hidden \in {"yes", "no"}
        BY DEF Views
    <3>4. Suits(r, new, removing, y)
      <4>1. CASE new.state = "Joined" /\ r \notin Spaces
        <5>1. /\ x.is = "joined" /\ x.info = JoinedAs(old)
              /\ (x.hidden = "yes" <=> ~before) \/ (x.hidden = "yes" /\ removing)
            BY <1>1, <2>1, <4>1 DEF Suits
        <5>2. y.is = "joined" /\ y.info = JoinedAs(new)
            BY <1>5, <3>1, <4>1, <5>1
        <5>3. (y.hidden = "yes" <=> ~after) \/ (y.hidden = "yes" /\ removing)
            BY <1>3, <1>5, <3>1, <3>3, <5>1
        <5> QED BY <1>2, <4>1, <5>2, <5>3 DEF Suits
      <4>2. CASE new.state = "Joined" /\ r \in Spaces
        <5>1. x.is = "none"
            BY <2>1, <4>2 DEF Suits
        <5> QED BY <1>5, <3>1, <4>2, <5>1 DEF Suits
      <4>3. CASE new.state # "Joined"
        <5>1. y.hidden = x.hidden
            BY <1>3, <1>5, <2>1, <3>1, <4>3
        <5> QED BY <1>5, <2>1, <3>1, <4>3, <5>1 DEF Suits
      <4> QED BY <4>1, <4>2, <4>3
    <3> QED BY <3>1, <3>2, <3>4
  <2>2. CASE old.state # new.state /\ new.state \in {"Banned", "Left"}
    <3>1. PICK y : y = [v EXCEPT !.is = "none", !.hidden = "no"]
        OBVIOUS
    <3>2. y \in Views /\ Leads(T, remove_room(r), v, y)
        BY <3>1, remove_roomTurns
    <3>3. rest = remove_room(r)
        BY <2>2
    <3>4. y.is = "none" /\ y.hidden = "no"
        BY <3>1 DEF Views
    <3>5. Suits(r, new, removing, y)
        BY <2>2, <3>4 DEF Suits
    <3> QED BY <3>2, <3>3, <3>5
  <2>3. CASE old.state # new.state /\ new.state \notin {"Banned", "Left"}
    <3>1. rest = add_new_room(r, new)
        BY <2>3
    <3>2. old.state # "Joined"
      <4>1. new.state \in RoomState
          BY RoomsAssumption DEF RoomInfo
      <4> QED BY <2>3, <4>1 DEF RoomState
    <3>3. before
        BY <1>3, <3>2
    <3>4. v.is # "joined"
        BY <1>5, <3>2 DEF Suits
    <3>5. x.hidden = "yes" => removing
        BY <3>2 DEF Suits
    <3>6. PICK y \in Views :
              /\ Leads(T, add_new_room(r, new), v, y)
              /\ new.state = "Invited" => y.is = "invited" /\ y.info.name = new.name /\ y.hidden = v.hidden
              /\ new.state = "Joined" /\ r \in Spaces => y.is = "none" /\ y.hidden = "no"
              /\ new.state = "Joined" /\ r \notin Spaces =>
                     /\ y.is = "joined" /\ y.info = JoinedAs(new)
                     /\ y.hidden = IF should_display_joined_room_entry(new) THEN v.hidden ELSE "yes"
              /\ new.state \notin {"Invited", "Joined"} => y = v
        BY <3>4, add_new_roomTurns
    <3>7. CASE new.state = "Invited"
      <4>1. v.hidden = x.hidden
          BY <1>3, <1>5, <3>3, <3>7
      <4> QED BY <3>1, <3>5, <3>6, <3>7, <4>1 DEF Suits
    <3>8. CASE new.state = "Joined" /\ r \in Spaces
        BY <3>1, <3>6, <3>8 DEF Suits
    <3>9. CASE new.state = "Joined" /\ r \notin Spaces
      <4>1. y.hidden = IF after THEN v.hidden ELSE "yes"
          BY <1>2, <3>6, <3>9
      <4>2. (y.hidden = "yes" <=> ~after) \/ (y.hidden = "yes" /\ removing)
          BY <1>3, <1>5, <3>3, <3>5, <4>1
      <4>3. Suits(r, new, removing, y)
          BY <1>2, <3>6, <3>9, <4>2 DEF Suits
      <4> QED BY <3>1, <3>6, <4>3
    <3>10. CASE new.state \notin {"Invited", "Joined"}
      <4>1. new.state = "Knocked" \/ new.state \notin RoomState
          BY <2>3, <3>10 DEF RoomState
      <4>2. new.state = "Knocked"
          BY <4>1, RoomsAssumption DEF RoomInfo
      <4>3. x.is = "none" /\ v.hidden = x.hidden
          BY <1>3, <1>5, <3>2, <3>3, <4>2 DEF Suits
      <4>4. Suits(r, new, removing, y)
          BY <1>5, <3>5, <3>6, <3>10, <4>3 DEF Suits
      <4> QED BY <3>1, <3>6, <4>4
    <3> QED BY <3>7, <3>8, <3>9, <3>10
  <2> QED BY <2>1, <2>2, <2>3
<1>7. flip \in Seq(Steps) /\ rest \in Seq(Steps)
  <2>1. flip \in Seq(About(r))
      BY DisplayFlipType
  <2>2. ChangesOf(r, old, new) \in Seq(About(r)) /\ remove_room(r) \in Seq(About(r))
        /\ add_new_room(r, new) \in Seq(About(r))
      BY ChangesOfType, remove_roomType, add_new_roomType
  <2>3. rest \in Seq(About(r))
      BY <2>2
  <2> HIDE DEF flip, rest
  <2> QED BY <2>1, <2>3, AboutSteps
<1>8. update_room(r, old, new) = flip \o rest
    BY DEF update_room
<1> HIDE DEF T, flip, rest
<1> QED BY <1>5, <1>6, <1>7, <1>8, LeadsOn DEF T

----------------------------------------------------------------------------
(* Steps that leave what the loop has to do alone.                          *)

\* A room that the diffs lose is removed by one of them.
LEMMA LostRemoved ==
    ASSUME NEW ds \in Seq(Diffs), NEW p \in SUBSET Rooms, NEW q, Leads(DiffSteps, ds, p, q),
           NEW r \in p, r \notin q
    PROVE  \E d \in Range(ds) : Removes(r, d)
<1> SUFFICES ASSUME \A d \in Range(ds) : ~Removes(r, d) PROVE FALSE
    OBVIOUS
<1> DEFINE I == {s \in SUBSET Rooms : r \in s}
<1>1. ASSUME NEW d \in Range(ds), NEW a \in I, NEW b, <<a, d, b>> \in DiffSteps PROVE b \in I
  <2>1. b \in SUBSET Rooms /\ Follows(a, d, b)
      BY <1>1, DiffStep
  <2>2. d.kind \notin {"Reset", "Clear"} /\ (d.kind = "Remove" => r \notin d.rooms)
      BY DEF Removes
  <2> QED BY <2>1, <2>2 DEF Follows
<1>2. p \in I
    OBVIOUS
<1> HIDE DEF I
<1>3. q \in I
    BY <1>1, <1>2, LeadsWithin
<1> QED BY <1>3 DEF I

LEMMA LostIsRemoving ==
    ASSUME Sound, NEW r \in DOMAIN known, r \notin Listed
    PROVE  Removing(r)
<1>1. /\ diffs \in Seq(Diffs) /\ Leads(DiffSteps, diffs, DOMAIN known \union Appended(todo), Listed)
      /\ DOMAIN known \subseteq Rooms
    BY LookupsType DEF Sound, DiffsOK, ListType
<1>2. PICK p : p = DOMAIN known \union Appended(todo)
    OBVIOUS
<1>3. p \in SUBSET Rooms /\ r \in p /\ Leads(DiffSteps, diffs, p, Listed)
    BY <1>1, <1>2 DEF Appended
<1> QED BY <1>1, <1>3, LostRemoved DEF Removing

LEMMA StillRemoving ==
    ASSUME NEW r, Range(diffs) \subseteq Range(diffs'), Removing(r)
    PROVE  Removing(r)'
BY DEF Removing, Removes

LEMMA SuitsLater ==
    ASSUME NEW r, NEW info, NEW before, NEW after, NEW x, Suits(r, info, before, x), before => after
    PROVE  Suits(r, info, after, x)
BY DEF Suits

LEMMA FitsStill ==
    ASSUME NEW r, NEW x, Fits(r, x), UNCHANGED known, Range(diffs) \subseteq Range(diffs')
    PROVE  Fits(r, x)'
<1>1. PICK before : before = Removing(r)
    OBVIOUS
<1>2. PICK after : after = Removing(r)'
    OBVIOUS
<1>3. before => after
    BY <1>1, <1>2, StillRemoving
<1>4. r \in DOMAIN known => Suits(r, known[r], before, x)
    BY <1>1 DEF Fits
<1>5. r \in DOMAIN known => Suits(r, known[r], after, x)
    BY <1>3, <1>4, SuitsLater
<1>6. r \in DOMAIN known' => Suits(r, known'[r], Removing(r)', x)
    BY <1>2, <1>5
<1>7. r \in DOMAIN known' => Suits(r, known[r], Removing(r), x)'
    BY <1>6 DEF Suits
<1> QED BY <1>7 DEF Fits

LEMMA ViewsKept ==
    ASSUME ViewsOK, UNCHANGED <<todo, queue, known>>, Range(diffs) \subseteq Range(diffs'),
           \A r \in Rooms : \A x : Sees(r, x) => Sees(r, x)'
    PROVE  ViewsOK'
<1> SUFFICES ASSUME NEW r \in Rooms PROVE (\E x, m, y : ViewsOf(r, x, m, y))'
    BY DEF ViewsOK
<1>1. PICK x, m, y : ViewsOf(r, x, m, y)
    BY DEF ViewsOK
<1>2. Sees(r, x)' /\ Fits(r, y)'
    BY <1>1, FitsStill DEF ViewsOf
<1>3. Leads(UpdateSteps(r)', queue', x, m) /\ Leads(ViewSteps(r)', todo', m, y)
    BY <1>1 DEF ViewsOf, UpdateSteps, ViewSteps
<1>4. ViewsOf(r, x, m, y)'
    BY <1>1, <1>2, <1>3 DEF ViewsOf
<1> QED BY <1>4

LEMMA SDKReports ==
    ASSUME Sound, NEW r \in Rooms, RoomChanges(r) \/ UserLeaves(r)
    PROVE  /\ Sound' /\ Range(diffs) \subseteq Range(diffs')
           /\ r \in Listed => \E d \in Range(diffs') : r \in d.rooms
           /\ \A q \in Rooms \ {r} : live'[q] = live[q]
           /\ UNCHANGED <<known, todo, allJoined, queue, ui>>
           /\ leaving' = leaving \/ (leaving' = leaving \union {r} /\ r \notin Listed')
<1>1. PICK info \in RoomInfo :
          /\ Reports(r, info)
          /\ leaving' = leaving \/ (leaving' = leaving \union {r} /\ info.state = "Left")
  <2>1. CASE RoomChanges(r)
    <3>1. PICK info \in OneChange(live[r]) : Reports(r, info)
        BY <2>1 DEF RoomChanges
    <3>2. info \in RoomInfo
        BY OneChangeType DEF Sound, ListType
    <3> QED BY <2>1, <3>1, <3>2 DEF RoomChanges
  <2>2. CASE UserLeaves(r)
    <3> DEFINE info == [live[r] EXCEPT !.state = "Left"]
    <3>1. info \in RoomInfo /\ info.state = "Left"
        BY RoomsAssumption DEF Sound, ListType, RoomInfo
    <3>2. Reports(r, info) /\ leaving' = leaving \union {r}
        BY <2>2 DEF UserLeaves
    <3> QED BY <3>1, <3>2
  <2> QED BY <2>1, <2>2
<1>2. PICK p : Leads(DiffSteps, diffs, p, Listed)
    BY DEF Sound, DiffsOK
<1>3. /\ Range(diffs) \subseteq Range(diffs')
      /\ r \in Listed \union Listed' => \E d \in Range(diffs') : r \in d.rooms
      /\ r \in Listed' <=> Matches(r, info)
      /\ \A q \in Rooms \ {r} : live'[q] = live[q]
    BY <1>1, <1>2, Reported DEF Sound
<1>4. info.state = "Left" => r \notin Listed'
    BY <1>3 DEF Matches
<1>5. Sound' /\ UNCHANGED <<known, todo, allJoined, queue, ui>>
    BY RoomChangesKeeps, UserLeavesKeeps DEF RoomChanges, UserLeaves, loopVars
<1> QED BY <1>1, <1>3, <1>4, <1>5

Sincere == Sound /\ ViewsOK /\ FreshOK /\ LeavingOK

LEMMA SDKKeeps ==
    ASSUME Sincere, NEW r \in Rooms, RoomChanges(r) \/ UserLeaves(r), HiddenBeforeRemoved
    PROVE  Sincere'
<1>1. /\ Sound' /\ Range(diffs) \subseteq Range(diffs')
      /\ r \in Listed => \E d \in Range(diffs') : r \in d.rooms
      /\ \A q \in Rooms \ {r} : live'[q] = live[q]
      /\ UNCHANGED <<known, todo, allJoined, queue, ui>>
      /\ leaving' = leaving \/ (leaving' = leaving \union {r} /\ r \notin Listed')
    BY SDKReports DEF Sincere
<1>2. ViewsOK'
  <2>1. ASSUME NEW q \in Rooms, NEW x, Sees(q, x) PROVE Sees(q, x)'
      BY <1>1, <2>1 DEF Sees, HasView, ShownIn
  <2> QED BY <1>1, <2>1, ViewsKept DEF Sincere
<1>3. FreshOK'
  <2> SUFFICES ASSUME NEW q \in DOMAIN known
               PROVE  \/ known[q] = ReadInfo(q)'
                      \/ \E d \in Range(diffs') : q \in d.rooms \/ Removes(q, d)
      BY <1>1 DEF FreshOK, Removes
  <2>1. DOMAIN known \subseteq Rooms
      BY LookupsType DEF Sincere, Sound, ListType
  <2>2. CASE q # r
    <3>1. ReadInfo(q)' = ReadInfo(q)
        BY <1>1, <2>1, <2>2 DEF ReadInfo
    <3> QED BY <1>1, <3>1 DEF Sincere, FreshOK
  <2>3. CASE q = r /\ r \in Listed
      BY <1>1, <2>3
  <2>4. CASE q = r /\ r \notin Listed
    <3>1. Removing(r)
        BY <2>4, LostIsRemoving DEF Sincere
    <3> QED BY <1>1, <2>4, <3>1 DEF Removing
  <2> QED BY <2>2, <2>3, <2>4
<1>4. LeavingOK'
  <2> SUFFICES ASSUME NEW q \in leaving' PROVE q \in DOMAIN known' /\ Removing(q)'
      BY DEF LeavingOK
  <2>1. q \in DOMAIN known'
      BY DEF HiddenBeforeRemoved
  <2>2. CASE q \in leaving
      BY <1>1, <2>1, <2>2, StillRemoving DEF Sincere, LeavingOK
  <2>3. CASE q = r /\ r \notin Listed'
    <3>1. PICK p : p = DOMAIN known' \union Appended(todo)'
        OBVIOUS
    <3>2. /\ diffs' \in Seq(Diffs) /\ Leads(DiffSteps, diffs', p, Listed')
          /\ DOMAIN known \subseteq Rooms
        BY <1>1, <3>1, LookupsType DEF Sincere, Sound, DiffsOK, ListType, DiffSteps
    <3>3. p \in SUBSET Rooms /\ r \in p
        BY <1>1, <2>1, <2>3, <3>1, <3>2 DEF Appended
    <3>4. \E d \in Range(diffs') : Removes(r, d)
        BY <2>3, <3>2, <3>3, LostRemoved
    <3> QED BY <2>1, <2>3, <3>4 DEF Removing, Removes
  <2> QED BY <1>1, <2>2, <2>3
<1> QED BY <1>1, <1>2, <1>3, <1>4 DEF Sincere

LEMMA ResetReportKeeps ==
    ASSUME Sincere, ListIsReset
    PROVE  Sincere'
<1>1. Sound' /\ Range(diffs) \subseteq Range(diffs')
    BY ListIsResetKeeps DEF Sincere
<1>2. UNCHANGED <<live, leaving, known, todo, queue, ui>>
    BY DEF ListIsReset, loopVars
<1>3. ViewsOK'
  <2>1. ASSUME NEW q \in Rooms, NEW x, Sees(q, x) PROVE Sees(q, x)'
      BY <1>2, <2>1 DEF Sees, HasView, ShownIn
  <2> QED BY <1>1, <1>2, <2>1, ViewsKept DEF Sincere
<1>4. FreshOK'
    BY <1>1, <1>2 DEF Sincere, FreshOK, ReadInfo, Removes
<1>5. LeavingOK'
    BY <1>1, <1>2, StillRemoving DEF Sincere, LeavingOK
<1> QED BY <1>1, <1>3, <1>4, <1>5 DEF Sincere

LEMMA SameFresh ==
    ASSUME FreshOK, LeavingOK, UNCHANGED <<live, diffs, known>>, leaving' \subseteq leaving
    PROVE  FreshOK' /\ LeavingOK'
BY DEF FreshOK, LeavingOK, ReadInfo, Removes, Removing

LEMMA FilterKeeps ==
    ASSUME Sincere, FilterChanges
    PROVE  Sincere'
<1>1. Sound'
    BY OthersKeep DEF Sincere
<1>2. UNCHANGED <<live, diffs, leaving, known, todo, queue>>
    BY DEF FilterChanges, loopVars
<1>3. ViewsOK'
    BY <1>2, SeesFilterChanges, ViewsKept DEF Sincere
<1> QED BY <1>1, <1>2, <1>3, SameFresh DEF Sincere

\* The widget takes the first update of the queue.
LEMMA WidgetShows ==
    ASSUME Sincere, HandlesUpdate
    PROVE  Sincere'
<1>1. Sound' /\ UNCHANGED <<live, diffs, known, todo, leaving>>
    BY WidgetKeeps DEF Sincere
<1>2. FreshOK' /\ LeavingOK'
    BY <1>1, SameFresh DEF Sincere
<1>3. CASE DrainEnds
  <2>1. queue' = queue
      BY <1>3 DEF DrainEnds
  <2>2. ViewsOK'
      BY <1>1, <1>3, <2>1, SeesDrainEnds, ViewsKept DEF Sincere
  <2> QED BY <1>1, <1>2, <2>2 DEF Sincere
<1>4. CASE ~DrainEnds
  <2>1. /\ queue \in Seq(Updates) /\ queue # <<>> /\ queue' = Tail(queue)
    <3>1. \E kind : Handles(kind)
        BY <1>4 DEF HandlesUpdate, HandlesAddInvitedRoom, HandlesAddJoinedRoom,
           HandlesUpdateRoomName, HandlesUpdateIsDirect, HandlesTags, HandlesRemoveRoom,
           HandlesClearRooms, HandlesHideRoom, HandlesUnhideRoom, HandlesRoomOrderUpdate
    <3> QED BY <3>1, Handled DEF Sincere
  <2> SUFFICES ASSUME NEW r \in Rooms PROVE (\E x, m, y : ViewsOf(r, x, m, y))'
      BY <1>1, <1>2 DEF ViewsOK, Sincere
  <2>2. PICK x, m, y : ViewsOf(r, x, m, y)
      BY DEF Sincere, ViewsOK
  <2>3. PICK z : <<x, Head(queue), z>> \in UpdateSteps(r) /\ Leads(UpdateSteps(r), Tail(queue), z, m)
      BY <2>1, <2>2, LeadsFrom DEF ViewsOf
  <2>4. Meets(r, Head(queue), x) /\ z = Updated(r, Head(queue), x)
      BY <2>3 DEF UpdateSteps
  <2>5. Sees(r, z)'
      BY <1>4, <2>2, <2>4, SeesUpdated DEF Sincere, ViewsOf
  <2>6. Fits(r, y)'
      BY <1>1, <2>2, FitsStill DEF ViewsOf
  <2>7. Leads(UpdateSteps(r)', queue', z, m) /\ Leads(ViewSteps(r)', todo', m, y)
      BY <1>1, <2>1, <2>2, <2>3 DEF ViewsOf, UpdateSteps, ViewSteps
  <2>8. ViewsOf(r, z, m, y)'
      BY <2>2, <2>5, <2>6, <2>7 DEF ViewsOf
  <2> QED BY <2>8
<1> QED BY <1>3, <1>4

----------------------------------------------------------------------------
(* Updates that are queued.                                                 *)

LEMMA QueueGrows ==
    ASSUME NEW r \in Rooms, NEW s \in Seq(Updates), NEW u \in Updates, NEW x, NEW m \in Views,
           Leads(UpdateSteps(r), s, x, m), Meets(r, u, m), NEW n, n = Updated(r, u, m)
    PROVE  n \in Views /\ Leads(UpdateSteps(r), Append(s, u), x, n)
<1>1. n \in Views /\ <<m, u, n>> \in UpdateSteps(r)
    BY UpdatedType, UpdateStep
<1>2. Leads(UpdateSteps(r), <<u>>, m, n)
    BY <1>1, LeadsOnce
<1>3. Append(s, u) = s \o <<u>> /\ <<u>> \in Seq(Updates)
    BY RangeOfAppend
<1>4. Leads(UpdateSteps(r), s \o <<u>>, x, n)
    BY <1>2, <1>3, LeadsOn
<1> QED BY <1>1, <1>3, <1>4

\* The head of what the loop has to do turns the entry.
LEMMA ViewsHead ==
    ASSUME Sound, todo # <<>>, NEW r \in Rooms, NEW x, NEW m, NEW y, ViewsOf(r, x, m, y)
    PROVE  /\ todo \in Seq(Steps) /\ Head(todo) \in Steps /\ Tail(todo) \in Seq(Steps)
           /\ m \in Views /\ y \in Views /\ Sees(r, x) /\ Leads(UpdateSteps(r), queue, x, m)
           /\ Fits(r, y)
           /\ \E z \in Views : /\ Proper(r, Head(todo), m) /\ z = Turned(r, Head(todo), m)
                               /\ Leads(ViewSteps(r), Tail(todo), z, y)
<1>1. todo \in Seq(Steps)
    BY DEF Sound, ListType
<1>2. Head(todo) \in Steps /\ Tail(todo) \in Seq(Steps)
    BY <1>1, RangeOfHead
<1>3. PICK z : <<m, Head(todo), z>> \in ViewSteps(r) /\ Leads(ViewSteps(r), Tail(todo), z, y)
    BY <1>1, LeadsFrom DEF ViewsOf
<1>4. Proper(r, Head(todo), m) /\ z = Turned(r, Head(todo), m) /\ z \in Views
    BY <1>3, ViewStepType
<1> QED BY <1>1, <1>2, <1>3, <1>4 DEF ViewsOf, Fits

\* The parts of ViewsOf after a step.
LEMMA ViewsThen ==
    ASSUME NEW r, NEW x, NEW m \in Views, NEW y, Sees(r, x)', Fits(r, y)',
           Leads(UpdateSteps(r), queue', x, m), Leads(ViewSteps(r), todo', m, y)
    PROVE  (\E a, b, c : ViewsOf(r, a, b, c))'
<1>1. Leads(UpdateSteps(r)', queue', x, m) /\ Leads(ViewSteps(r)', todo', m, y)
    BY DEF UpdateSteps, ViewSteps
<1>2. ViewsOf(r, x, m, y)'
    BY <1>1 DEF ViewsOf
<1> QED BY <1>2

LEMMA SeesSame ==
    ASSUME NEW r, NEW x, Sees(r, x), UNCHANGED ui
    PROVE  Sees(r, x)'
BY DEF Sees, HasView, ShownIn

LEMMA PostShows ==
    ASSUME Sincere, PostsUpdate
    PROVE  Sincere'
<1>1. /\ Does("post") /\ todo' = Tail(todo) /\ queue' = Append(queue, Head(todo).update)
      /\ UNCHANGED known
    BY DEF PostsUpdate
<1>2. PICK u \in Updates : u = Head(todo).update
    BY <1>1, Doing DEF Sincere
<1>3. /\ Head(todo).does = "post" /\ todo # <<>>
      /\ UNCHANGED <<live, diffs, leaving, ui>>
    BY <1>1, Doing DEF Sincere
<1>4. Sound' /\ FreshOK' /\ LeavingOK'
    BY <1>1, <1>3, PostsUpdateKeeps, SameFresh DEF Sincere
<1> SUFFICES ASSUME NEW r \in Rooms PROVE (\E x, m, y : ViewsOf(r, x, m, y))'
    BY <1>4 DEF ViewsOK, Sincere
<1>5. PICK x, m, y : ViewsOf(r, x, m, y)
    BY DEF Sincere, ViewsOK
<1>6. /\ m \in Views /\ Sees(r, x) /\ Leads(UpdateSteps(r), queue, x, m) /\ Fits(r, y)
      /\ \E z \in Views : /\ Proper(r, Head(todo), m) /\ z = Turned(r, Head(todo), m)
                          /\ Leads(ViewSteps(r), Tail(todo), z, y)
    BY <1>3, <1>5, ViewsHead DEF Sincere
<1>7. PICK z \in Views : /\ Proper(r, Head(todo), m) /\ z = Turned(r, Head(todo), m)
                         /\ Leads(ViewSteps(r), Tail(todo), z, y)
    BY <1>6
<1>8. Meets(r, u, m) /\ z = Updated(r, u, m)
    BY <1>2, <1>3, <1>7 DEF Proper, Turned
<1>9. queue \in Seq(Updates)
    BY DEF Sincere, Sound, ListType
<1>10. Leads(UpdateSteps(r), Append(queue, u), x, z)
    BY <1>6, <1>8, <1>9, QueueGrows
<1>11. Fits(r, y)'
    BY <1>1, <1>3, <1>6, FitsStill
<1> QED BY <1>1, <1>2, <1>3, <1>6, <1>7, <1>10, <1>11, SeesSame, ViewsThen

LEMMA IdlyShows ==
    ASSUME Sincere, InsertsDetails \/ DropsDetails \/ DropsAll
    PROVE  Sincere'
<1>1. PICK what \in {"insert", "drop", "drop all"} :
          Does(what) /\ todo' = Tail(todo) /\ UNCHANGED <<known, queue>>
    BY Zenon DEF InsertsDetails, DropsDetails, DropsAll
<1>2. Head(todo).does = what /\ todo # <<>> /\ UNCHANGED <<live, diffs, leaving, ui>>
    BY <1>1, Doing DEF Sincere
<1>3. Sound' /\ FreshOK' /\ LeavingOK'
    BY <1>1, <1>2, DetailsKeeps, SameFresh DEF Sincere
<1> SUFFICES ASSUME NEW r \in Rooms PROVE (\E x, m, y : ViewsOf(r, x, m, y))'
    BY <1>3 DEF ViewsOK, Sincere
<1>4. PICK x, m, y : ViewsOf(r, x, m, y)
    BY DEF Sincere, ViewsOK
<1>5. /\ m \in Views /\ Sees(r, x) /\ Leads(UpdateSteps(r), queue, x, m) /\ Fits(r, y)
      /\ \E z \in Views : /\ Proper(r, Head(todo), m) /\ z = Turned(r, Head(todo), m)
                          /\ Leads(ViewSteps(r), Tail(todo), z, y)
    BY <1>2, <1>4, ViewsHead DEF Sincere
<1>6. PICK z \in Views : /\ Proper(r, Head(todo), m) /\ z = Turned(r, Head(todo), m)
                         /\ Leads(ViewSteps(r), Tail(todo), z, y)
    BY <1>5
<1>7. z = m
    BY <1>1, <1>2, <1>6 DEF Turned
<1>8. Fits(r, y)'
    BY <1>1, <1>2, <1>5, FitsStill
<1> QED BY <1>1, <1>2, <1>5, <1>6, <1>7, <1>8, SeesSame, ViewsThen

LEMMA HiddenUpdated ==
    ASSUME NEW r \in Rooms, NEW u \in Updates, NEW x \in Views, NEW w,
           w = [x EXCEPT !.hidden = "yes"]
    PROVE  \/ Updated(r, u, w) = Updated(r, u, x)
           \/ Updated(r, u, w) = [Updated(r, u, x) EXCEPT !.hidden = "yes"]
<1>1. w \in Views /\ w.is = x.is /\ w.info = x.info /\ w.hidden = "yes"
    BY DEF Views
<1>2. PICK y \in Views : y = Updated(r, u, x)
    BY UpdatedType
<1>3. PICK v \in Views : v = Updated(r, u, w)
    BY <1>1, UpdatedType
<1>4. v.is = y.is /\ v.info = y.info /\ (v.hidden = y.hidden \/ v.hidden = "yes")
  <2>1. u.is \in {"AddInvitedRoom", "UpdateRoomName", "AddJoinedRoom", "UpdateIsDirect", "Tags",
                  "RemoveRoom", "HideRoom", "UnhideRoom", "ClearRooms", "RoomOrderUpdate"}
      BY DEF Updates
  <2>2. CASE u.is = "ClearRooms"
      BY <1>1, <1>2, <1>3, <2>2 DEF Updated, Views
  <2>3. CASE u.is # "ClearRooms" /\ ~Concerns(r, u)
      BY <1>1, <1>2, <1>3, <2>3 DEF Updated, Concerns
  <2>4. CASE u.is \in {"AddInvitedRoom", "UpdateRoomName"} /\ Concerns(r, u)
      BY <1>1, <1>2, <1>3, <2>4 DEF Updated, Views
  <2>5. CASE u.is \in {"AddJoinedRoom", "UpdateIsDirect", "Tags"} /\ Concerns(r, u)
      BY <1>1, <1>2, <1>3, <2>5 DEF Updated, Views
  <2>6. CASE u.is \in {"RemoveRoom", "HideRoom", "UnhideRoom"} /\ Concerns(r, u)
      BY <1>1, <1>2, <1>3, <2>6 DEF Updated, Views
  <2> QED BY <2>1, <2>2, <2>3, <2>4, <2>5, <2>6 DEF Concerns
<1>5. v = y \/ v = [y EXCEPT !.hidden = "yes"]
    BY <1>4 DEF Views
<1> QED BY <1>2, <1>3, <1>5

LEMMA HiddenTurned ==
    ASSUME NEW r \in Rooms, NEW e \in Steps, NEW x \in Views, NEW w,
           w = [x EXCEPT !.hidden = "yes"]
    PROVE  \/ Turned(r, e, w) = Turned(r, e, x)
           \/ Turned(r, e, w) = [Turned(r, e, x) EXCEPT !.hidden = "yes"]
<1>1. CASE e.does = "post"
  <2>1. Turned(r, e, w) = Updated(r, e.update, w) /\ Turned(r, e, x) = Updated(r, e.update, x)
      BY <1>1 DEF Turned
  <2>2. e.update \in Updates
      BY <1>1, StepFields
  <2> QED BY <2>1, <2>2, HiddenUpdated
<1>2. CASE e.does = "remove" /\ r \in e.rooms
    BY <1>2 DEF Turned, Views
<1>3. CASE e.does # "post" /\ ~(e.does = "remove" /\ r \in e.rooms)
    BY <1>3 DEF Turned
<1> QED BY <1>1, <1>2, <1>3

\* A room that is hidden sooner ends as it would have, or hidden.
LEMMA HiddenAlong ==
    ASSUME NEW r \in Rooms, NEW s \in Seq(Steps), NEW m \in Views, NEW y \in Views,
           Leads(ViewSteps(r), s, m, y), \A e \in Range(s) : e.does = "append" => r \notin e.rooms,
           NEW n, n = [m EXCEPT !.hidden = "yes"]
    PROVE  \E z \in Views : /\ Leads(ViewSteps(r), s, n, z)
                            /\ z = y \/ z = [y EXCEPT !.hidden = "yes"]
<1> DEFINE T == ViewSteps(r)
           R == {p \in Views \X Views : p[2] = p[1] \/ p[2] = [p[1] EXCEPT !.hidden = "yes"]}
<1>1. <<m, n>> \in R
  <2>1. n \in Views
      BY DEF Views
  <2> QED BY <2>1
<1>2. ASSUME NEW e \in Range(s), NEW a, NEW b, NEW w, <<a, e, b>> \in T, <<a, w>> \in R
      PROVE  \E z : <<w, e, z>> \in T /\ <<b, z>> \in R
  <2>1. /\ a \in Views /\ b \in Views /\ e \in Steps /\ Proper(r, e, a) /\ b = Turned(r, e, a)
        /\ w \in Views /\ (w = a \/ w = [a EXCEPT !.hidden = "yes"])
      BY <1>2, ViewStepType
  <2>2. CASE w = a
      BY <1>2, <2>1, <2>2
  <2>3. CASE w = [a EXCEPT !.hidden = "yes"]
    <3>1. w.is = a.is
        BY <2>1, <2>3 DEF Views
    <3>2. Proper(r, e, w)
        BY <2>1, <3>1 DEF Proper, Meets
    <3>3. PICK z \in Views : z = Turned(r, e, w)
        BY <2>1, TurnedType
    <3>4. <<w, e, z>> \in T
        BY <2>1, <3>2, <3>3, ViewStep
    <3>5. z = b \/ z = [b EXCEPT !.hidden = "yes"]
        BY <2>1, <2>3, <3>3, HiddenTurned
    <3>6. <<b, z>> \in R
        BY <2>1, <3>5
    <3> QED BY <3>4, <3>6
  <2> QED BY <2>1, <2>2, <2>3
<1> HIDE DEF T, R
<1>3. Leads(T, s, m, y)
    BY DEF T
<1>4. \A e \in Range(s) : \A a, b, w :
          <<a, e, b>> \in T /\ <<a, w>> \in R => \E z : <<w, e, z>> \in T /\ <<b, z>> \in R
    BY <1>2
<1>5. \E z : Leads(T, s, n, z) /\ <<y, z>> \in R
    BY <1>1, <1>3, <1>4, LeadsAlong
<1>6. PICK z : Leads(T, s, n, z) /\ <<y, z>> \in R
    BY <1>5
<1>7. z \in Views /\ (z = y \/ z = [y EXCEPT !.hidden = "yes"])
    BY <1>6 DEF R
<1> QED BY <1>6, <1>7 DEF T

\* The App hides a room that the user left, before its removal comes.
LEMMA LeftShows ==
    ASSUME Sincere, NEW r \in Rooms, HandlesLeft(r)
    PROVE  Sincere'
<1>1. /\ r \in leaving /\ leaving' = leaving \ {r} /\ queue' = Append(queue, HideRoom(r))
      /\ UNCHANGED <<live, diffs, known, todo, ui>>
    BY DEF HandlesLeft, loopVars
<1>2. PICK u \in Updates : u = HideRoom(r)
    BY DEF HideRoom, Updates
<1>3. Sound' /\ FreshOK' /\ LeavingOK'
    BY <1>1, OthersKeep, SameFresh DEF Sincere
<1>4. r \in DOMAIN known /\ Removing(r)
    BY <1>1 DEF Sincere, LeavingOK
<1>5. queue \in Seq(Updates) /\ todo \in Seq(Steps)
    BY DEF Sincere, Sound, ListType
<1> SUFFICES ASSUME NEW q \in Rooms PROVE (\E x, m, y : ViewsOf(q, x, m, y))'
    BY <1>3 DEF ViewsOK, Sincere
<1>6. PICK x, m, y : ViewsOf(q, x, m, y)
    BY DEF Sincere, ViewsOK
<1>7. /\ Sees(q, x)' /\ Leads(UpdateSteps(q), queue, x, m) /\ Leads(ViewSteps(q), todo, m, y)
      /\ m \in Views /\ y \in Views /\ Fits(q, y) /\ Fits(q, y)'
    BY <1>1, <1>6, SeesSame, FitsStill DEF ViewsOf, Fits
<1>8. Meets(q, u, m)
    BY <1>2 DEF Meets, HideRoom
<1>9. CASE q # r
  <2>1. m = Updated(q, u, m)
      BY <1>2, <1>9 DEF Updated, Concerns, HideRoom
  <2>2. Leads(UpdateSteps(q), Append(queue, u), x, m)
      BY <1>5, <1>7, <1>8, <2>1, QueueGrows
  <2> QED BY <1>1, <1>2, <1>7, <2>2, ViewsThen
<1>10. CASE q = r
  <2>1. PICK n : n = [m EXCEPT !.hidden = "yes"]
      OBVIOUS
  <2>2. n = Updated(q, u, m)
      BY <1>2, <1>10, <2>1 DEF Updated, Concerns, HideRoom
  <2>3. n \in Views /\ Leads(UpdateSteps(q), Append(queue, u), x, n)
      BY <1>5, <1>7, <1>8, <2>2, QueueGrows
  <2>4. \A e \in Range(todo) : e.does = "append" => q \notin e.rooms
      BY <1>4, <1>10 DEF Sincere, Sound, DiffsOK, Appended
  <2>5. PICK z \in Views : /\ Leads(ViewSteps(q), todo, n, z)
                           /\ z = y \/ z = [y EXCEPT !.hidden = "yes"]
      BY <1>5, <1>7, <2>1, <2>4, HiddenAlong
  <2>6. Fits(q, z)
    <3>1. Suits(q, known[q], TRUE, y) /\ Removing(q) = TRUE
        BY <1>4, <1>7, <1>10 DEF Fits, Removing
    <3>2. z.is = y.is /\ z.info = y.info /\ (z.hidden = y.hidden \/ z.hidden = "yes")
        BY <1>7, <2>5 DEF Views
    <3>3. Suits(q, known[q], TRUE, z)
        BY <3>1, <3>2 DEF Suits
    <3> QED BY <1>4, <1>10, <3>1, <3>3 DEF Fits
  <2>7. Fits(q, z)'
      BY <1>1, <2>6, FitsStill
  <2> QED BY <1>1, <1>2, <1>7, <2>3, <2>5, <2>7, ViewsThen
<1> QED BY <1>9, <1>10

----------------------------------------------------------------------------
(* Diffs that are taken up.                                                 *)

LEMMA RemovingStays ==
    ASSUME Sound, NEW kind, NEW rooms, Takes(kind, rooms), NEW r, ~Removes(r, Head(diffs)),
           Removing(r)
    PROVE  Removing(r)'
<1>1. Range(diffs) = {Head(diffs)} \union Range(diffs')
    BY Taken
<1>2. PICK d \in Range(diffs) : Removes(r, d)
    BY DEF Removing
<1>3. d \in Range(diffs')
    BY <1>1, <1>2
<1> QED BY <1>2, <1>3 DEF Removing, Removes

LEMMA TakenFresh ==
    ASSUME Sincere, HiddenBeforeRemoved, NEW kind, NEW rooms, Takes(kind, rooms),
           \A q \in DOMAIN known' :
               /\ ~Removes(q, Head(diffs))
               /\ \/ known'[q] = ReadInfo(q)
                  \/ q \in DOMAIN known /\ known'[q] = known[q] /\ q \notin rooms
    PROVE  FreshOK' /\ LeavingOK'
<1>1. /\ Range(diffs) = {Head(diffs)} \union Range(diffs') /\ Head(diffs).rooms = rooms
      /\ UNCHANGED <<live, leaving>>
    BY Taken DEF Sincere
<1>2. \A q : ReadInfo(q)' = ReadInfo(q)
    BY <1>1 DEF ReadInfo
<1>3. FreshOK'
  <2> SUFFICES ASSUME NEW q \in DOMAIN known'
               PROVE  \/ known'[q] = ReadInfo(q)'
                      \/ \E d \in Range(diffs') : q \in d.rooms \/ Removes(q, d)
      BY DEF FreshOK, Removes
  <2>1. CASE known'[q] = ReadInfo(q)
      BY <1>2, <2>1
  <2>2. CASE q \in DOMAIN known /\ known'[q] = known[q] /\ q \notin rooms
    <3>1. known[q] = ReadInfo(q) \/ \E d \in Range(diffs) : q \in d.rooms \/ Removes(q, d)
        BY <2>2 DEF Sincere, FreshOK
    <3>2. CASE known[q] = ReadInfo(q)
        BY <1>2, <2>2, <3>2
    <3>3. ASSUME NEW d \in Range(diffs), q \in d.rooms \/ Removes(q, d)
          PROVE  \E e \in Range(diffs') : q \in e.rooms \/ Removes(q, e)
      <4>1. d # Head(diffs)
          BY <1>1, <2>2, <3>3
      <4> QED BY <1>1, <3>3, <4>1
    <3> QED BY <3>1, <3>2, <3>3
  <2> QED BY <2>1, <2>2
<1>4. LeavingOK'
  <2> SUFFICES ASSUME NEW q \in leaving' PROVE q \in DOMAIN known' /\ Removing(q)'
      BY DEF LeavingOK
  <2>1. q \in DOMAIN known' /\ q \in leaving
      BY <1>1 DEF HiddenBeforeRemoved
  <2>2. Removing(q) /\ ~Removes(q, Head(diffs))
      BY <2>1 DEF Sincere, LeavingOK
  <2> QED BY <2>1, <2>2, RemovingStays DEF Sincere
<1> QED BY <1>3, <1>4

\* A diff is taken up when the loop has nothing else to do.
LEMMA TakenShows ==
    ASSUME Sincere, Sound', FreshOK', LeavingOK', NEW kind, NEW rooms, Takes(kind, rooms),
           \A r \in Rooms : \A x : \A m \in Views :
               Sees(r, x) /\ Leads(UpdateSteps(r), queue, x, m) /\ Fits(r, m) =>
                   \E y : Leads(ViewSteps(r), todo', m, y) /\ Fits(r, y)'
    PROVE  Sincere'
<1> SUFFICES ASSUME NEW r \in Rooms PROVE (\E x, m, y : ViewsOf(r, x, m, y))'
    BY DEF ViewsOK, Sincere
<1>1. PICK x, m, v : ViewsOf(r, x, m, v)
    BY DEF Sincere, ViewsOK
<1>2. todo = <<>> /\ UNCHANGED <<queue, ui>>
    BY Taken DEF Sincere
<1>3. v = m
    BY <1>1, <1>2, LeadsByNothing DEF ViewsOf
<1>4. Sees(r, x) /\ Leads(UpdateSteps(r), queue, x, m) /\ Fits(r, m) /\ m \in Views
    BY <1>1, <1>3 DEF ViewsOf
<1>5. PICK y : Leads(ViewSteps(r), todo', m, y) /\ Fits(r, y)'
    BY <1>4
<1> QED BY <1>2, <1>4, <1>5, SeesSame, ViewsThen

LEMMA OneRoomShows ==
    ASSUME Sincere, Sound', HiddenBeforeRemoved, NEW kind \in {"Insert", "Set", "Move", "Remove"},
           NEW r \in Rooms, Takes(kind, {r}), todo' \in Seq(About(r)),
           \A q \in Rooms \ {r} : /\ q \in DOMAIN known' <=> q \in DOMAIN known
                                  /\ q \in DOMAIN known => known'[q] = known[q],
           r \in DOMAIN known' => kind # "Remove" /\ known'[r] = ReadInfo(r),
           \A m \in Views : Fits(r, m) => \E y : Leads(ViewSteps(r), todo', m, y) /\ Fits(r, y)'
    PROVE  Sincere'
<1>1. Head(diffs).kind = kind /\ Head(diffs).rooms = {r}
    BY Taken DEF Sincere
<1>2. \A q : Removes(q, Head(diffs)) => kind = "Remove" /\ q = r
    BY <1>1 DEF Removes
<1>3. DOMAIN known' \subseteq Rooms
  <2>1. known' \in Lookups(RoomInfo)
      BY DEF Sound, ListType, Lookups
  <2> QED BY <2>1, LookupsType
<1>4. FreshOK' /\ LeavingOK'
    BY <1>2, <1>3, TakenFresh
<1> SUFFICES ASSUME NEW q \in Rooms, NEW m \in Views, Fits(q, m), q # r
             PROVE  Leads(ViewSteps(q), todo', m, m) /\ Fits(q, m)'
    BY <1>4, TakenShows
<1>5. Leads(ViewSteps(q), todo', m, m)
    BY ViewIdle
<1>6. PICK before : before = Removing(q)
    OBVIOUS
<1>7. PICK after : after = Removing(q)'
    OBVIOUS
<1>8. before => after
    BY <1>2, <1>6, <1>7, RemovingStays DEF Sincere
<1>9. q \in DOMAIN known => Suits(q, known[q], before, m)
    BY <1>6 DEF Fits
<1>10. q \in DOMAIN known => Suits(q, known[q], after, m)
    BY <1>8, <1>9, SuitsLater
<1>11. q \in DOMAIN known' => Suits(q, known'[q], Removing(q)', m)
    BY <1>7, <1>10
<1>12. q \in DOMAIN known' => Suits(q, known[q], Removing(q), m)'
    BY <1>11 DEF Suits
<1>13. Fits(q, m)'
    BY <1>12 DEF Fits
<1> QED BY <1>5, <1>13

\* What a room that is known fits after a step.
LEMMA FitsThen ==
    ASSUME NEW r, NEW y \in Views, r \in DOMAIN known', NEW after, after = Removing(r)',
           Suits(r, known'[r], after, y)
    PROVE  Fits(r, y)'
<1>1. Suits(r, known'[r], Removing(r)', y)
    OBVIOUS
<1>2. Suits(r, known[r], Removing(r), y)'
    BY <1>1 DEF Suits
<1> QED BY <1>2 DEF Fits

LEMMA FitsGone ==
    ASSUME NEW r, NEW y \in Views, r \notin DOMAIN known', y.is = "none", y.hidden = "no"
    PROVE  Fits(r, y)'
BY DEF Fits

LEMMA SortedTurns ==
    ASSUME NEW r \in Rooms, NEW s \in Seq(About(r)), NEW x \in Views, NEW y \in Views,
           Leads(ViewSteps(r), s, x, y)
    PROVE  /\ Leads(ViewSteps(r), s \o Sort, x, y) /\ Leads(ViewSteps(r), Sort \o s, x, y)
           /\ Leads(ViewSteps(r), Sort \o s \o Sort, x, y)
<1>1. s \in Seq(Steps) /\ Sort \in Seq(Steps)
    BY AboutSteps, StepsType
<1>2. Leads(ViewSteps(r), Sort, x, x) /\ Leads(ViewSteps(r), Sort, y, y)
    BY SortTurns
<1>3. Leads(ViewSteps(r), s \o Sort, x, y)
    BY <1>1, <1>2, LeadsOn
<1>4. Leads(ViewSteps(r), Sort \o s, x, y) /\ Sort \o s \in Seq(Steps)
    BY <1>1, <1>2, LeadsOn, ConcatProperties
<1>5. Leads(ViewSteps(r), (Sort \o s) \o Sort, x, y)
    BY <1>1, <1>2, <1>4, LeadsOn
<1> QED BY <1>3, <1>4, <1>5

LEMMA InsertShows ==
    ASSUME Sincere, HiddenBeforeRemoved, NEW r \in Rooms, InsertDiff(r)
    PROVE  Sincere'
<1> DEFINE info == ReadInfo(r)
<1>1. Takes("Insert", {r}) /\ todo' = add_new_room(r, info) \o Sort /\ known' = With(known, r, info)
    BY DEF InsertDiff
<1>2. info \in RoomInfo
    BY ReadInfoType DEF Sincere, Sound
<1>3. Sound' /\ r \notin DOMAIN known /\ todo' \in Seq(About(r))
    BY InsertDiffKeeps DEF Sincere
<1>4. known'[r] = ReadInfo(r)
    BY <1>1 DEF With
<1> HIDE DEF info
<1>5. /\ DOMAIN known' = DOMAIN known \union {r} /\ known'[r] = info
      /\ \A q \in DOMAIN known \ {r} : known'[q] = known[q]
    BY <1>1 DEF With
<1>6. ASSUME NEW m \in Views, Fits(r, m)
      PROVE  \E y : Leads(ViewSteps(r), todo', m, y) /\ Fits(r, y)'
  <2>1. m.is = "none" /\ m.hidden = "no"
      BY <1>3, <1>6 DEF Fits
  <2>2. PICK after : after = Removing(r)'
      OBVIOUS
  <2>3. PICK y \in Views : Leads(ViewSteps(r), add_new_room(r, info), m, y) /\ Suits(r, info, after, y)
      BY <1>2, <2>1, add_new_roomSuits
  <2>4. Leads(ViewSteps(r), todo', m, y)
      BY <1>1, <1>2, <2>3, add_new_roomType, SortedTurns
  <2>5. Fits(r, y)'
      BY <1>5, <2>2, <2>3, FitsThen
  <2> QED BY <2>4, <2>5
<1> QED BY <1>1, <1>3, <1>4, <1>5, <1>6, OneRoomShows

LEMMA SetShows ==
    ASSUME Sincere, HiddenBeforeRemoved, StepByStep, NEW r \in Rooms, SetDiff(r) \/ MoveDiff(r)
    PROVE  Sincere'
<1> DEFINE new == ReadInfo(r)
           old == known[r]
<1>1. PICK kind \in {"Set", "Move"} :
          /\ known' = With(known, r, new) /\ Takes(kind, {r})
          /\ \/ todo' = update_room(r, old, new)
             \/ todo' = Sort \o update_room(r, old, new) \o Sort
    BY DEF SetDiff, MoveDiff
<1>2. new \in RoomInfo
    BY ReadInfoType DEF Sincere, Sound
<1>3. Sound' /\ r \in DOMAIN known /\ todo' \in Seq(About(r)) /\ old \in RoomInfo
    BY SetDiffKeeps DEF Sincere
<1>4. known'[r] = ReadInfo(r)
    BY <1>1 DEF With
<1> HIDE DEF new
<1>5. /\ DOMAIN known' = DOMAIN known \union {r} /\ known'[r] = new
      /\ \A q \in DOMAIN known \ {r} : known'[q] = known[q]
    BY <1>1 DEF With
<1>6. /\ old.state = "Joined" => new.state \notin {"Invited", "Knocked"}
      /\ old.state = "Invited" => new.state # "Knocked"
    BY <1>3, <1>5 DEF StepByStep
<1>7. ~Removes(r, Head(diffs))
  <2>1. Head(diffs).kind = kind
      BY <1>1, Taken DEF Sincere
  <2> QED BY <2>1 DEF Removes
<1>8. ASSUME NEW m \in Views, Fits(r, m)
      PROVE  \E y : Leads(ViewSteps(r), todo', m, y) /\ Fits(r, y)'
  <2>1. PICK before : before = Removing(r)
      OBVIOUS
  <2>2. PICK after : after = Removing(r)'
      OBVIOUS
  <2>3. (before => after) /\ after \in BOOLEAN
      BY <1>1, <1>7, <2>1, <2>2, RemovingStays DEF Sincere, Removing
  <2>4. Suits(r, old, before, m)
      BY <1>3, <1>8, <2>1 DEF Fits
  <2> HIDE DEF old
  <2>5. Suits(r, old, after, m)
      BY <2>3, <2>4, SuitsLater
  <2>6. PICK y \in Views : Leads(ViewSteps(r), update_room(r, old, new), m, y) /\ Suits(r, new, after, y)
      BY <1>2, <1>3, <1>6, <2>3, <2>5, update_roomSuits
  <2>7. Leads(ViewSteps(r), todo', m, y)
    <3>1. update_room(r, old, new) \in Seq(About(r))
        BY <1>2, <1>3, update_roomType
    <3>2. Leads(ViewSteps(r), Sort \o update_room(r, old, new) \o Sort, m, y)
        BY <2>6, <3>1, SortedTurns
    <3> QED BY <1>1, <2>6, <3>2
  <2>8. Fits(r, y)'
      BY <1>5, <2>2, <2>6, FitsThen
  <2> QED BY <2>7, <2>8
<1> QED BY <1>1, <1>3, <1>4, <1>5, <1>8, OneRoomShows

LEMMA RemoveShows ==
    ASSUME Sincere, HiddenBeforeRemoved, NEW r \in Rooms, RemoveDiff(r)
    PROVE  Sincere'
<1>1. Takes("Remove", {r}) /\ todo' = Sort \o remove_room(r) /\ known' = Without(known, r)
    BY DEF RemoveDiff
<1>2. Sound' /\ todo' \in Seq(About(r))
    BY RemoveDiffKeeps DEF Sincere
<1>3. /\ r \notin DOMAIN known'
      /\ \A q \in Rooms \ {r} : /\ q \in DOMAIN known' <=> q \in DOMAIN known
                                /\ q \in DOMAIN known => known'[q] = known[q]
    BY <1>1 DEF Without, Restrict
<1>4. ASSUME NEW m \in Views
      PROVE  \E y : Leads(ViewSteps(r), todo', m, y) /\ Fits(r, y)'
  <2>1. PICK y : y = [m EXCEPT !.is = "none", !.hidden = "no"]
      OBVIOUS
  <2>2. y \in Views /\ Leads(ViewSteps(r), remove_room(r), m, y) /\ remove_room(r) \in Seq(About(r))
      BY <2>1, remove_roomTurns, remove_roomType
  <2>3. y.is = "none" /\ y.hidden = "no"
      BY <2>1 DEF Views
  <2>4. Leads(ViewSteps(r), todo', m, y)
      BY <1>1, <2>2, SortedTurns
  <2>5. Fits(r, y)'
      BY <1>3, <2>2, <2>3, FitsGone
  <2> QED BY <2>4, <2>5
<1> QED BY <1>1, <1>2, <1>3, <1>4, OneRoomShows

\* What is to be removed loses its entry, one room after the other.
EntryLeft(r, rooms, x) == IF r \in rooms THEN [x EXCEPT !.is = "none", !.hidden = "no"] ELSE x

LEMMA RemoveRoomsTurns ==
    ASSUME NEW r \in Rooms, NEW x \in Views, NEW rooms \in SUBSET Rooms
    PROVE  /\ RemoveRooms(rooms) \in Seq(Steps) /\ EntryLeft(r, rooms, x) \in Views
           /\ Leads(ViewSteps(r), RemoveRooms(rooms), x, EntryLeft(r, rooms, x))
<1> DEFINE e == [does |-> "remove", rooms |-> rooms]
<1>1. RemoveRooms(rooms) \in Seq(Steps)
    BY StepsType
<1>2. PICK y : y = EntryLeft(r, rooms, x)
    OBVIOUS
<1>3. y \in Views /\ y = IF r \in rooms THEN [x EXCEPT !.is = "none", !.hidden = "no"] ELSE x
    BY <1>2 DEF Views, EntryLeft
<1>4. CASE rooms = {}
  <2>1. RemoveRooms(rooms) = <<>> /\ y = x
      BY <1>3, <1>4 DEF RemoveRooms, When
  <2> QED BY <1>1, <1>2, <1>3, <2>1, LeadsNowhere
<1>5. CASE rooms # {}
  <2>1. RemoveRooms(rooms) = <<e>>
      BY <1>5 DEF RemoveRooms, When
  <2>2. e \in Steps /\ e.does = "remove" /\ e.rooms = rooms
      BY DEF Steps
  <2> HIDE DEF e
  <2>3. Proper(r, e, x) /\ Turned(r, e, x) = y
      BY <1>3, <2>2 DEF Proper, Turned
  <2>4. <<x, e, y>> \in ViewSteps(r)
      BY <2>2, <2>3, ViewStep
  <2>5. Leads(ViewSteps(r), <<e>>, x, y)
      BY <2>4, LeadsOnce
  <2> QED BY <1>1, <1>2, <1>3, <2>1, <2>5
<1> QED BY <1>4, <1>5

LEMMA AppendRoomsTurns ==
    ASSUME NEW r \in Rooms, NEW x \in Views, NEW rooms \in SUBSET Rooms,
           r \in rooms => x.is = "none" /\ x.hidden = "no"
    PROVE  AppendRooms(rooms) \in Seq(Steps) /\ Leads(ViewSteps(r), AppendRooms(rooms), x, x)
<1> DEFINE e == [does |-> "append", rooms |-> rooms]
<1>1. AppendRooms(rooms) \in Seq(Steps)
    BY StepsType
<1>2. CASE rooms = {}
  <2>1. AppendRooms(rooms) = <<>>
      BY <1>2 DEF AppendRooms, When
  <2> QED BY <1>1, <2>1, LeadsNowhere
<1>3. CASE rooms # {}
  <2>1. AppendRooms(rooms) = <<e>>
      BY <1>3 DEF AppendRooms, When
  <2>2. e \in Steps /\ e.does = "append" /\ e.rooms = rooms
      BY DEF Steps
  <2> HIDE DEF e
  <2>3. Proper(r, e, x) /\ Turned(r, e, x) = x
      BY <2>2 DEF Proper, Turned
  <2>4. <<x, e, x>> \in ViewSteps(r)
      BY <2>2, <2>3, ViewStep
  <2>5. Leads(ViewSteps(r), <<e>>, x, x)
      BY <2>4, LeadsOnce
  <2> QED BY <1>1, <2>1, <2>5
<1> QED BY <1>2, <1>3

LEMMA AppendingTurns ==
    ASSUME NEW r \in Rooms, NEW x \in Views, x.is = "none", x.hidden = "no", NEW rooms \in SUBSET Rooms
    PROVE  /\ AppendRooms(rooms) \o When(rooms # {}, Sort) \in Seq(Steps)
           /\ Leads(ViewSteps(r), AppendRooms(rooms) \o When(rooms # {}, Sort), x, x)
<1> DEFINE a == AppendRooms(rooms)
           b == When(rooms # {}, Sort)
<1>1. a \in Seq(Steps) /\ Leads(ViewSteps(r), a, x, x)
    BY AppendRoomsTurns
<1>2. b \in Seq(Steps) /\ Leads(ViewSteps(r), b, x, x)
  <2>1. Sort \in Seq(Steps) /\ Leads(ViewSteps(r), Sort, x, x)
      BY SortTurns
  <2> QED BY <2>1, LeadsWhen
<1> HIDE DEF a, b
<1>3. a \o b \in Seq(Steps) /\ Leads(ViewSteps(r), a \o b, x, x)
    BY <1>1, <1>2, LeadsOn, ConcatProperties
<1> QED BY <1>3 DEF a, b

\* Clearing the lists takes every entry off them, and leaves what is hidden hidden.
LEMMA ClearingTurns ==
    ASSUME NEW r \in Rooms, NEW x \in Views, x.hidden = "no"
    PROVE  /\ <<DropAll>> \in Seq(Steps) /\ <<Post(ClearRooms)>> \in Seq(Steps)
           /\ Leads(ViewSteps(r), <<DropAll>>, x, x)
           /\ \E y \in Views : /\ Leads(ViewSteps(r), <<Post(ClearRooms)>>, x, y)
                               /\ y.is = "none" /\ y.hidden = "no"
<1> DEFINE y == [x EXCEPT !.is = "none"]
<1>1. DropAll \in Steps /\ DropAll.does = "drop all" /\ Post(ClearRooms) \in Steps
    BY DEF Post, DropAll, ClearRooms, Steps, Updates
<1>2. y \in Views /\ y.is = "none" /\ y.hidden = "no"
    BY DEF Views
<1>3. Proper(r, Post(ClearRooms), x) /\ Turned(r, Post(ClearRooms), x) = y
    BY DEF Proper, Turned, Meets, Concerns, Updated, Post, ClearRooms
<1> HIDE DEF y
<1>4. <<x, Post(ClearRooms), y>> \in ViewSteps(r)
    BY <1>1, <1>3, ViewStep
<1>5. Leads(ViewSteps(r), <<Post(ClearRooms)>>, x, y)
    BY <1>4, LeadsOnce
<1>6. Leads(ViewSteps(r), <<DropAll>>, x, x) /\ <<DropAll>> \in Seq(Steps)
    BY <1>1, IdleTurns
<1>7. <<Post(ClearRooms)>> \in Seq(Steps)
    BY StepsType
<1> QED BY <1>2, <1>5, <1>6, <1>7

\* No update but HideRoom hides a room.
LEMMA StaysUnhidden ==
    ASSUME NEW r, NEW s \in Seq(Updates), NEW x \in Views, NEW m, Leads(UpdateSteps(r), s, x, m),
           x.hidden = "no", \A u \in Range(s) : u.is # "HideRoom"
    PROVE  m.hidden = "no"
<1> DEFINE I == {v \in Views : v.hidden = "no"}
<1>1. ASSUME NEW u \in Range(s), NEW a \in I, NEW b, <<a, u, b>> \in UpdateSteps(r) PROVE b \in I
  <2>1. b \in Views /\ b = Updated(r, u, a) /\ u \in Updates /\ a \in Views /\ a.hidden = "no"
      BY <1>1 DEF UpdateSteps
  <2>2. u.is \in {"AddInvitedRoom", "UpdateRoomName", "AddJoinedRoom", "UpdateIsDirect", "Tags",
                  "RemoveRoom", "UnhideRoom", "ClearRooms", "RoomOrderUpdate"}
    <3>1. u.is \in {"AddInvitedRoom", "UpdateRoomName", "AddJoinedRoom", "UpdateIsDirect", "Tags",
                    "RemoveRoom", "HideRoom", "UnhideRoom", "ClearRooms", "RoomOrderUpdate"}
        BY <2>1 DEF Updates
    <3>2. u.is # "HideRoom"
        OBVIOUS
    <3> QED BY <3>1, <3>2
  <2>3. CASE u.is = "ClearRooms"
      BY <2>1, <2>3 DEF Updated, Views
  <2>4. CASE u.is # "ClearRooms" /\ ~Concerns(r, u)
      BY <2>1, <2>4 DEF Updated, Concerns
  <2>5. CASE u.is \in {"AddInvitedRoom", "UpdateRoomName"} /\ Concerns(r, u)
      BY <2>1, <2>5 DEF Updated, Views
  <2>6. CASE u.is \in {"AddJoinedRoom", "UpdateIsDirect", "Tags"} /\ Concerns(r, u)
      BY <2>1, <2>6 DEF Updated, Views
  <2>7. CASE u.is \in {"RemoveRoom", "UnhideRoom"} /\ Concerns(r, u)
      BY <2>1, <2>7 DEF Updated, Views
  <2>8. b.hidden = "no"
      BY <2>2, <2>3, <2>4, <2>5, <2>6, <2>7 DEF Concerns
  <2> QED BY <2>1, <2>8
<1>2. x \in I
    OBVIOUS
<1> HIDE DEF I
<1>3. m \in I
    BY <1>1, <1>2, LeadsWithin
<1> QED BY <1>3 DEF I

LEMMA ClearShows ==
    ASSUME Sincere, HiddenBeforeRemoved, NoneHidden, ClearDiff
    PROVE  Sincere'
<1>1. Takes("Clear", {}) /\ known' = Nothing /\ todo' = <<DropAll>> \o Sort \o <<Post(ClearRooms)>>
    BY DEF ClearDiff
<1>2. Sound' /\ DOMAIN known' = {}
    BY <1>1, ClearDiffKeeps, NothingType DEF Sincere
<1>3. FreshOK' /\ LeavingOK'
    BY <1>1, <1>2, TakenFresh
<1> DEFINE a == <<DropAll>>
           b == <<Post(ClearRooms)>>
<1>4. a \in Seq(Steps) /\ b \in Seq(Steps) /\ Sort \in Seq(Steps) /\ todo' = a \o Sort \o b
    BY <1>1, StepsType
<1>5. todo = <<>> /\ diffs # <<>> /\ diffs' # diffs /\ Head(diffs).kind = "Clear"
  <2>1. todo = <<>> /\ diffs \in Seq(Diffs) /\ diffs # <<>> /\ diffs' = Tail(diffs)
        /\ Head(diffs).kind = "Clear"
      BY <1>1, Taken DEF Sincere
  <2>2. Len(Tail(diffs)) = Len(diffs) - 1 /\ Len(diffs) \in Nat
      BY <2>1, HeadTailProperties, EmptySeq, LenProperties
  <2>3. Len(Tail(diffs)) # Len(diffs)
      BY <2>2
  <2>4. Tail(diffs) # diffs
      BY <2>3, Zenon
  <2> QED BY <2>1, <2>4, Zenon
<1>6. todo' # todo
  <2>1. Range(todo') = Range(a) \union Range(Sort) \union Range(b)
    <3> HIDE DEF a, b
    <3> QED BY <1>4, ThreeInOrder
  <2>2. DropAll \in Range(a)
      BY RangeOfOne
  <2> QED BY <1>5, <2>1, <2>2, RangeOfNothing
<1>7. ui.hidden = {} /\ \A u \in Range(queue) : u.is # "HideRoom"
    BY <1>5, <1>6 DEF NoneHidden, Range
<1> SUFFICES ASSUME NEW r \in Rooms, NEW x, NEW m \in Views, Sees(r, x),
                    Leads(UpdateSteps(r), queue, x, m)
             PROVE  \E y : Leads(ViewSteps(r), todo', m, y) /\ Fits(r, y)'
    BY <1>1, <1>2, <1>3, TakenShows
<1>8. m.hidden = "no"
  <2>1. x \in Views /\ x.hidden = "no"
      BY <1>7 DEF Sees, HasView, Views
  <2>2. queue \in Seq(Updates)
      BY DEF Sincere, Sound, ListType
  <2> QED BY <1>7, <2>1, <2>2, StaysUnhidden
<1> DEFINE T == ViewSteps(r)
<1>9. PICK y \in Views : Leads(T, b, m, y) /\ y.is = "none" /\ y.hidden = "no"
    BY <1>8, ClearingTurns
<1>10. Leads(T, a, m, m) /\ Leads(T, Sort, m, m)
    BY <1>8, ClearingTurns, SortTurns
<1>11. Fits(r, y)'
    BY <1>2, <1>9, FitsGone
<1> HIDE DEF T, a, b
<1>12. Leads(T, a \o Sort, m, m) /\ a \o Sort \in Seq(Steps)
    BY <1>4, <1>10, LeadsOn, ConcatProperties
<1>13. Leads(T, (a \o Sort) \o b, m, y)
    BY <1>4, <1>9, <1>12, LeadsOn
<1> QED BY <1>4, <1>11, <1>13 DEF T

LEMMA ResetShows ==
    ASSUME Sincere, HiddenBeforeRemoved, NEW rooms \in SUBSET Rooms, ResetDiff(rooms)
    PROVE  Sincere'
<1> DEFINE two == <<DropAll, Post(ClearRooms)>>
           clearing == RemoveRooms(DOMAIN known) \o two \o Sort
           adding == AppendRooms(rooms) \o When(rooms # {}, Sort)
<1>1. /\ Takes("Reset", rooms) /\ known' = Nothing
      /\ todo' = RemoveRooms(DOMAIN known) \o two \o Sort \o AppendRooms(rooms)
                 \o When(rooms # {}, Sort)
    BY DEF ResetDiff
<1>2. DOMAIN known \in SUBSET Rooms
    BY LookupsType DEF Sincere, Sound, ListType
<1>3. todo' = clearing \o adding /\ clearing \in Seq(Steps)
    BY <1>1, <1>2, ResetTodo
<1>4. Sound' /\ DOMAIN known' = {}
    BY <1>1, ResetDiffKeeps, NothingType DEF Sincere
<1>5. FreshOK' /\ LeavingOK'
    BY <1>1, <1>4, TakenFresh
<1> SUFFICES ASSUME NEW r \in Rooms, NEW m \in Views, Fits(r, m)
             PROVE  \E y : Leads(ViewSteps(r), todo', m, y) /\ Fits(r, y)'
    BY <1>1, <1>4, <1>5, TakenShows
<1> DEFINE T == ViewSteps(r)
           a == <<DropAll>>
           b == <<Post(ClearRooms)>>
           c == RemoveRooms(DOMAIN known)
<1>6. PICK z : z = EntryLeft(r, DOMAIN known, m)
    OBVIOUS
<1>7. c \in Seq(Steps) /\ Leads(T, c, m, z) /\ z \in Views
    BY <1>2, <1>6, RemoveRoomsTurns
<1>8. z.hidden = "no"
    BY <1>6 DEF Fits, Views, EntryLeft
<1>9. PICK y \in Views : Leads(T, b, z, y) /\ y.is = "none" /\ y.hidden = "no"
    BY <1>7, <1>8, ClearingTurns
<1>10. Leads(T, a, z, z) /\ a \in Seq(Steps) /\ b \in Seq(Steps)
    BY <1>7, <1>8, ClearingTurns
<1>11. Sort \in Seq(Steps) /\ Leads(T, Sort, y, y)
    BY SortTurns
<1>12. adding \in Seq(Steps) /\ Leads(T, adding, y, y)
    BY <1>9, AppendingTurns
<1>13. Fits(r, y)'
    BY <1>4, <1>9, FitsGone
<1>14. two = a \o b
    BY PairIsConcat
<1> HIDE DEF T, a, b, c, two, adding
<1>15. Leads(T, two, z, y) /\ two \in Seq(Steps)
    BY <1>9, <1>10, <1>14, LeadsOn, ConcatProperties
<1>16. Leads(T, c \o two, m, y) /\ c \o two \in Seq(Steps)
    BY <1>7, <1>15, LeadsOn, ConcatProperties
<1>17. Leads(T, (c \o two) \o Sort, m, y)
    BY <1>11, <1>16, LeadsOn
<1>18. clearing = (c \o two) \o Sort
    BY DEF c
<1> HIDE DEF clearing
<1>19. Leads(T, clearing \o adding, m, y)
    BY <1>3, <1>12, <1>17, <1>18, LeadsOn
<1> QED BY <1>3, <1>13, <1>19 DEF T

LEMMA AppendShows ==
    ASSUME Sincere, HiddenBeforeRemoved, NEW rooms \in SUBSET Rooms, AppendDiff(rooms)
    PROVE  Sincere'
<1>1. Takes("Append", rooms) /\ todo' = AppendRooms(rooms) \o When(rooms # {}, Sort)
      /\ known' = known
    BY DEF AppendDiff
<1>2. Sound' /\ DOMAIN known = {}
    BY AppendDiffKeeps DEF Sincere
<1>3. FreshOK' /\ LeavingOK'
    BY <1>1, <1>2, TakenFresh
<1> SUFFICES ASSUME NEW r \in Rooms, NEW m \in Views, Fits(r, m)
             PROVE  Leads(ViewSteps(r), todo', m, m) /\ Fits(r, m)'
    BY <1>1, <1>2, <1>3, TakenShows
<1>4. m.is = "none" /\ m.hidden = "no"
    BY <1>2 DEF Fits
<1> QED BY <1>1, <1>2, <1>4, AppendingTurns, FitsGone

----------------------------------------------------------------------------
(* Rooms that are removed, or added, one after the other.                   *)

LEMMA RemovesShow ==
    ASSUME Sincere, NEW r \in Rooms, RemovesRoom(r)
    PROVE  Sincere'
<1> DEFINE rooms == Head(todo).rooms
           a == remove_room(r)
           b == RemoveRooms(rooms \ {r})
<1>1. /\ Does("remove") /\ r \in rooms /\ UNCHANGED <<known, queue>>
      /\ todo' = a \o b \o Tail(todo)
    BY DEF RemovesRoom, TakesRoom
<1>2. /\ todo # <<>> /\ Head(todo).does = "remove" /\ rooms \in SUBSET Rooms
      /\ Tail(todo) \in Seq(Steps) /\ UNCHANGED <<live, diffs, leaving, ui>>
    BY <1>1, Doing DEF Sincere
<1>3. Sound' /\ FreshOK' /\ LeavingOK'
    BY <1>1, <1>2, RemovesRoomKeeps, SameFresh DEF Sincere
<1> SUFFICES ASSUME NEW q \in Rooms PROVE (\E x, m, y : ViewsOf(q, x, m, y))'
    BY <1>3 DEF ViewsOK, Sincere
<1>4. PICK x, m, y : ViewsOf(q, x, m, y)
    BY DEF Sincere, ViewsOK
<1>5. /\ m \in Views /\ Sees(q, x) /\ Leads(UpdateSteps(q), queue, x, m) /\ Fits(q, y)
      /\ \E z \in Views : /\ Proper(q, Head(todo), m) /\ z = Turned(q, Head(todo), m)
                          /\ Leads(ViewSteps(q), Tail(todo), z, y)
    BY <1>2, <1>4, ViewsHead DEF Sincere
<1>6. PICK z \in Views : /\ z = Turned(q, Head(todo), m) /\ Leads(ViewSteps(q), Tail(todo), z, y)
    BY <1>5
<1>7. z = IF q \in rooms THEN [m EXCEPT !.is = "none", !.hidden = "no"] ELSE m
    BY <1>2, <1>6 DEF Turned
<1> DEFINE T == ViewSteps(q)
<1>8. PICK w : w = IF q = r THEN z ELSE m
    OBVIOUS
<1>9. a \in Seq(Steps) /\ Leads(T, a, m, w) /\ w \in Views
  <2>1. a \in Seq(About(r)) /\ a \in Seq(Steps)
      BY remove_roomType, AboutSteps
  <2>2. CASE q = r
    <3>1. w = [m EXCEPT !.is = "none", !.hidden = "no"]
        BY <1>1, <1>7, <1>8, <2>2
    <3> QED BY <1>5, <2>1, <2>2, <3>1, remove_roomTurns
  <2>3. CASE q # r
      BY <1>5, <1>8, <2>1, <2>3, ViewIdle
  <2> QED BY <2>2, <2>3
<1>10. b \in Seq(Steps) /\ Leads(T, b, w, z)
  <2> DEFINE rest == rooms \ {r}
  <2>1. rest \in SUBSET Rooms
      BY <1>2
  <2>2. z = EntryLeft(q, rest, w)
      BY <1>7, <1>8 DEF EntryLeft
  <2>3. b = RemoveRooms(rest)
      OBVIOUS
  <2> HIDE DEF b, rest
  <2>4. RemoveRooms(rest) \in Seq(Steps) /\ Leads(ViewSteps(q), RemoveRooms(rest), w, z)
      BY <1>9, <2>1, <2>2, RemoveRoomsTurns
  <2> QED BY <2>3, <2>4
<1>11. Leads(T, Tail(todo), z, y)
    BY <1>6
<1> HIDE DEF T, a, b
<1>12. Leads(T, a \o b, m, z) /\ a \o b \in Seq(Steps)
    BY <1>9, <1>10, LeadsOn, ConcatProperties
<1>13. Leads(T, (a \o b) \o Tail(todo), m, y)
    BY <1>2, <1>11, <1>12, LeadsOn
<1>14. Leads(ViewSteps(q), todo', m, y)
    BY <1>1, <1>13 DEF T
<1>15. Fits(q, y)'
    BY <1>1, <1>2, <1>5, FitsStill
<1> QED BY <1>1, <1>2, <1>5, <1>14, <1>15, SeesSame, ViewsThen

LEMMA AppendsShow ==
    ASSUME Sincere, NEW r \in Rooms, AppendsRoom(r)
    PROVE  Sincere'
<1> DEFINE rooms == Head(todo).rooms
           info == ReadInfo(r)
           a == add_new_room(r, info)
           b == AppendRooms(rooms \ {r})
<1>1. /\ Does("append") /\ r \in rooms /\ UNCHANGED queue
      /\ todo' = a \o b \o Tail(todo) /\ known' = With(known, r, info)
    BY DEF AppendsRoom, TakesRoom
<1>2. /\ todo # <<>> /\ Head(todo).does = "append" /\ rooms \in SUBSET Rooms
      /\ Tail(todo) \in Seq(Steps) /\ \A e \in Range(Tail(todo)) : e = Post(RoomOrderUpdate)
      /\ UNCHANGED <<live, diffs, leaving, ui>>
    BY <1>1, Doing DEF Sincere
<1>3. Sound' /\ info \in RoomInfo /\ r \notin DOMAIN known
    BY AppendsRoomKeeps DEF Sincere
<1>4. /\ DOMAIN known' = DOMAIN known \union {r} /\ known'[r] = info
      /\ \A q \in DOMAIN known \ {r} : known'[q] = known[q]
    BY <1>1 DEF With
<1>5. FreshOK' /\ LeavingOK'
  <2>1. \A q \in DOMAIN known' : known'[q] = ReadInfo(q) \/ (q \in DOMAIN known /\ known'[q] = known[q])
      BY <1>4
  <2>2. \A q : ReadInfo(q)' = ReadInfo(q)
      BY <1>2 DEF ReadInfo
  <2>3. FreshOK'
      BY <1>2, <2>1, <2>2 DEF Sincere, FreshOK, Removes
  <2>4. LeavingOK'
      BY <1>2, <1>4 DEF Sincere, LeavingOK, Removing, Removes
  <2> QED BY <2>3, <2>4
<1> HIDE DEF info
<1> SUFFICES ASSUME NEW q \in Rooms PROVE (\E x, m, y : ViewsOf(q, x, m, y))'
    BY <1>3, <1>5 DEF ViewsOK, Sincere
<1>6. PICK x, m, y : ViewsOf(q, x, m, y)
    BY DEF Sincere, ViewsOK
<1>7. /\ m \in Views /\ Sees(q, x) /\ Leads(UpdateSteps(q), queue, x, m) /\ Fits(q, y)
      /\ \E z \in Views : /\ Proper(q, Head(todo), m) /\ z = Turned(q, Head(todo), m)
                          /\ Leads(ViewSteps(q), Tail(todo), z, y)
    BY <1>2, <1>6, ViewsHead DEF Sincere
<1>8. PICK z \in Views : /\ Proper(q, Head(todo), m) /\ z = Turned(q, Head(todo), m)
                         /\ Leads(ViewSteps(q), Tail(todo), z, y)
    BY <1>7
<1>9. z = m /\ (q \in rooms => m.is = "none" /\ m.hidden = "no")
    BY <1>2, <1>8 DEF Proper, Turned
<1>10. y = m
  <2> DEFINE I == {m}
  <2>1. \A e \in Range(Tail(todo)) : \A c, d :
            c \in I /\ <<c, e, d>> \in ViewSteps(q) => d \in I
    <3> SUFFICES ASSUME NEW d, <<m, Post(RoomOrderUpdate), d>> \in ViewSteps(q)
                 PROVE  d = m
        BY <1>2
    <3>1. d = Turned(q, Post(RoomOrderUpdate), m)
        BY ViewStepType
    <3> QED BY <3>1 DEF Turned, Post, RoomOrderUpdate, Updated, Concerns
  <2>2. m \in I
      OBVIOUS
  <2>3. Leads(ViewSteps(q), Tail(todo), m, y)
      BY <1>8, <1>9
  <2> HIDE DEF I
  <2>4. y \in I
      BY <1>2, <2>1, <2>2, <2>3, LeadsWithin
  <2> QED BY <2>4 DEF I
<1> DEFINE T == ViewSteps(q)
<1>11. \E w \in Views : Leads(T, a, m, w) /\ Fits(q, w)' /\ (q # r => w = m)
  <2>1. CASE q = r
    <3>1. PICK after : after = Removing(r)'
        OBVIOUS
    <3>2. m.is = "none" /\ m.hidden = "no"
        BY <1>1, <1>9, <2>1
    <3>3. PICK w \in Views : Leads(ViewSteps(r), add_new_room(r, info), m, w) /\ Suits(r, info, after, w)
        BY <1>3, <1>7, <3>2, add_new_roomSuits
    <3>4. Fits(q, w)'
        BY <1>4, <2>1, <3>1, <3>3, FitsThen
    <3>5. Leads(T, a, m, w)
        BY <2>1, <3>3
    <3> HIDE DEF T, a
    <3> WITNESS w \in Views
    <3> QED BY <2>1, <3>4, <3>5
  <2>2. CASE q # r
    <3>1. a \in Seq(About(r))
        BY <1>3, add_new_roomType
    <3>2. Leads(T, a, m, m)
        BY <1>7, <2>2, <3>1, ViewIdle
    <3>3. CASE q \notin DOMAIN known
      <4>1. q \notin DOMAIN known' /\ m.is = "none" /\ m.hidden = "no"
          BY <1>4, <1>7, <1>10, <2>2, <3>3 DEF Fits
      <4>2. Fits(q, m)'
          BY <1>7, <4>1, FitsGone
      <4> HIDE DEF T, a
      <4> m \in Views
          BY <1>7
      <4> WITNESS m \in Views
      <4> QED BY <2>2, <3>2, <4>2
    <3>4. CASE q \in DOMAIN known
      <4>1. PICK before : before = Removing(q)
          OBVIOUS
      <4>2. before = Removing(q)'
          BY <1>2, <4>1 DEF Removing, Removes
      <4>3. Suits(q, known[q], before, m)
          BY <1>7, <1>10, <3>4, <4>1 DEF Fits
      <4>4. Suits(q, known'[q], before, m) /\ q \in DOMAIN known'
          BY <1>4, <2>2, <3>4, <4>3
      <4>5. Fits(q, m)'
          BY <1>7, <4>2, <4>4, FitsThen
      <4> HIDE DEF T, a
      <4> m \in Views
          BY <1>7
      <4> WITNESS m \in Views
      <4> QED BY <2>2, <3>2, <4>5
    <3> QED BY <3>3, <3>4
  <2> HIDE DEF T, a
  <2> QED BY <2>1, <2>2
<1> DEFINE B(v) == v \in Views /\ Leads(T, a, m, v) /\ Fits(q, v)' /\ (q # r => v = m)
<1>18. PICK w : B(w)
    BY <1>11
<1>19. w \in Views /\ Leads(T, a, m, w) /\ Fits(q, w)' /\ (q # r => w = m)
    BY <1>18
<1>12. a \in Seq(Steps)
    BY <1>3, add_new_roomType, AboutSteps
<1>13. b \in Seq(Steps) /\ Leads(T, b, w, w)
  <2>1. q \in rooms \ {r} => w.is = "none" /\ w.hidden = "no"
      BY <1>9, <1>19
  <2>2. rooms \ {r} \in SUBSET Rooms
      BY <1>2
  <2> HIDE DEF rooms
  <2> QED BY <1>19, <2>1, <2>2, AppendRoomsTurns
<1>14. Leads(T, Tail(todo), w, w)
    BY <1>2, <1>19, SortTurns, LeadsIdly
<1> HIDE DEF T, a, b
<1>15. Leads(T, a \o b, m, w) /\ a \o b \in Seq(Steps)
    BY <1>19, <1>12, <1>13, LeadsOn, ConcatProperties
<1>16. Leads(T, (a \o b) \o Tail(todo), m, w)
    BY <1>2, <1>14, <1>15, LeadsOn
<1>17. Leads(ViewSteps(q), todo', m, w)
    BY <1>1, <1>16 DEF T
<1> QED BY <1>1, <1>2, <1>7, <1>19, <1>17, SeesSame, ViewsThen

----------------------------------------------------------------------------
(* The lists show what is listed, once everything is handled.               *)

LEMMA LoopShows ==
    ASSUME Sincere, LoopNext, StepByStep, HiddenBeforeRemoved, NoneHidden
    PROVE  Sincere'
<1>1. ASSUME NEW r \in Rooms, InsertDiff(r) PROVE Sincere'
    BY <1>1, InsertShows
<1>2. ASSUME NEW r \in Rooms, SetDiff(r) \/ MoveDiff(r) PROVE Sincere'
    BY <1>2, SetShows
<1>3. ASSUME NEW r \in Rooms, RemoveDiff(r) PROVE Sincere'
    BY <1>3, RemoveShows
<1>4. ASSUME NEW rooms \in SUBSET Rooms, ResetDiff(rooms) PROVE Sincere'
    BY <1>4, ResetShows
<1>5. ASSUME NEW rooms \in SUBSET Rooms, AppendDiff(rooms) PROVE Sincere'
    BY <1>5, AppendShows
<1>6. CASE ClearDiff
    BY <1>6, ClearShows
<1>7. CASE PostsUpdate
    BY <1>7, PostShows
<1>8. CASE InsertsDetails \/ DropsDetails \/ DropsAll
    BY <1>8, IdlyShows
<1>9. ASSUME NEW r \in Rooms, RemovesRoom(r) PROVE Sincere'
    BY <1>9, RemovesShow
<1>10. ASSUME NEW r \in Rooms, AppendsRoom(r) PROVE Sincere'
    BY <1>10, AppendsShow
<1> QED BY <1>1, <1>2, <1>3, <1>4, <1>5, <1>6, <1>7, <1>8, <1>9, <1>10 DEF LoopNext

LEMMA ListedKeeps ==
    ASSUME Sincere, ListedNext
    PROVE  Sincere'
<1>1. StepByStep /\ HiddenBeforeRemoved /\ NoneHidden
    BY DEF ListedNext
<1>2. CASE ListIsReset
    BY <1>2, ResetReportKeeps
<1>3. ASSUME NEW r \in Rooms, RoomChanges(r) \/ UserLeaves(r) PROVE Sincere'
    BY <1>1, <1>3, SDKKeeps
<1>4. ASSUME NEW r \in Rooms, HandlesLeft(r) PROVE Sincere'
    BY <1>4, LeftShows
<1>5. CASE LoopNext
    BY <1>1, <1>5, LoopShows
<1>6. CASE HandlesUpdate
    BY <1>6, WidgetShows
<1>7. CASE FilterChanges
    BY <1>7, FilterKeeps
<1> QED BY <1>2, <1>3, <1>4, <1>5, <1>6, <1>7 DEF ListedNext

LEMMA NothingKeeps ==
    ASSUME Sincere, UNCHANGED roomsListVars
    PROVE  Sincere'
<1>1. UNCHANGED <<live, diffs, known, todo, allJoined, enqueued, listener, leaving, creating,
                  queue, ui, count>>
    BY DEF roomsListVars, sdkVars, loopVars, listenerVars
<1>2. Sound'
    BY <1>1 DEF Sincere, Sound, ListType, DiffsOK, Listed
<1>3. ViewsOK'
  <2>1. ASSUME NEW r \in Rooms, NEW x, Sees(r, x) PROVE Sees(r, x)'
      BY <1>1, <2>1, SeesSame
  <2>2. Range(diffs) \subseteq Range(diffs')
      BY <1>1
  <2> QED BY <1>1, <2>1, <2>2, ViewsKept DEF Sincere
<1> QED BY <1>1, <1>2, <1>3, SameFresh DEF Sincere

LEMMA StartsSincere ==
    ASSUME RoomsListInit
    PROVE  Sincere
<1> DEFINE x == [is |-> "none", hidden |-> "no",
                 info |-> [direct |-> FALSE, tag |-> "none", name |-> "Empty", placeholder |-> FALSE]]
<1>1. Sound /\ leaving = {} /\ queue = <<>> /\ todo = <<>> /\ DOMAIN known = {}
    BY StartsSound, NothingType DEF RoomsListInit
<1>2. x \in Views /\ x.is = "none" /\ x.hidden = "no"
    BY DEF Views, JoinedRoomInfo, Tag, Name
<1> HIDE DEF x
<1>3. /\ DOMAIN ui.joined = {} /\ DOMAIN ui.invited = {} /\ ui.hidden = {}
      /\ \A l \in Lists : ui.shown[l] = {}
    BY NothingType DEF RoomsListInit
<1>4. ASSUME NEW r \in Rooms PROVE ViewsOf(r, x, x, x)
  <2>1. Sees(r, x)
      BY <1>2, <1>3 DEF Sees, HasView, ShownIn
  <2>2. Fits(r, x)
      BY <1>1, <1>2 DEF Fits
  <2> QED BY <1>1, <1>2, <2>1, <2>2, LeadsNowhere DEF ViewsOf
<1>5. ViewsOK
    BY <1>4 DEF ViewsOK
<1>6. FreshOK /\ LeavingOK
    BY <1>1 DEF FreshOK, LeavingOK
<1> QED BY <1>1, <1>5, <1>6 DEF Sincere

\* The list that the SDK's state of room r calls for, if any.
CalledFor(r, l) ==
    /\ r \in Listed /\ live[r].state \in {"Invited", "Joined"}
    /\ l = IF live[r].state = "Invited" THEN "invited" ELSE ListOf(live[r])
    /\ should_display_joined_room_entry(live[r])
    /\ ui.filtered => live[r].name = "Match"

LEMMA SettledShows ==
    ASSUME Sincere, Settled, NEW r \in Rooms, NEW l \in Lists
    PROVE  r \in ui.shown[l] <=> CalledFor(r, l)
<1>1. diffs = <<>> /\ todo = <<>> /\ queue = <<>>
    BY DEF Settled
<1>2. PICK x, m, y : ViewsOf(r, x, m, y)
    BY DEF Sincere, ViewsOK
<1>3. Sees(r, x) /\ x \in Views /\ Fits(r, x)
  <2>1. /\ Sees(r, x) /\ Fits(r, y)
        /\ Leads(UpdateSteps(r), queue, x, m) /\ Leads(ViewSteps(r), todo, m, y)
      BY <1>2 DEF ViewsOf
  <2>2. x = m
      BY <1>1, <2>1, LeadsByNothing
  <2>3. m = y
      BY <1>1, <2>1, LeadsByNothing
  <2> QED BY <2>1, <2>2, <2>3 DEF Sees
<1>4. DOMAIN known = Listed
  <2>1. Appended(todo) = {}
      BY <1>1, RangeOfNothing DEF Appended
  <2>2. Leads(DiffSteps, diffs, DOMAIN known \union Appended(todo), Listed)
      BY DEF Sincere, Sound, DiffsOK
  <2> QED BY <1>1, <2>1, <2>2, LeadsByNothing
<1>5. ~Removing(r) /\ (r \in Listed => known[r] = ReadInfo(r))
  <2>1. Range(diffs) = {}
      BY <1>1, RangeOfNothing
  <2> QED BY <1>4, <2>1 DEF Removing, Sincere, FreshOK
<1>6. live[r] \in RoomInfo
    BY DEF Sincere, Sound, ListType
<1>7. r \in ui.shown[l] <=> ShownIn(l, x)
    BY <1>3 DEF Sees
<1>8. CASE r \notin Listed
    BY <1>3, <1>4, <1>7, <1>8 DEF Fits, ShownIn, CalledFor
<1>9. CASE r \in Listed
  <2>1. PICK removing : removing = Removing(r)
      OBVIOUS
  <2>2. Suits(r, ReadInfo(r), removing, x) /\ ~removing
    <3>1. Suits(r, known[r], Removing(r), x) /\ known[r] = ReadInfo(r) /\ ~Removing(r)
        BY <1>3, <1>4, <1>5, <1>9 DEF Fits
    <3> QED BY <2>1, <3>1
  <2>3. r \in Spaces => live[r].state = "Invited"
      BY <1>9 DEF Listed, Matches
  <2>4. CASE live[r].state = "Invited"
    <3>1. ReadInfo(r).state = "Invited" /\ ReadInfo(r).name = live[r].name
        BY <1>6, <2>4 DEF ReadInfo, RoomInfo
    <3>2. x.is = "invited" /\ x.info.name = live[r].name /\ x.hidden # "yes"
        BY <2>2, <3>1 DEF Suits
    <3>3. x.hidden = "no"
        BY <1>3, <3>2 DEF Views
    <3>4. should_display_joined_room_entry(live[r])
        BY <2>4 DEF should_display_joined_room_entry
    <3> QED BY <1>7, <1>9, <2>4, <3>2, <3>3, <3>4 DEF ShownIn, CalledFor
  <2>5. CASE live[r].state = "Joined"
    <3>1. ReadInfo(r) = live[r] /\ r \notin Spaces
        BY <2>3, <2>5 DEF ReadInfo
    <3>2. /\ x.is = "joined" /\ x.info = JoinedAs(live[r])
          /\ x.hidden = "yes" <=> ~should_display_joined_room_entry(live[r])
        BY <2>2, <2>5, <3>1 DEF Suits
    <3>3. x.hidden = "no" <=> should_display_joined_room_entry(live[r])
        BY <1>3, <3>2 DEF Views
    <3>4. /\ x.info.name = live[r].name /\ x.info.direct = live[r].direct
          /\ x.info.tag = live[r].tag
        BY <3>2 DEF JoinedAs
    <3>5. ListOf(x.info) = ListOf(live[r])
        BY <3>4 DEF ListOf
    <3> QED BY <1>7, <1>9, <2>5, <3>2, <3>3, <3>4, <3>5 DEF ShownIn, CalledFor
  <2>6. CASE live[r].state \notin {"Invited", "Joined"}
    <3>1. ReadInfo(r).state = live[r].state
        BY <1>6, <2>6 DEF ReadInfo, RoomInfo
    <3>2. x.is = "none"
        BY <2>2, <2>6, <3>1 DEF Suits
    <3> QED BY <1>7, <2>6, <3>2 DEF ShownIn, CalledFor
  <2> QED BY <2>4, <2>5, <2>6
<1> QED BY <1>8, <1>9

LEMMA SincereShows ==
    ASSUME Sincere
    PROVE  ShownIsListed
<1> SUFFICES ASSUME Settled
             PROVE  ui.shown = [l \in Lists |->
                        {r \in Listed :
                            /\ live[r].state \in {"Invited", "Joined"}
                            /\ (IF live[r].state = "Invited" THEN "invited" ELSE ListOf(live[r])) = l
                            /\ should_display_joined_room_entry(live[r])
                            /\ ui.filtered => live[r].name = "Match"}]
    BY DEF ShownIsListed
<1> DEFINE S(l) == {r \in Listed :
                       /\ live[r].state \in {"Invited", "Joined"}
                       /\ (IF live[r].state = "Invited" THEN "invited" ELSE ListOf(live[r])) = l
                       /\ should_display_joined_room_entry(live[r])
                       /\ ui.filtered => live[r].name = "Match"}
<1>1. ui.shown \in [Lists -> SUBSET Rooms] /\ Listed \subseteq Rooms
    BY SeesType DEF Sincere, Listed
<1>2. ASSUME NEW l \in Lists PROVE ui.shown[l] = S(l)
  <2>1. \A r : r \in S(l) <=> CalledFor(r, l)
      BY DEF CalledFor
  <2>2. S(l) \subseteq Rooms
      BY <1>1
  <2>3. ui.shown[l] \subseteq Rooms
      BY <1>1
  <2> HIDE DEF S
  <2> QED BY <2>1, <2>2, <2>3, SettledShows
<1> HIDE DEF S
<1>3. ui.shown = [l \in Lists |-> S(l)]
    BY <1>1, <1>2
<1> QED BY <1>3 DEF S

(* Once every diff and every update is handled, the lists of the widget show   *)
(* what the SDK lists, each room in the list it belongs to, as far as the       *)
(* keywords match: for any rooms and however many changes, if what is listed    *)
(* comes from the SDK's list alone and the events keep their order (ListedNext).*)
THEOREM ShownAlwaysListed == ListedSpec => []ShownIsListed
<1>1. RoomsListInit => Sincere
    BY StartsSincere
<1>2. Sincere /\ [ListedNext]_roomsListVars => Sincere'
    BY ListedKeeps, NothingKeeps
<1>3. Sincere => ShownIsListed
    BY SincereShows
<1> QED BY <1>1, <1>2, <1>3, PTL DEF ListedSpec

=============================================================================
