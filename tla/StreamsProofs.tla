---------------------------- MODULE StreamsProofs ---------------------------
(***************************************************************************)
(* What sorting and picking do to lists of any length, and what the        *)
(* ingester makes of lines that arrive venue by venue in some order.       *)
(***************************************************************************)
EXTENDS Streams, IngesterProofs

-----------------------------------------------------------------------------
(* Sorting: the elements of S are ranked by how many do not sort later.    *)

Ahead(key, i, j) == key[i] < key[j] \/ (key[i] = key[j] /\ i < j)

UpTo(S, key, i) == {j \in S : key[j] < key[i] \/ (key[j] = key[i] /\ j <= i)}

LEMMA RankOrders ==
    ASSUME NEW S, S \subseteq Nat, IsFiniteSet(S), NEW key \in [S -> Nat],
           NEW a \in S, NEW b \in S, Ahead(key, a, b)
    PROVE  Cardinality(UpTo(S, key, a)) < Cardinality(UpTo(S, key, b))
<1>1. /\ a \in Nat /\ b \in Nat /\ key[a] \in Nat /\ key[b] \in Nat
      /\ \A j \in S : j \in Nat /\ key[j] \in Nat
  OBVIOUS
<1>2. ASSUME NEW j \in UpTo(S, key, a)
      PROVE  j \in UpTo(S, key, b)
  <2>1. j \in S /\ (key[j] < key[a] \/ (key[j] = key[a] /\ j <= a))
    BY DEF UpTo
  <2>2. j \in Nat /\ key[j] \in Nat
    BY <1>1, <2>1
  <2>3. key[j] < key[b] \/ (key[j] = key[b] /\ j <= b)
    BY <1>1, <2>1, <2>2 DEF Ahead
  <2> QED
    BY <2>1, <2>3 DEF UpTo
<1>3. b \in UpTo(S, key, b) /\ b \notin UpTo(S, key, a)
  BY <1>1 DEF UpTo, Ahead
<1>4. UpTo(S, key, b) \subseteq S
  BY DEF UpTo
<1>5. IsFiniteSet(UpTo(S, key, b)) /\ IsFiniteSet(UpTo(S, key, a))
  BY <1>2, <1>4, FS_Subset
<1>6. /\ Cardinality(UpTo(S, key, a)) \in Nat /\ Cardinality(UpTo(S, key, b)) \in Nat
      /\ Cardinality(UpTo(S, key, a)) <= Cardinality(UpTo(S, key, b))
      /\ Cardinality(UpTo(S, key, b)) = Cardinality(UpTo(S, key, a))
            => UpTo(S, key, b) = UpTo(S, key, a)
  BY <1>2, <1>5, FS_Subset, FS_CardinalityType
<1> QED
  BY <1>3, <1>6

LEMMA RankIsPlace ==
    ASSUME NEW S, S \subseteq Nat, IsFiniteSet(S), NEW key \in [S -> Nat]
    PROVE  /\ Cardinality(S) \in Nat
           /\ \A i \in S : Cardinality(UpTo(S, key, i)) \in 1 .. Cardinality(S)
           /\ \A i, j \in S : Cardinality(UpTo(S, key, i)) = Cardinality(UpTo(S, key, j))
                                 => i = j
           /\ \A k \in 1 .. Cardinality(S) :
                 \E i \in S : Cardinality(UpTo(S, key, i)) = k
<1> DEFINE n == Cardinality(S)
           rank == [i \in S |-> Cardinality(UpTo(S, key, i))]
<1>0. ASSUME NEW i \in S, NEW j \in S, Ahead(key, i, j)
      PROVE  Cardinality(UpTo(S, key, i)) < Cardinality(UpTo(S, key, j))
  BY <1>0, RankOrders
<1>1. n \in Nat
  BY FS_CardinalityType
<1>2. ASSUME NEW i \in S
      PROVE  Cardinality(UpTo(S, key, i)) \in 1 .. n
  <2>1. UpTo(S, key, i) \subseteq S /\ i \in UpTo(S, key, i)
    BY DEF UpTo
  <2>2. /\ IsFiniteSet(UpTo(S, key, i)) /\ Cardinality(UpTo(S, key, i)) <= n
        /\ Cardinality(UpTo(S, key, i)) \in Nat
    BY <2>1, FS_Subset, FS_CardinalityType
  <2>3. Cardinality(UpTo(S, key, i)) # 0
    BY <2>1, <2>2, FS_EmptySet
  <2> QED
    BY <1>1, <2>2, <2>3
<1>3. ASSUME NEW i \in S, NEW j \in S, i # j
      PROVE  Cardinality(UpTo(S, key, i)) # Cardinality(UpTo(S, key, j))
  <2>1. i \in Nat /\ j \in Nat /\ key[i] \in Nat /\ key[j] \in Nat
    OBVIOUS
  <2>2. Ahead(key, i, j) \/ Ahead(key, j, i)
    BY <1>3, <2>1 DEF Ahead
  <2>3. /\ Cardinality(UpTo(S, key, i)) \in Nat
        /\ Cardinality(UpTo(S, key, j)) \in Nat
    BY <1>2
  <2> QED
    BY <1>0, <2>2, <2>3
<1>4. rank \in Injection(S, 1 .. n)
  BY <1>2, <1>3 DEF Injection, IsInjective
<1>5. IsFiniteSet(1 .. n) /\ Cardinality(1 .. n) = n
  BY <1>1, FS_Interval
<1>6. rank \in Surjection(S, 1 .. n)
  BY <1>4, <1>5, FS_Injection
<1>7. \A k \in 1 .. n : \E i \in S : Cardinality(UpTo(S, key, i)) = k
  BY <1>6 DEF Surjection
<1> QED
  BY <1>1, <1>2, <1>3, <1>7

(* The result holds every element once, in order. *)
LEMMA StablySortedSorts ==
    ASSUME NEW S, S \subseteq Nat, IsFiniteSet(S), NEW key \in [S -> Nat]
    PROVE  /\ Cardinality(S) \in Nat
           /\ StablySorted(S, key) \in [1 .. Cardinality(S) -> S]
           /\ \A i \in S : /\ Cardinality(UpTo(S, key, i)) \in 1 .. Cardinality(S)
                           /\ StablySorted(S, key)[Cardinality(UpTo(S, key, i))] = i
           /\ \A k \in 1 .. Cardinality(S) :
                 Cardinality(UpTo(S, key, StablySorted(S, key)[k])) = k
           /\ \A k, l \in 1 .. Cardinality(S) :
                 k < l => Ahead(key, StablySorted(S, key)[k], StablySorted(S, key)[l])
<1>1. Cardinality(S) \in Nat
  BY RankIsPlace
<1>2. \A i \in S : Cardinality(UpTo(S, key, i)) \in 1 .. Cardinality(S)
  BY RankIsPlace
<1>3. \A i, j \in S : Cardinality(UpTo(S, key, i)) = Cardinality(UpTo(S, key, j)) => i = j
  BY RankIsPlace
<1>4. ASSUME NEW k \in 1 .. Cardinality(S)
      PROVE  \E i \in S : Cardinality(UpTo(S, key, i)) = k
  <2>1. S # {}
    BY <1>1, FS_EmptySet
  <2> PICK z \in S : TRUE
    BY <2>1
  <2>2. Cardinality(UpTo(S, key, z)) \in 1 .. Cardinality(S)
    BY <1>2
  <2> QED
    BY <2>2, RankIsPlace
<1> DEFINE n == Cardinality(S)
           order == StablySorted(S, key)
<1>5. order = [k \in 1 .. n |-> CHOOSE i \in S : Cardinality(UpTo(S, key, i)) = k]
  BY DEF StablySorted, UpTo
<1>6. ASSUME NEW k \in 1 .. n
      PROVE  order[k] \in S /\ Cardinality(UpTo(S, key, order[k])) = k
  BY <1>5, <1>4
<1>7. DOMAIN order = 1 .. n /\ order = [k \in DOMAIN order |-> order[k]]
  BY <1>5
<1> HIDE DEF order
<1>8. order \in [1 .. n -> S]
  BY <1>6, <1>7
<1>9. ASSUME NEW i \in S
      PROVE  /\ Cardinality(UpTo(S, key, i)) \in 1 .. n
             /\ order[Cardinality(UpTo(S, key, i))] = i
  <2>1. Cardinality(UpTo(S, key, i)) \in 1 .. n
    BY <1>2
  <2> QED
    BY <1>6, <1>3, <2>1
<1>10. ASSUME NEW k \in 1 .. n, NEW l \in 1 .. n, k < l
      PROVE  Ahead(key, order[k], order[l])
  <2> DEFINE a == order[k]
             b == order[l]
  <2>1. /\ a \in S /\ b \in S /\ Cardinality(UpTo(S, key, a)) = k
        /\ Cardinality(UpTo(S, key, b)) = l
    BY <1>6
  <2> HIDE DEF a, b
  <2>2. a \in Nat /\ b \in Nat /\ key[a] \in Nat /\ key[b] \in Nat
    BY <2>1
  <2>3. k \in Nat /\ l \in Nat /\ a # b
    BY <1>10, <2>1
  <2>4. ~Ahead(key, b, a)
    <3> SUFFICES ASSUME Ahead(key, b, a)
                 PROVE  FALSE
      OBVIOUS
    <3>1. Cardinality(UpTo(S, key, b)) < Cardinality(UpTo(S, key, a))
      BY <2>1, RankOrders
    <3> QED
      BY <1>10, <2>1, <2>3, <3>1
  <2>5. Ahead(key, a, b)
    BY <2>2, <2>3, <2>4 DEF Ahead
  <2> QED
    BY <2>5 DEF a, b
<1> QED
  BY <1>6, <1>8, <1>1, <1>9, <1>10 DEF order

-----------------------------------------------------------------------------
(* Picking places in the order of the list. *)

Ascending(S) == StablySorted(S, [i \in S |-> 0])

LEMMA AscendingAscends ==
    ASSUME NEW S, S \subseteq Nat, IsFiniteSet(S)
    PROVE  /\ Cardinality(S) \in Nat
           /\ Ascending(S) \in [1 .. Cardinality(S) -> S]
           /\ \A i \in S : \E k \in 1 .. Cardinality(S) : Ascending(S)[k] = i
           /\ \A k, l \in 1 .. Cardinality(S) :
                 k < l => Ascending(S)[k] < Ascending(S)[l]
<1> DEFINE zero == [i \in S |-> 0]
<1>1. zero \in [S -> Nat] /\ \A i \in S : zero[i] = 0
  OBVIOUS
<1>2. \A i, j \in S : Ahead(zero, i, j) <=> i < j
  BY <1>1 DEF Ahead
<1>3. Ascending(S) = StablySorted(S, zero)
  BY DEF Ascending
<1> HIDE DEF zero
<1>4. /\ Cardinality(S) \in Nat
      /\ StablySorted(S, zero) \in [1 .. Cardinality(S) -> S]
  BY <1>1, StablySortedSorts
<1>5. ASSUME NEW i \in S
      PROVE  \E k \in 1 .. Cardinality(S) : StablySorted(S, zero)[k] = i
  <2>1. /\ Cardinality(UpTo(S, zero, i)) \in 1 .. Cardinality(S)
        /\ StablySorted(S, zero)[Cardinality(UpTo(S, zero, i))] = i
    BY <1>1, StablySortedSorts
  <2> QED
    BY <2>1
<1>6. ASSUME NEW k \in 1 .. Cardinality(S), NEW l \in 1 .. Cardinality(S), k < l
      PROVE  StablySorted(S, zero)[k] < StablySorted(S, zero)[l]
  <2>1. Ahead(zero, StablySorted(S, zero)[k], StablySorted(S, zero)[l])
    BY <1>1, <1>6, StablySortedSorts
  <2> QED
    BY <1>2, <1>4, <2>1
<1> QED
  BY <1>3, <1>4, <1>5, <1>6

LEMMA AscendingNext ==
    ASSUME NEW S, S \subseteq Nat, IsFiniteSet(S),
           NEW n \in Nat, \A i \in S : i < n
    PROVE  /\ Cardinality(S \cup {n}) = Cardinality(S) + 1
           /\ \A k \in 1 .. Cardinality(S) : Ascending(S \cup {n})[k] = Ascending(S)[k]
           /\ Ascending(S \cup {n})[Cardinality(S) + 1] = n
<1> DEFINE c == Cardinality(S)
           T == S \cup {n}
           old == [i \in S |-> 0]
           new == [i \in T |-> 0]
<1>1. n \notin S
  OBVIOUS
<1>2. /\ IsFiniteSet(T) /\ Cardinality(T) = c + 1 /\ c \in Nat
      /\ T \subseteq Nat /\ S \subseteq T /\ n \in T
  BY <1>1, FS_AddElement, FS_CardinalityType
<1>3. /\ old \in [S -> Nat] /\ new \in [T -> Nat]
      /\ \A i \in S : old[i] = 0 /\ new[i] = 0
      /\ new[n] = 0
  OBVIOUS
<1>4. /\ Ascending(S) = StablySorted(S, old)
      /\ Ascending(T) = StablySorted(T, new)
  BY DEF Ascending
<1> HIDE DEF T, old, new, c
<1>5. ASSUME NEW i \in S
      PROVE  UpTo(T, new, i) = UpTo(S, old, i)
  <2>1. ASSUME NEW j \in T
        PROVE  j \in UpTo(T, new, i) <=> j \in UpTo(S, old, i)
    <3>1. CASE j = n
      BY <1>1, <1>2, <1>3, <3>1 DEF UpTo
    <3>2. CASE j \in S
      BY <1>2, <1>3, <3>2 DEF UpTo
    <3> QED
      BY <3>1, <3>2 DEF T
  <2>2. UpTo(T, new, i) \subseteq T /\ UpTo(S, old, i) \subseteq T
    BY <1>2 DEF UpTo
  <2> QED
    BY <2>1, <2>2
<1>6. UpTo(T, new, n) = T
  <2>1. ASSUME NEW j \in T
        PROVE  j <= n /\ new[j] = new[n]
    BY <1>3 DEF T
  <2> QED
    BY <2>1 DEF UpTo
<1>7. /\ \A k \in 1 .. c : /\ Ascending(S)[k] \in S
                            /\ Cardinality(UpTo(S, old, Ascending(S)[k])) = k
      /\ \A k \in 1 .. c + 1 : /\ Ascending(T)[k] \in T
                                /\ Cardinality(UpTo(T, new, Ascending(T)[k])) = k
  <2>1. /\ StablySorted(S, old) \in [1 .. c -> S]
        /\ \A k \in 1 .. c : Cardinality(UpTo(S, old, StablySorted(S, old)[k])) = k
    BY <1>3, StablySortedSorts DEF c
  <2>2. /\ StablySorted(T, new) \in [1 .. c + 1 -> T]
        /\ \A k \in 1 .. c + 1 : Cardinality(UpTo(T, new, StablySorted(T, new)[k])) = k
    BY <1>2, <1>3, StablySortedSorts
  <2> QED
    BY <1>4, <2>1, <2>2
<1>8. \A i, j \in T : Cardinality(UpTo(T, new, i)) = Cardinality(UpTo(T, new, j)) => i = j
  <2>1. IsFiniteSet(T) /\ T \subseteq Nat /\ new \in [T -> Nat]
    BY <1>2, <1>3
  <2> QED
    BY <2>1, RankIsPlace, Zenon
<1>9. ASSUME NEW k \in 1 .. c
      PROVE  Ascending(T)[k] = Ascending(S)[k]
  <2>1. k \in 1 .. c + 1
    BY <1>2
  <2>2. Cardinality(UpTo(T, new, Ascending(S)[k])) = k
    BY <1>5, <1>7
  <2> QED
    BY <1>2, <1>7, <1>8, <2>1, <2>2
<1>10. Ascending(T)[c + 1] = n
  <2>1. c + 1 \in 1 .. c + 1
    BY <1>2
  <2>2. Cardinality(UpTo(T, new, n)) = c + 1
    BY <1>2, <1>6
  <2> QED
    BY <1>2, <1>7, <1>8, <2>1, <2>2
<1> QED
  BY <1>2, <1>9, <1>10 DEF T, c

LEMMA PlacesAreFinite ==
    ASSUME NEW T, NEW list \in Seq(T), NEW S, S \subseteq DOMAIN list
    PROVE  IsFiniteSet(S) /\ S \subseteq Nat
<1>1. DOMAIN list = 1 .. Len(list) /\ Len(list) \in Nat
  OBVIOUS
<1>2. IsFiniteSet(1 .. Len(list))
  BY <1>1, FS_Interval
<1> QED
  BY <1>1, <1>2, FS_Subset

LEMMA PickedPlaces ==
    ASSUME NEW T, NEW list \in Seq(T), NEW S, S \subseteq DOMAIN list
    PROVE  /\ Cardinality(S) \in Nat
           /\ Picked(list, S) = [k \in 1 .. Cardinality(S) |-> list[Ascending(S)[k]]]
           /\ Picked(list, S) \in Seq(T) /\ Len(Picked(list, S)) = Cardinality(S)
<1>1. IsFiniteSet(S) /\ S \subseteq Nat
  BY PlacesAreFinite
<1>2. /\ Cardinality(S) \in Nat
      /\ Ascending(S) \in [1 .. Cardinality(S) -> S]
  BY <1>1, AscendingAscends
<1>3. Picked(list, S) = [k \in DOMAIN Ascending(S) |-> list[Ascending(S)[k]]]
  BY DEF Picked, Ascending
<1>4. Picked(list, S) = [k \in 1 .. Cardinality(S) |-> list[Ascending(S)[k]]]
  BY <1>2, <1>3
<1>5. \A k \in 1 .. Cardinality(S) : list[Ascending(S)[k]] \in T
  BY <1>2
<1> QED
  BY <1>2, <1>4, <1>5

(* Only the places picked matter. *)
LEMMA PickedAgrees ==
    ASSUME NEW T, NEW list \in Seq(T), NEW other \in Seq(T),
           NEW S, S \subseteq DOMAIN list, S \subseteq DOMAIN other,
           \A i \in S : list[i] = other[i]
    PROVE  Picked(list, S) = Picked(other, S)
<1>1. IsFiniteSet(S) /\ S \subseteq Nat
  BY PlacesAreFinite
<1>2. Ascending(S) \in [1 .. Cardinality(S) -> S]
  BY <1>1, AscendingAscends
<1>3. \A k \in 1 .. Cardinality(S) : list[Ascending(S)[k]] = other[Ascending(S)[k]]
  BY <1>2
<1> QED
  BY <1>3, PickedPlaces

LEMMA PickedNext ==
    ASSUME NEW T, NEW list \in Seq(T), NEW S, S \subseteq DOMAIN list,
           NEW n \in DOMAIN list, \A i \in S : i < n
    PROVE  Picked(list, S \cup {n}) = Append(Picked(list, S), list[n])
<1>1. IsFiniteSet(S) /\ S \subseteq Nat /\ n \in Nat /\ S \cup {n} \subseteq DOMAIN list
  BY PlacesAreFinite
<1> DEFINE c == Cardinality(S)
<1>2. /\ c \in Nat
      /\ Picked(list, S) = [k \in 1 .. c |-> list[Ascending(S)[k]]]
      /\ Picked(list, S) \in Seq(T) /\ Len(Picked(list, S)) = c
  BY PickedPlaces
<1>3. /\ Cardinality(S \cup {n}) = c + 1
      /\ \A k \in 1 .. c : Ascending(S \cup {n})[k] = Ascending(S)[k]
      /\ Ascending(S \cup {n})[c + 1] = n
  BY <1>1, AscendingNext
<1>4. Picked(list, S \cup {n})
         = [k \in 1 .. Cardinality(S \cup {n}) |-> list[Ascending(S \cup {n})[k]]]
  <2> DEFINE all == S \cup {n}
  <2>1. all \subseteq DOMAIN list
    BY <1>1
  <2> HIDE DEF all
  <2>2. Picked(list, all) = [k \in 1 .. Cardinality(all) |-> list[Ascending(all)[k]]]
    BY <2>1, PickedPlaces
  <2> QED
    BY <2>2 DEF all
<1>5. Picked(list, S \cup {n}) = [k \in 1 .. c + 1 |-> list[Ascending(S \cup {n})[k]]]
  BY <1>3, <1>4
<1> HIDE DEF c
<1>6. Append(Picked(list, S), list[n])
         = [k \in 1 .. c + 1 |-> IF k = c + 1 THEN list[n] ELSE Picked(list, S)[k]]
  BY <1>2
<1>7. \A k \in 1 .. c + 1 :
         list[Ascending(S \cup {n})[k]]
            = IF k = c + 1 THEN list[n] ELSE Picked(list, S)[k]
  <2> SUFFICES ASSUME NEW k \in 1 .. c + 1
               PROVE  list[Ascending(S \cup {n})[k]]
                         = IF k = c + 1 THEN list[n] ELSE Picked(list, S)[k]
    OBVIOUS
  <2>1. k \in 1 .. c \/ k = c + 1
    BY <1>2
  <2>2. CASE k \in 1 .. c
    <3>1. k # c + 1 /\ Picked(list, S)[k] = list[Ascending(S)[k]]
      BY <1>2, <2>2
    <3> QED
      BY <1>3, <2>2, <3>1
  <2>3. CASE k = c + 1
    BY <1>3, <2>3
  <2> QED
    BY <2>1, <2>2, <2>3
<1> QED
  BY <1>5, <1>6, <1>7

-----------------------------------------------------------------------------
(* The lines of a file, as read and as sorted. *)

(* What a reader of v's file delivers: lines labelled v, an event among    *)
(* them being one of v's.                                                  *)
LinesOf(v) ==
    {line \in RawLine : /\ line.venue = v
                        /\ line.parsed # Malformed => /\ line.parsed \in RawEvent
                                                      /\ line.parsed.venue = v}

LEMMA ReadLineIsOfVenue ==
    ASSUME NEW v \in Venue, NEW text \in Text
    PROVE  ReadLine(v, text) \in LinesOf(v)
BY LineAssumption DEF LinesOf, ReadLine, Parsed

Texts(file) == {i \in DOMAIN file : file[i] # Blank}

LEMMA ReadNdjsonReads ==
    ASSUME NEW v \in Venue, NEW file \in Seq(Text)
    PROVE  /\ Cardinality(Texts(file)) \in Nat
           /\ ReadNdjson(v, file)
                 = [k \in 1 .. Cardinality(Texts(file)) |->
                       ReadLine(v, file[Ascending(Texts(file))[k]])]
           /\ ReadNdjson(v, file) \in Seq(LinesOf(v))
           /\ Len(ReadNdjson(v, file)) = Cardinality(Texts(file))
<1> DEFINE n == Cardinality(Texts(file))
<1>1. Texts(file) \subseteq DOMAIN file
  BY DEF Texts
<1>2. /\ n \in Nat
      /\ Picked(file, Texts(file)) = [k \in 1 .. n |-> file[Ascending(Texts(file))[k]]]
      /\ Picked(file, Texts(file)) \in Seq(Text)
  BY <1>1, PickedPlaces
<1>3. ReadNdjson(v, file)
         = [k \in 1 .. n |-> ReadLine(v, Picked(file, Texts(file))[k])]
  BY <1>2 DEF ReadNdjson, Texts
<1>4. \A k \in 1 .. n : /\ Picked(file, Texts(file))[k] = file[Ascending(Texts(file))[k]]
                        /\ Picked(file, Texts(file))[k] \in Text
  BY <1>2
<1>5. ReadNdjson(v, file) = [k \in 1 .. n |-> ReadLine(v, file[Ascending(Texts(file))[k]])]
  BY <1>3, <1>4
<1>6. \A k \in 1 .. n : ReadLine(v, Picked(file, Texts(file))[k]) \in LinesOf(v)
  BY <1>4, ReadLineIsOfVenue
<1>7. ReadNdjson(v, file) \in Seq(LinesOf(v)) /\ Len(ReadNdjson(v, file)) = n
  BY <1>2, <1>3, <1>6
<1> QED
  BY <1>2, <1>5, <1>7

(* The order of the sort. *)
Keys(list) == [i \in DOMAIN list |-> SeqKey(list[i])]

LEMMA SortedBySeqSorts ==
    ASSUME NEW v \in Venue, NEW list \in Seq(LinesOf(v))
    PROVE  /\ SortedBySeq(list) \in Seq(LinesOf(v))
           /\ Len(SortedBySeq(list)) = Len(list)
           /\ StablySorted(DOMAIN list, Keys(list)) \in [DOMAIN list -> DOMAIN list]
           /\ \A k \in DOMAIN list :
                 SortedBySeq(list)[k] = list[StablySorted(DOMAIN list, Keys(list))[k]]
           /\ \A i \in DOMAIN list : \E k \in DOMAIN list :
                 StablySorted(DOMAIN list, Keys(list))[k] = i
           /\ \A k, l \in DOMAIN list : k < l =>
                 Ahead(Keys(list), StablySorted(DOMAIN list, Keys(list))[k],
                                   StablySorted(DOMAIN list, Keys(list))[l])
<1> DEFINE D     == DOMAIN list
           order == StablySorted(D, Keys(list))
<1>1. /\ Len(list) \in Nat /\ D = 1 .. Len(list) /\ IsFiniteSet(D)
      /\ Cardinality(D) = Len(list) /\ D \subseteq Nat
  <2>1. Len(list) \in Nat /\ D = 1 .. Len(list)
    OBVIOUS
  <2> QED
    BY <2>1, FS_Interval
<1>2. \A i \in D : SeqKey(list[i]) \in Nat
  BY NumberAssumption, BoundAssumption DEF LinesOf, SeqKey
<1>3. Keys(list) \in [D -> Nat]
  BY <1>2 DEF Keys
<1> HIDE DEF D
<1>4. /\ StablySorted(D, Keys(list)) \in [1 .. Cardinality(D) -> D]
      /\ \A k, l \in 1 .. Cardinality(D) :
            k < l => Ahead(Keys(list), StablySorted(D, Keys(list))[k],
                                       StablySorted(D, Keys(list))[l])
  BY <1>1, <1>3, StablySortedSorts
<1>5. ASSUME NEW i \in D
      PROVE  \E k \in D : StablySorted(D, Keys(list))[k] = i
  <2>1. Cardinality(UpTo(D, Keys(list), i)) \in 1 .. Cardinality(D)
    BY <1>1, <1>3, RankIsPlace
  <2>2. StablySorted(D, Keys(list))[Cardinality(UpTo(D, Keys(list), i))] = i
    <3> DEFINE key == Keys(list)
    <3>1. D \subseteq Nat /\ IsFiniteSet(D) /\ key \in [D -> Nat]
      BY <1>1, <1>3
    <3> HIDE DEF key
    <3>2. \A j \in D : StablySorted(D, key)[Cardinality(UpTo(D, key, j))] = j
      BY <3>1, StablySortedSorts
    <3> QED
      BY <3>2 DEF key
  <2> QED
    BY <1>1, <2>1, <2>2
<1>6. SortedBySeq(list) = [k \in D |-> list[StablySorted(D, Keys(list))[k]]]
  BY DEF SortedBySeq, Keys, D
<1>7. /\ StablySorted(D, Keys(list)) \in [D -> D]
      /\ \A k \in D : SortedBySeq(list)[k] = list[StablySorted(D, Keys(list))[k]]
  BY <1>1, <1>4, <1>6
<1>8. \A k \in D : list[StablySorted(D, Keys(list))[k]] \in LinesOf(v)
  BY <1>7 DEF D
<1>9. SortedBySeq(list) \in Seq(LinesOf(v)) /\ Len(SortedBySeq(list)) = Len(list)
  BY <1>1, <1>6, <1>8
<1> QED
  BY <1>1, <1>4, <1>5, <1>7, <1>9 DEF D

-----------------------------------------------------------------------------
(* What a list of lines should lead to, up to some place. *)

KeptTo(list, m) ==
    LET kept == Picked(list, OnTime(list) \cap 1 .. m)
    IN  [k \in DOMAIN kept |-> Canon[kept[k].parsed]]

LEMMA KeptNext ==
    ASSUME NEW v \in Venue, NEW list \in Seq(LinesOf(v)),
           NEW m \in Nat, m < Len(list)
    PROVE  /\ m + 1 \in OnTime(list) =>
                 KeptTo(list, m + 1) = Append(KeptTo(list, m), Canon[list[m + 1].parsed])
           /\ m + 1 \notin OnTime(list) => KeptTo(list, m + 1) = KeptTo(list, m)
<1> DEFINE S == OnTime(list) \cap 1 .. m
<1>1. /\ OnTime(list) \subseteq DOMAIN list /\ S \subseteq DOMAIN list
      /\ m + 1 \in DOMAIN list /\ \A i \in S : i < m + 1
  BY DEF OnTime, Fresh
<1>2. m + 1 \notin OnTime(list) => OnTime(list) \cap 1 .. m + 1 = S
  OBVIOUS
<1>3. m + 1 \in OnTime(list) => OnTime(list) \cap 1 .. m + 1 = S \cup {m + 1}
  OBVIOUS
<1> HIDE DEF S
<1>4. ASSUME m + 1 \in OnTime(list)
      PROVE  KeptTo(list, m + 1) = Append(KeptTo(list, m), Canon[list[m + 1].parsed])
  <2> DEFINE old == Picked(list, S)
             c   == Cardinality(S)
  <2>1. Picked(list, OnTime(list) \cap 1 .. m + 1) = Append(old, list[m + 1])
    BY <1>1, <1>3, <1>4, PickedNext
  <2>2. old \in Seq(LinesOf(v)) /\ Len(old) = c /\ c \in Nat
    BY <1>1, PickedPlaces
  <2> HIDE DEF old, c
  <2>3. /\ DOMAIN Append(old, list[m + 1]) = 1 .. c + 1
        /\ \A k \in 1 .. c : Append(old, list[m + 1])[k] = old[k]
        /\ Append(old, list[m + 1])[c + 1] = list[m + 1]
    BY <1>1, <2>2
  <2>4. KeptTo(list, m + 1)
           = [k \in 1 .. c + 1 |-> Canon[Append(old, list[m + 1])[k].parsed]]
    BY <2>1, <2>3 DEF KeptTo
  <2>5. KeptTo(list, m) = [k \in 1 .. c |-> Canon[old[k].parsed]]
    BY <2>2 DEF KeptTo, S, old
  <2>6. Append(KeptTo(list, m), Canon[list[m + 1].parsed])
           = [k \in 1 .. c + 1 |-> IF k = c + 1 THEN Canon[list[m + 1].parsed]
                                               ELSE Canon[old[k].parsed]]
    BY <2>2, <2>5
  <2>7. ASSUME NEW k \in 1 .. c + 1
        PROVE  Canon[Append(old, list[m + 1])[k].parsed]
                  = IF k = c + 1 THEN Canon[list[m + 1].parsed] ELSE Canon[old[k].parsed]
    <3>1. k = c + 1 \/ (k # c + 1 /\ k \in 1 .. c)
      BY <2>2
    <3> QED
      BY <2>3, <3>1
  <2> QED
    BY <2>4, <2>6, <2>7
<1> QED
  BY <1>2, <1>4 DEF KeptTo, S

LEMMA KeptNone == ASSUME NEW v \in Venue, NEW list \in Seq(LinesOf(v))
                  PROVE  KeptTo(list, 0) = << >>
<1>1. OnTime(list) \cap 1 .. 0 = {}
  OBVIOUS
<1>2. Cardinality({}) = 0 /\ {} \subseteq DOMAIN list
  BY FS_EmptySet
<1>3. Picked(list, {}) \in Seq(LinesOf(v)) /\ Len(Picked(list, {})) = 0
  BY <1>2, PickedPlaces
<1> QED
  BY <1>1, <1>3 DEF KeptTo

LEMMA KeptAll == ASSUME NEW v \in Venue, NEW list \in Seq(LinesOf(v))
                 PROVE  KeptTo(list, Len(list)) = Kept(list)
<1>1. OnTime(list) \cap 1 .. Len(list) = OnTime(list)
  BY DEF OnTime, Fresh
<1> QED
  BY <1>1 DEF KeptTo, Kept

-----------------------------------------------------------------------------
(* What the ingester has made of a venue: its fills on the tape, then      *)
(* those in its lane.                                                      *)

FillsOf(buffer) == [i \in DOMAIN buffer |-> buffer[i].fill]

Out(v) == OfVenue(v, Published) \o FillsOf(lanes[v].buffer)

LEMMA OfVenueNext ==
    ASSUME NEW fills \in Seq(Fill), NEW f \in Fill, NEW w
    PROVE  /\ OfVenue(w, fills) \in Seq(Fill)
           /\ f.venue = w =>
                 OfVenue(w, Append(fills, f)) = Append(OfVenue(w, fills), f)
           /\ f.venue # w => OfVenue(w, Append(fills, f)) = OfVenue(w, fills)
<1> DEFINE n    == Len(fills) + 1
           more == Append(fills, f)
           S    == {i \in DOMAIN fills : fills[i].venue = w}
<1>1. /\ more \in Seq(Fill) /\ DOMAIN fills = 1 .. n - 1 /\ DOMAIN more = 1 .. n
      /\ n \in Nat /\ n \in DOMAIN more /\ more[n] = f
      /\ \A i \in DOMAIN fills : i \in DOMAIN more /\ more[i] = fills[i] /\ i < n
  OBVIOUS
<1>2. OfVenue(w, fills) = Picked(fills, S)
  BY DEF OfVenue
<1>3. OfVenue(w, more) = Picked(more, {i \in DOMAIN more : more[i].venue = w})
  BY DEF OfVenue
<1>4. /\ f.venue = w => {i \in DOMAIN more : more[i].venue = w} = S \cup {n}
      /\ f.venue # w => {i \in DOMAIN more : more[i].venue = w} = S
  <2>1. ASSUME NEW i
        PROVE  i \in {k \in DOMAIN more : more[k].venue = w}
                  <=> i \in S \/ (i = n /\ f.venue = w)
    <3>1. i \in DOMAIN more <=> i \in DOMAIN fills \/ i = n
      BY <1>1
    <3>2. i \in DOMAIN fills => i # n /\ more[i] = fills[i]
      BY <1>1
    <3> QED
      BY <1>1, <3>1, <3>2
  <2> QED
    BY <2>1
<1>5. /\ S \subseteq DOMAIN fills /\ S \subseteq DOMAIN more
      /\ \A i \in S : more[i] = fills[i] /\ i < n
  BY <1>1
<1> HIDE DEF S, more, n
<1>6. Picked(more, S) = Picked(fills, S)
  BY <1>1, <1>5, PickedAgrees
<1>7. Picked(more, S \cup {n}) = Append(Picked(more, S), f)
  BY <1>1, <1>5, PickedNext
<1>8. OfVenue(w, fills) \in Seq(Fill)
  BY <1>2, <1>5, PickedPlaces
<1> QED
  BY <1>2, <1>3, <1>4, <1>6, <1>7, <1>8 DEF more

LEMMA SequencesAreFunctions ==
    ASSUME NEW T, NEW s \in Seq(T)
    PROVE  /\ \A x \in T :
                 Append(s, x) = [i \in 1 .. Len(s) + 1 |->
                                   IF i = Len(s) + 1 THEN x ELSE s[i]]
           /\ s # << >> => Tail(s) = [i \in 1 .. Len(s) - 1 |-> s[i + 1]]
<1>1. Len(s) \in Nat
  OBVIOUS
<1>2. ASSUME NEW x \in T
      PROVE  Append(s, x) = [i \in 1 .. Len(s) + 1 |->
                               IF i = Len(s) + 1 THEN x ELSE s[i]]
  <2> DEFINE r == [i \in 1 .. Len(s) + 1 |-> IF i = Len(s) + 1 THEN x ELSE s[i]]
  <2>1. \A i \in 1 .. Len(s) + 1 : r[i] = Append(s, x)[i] /\ r[i] \in T
    BY <1>1
  <2>2. r \in Seq(T) /\ Len(r) = Len(s) + 1
    BY <1>1, <2>1
  <2> HIDE DEF r
  <2>3. Append(s, x) \in Seq(T) /\ Len(Append(s, x)) = Len(s) + 1
    OBVIOUS
  <2> QED
    BY <2>1, <2>2, <2>3, SeqEqual DEF r
<1>3. ASSUME s # << >>
      PROVE  Tail(s) = [i \in 1 .. Len(s) - 1 |-> s[i + 1]]
  <2> DEFINE r == [i \in 1 .. Len(s) - 1 |-> s[i + 1]]
  <2>1. Tail(s) \in Seq(T) /\ Len(Tail(s)) = Len(s) - 1 /\ Len(s) - 1 \in Nat
    BY <1>1, <1>3
  <2>2. \A i \in 1 .. Len(s) - 1 : r[i] = Tail(s)[i] /\ r[i] \in T
    BY <1>1, <1>3
  <2>3. r \in Seq(T) /\ Len(r) = Len(s) - 1
    BY <2>1, <2>2
  <2> HIDE DEF r
  <2> QED
    BY <2>1, <2>2, <2>3, SeqEqual DEF r
<1> QED
  BY <1>2, <1>3

LEMMA FillsOfBuffer ==
    ASSUME NEW buffer \in Seq(Stamped)
    PROVE  /\ FillsOf(buffer) \in Seq(Fill) /\ Len(FillsOf(buffer)) = Len(buffer)
           /\ \A t \in Stamp, f \in Fill :
                 FillsOf(Append(buffer, [recv_ts |-> t, fill |-> f]))
                    = Append(FillsOf(buffer), f)
           /\ buffer # << >> =>
                 /\ FillsOf(buffer)[1] = Head(buffer).fill /\ FillsOf(buffer) # << >>
                 /\ FillsOf(Tail(buffer)) = Tail(FillsOf(buffer))
<1>1. \A i \in DOMAIN buffer : buffer[i] \in Stamped /\ buffer[i].fill \in Fill
  BY StampedKey
<1>2. FillsOf(buffer) \in Seq(Fill) /\ Len(FillsOf(buffer)) = Len(buffer)
  BY <1>1 DEF FillsOf
<1>3. ASSUME NEW t \in Stamp, NEW f \in Fill
      PROVE  FillsOf(Append(buffer, [recv_ts |-> t, fill |-> f]))
                = Append(FillsOf(buffer), f)
  <2> DEFINE e    == [recv_ts |-> t, fill |-> f]
             more == Append(buffer, e)
             n    == Len(buffer) + 1
  <2>1. /\ DOMAIN more = 1 .. n /\ n \in Nat /\ n # 0
        /\ \A i \in 1 .. n : more[i] = IF i = n THEN e ELSE buffer[i]
    OBVIOUS
  <2>2. FillsOf(more) = [i \in 1 .. n |-> more[i].fill]
    BY <2>1 DEF FillsOf
  <2>3. Append(FillsOf(buffer), f)
           = [i \in 1 .. n |-> IF i = n THEN f ELSE FillsOf(buffer)[i]]
    BY <1>2, SequencesAreFunctions
  <2>4. ASSUME NEW i \in 1 .. n
        PROVE  more[i].fill = IF i = n THEN f ELSE FillsOf(buffer)[i]
    <3>1. CASE i = n
      BY <2>1, <3>1
    <3>2. CASE i # n
      <4>1. i \in DOMAIN buffer /\ more[i] = buffer[i]
        BY <2>1, <3>2
      <4> QED
        BY <3>2, <4>1 DEF FillsOf
    <3> QED
      BY <3>1, <3>2
  <2> QED
    BY <2>2, <2>3, <2>4
<1>4. ASSUME buffer # << >>
      PROVE  /\ FillsOf(buffer)[1] = Head(buffer).fill /\ FillsOf(buffer) # << >>
             /\ FillsOf(Tail(buffer)) = Tail(FillsOf(buffer))
  <2> DEFINE n == Len(buffer) - 1
  <2>1. /\ n \in Nat /\ 1 \in DOMAIN buffer /\ Head(buffer) = buffer[1]
        /\ DOMAIN Tail(buffer) = 1 .. n
        /\ \A i \in 1 .. n : Tail(buffer)[i] = buffer[i + 1] /\ i + 1 \in DOMAIN buffer
    BY <1>4
  <2>2. FillsOf(Tail(buffer)) = [i \in 1 .. n |-> Tail(buffer)[i].fill]
    BY <2>1 DEF FillsOf
  <2>3. FillsOf(buffer) # << >> /\ FillsOf(buffer)[1] = Head(buffer).fill
    BY <2>1, <1>2 DEF FillsOf
  <2>4. Tail(FillsOf(buffer)) = [i \in 1 .. n |-> FillsOf(buffer)[i + 1]]
    BY <1>2, <2>3, SequencesAreFunctions
  <2>5. \A i \in 1 .. n : FillsOf(buffer)[i + 1] = buffer[i + 1].fill
    BY <2>1 DEF FillsOf
  <2> QED
    BY <2>1, <2>2, <2>3, <2>4, <2>5
<1> QED
  BY <1>2, <1>3, <1>4

LEMMA PublishedTypes ==
    ASSUME TypeOK
    PROVE  /\ Published \in Seq(Fill)
           /\ \A v \in Venue : /\ lanes[v].buffer \in Seq(Stamped)
                               /\ FillsOf(lanes[v].buffer) \in Seq(Fill)
                               /\ OfVenue(v, Published) \in Seq(Fill)
<1>1. tape \in Seq(SequencedFill) /\ \A i \in DOMAIN tape : tape[i] \in SequencedFill
  BY DEF TypeOK
<1>2. Published \in Seq(Fill)
  BY <1>1 DEF Published, SequencedFill
<1>3. ASSUME NEW v \in Venue
      PROVE  /\ lanes[v].buffer \in Seq(Stamped)
             /\ FillsOf(lanes[v].buffer) \in Seq(Fill)
             /\ OfVenue(v, Published) \in Seq(Fill)
  <2>1. lanes[v].buffer \in Seq(Stamped)
    BY DEF TypeOK, Lane
  <2>2. {i \in DOMAIN Published : Published[i].venue = v} \subseteq DOMAIN Published
    OBVIOUS
  <2>3. OfVenue(v, Published) \in Seq(Fill)
    BY <1>2, <2>2, PickedPlaces DEF OfVenue
  <2> QED
    BY <2>1, <2>3, FillsOfBuffer
<1> QED
  BY <1>2, <1>3

LEMMA OutKept ==
    ASSUME BuffersKept, tape' = tape, NEW v \in Venue
    PROVE  Out(v)' = Out(v)
<1>1. Published' = Published
  BY DEF Published
<1>2. lanes'[v].buffer = lanes[v].buffer
  BY DEF BuffersKept
<1> QED
  BY <1>1, <1>2 DEF Out

LEMMA AppendConcat ==
    ASSUME NEW T, NEW s \in Seq(T), NEW r \in Seq(T), NEW x \in T
    PROVE  /\ s \o Append(r, x) = Append(s \o r, x)
           /\ r # << >> => Append(s, r[1]) \o Tail(r) = s \o r
<1>1. s \o Append(r, x) = Append(s \o r, x)
  OBVIOUS
<1>2. ASSUME r # << >>
      PROVE  Append(s, r[1]) \o Tail(r) = s \o r
  <2>1. r[1] \in T /\ Len(r) \in Nat \ {0}
    BY <1>2
  <2> QED
    BY <1>2, <2>1
<1> QED
  BY <1>1, <1>2

LEMMA OutPushed ==
    ASSUME TypeOK, NEW e \in RawEvent, NEW t \in Stamp, Buffers(e, t), tape' = tape
    PROVE  /\ Out(e.venue)' = Append(Out(e.venue), Canon[e])
           /\ \A w \in Venue \ {e.venue} : Out(w)' = Out(w)
<1>1. /\ Canon[e] \in Fill /\ e.venue \in Venue
      /\ \A v \in Venue :
            lanes'[v] = IF v = e.venue THEN Pushed(Ticked(lanes[v], t), t, Canon[e])
                                       ELSE lanes[v]
  BY DEF Buffers
<1>2. Published' = Published
  BY DEF Published
<1> DEFINE v == e.venue
<1>3. lanes'[v].buffer = Append(lanes[v].buffer, [recv_ts |-> t, fill |-> Canon[e]])
  <2>1. lanes[v] \in Lane /\ lanes'[v] = Pushed(Ticked(lanes[v], t), t, Canon[e])
    BY <1>1 DEF TypeOK
  <2> QED
    BY <2>1 DEF Pushed, Ticked, Lane
<1>4. /\ lanes[v].buffer \in Seq(Stamped) /\ FillsOf(lanes[v].buffer) \in Seq(Fill)
      /\ OfVenue(v, Published) \in Seq(Fill)
  BY <1>1, PublishedTypes
<1>5. FillsOf(lanes'[v].buffer) = Append(FillsOf(lanes[v].buffer), Canon[e])
  BY <1>1, <1>3, <1>4, FillsOfBuffer
<1>6. Out(v)' = OfVenue(v, Published) \o Append(FillsOf(lanes[v].buffer), Canon[e])
  BY <1>2, <1>5 DEF Out
<1> HIDE DEF v
<1>7. Out(v)' = Append(Out(v), Canon[e])
  BY <1>1, <1>4, <1>6, AppendConcat DEF Out
<1>8. \A w \in Venue \ {v} : Out(w)' = Out(w)
  BY <1>1, <1>2 DEF Out, v
<1> QED
  BY <1>7, <1>8 DEF v

LEMMA OutEmitted ==
    ASSUME TypeOK, LanesOrdered, NEW v \in Venue, DrainEmit(v), NEW w \in Venue
    PROVE  Out(w)' = Out(w)
<1> DEFINE f == HeadOf(v).fill
<1>1. /\ NonEmpty(v) /\ HeadOf(v) \in Stamped /\ HeadOf(v) = lanes[v].buffer[1]
      /\ 1 \in DOMAIN lanes[v].buffer
  BY HeadTypes DEF DrainEmit, CanEmit, IsBest
<1>2. f \in Fill /\ f.venue = v
  BY <1>1, StampedKey DEF LanesOrdered, LaneOrdered
<1>3. Published' = Append(Published, f)
  <2>1. /\ tape' = Append(tape, [global_seq |-> next_global_seq,
                                 recv_ts |-> HeadOf(v).recv_ts, fill |-> f])
        /\ tape \in Seq(SequencedFill)
    BY DEF DrainEmit, TypeOK
  <2> DEFINE n == Len(tape) + 1
  <2>2. /\ DOMAIN tape' = 1 .. n /\ n \in Nat
        /\ \A i \in 1 .. n : tape'[i].fill = IF i = n THEN f ELSE tape[i].fill
    BY <2>1
  <2>3. Published' = [i \in 1 .. n |-> IF i = n THEN f ELSE tape[i].fill]
    BY <2>2 DEF Published
  <2>4. /\ Published \in Seq(Fill) /\ Len(Published) = Len(tape)
        /\ \A i \in 1 .. Len(tape) : Published[i] = tape[i].fill
    BY <2>1, PublishedTypes DEF Published
  <2>5. Append(Published, f) = [i \in 1 .. n |-> IF i = n THEN f ELSE Published[i]]
    BY <2>4
  <2>6. \A i \in 1 .. n : i # n => i \in 1 .. Len(tape)
    BY <2>2
  <2> QED
    BY <2>3, <2>4, <2>5, <2>6
<1>4. lanes'[w].buffer = IF w = v THEN Tail(lanes[w].buffer) ELSE lanes[w].buffer
  BY <1>1 DEF DrainEmit, Popped, TypeOK, Lane
<1>5. Published \in Seq(Fill) /\ lanes[w].buffer \in Seq(Stamped)
      /\ FillsOf(lanes[w].buffer) \in Seq(Fill)
  BY PublishedTypes
<1> HIDE DEF f
<1>6. /\ OfVenue(w, Published) \in Seq(Fill)
      /\ f.venue = w => OfVenue(w, Append(Published, f)) = Append(OfVenue(w, Published), f)
      /\ f.venue # w => OfVenue(w, Append(Published, f)) = OfVenue(w, Published)
  BY <1>2, <1>5, OfVenueNext
<1>7. CASE w # v
  BY <1>2, <1>3, <1>4, <1>6, <1>7 DEF Out
<1>8. CASE w = v
  <2>1. lanes[w].buffer # << >>
    BY <1>1, <1>8 DEF NonEmpty
  <2>2. /\ FillsOf(lanes[w].buffer)[1] = f /\ FillsOf(lanes[w].buffer) # << >>
        /\ FillsOf(Tail(lanes[w].buffer)) = Tail(FillsOf(lanes[w].buffer))
    <3>1. Head(lanes[w].buffer).fill = f
      BY <1>8 DEF HeadOf, f
    <3> QED
      BY <1>5, <2>1, <3>1, FillsOfBuffer
  <2>3. Out(w)' = Append(OfVenue(w, Published), f) \o Tail(FillsOf(lanes[w].buffer))
    BY <1>2, <1>3, <1>4, <1>6, <1>8, <2>2 DEF Out
  <2>4. Append(OfVenue(w, Published), f) \o Tail(FillsOf(lanes[w].buffer)) = Out(w)
    BY <1>2, <1>5, <1>6, <2>2, AppendConcat DEF Out
  <2> QED
    BY <2>3, <2>4
<1> QED
  BY <1>7, <1>8

-----------------------------------------------------------------------------
(* What a list of one venue's lines has led to after m of them, `known`    *)
(* being the copies remembered and `last` the guard of the venue's lane.   *)

SoundCopies(known) ==
    \A k \in DOMAIN known : known[k].event \in RawEvent /\ KeyOf(known[k].event) = k

FirstsKnown(v, list, m, known) ==
    /\ \A j \in 1 .. m : list[j].parsed # Malformed => KeyOf(list[j].parsed) \in DOMAIN known
    /\ \A k \in DOMAIN known : known[k].event.venue = v =>
          \E j \in 1 .. m :
              /\ list[j].parsed = known[k].event
              /\ \A i \in 1 .. j - 1 :
                    list[i].parsed # Malformed => KeyOf(list[i].parsed) # k

LastCarried(list, m, last) ==
    /\ last \in Nat \cup {NoSeq}
    /\ \A j \in Fresh(list) : j <= m => list[j].parsed.seq <= last
    /\ last # NoSeq => \E j \in Fresh(list) : j <= m /\ list[j].parsed.seq = last

LEMMA LineTypes ==
    ASSUME NEW v \in Venue, NEW list \in Seq(LinesOf(v)), NEW j \in DOMAIN list
    PROVE  /\ list[j] \in RawLine /\ list[j].venue = v
           /\ list[j].parsed # Malformed =>
                 /\ list[j].parsed \in RawEvent /\ list[j].parsed.venue = v
                 /\ KeyOf(list[j].parsed) = <<v, list[j].parsed.event_id>>
                 /\ list[j].parsed.seq \in Nat
<1>1. list[j] \in LinesOf(v)
  OBVIOUS
<1> QED
  BY <1>1, NumberAssumption DEF LinesOf, KeyOf

LEMMA FreshNext ==
    ASSUME NEW v \in Venue, NEW list \in Seq(LinesOf(v)), NEW m \in Nat, m < Len(list),
           NEW known, SoundCopies(known), FirstsKnown(v, list, m, known)
    PROVE  m + 1 \in Fresh(list) <=>
              /\ list[m + 1].parsed # Malformed
              /\ Canon[list[m + 1].parsed] # Rejected
              /\ KeyOf(list[m + 1].parsed) \notin DOMAIN known
<1> DEFINE e == list[m + 1].parsed
<1>1. m + 1 \in DOMAIN list /\ m + 1 - 1 = m /\ \A j \in 1 .. m : j \in DOMAIN list
  OBVIOUS
<1>2. m + 1 \in Fresh(list) <=>
         /\ e # Malformed /\ Canon[e] # Rejected
         /\ \A j \in 1 .. m : list[j].parsed # Malformed =>
               list[j].parsed.event_id # e.event_id
  BY <1>1 DEF Fresh
<1>3. ASSUME e # Malformed
      PROVE  e \in RawEvent /\ e.venue = v /\ KeyOf(e) = <<v, e.event_id>>
  BY <1>1, <1>3, LineTypes
<1>4. ASSUME NEW j \in 1 .. m, list[j].parsed # Malformed
      PROVE  KeyOf(list[j].parsed) = <<v, list[j].parsed.event_id>>
  BY <1>1, <1>4, LineTypes
<1>5. ASSUME e # Malformed, KeyOf(e) \notin DOMAIN known
      PROVE  \A j \in 1 .. m : list[j].parsed # Malformed =>
                list[j].parsed.event_id # e.event_id
  BY <1>3, <1>4, <1>5 DEF FirstsKnown
<1>6. ASSUME e # Malformed, KeyOf(e) \in DOMAIN known
      PROVE  \E j \in 1 .. m : /\ list[j].parsed # Malformed
                               /\ list[j].parsed.event_id = e.event_id
  <2>1. /\ known[KeyOf(e)].event \in RawEvent
        /\ KeyOf(known[KeyOf(e)].event) = <<v, e.event_id>>
    BY <1>3, <1>6 DEF SoundCopies
  <2>2. /\ known[KeyOf(e)].event.venue = v
        /\ known[KeyOf(e)].event.event_id = e.event_id
    BY <2>1 DEF KeyOf
  <2>3. PICK j \in 1 .. m : list[j].parsed = known[KeyOf(e)].event
    BY <1>6, <2>2 DEF FirstsKnown
  <2> QED
    BY <2>1, <2>2, <2>3, CanonAssumption
<1> QED
  BY <1>2, <1>5, <1>6

LEMMA OnTimeNext ==
    ASSUME NEW v \in Venue, NEW list \in Seq(LinesOf(v)), NEW m \in Nat, m < Len(list),
           NEW last, LastCarried(list, m, last), m + 1 \in Fresh(list)
    PROVE  m + 1 \in OnTime(list) <=> last = NoSeq \/ last < list[m + 1].parsed.seq
<1> DEFINE n == list[m + 1].parsed.seq
<1>1. \A j \in Fresh(list) : j \in Nat /\ j \in DOMAIN list /\ list[j].parsed.seq \in Nat
  BY LineTypes DEF Fresh
<1>2. m + 1 \in OnTime(list) <=>
         \A j \in Fresh(list) : j < m + 1 => list[j].parsed.seq < n
  BY DEF OnTime
<1>3. \A j \in Fresh(list) : j < m + 1 <=> j <= m
  BY <1>1
<1>4. n \in Nat
  BY <1>1
<1> HIDE DEF n
<1>5. CASE last = NoSeq
  <2>1. \A j \in Fresh(list) : ~(j <= m)
    BY <1>1, <1>5 DEF LastCarried, NoSeq
  <2> QED
    BY <1>2, <1>3, <1>5, <2>1
<1>6. CASE last # NoSeq
  <2>1. last \in Nat
    BY <1>6 DEF LastCarried
  <2>2. PICK h \in Fresh(list) : h <= m /\ list[h].parsed.seq = last
    BY <1>6 DEF LastCarried
  <2>3. ASSUME m + 1 \in OnTime(list)
        PROVE  last < n
    BY <1>2, <1>3, <2>2, <2>3
  <2>4. ASSUME last < n
        PROVE  m + 1 \in OnTime(list)
    <3>1. ASSUME NEW j \in Fresh(list), j < m + 1
          PROVE  list[j].parsed.seq < n
      <4>1. list[j].parsed.seq <= last /\ list[j].parsed.seq \in Nat
        BY <1>1, <1>3, <3>1 DEF LastCarried
      <4> QED
        BY <1>4, <2>1, <2>4, <4>1
    <3> QED
      BY <1>2, <3>1
  <2> QED
    BY <1>6, <2>3, <2>4 DEF n
<1> QED
  BY <1>5, <1>6

(* A line that remembers nothing. *)
LEMMA SameCopiesKnown ==
    ASSUME NEW v, NEW list, NEW m \in Nat, NEW known, FirstsKnown(v, list, m, known),
           list[m + 1].parsed # Malformed => KeyOf(list[m + 1].parsed) \in DOMAIN known
    PROVE  FirstsKnown(v, list, m + 1, known)
<1>1. \A j \in 1 .. m + 1 : j \in 1 .. m \/ j = m + 1
  OBVIOUS
<1>2. \A j \in 1 .. m + 1 :
         list[j].parsed # Malformed => KeyOf(list[j].parsed) \in DOMAIN known
  BY <1>1 DEF FirstsKnown
<1>3. ASSUME NEW k \in DOMAIN known, known[k].event.venue = v
      PROVE  \E j \in 1 .. m + 1 :
                /\ list[j].parsed = known[k].event
                /\ \A i \in 1 .. j - 1 :
                      list[i].parsed # Malformed => KeyOf(list[i].parsed) # k
  <2>1. PICK j \in 1 .. m :
           /\ list[j].parsed = known[k].event
           /\ \A i \in 1 .. j - 1 :
                 list[i].parsed # Malformed => KeyOf(list[i].parsed) # k
    BY <1>3 DEF FirstsKnown
  <2>2. j \in 1 .. m + 1
    OBVIOUS
  <2> QED
    BY <2>1, <2>2
<1> QED
  BY <1>2, <1>3 DEF FirstsKnown

(* A line that is a first copy. *)
LEMMA FirstCopyKnown ==
    ASSUME NEW v \in Venue, NEW list \in Seq(LinesOf(v)), NEW m \in Nat, m < Len(list),
           NEW known, SoundCopies(known), FirstsKnown(v, list, m, known),
           NEW e, e # Malformed, list[m + 1].parsed = e, KeyOf(e) \notin DOMAIN known,
           NEW next, DOMAIN next = DOMAIN known \cup {KeyOf(e)},
           \A k \in DOMAIN known : next[k] = known[k], next[KeyOf(e)].event = e
    PROVE  FirstsKnown(v, list, m + 1, next)
<1>1. \A j \in 1 .. m + 1 : j \in 1 .. m \/ j = m + 1
  OBVIOUS
<1>2. \A j \in 1 .. m + 1 :
         list[j].parsed # Malformed => KeyOf(list[j].parsed) \in DOMAIN next
  BY <1>1 DEF FirstsKnown
<1>3. ASSUME NEW k \in DOMAIN next, next[k].event.venue = v
      PROVE  \E j \in 1 .. m + 1 :
                /\ list[j].parsed = next[k].event
                /\ \A i \in 1 .. j - 1 :
                      list[i].parsed # Malformed => KeyOf(list[i].parsed) # k
  <2>1. CASE k = KeyOf(e)
    <3>1. m + 1 \in 1 .. m + 1 /\ m + 1 - 1 = m
      OBVIOUS
    <3>2. \A i \in 1 .. m : list[i].parsed # Malformed => KeyOf(list[i].parsed) # k
      BY <2>1 DEF FirstsKnown
    <3>3. list[m + 1].parsed = next[k].event
      BY <2>1
    <3> QED
      BY <3>1, <3>2, <3>3
  <2>2. CASE k # KeyOf(e)
    <3>1. k \in DOMAIN known /\ next[k] = known[k]
      BY <1>3, <2>2
    <3>2. PICK j \in 1 .. m :
             /\ list[j].parsed = known[k].event
             /\ \A i \in 1 .. j - 1 :
                   list[i].parsed # Malformed => KeyOf(list[i].parsed) # k
      BY <1>3, <3>1 DEF FirstsKnown
    <3>3. j \in 1 .. m + 1
      OBVIOUS
    <3> QED
      BY <3>1, <3>2, <3>3
  <2> QED
    BY <2>1, <2>2
<1> QED
  BY <1>2, <1>3 DEF FirstsKnown

(* Another venue's first copy. *)
LEMMA OtherCopyKnown ==
    ASSUME NEW v, NEW list, NEW m, NEW known, FirstsKnown(v, list, m, known),
           NEW e, e.venue # v,
           NEW next, DOMAIN next = DOMAIN known \cup {KeyOf(e)},
           \A k \in DOMAIN known : next[k] = known[k], next[KeyOf(e)].event = e
    PROVE  FirstsKnown(v, list, m, next)
<1>1. \A j \in 1 .. m :
         list[j].parsed # Malformed => KeyOf(list[j].parsed) \in DOMAIN next
  BY DEF FirstsKnown
<1>2. ASSUME NEW k \in DOMAIN next, next[k].event.venue = v
      PROVE  \E j \in 1 .. m :
                /\ list[j].parsed = next[k].event
                /\ \A i \in 1 .. j - 1 :
                      list[i].parsed # Malformed => KeyOf(list[i].parsed) # k
  <2>1. k \in DOMAIN known /\ next[k] = known[k]
    BY <1>2
  <2> QED
    BY <1>2, <2>1 DEF FirstsKnown
<1> QED
  BY <1>1, <1>2 DEF FirstsKnown

LEMMA LastStays ==
    ASSUME NEW v \in Venue, NEW list \in Seq(LinesOf(v)), NEW m \in Nat, m < Len(list),
           NEW last, LastCarried(list, m, last),
           m + 1 \in Fresh(list) => last # NoSeq /\ list[m + 1].parsed.seq <= last
    PROVE  LastCarried(list, m + 1, last)
<1>1. \A j \in Fresh(list) : j \in Nat /\ (j <= m + 1 <=> j <= m \/ j = m + 1)
  BY DEF Fresh
<1> QED
  BY <1>1 DEF LastCarried

LEMMA LastMoves ==
    ASSUME NEW v \in Venue, NEW list \in Seq(LinesOf(v)), NEW m \in Nat, m < Len(list),
           NEW last, LastCarried(list, m, last), m + 1 \in Fresh(list),
           last = NoSeq \/ last < list[m + 1].parsed.seq
    PROVE  LastCarried(list, m + 1, list[m + 1].parsed.seq)
<1> DEFINE n == list[m + 1].parsed.seq
<1>1. \A j \in Fresh(list) :
         j \in Nat /\ (j <= m + 1 <=> j <= m \/ j = m + 1) /\ list[j].parsed.seq \in Nat
  BY LineTypes DEF Fresh
<1>2. n \in Nat /\ m + 1 <= m + 1
  BY <1>1
<1>3. ASSUME NEW j \in Fresh(list), j <= m + 1
      PROVE  list[j].parsed.seq <= n
  <2>1. CASE j = m + 1
    BY <1>2, <2>1
  <2>2. CASE j <= m
    <3>1. list[j].parsed.seq <= last /\ list[j].parsed.seq \in Nat
      BY <1>1, <2>2 DEF LastCarried
    <3>2. last # NoSeq
      BY <3>1 DEF NoSeq
    <3> QED
      BY <1>2, <3>1, <3>2 DEF LastCarried
  <2> QED
    BY <1>1, <1>3, <2>1, <2>2
<1> QED
  BY <1>1, <1>2, <1>3 DEF LastCarried

-----------------------------------------------------------------------------
(* One line caught, its stamp not behind its lane and nothing sealed: what *)
(* becomes of it, told from the line and the copies remembered.            *)

Advances(v, t) ==
    /\ lanes'[v].frontier = t
    /\ \A w \in Venue \ {v} : lanes'[w] = lanes[w]

(* The letter written, if any, is not about a line without an event. *)
NoMalformedLetter ==
    \/ dead_letters' = dead_letters
    \/ \E letter : /\ dead_letters' = Append(dead_letters, letter)
                   /\ letter.reason.kind # "Malformed"

CaughtNoEvent(v, line) ==
    /\ line.parsed = Malformed
    /\ BuffersKept /\ seen' = seen
    /\ stats'.out_of_order = stats.out_of_order
    /\ \E letter : /\ dead_letters' = Append(dead_letters, letter)
                   /\ letter.reason.kind = "Malformed" /\ letter.venue = v

CaughtCopy(line) ==
    /\ line.parsed # Malformed
    /\ KeyOf(line.parsed) \in DOMAIN seen
    /\ BuffersKept /\ seen' = seen
    /\ stats'.out_of_order = stats.out_of_order
    /\ NoMalformedLetter

CaughtRejected(line) ==
    /\ line.parsed # Malformed /\ Canon[line.parsed] = Rejected
    /\ BuffersKept /\ FirstSeen(line.parsed)
    /\ stats'.out_of_order = stats.out_of_order
    /\ NoMalformedLetter

CaughtLate(v, line) ==
    /\ line.parsed # Malformed /\ Canon[line.parsed] # Rejected
    /\ lanes[v].last_seq # NoSeq /\ line.parsed.seq <= lanes[v].last_seq
    /\ BuffersKept /\ FirstSeen(line.parsed)
    /\ stats'.out_of_order = stats.out_of_order + 1
    /\ NoMalformedLetter

CaughtInOrder(v, line, t) ==
    /\ line.parsed # Malformed /\ Canon[line.parsed] # Rejected
    /\ lanes[v].last_seq = NoSeq \/ lanes[v].last_seq < line.parsed.seq
    /\ Buffers(line.parsed, t)
    /\ lanes'[v].last_seq = line.parsed.seq
    /\ stats'.out_of_order = stats.out_of_order
    /\ NoMalformedLetter

LEMMA JustTickAdvances ==
    ASSUME TypeOK, NEW v \in Venue, NEW t \in Stamp, lanes[v].frontier <= t, JustTick(v, t)
    PROVE  BuffersKept /\ Advances(v, t)
<1>1. lanes \in [Venue -> Lane] /\ lanes[v] \in Lane /\ t \in Nat
  BY StampedKey DEF TypeOK
<1>2. lanes' = [lanes EXCEPT ![v] = Ticked(lanes[v], t)]
  BY DEF JustTick, TickedLane
<1>3. Ticked(lanes[v], t).frontier = t
  BY <1>1 DEF Ticked, Lane
<1> QED
  BY <1>1, <1>2, <1>3, JustTickEffect DEF Advances

LEMMA PushAnswerOf ==
    ASSUME TypeOK, NEW v \in Venue, NEW t \in Stamp, lanes[v].frontier <= t, ~sealed,
           NEW e \in RawEvent, e.venue = v, Canon[e] # Rejected
    PROVE  /\ PushAnswer(t, e) = "Ok" <=>
                 lanes[v].last_seq = NoSeq \/ lanes[v].last_seq < e.seq
           /\ PushAnswer(t, e) # "Ok" =>
                 lanes[v].last_seq # NoSeq /\ e.seq <= lanes[v].last_seq
<1>1. lanes[v] \in Lane /\ t \in Nat
  BY StampedKey DEF TypeOK
<1>2. Canon[e].venue = v /\ Canon[e].seq = e.seq /\ e.seq \in Nat
  BY CanonAssumption, NumberAssumption
<1>3. /\ TickedLane(v, t).frontier = t /\ TickedLane(v, t).last_seq = lanes[v].last_seq
      /\ ~(t < t)
  BY <1>1 DEF TickedLane, Ticked, Lane
<1>4. PushAnswer(t, e)
         = IF lanes[v].last_seq # NoSeq /\ e.seq <= lanes[v].last_seq
           THEN "SeqWalkback" ELSE "Ok"
  BY <1>2, <1>3 DEF PushAnswer, PushResult
<1>5. lanes[v].last_seq \in Nat \cup {NoSeq}
  BY <1>1 DEF Lane
<1> QED
  BY <1>2, <1>4, <1>5

LEMMA CatchLine ==
    ASSUME Known, Counted, ~sealed, NEW v \in Venue, NEW t \in Stamp, lanes[v].frontier <= t,
           NEW line \in LinesOf(v), FillCaught(t, line)
    PROVE  /\ tape' = tape /\ Advances(v, t)
           /\ \/ CaughtNoEvent(v, line)
              \/ CaughtCopy(line)
              \/ CaughtRejected(line)
              \/ CaughtLate(v, line)
              \/ CaughtInOrder(v, line, t)
<1> DEFINE e == line.parsed
<1>1. /\ line.venue = v /\ line \in RawLine /\ tape' = tape
      /\ e # Malformed => e \in RawEvent /\ e.venue = v
  BY DEF LinesOf, FillCaught
<1>2. TypeOK /\ stats \in [Counter -> Nat]
  BY DEF Known, Counted
<1>3. CASE CatchMalformed(t, line)
  <2> DEFINE letter == [venue |-> v, event_id |-> NoId,
                        reason |-> Reason("Malformed"), text |-> e]
  <2>1. /\ JustTick(v, t) /\ e = Malformed /\ seen' = seen
        /\ dead_letters' = Append(dead_letters, letter)
        /\ stats' = [stats EXCEPT !.dead_lettered = @ + 1]
    BY <1>1, <1>3 DEF CatchMalformed, DeadLetter
  <2>2. letter.reason.kind = "Malformed" /\ letter.venue = v
    BY DEF Reason
  <2>3. stats'.out_of_order = stats.out_of_order
    BY <1>2, <2>1 DEF Counter
  <2>4. BuffersKept /\ Advances(v, t)
    BY <1>2, <2>1, JustTickAdvances
  <2> HIDE DEF letter
  <2>5. CaughtNoEvent(v, line)
    BY <2>1, <2>2, <2>3, <2>4 DEF CaughtNoEvent
  <2> QED
    BY <1>1, <2>4, <2>5
<1>4. CASE e # Malformed /\ CatchRetransmit(t, line, e)
  <2>1. /\ JustTick(v, t) /\ seen' = seen /\ dead_letters' = dead_letters
        /\ stats' = [stats EXCEPT !.duplicates = @ + 1]
        /\ KeyOf(e) \in DOMAIN seen
    BY <1>1, <1>4 DEF CatchRetransmit
  <2>2. stats'.out_of_order = stats.out_of_order
    BY <1>2, <2>1 DEF Counter
  <2>3. BuffersKept /\ Advances(v, t)
    BY <1>2, <2>1, JustTickAdvances
  <2>4. CaughtCopy(line)
    BY <1>4, <2>1, <2>2, <2>3 DEF CaughtCopy, NoMalformedLetter
  <2> QED
    BY <1>1, <2>3, <2>4
<1>5. CASE e # Malformed /\ CatchConflict(t, line, e)
  <2> DEFINE letter == [venue |-> e.venue, event_id |-> e.event_id,
                        reason |-> Reason("Byzantine"), text |-> e]
  <2>1. /\ JustTick(v, t) /\ seen' = seen
        /\ dead_letters' = Append(dead_letters, letter)
        /\ stats' = [[stats EXCEPT !["byzantine"] = @ + 1] EXCEPT !["dead_lettered"] = @ + 1]
        /\ KeyOf(e) \in DOMAIN seen
    BY <1>1, <1>5 DEF CatchConflict, DeadLetter
  <2>2. letter.reason.kind # "Malformed"
    BY DEF Reason
  <2>3. stats'.out_of_order = stats.out_of_order
    BY <1>2, <2>1, BumpTwo DEF Counter
  <2>4. BuffersKept /\ Advances(v, t)
    BY <1>2, <2>1, JustTickAdvances
  <2> HIDE DEF letter
  <2>5. NoMalformedLetter
    BY <2>1, <2>2 DEF NoMalformedLetter
  <2>6. CaughtCopy(line)
    BY <1>5, <2>1, <2>3, <2>4, <2>5 DEF CaughtCopy
  <2> QED
    BY <1>1, <2>4, <2>6
<1>6. CASE e # Malformed /\ CatchRejected(t, line, e)
  <2> DEFINE letter == [venue |-> e.venue, event_id |-> e.event_id,
                        reason |-> Reason("Rejected"), text |-> e]
  <2>1. /\ JustTick(v, t) /\ FirstSeen(e) /\ Canon[e] = Rejected
        /\ dead_letters' = Append(dead_letters, letter)
        /\ stats' = [stats EXCEPT !.dead_lettered = @ + 1]
    BY <1>1, <1>6 DEF CatchRejected, DeadLetter, FirstSeen
  <2>2. letter.reason.kind # "Malformed"
    BY DEF Reason
  <2>3. stats'.out_of_order = stats.out_of_order
    BY <1>2, <2>1 DEF Counter
  <2>4. BuffersKept /\ Advances(v, t)
    BY <1>2, <2>1, JustTickAdvances
  <2> HIDE DEF letter
  <2>5. NoMalformedLetter
    BY <2>1, <2>2 DEF NoMalformedLetter
  <2>6. CaughtRejected(line)
    BY <1>6, <2>1, <2>3, <2>4, <2>5 DEF CaughtRejected
  <2> QED
    BY <1>1, <2>4, <2>6
<1>7. CASE e # Malformed /\ CatchOutOfOrder(t, line, e)
  <2> DEFINE answer == PushAnswer(t, e)
             letter == [venue |-> e.venue, event_id |-> e.event_id,
                        reason |-> OutOfOrder(answer), text |-> e]
  <2>1. /\ JustTick(v, t) /\ FirstSeen(e) /\ Canon[e] # Rejected /\ answer # "Ok"
        /\ dead_letters' = Append(dead_letters, letter)
        /\ stats' = [[stats EXCEPT !["out_of_order"] = @ + 1] EXCEPT !["dead_lettered"] = @ + 1]
    BY <1>1, <1>7 DEF CatchOutOfOrder, DeadLetter, FirstSeen
  <2>2. letter.reason.kind # "Malformed"
    BY DEF OutOfOrder
  <2>3. stats'.out_of_order = stats.out_of_order + 1
    BY <1>2, <2>1, BumpTwo DEF Counter
  <2>4. BuffersKept /\ Advances(v, t)
    BY <1>2, <2>1, JustTickAdvances
  <2>5. lanes[v].last_seq # NoSeq /\ e.seq <= lanes[v].last_seq
    BY <1>1, <1>2, <1>7, <2>1, PushAnswerOf
  <2> HIDE DEF letter, answer
  <2>6. NoMalformedLetter
    BY <2>1, <2>2 DEF NoMalformedLetter
  <2>7. CaughtLate(v, line)
    BY <1>7, <2>1, <2>3, <2>4, <2>5, <2>6 DEF CaughtLate
  <2> QED
    BY <1>1, <2>4, <2>7
<1>8. CASE e # Malformed /\ CatchAccepted(t, line, e)
  <2>1. /\ KeyOf(e) \notin DOMAIN seen /\ Remember(e) /\ Canon[e] # Rejected
        /\ PushAnswer(t, e) = "Ok"
        /\ lanes' = [lanes EXCEPT ![v] = Pushed(TickedLane(v, t), t, Canon[e])]
        /\ max_seq' = [max_seq EXCEPT ![v] = Canon[e].seq]
        /\ dead_letters' = dead_letters
    BY <1>1, <1>8 DEF CatchAccepted
  <2>2. stats' = [[stats EXCEPT !["gaps"] = @ + NewGaps(e.venue, Canon[e].seq)]
                     EXCEPT !["accepted"] = @ + 1]
    BY <1>8 DEF CatchAccepted
  <2>3. e \in RawEvent /\ e.venue = v /\ Canon[e] \in Fill /\ Canon[e].seq = e.seq
    BY <1>1, <1>8, <2>1, RawEventTypes, NumberAssumption
  <2>4. NewGaps(e.venue, Canon[e].seq) \in Nat
    BY <1>2, <2>3, StampedKey, NewGapsType DEF Known
  <2>5. stats'.out_of_order = stats.out_of_order
    BY <1>2, <2>2, <2>4, BumpTwo DEF Counter
  <2>6. \A w \in Venue :
           lanes'[w] = IF w = v THEN Pushed(Ticked(lanes[w], t), t, Canon[e]) ELSE lanes[w]
    BY <1>2, <2>1 DEF TickedLane, TypeOK
  <2>7. Advances(v, t) /\ lanes'[v].last_seq = e.seq
    <3>1. /\ lanes'[v] = Pushed(Ticked(lanes[v], t), t, Canon[e])
          /\ \A w \in Venue \ {v} : lanes'[w] = lanes[w]
      BY <2>6
    <3>2. lanes'[v].frontier = t /\ lanes'[v].last_seq = Canon[e].seq
      BY <3>1 DEF Pushed
    <3> QED
      BY <2>3, <3>1, <3>2 DEF Advances
  <2>8. Buffers(e, t)
    BY <2>1, <2>3, <2>6 DEF Buffers, FirstSeen
  <2>9. lanes[v].last_seq = NoSeq \/ lanes[v].last_seq < e.seq
    BY <1>2, <2>1, <2>3, PushAnswerOf
  <2> HIDE DEF e
  <2>10. CaughtInOrder(v, line, t)
    BY <1>8, <2>1, <2>5, <2>7, <2>8, <2>9 DEF CaughtInOrder, NoMalformedLetter, e
  <2> QED
    BY <1>1, <2>7, <2>10
<1> QED
  BY <1>3, <1>4, <1>5, <1>6, <1>7, <1>8 DEF FillCaught

-----------------------------------------------------------------------------
(* What a venue's lines have led to, kept line by line.                    *)

Follows(v, list, m, out, known, last) ==
    /\ out = KeptTo(list, m)
    /\ FirstsKnown(v, list, m, known)
    /\ LastCarried(list, m, last)

Late(list) == Fresh(list) \ OnTime(list)

LEMMA FirstSeenEffect ==
    ASSUME NEW e, FirstSeen(e)
    PROVE  /\ KeyOf(e) \notin DOMAIN seen
           /\ DOMAIN seen' = DOMAIN seen \cup {KeyOf(e)}
           /\ \A k \in DOMAIN seen : seen'[k] = seen[k]
           /\ seen'[KeyOf(e)].event = e
BY DEF FirstSeen, Remember

LEMMA FollowsNone ==
    ASSUME Init, seen = << >>, NEW v \in Venue, NEW list \in Seq(LinesOf(v))
    PROVE  Follows(v, list, 0, Out(v), seen, lanes[v].last_seq)
<1>1. lanes[v] = NewLane /\ tape = << >>
  BY DEF Init
<1>2. lanes[v].buffer = << >> /\ lanes[v].last_seq = NoSeq
  BY <1>1 DEF NewLane
<1>3. Published = << >>
  BY <1>1 DEF Published
<1>4. OfVenue(v, Published) = << >>
  <2>1. << >> \in Seq(Fill) /\ {i \in DOMAIN << >> : << >>[i].venue = v} = {}
    OBVIOUS
  <2>2. {} \subseteq DOMAIN << >> /\ Cardinality({}) = 0
    BY FS_EmptySet
  <2>3. Picked(<< >>, {}) \in Seq(Fill) /\ Len(Picked(<< >>, {})) = 0
    BY <2>1, <2>2, PickedPlaces
  <2> QED
    BY <1>3, <2>1, <2>3 DEF OfVenue
<1>5. Out(v) = KeptTo(list, 0)
  <2>1. FillsOf(lanes[v].buffer) = << >>
    BY <1>2 DEF FillsOf
  <2> QED
    BY <1>4, <2>1, KeptNone DEF Out
<1>6. FirstsKnown(v, list, 0, seen)
  BY DEF FirstsKnown
<1>7. LastCarried(list, 0, lanes[v].last_seq)
  <2>1. \A j \in Fresh(list) : ~(j <= 0)
    BY DEF Fresh
  <2> QED
    BY <1>2, <2>1 DEF LastCarried
<1> QED
  BY <1>5, <1>6, <1>7 DEF Follows

(* Steps that remember nothing and push nothing. *)
LEMMA FollowsKept ==
    ASSUME TypeOK, LanesOrdered, seen' = seen,
           \/ BuffersKept /\ tape' = tape
           \/ \E w \in Venue : DrainEmit(w),
           NEW v \in Venue, NEW list, NEW m,
           Follows(v, list, m, Out(v), seen, lanes[v].last_seq)
    PROVE  Follows(v, list, m, Out(v)', seen', lanes'[v].last_seq)
<1>1. Out(v)' = Out(v)
  BY OutKept, OutEmitted
<1>2. lanes'[v].last_seq = lanes[v].last_seq
  <2>1. CASE BuffersKept
    BY <2>1 DEF BuffersKept
  <2>2. CASE \E w \in Venue : DrainEmit(w)
    BY <2>2 DEF DrainEmit, Popped, TypeOK, Lane
  <2> QED
    BY <2>1, <2>2
<1> QED
  BY <1>1, <1>2

LEMMA FollowsCatch ==
    ASSUME Known, Counted, ~sealed, NEW v \in Venue, NEW t \in Stamp, lanes[v].frontier <= t,
           NEW list \in Seq(LinesOf(v)), NEW m \in Nat, m < Len(list),
           FillCaught(t, list[m + 1]),
           Follows(v, list, m, Out(v), seen, lanes[v].last_seq)
    PROVE  /\ Follows(v, list, m + 1, Out(v)', seen', lanes'[v].last_seq)
           /\ stats'.out_of_order = stats.out_of_order + (IF m + 1 \in Late(list) THEN 1 ELSE 0)
<1> DEFINE line == list[m + 1]
           e    == line.parsed
           last == lanes[v].last_seq
<1>0. stats.out_of_order \in Nat
  BY DEF Counted, Counter
<1>1. line \in LinesOf(v) /\ m + 1 \in DOMAIN list
  OBVIOUS
<1>2. /\ e # Malformed => e \in RawEvent /\ e.venue = v /\ e.seq \in Nat
      /\ TypeOK /\ SoundCopies(seen)
  BY <1>1, LineTypes DEF Known, SeenSound, SoundCopies
<1>3. /\ Out(v) = KeptTo(list, m)
      /\ FirstsKnown(v, list, m, seen)
      /\ LastCarried(list, m, last)
  BY DEF Follows
<1>4. m + 1 \in Fresh(list) <=>
         e # Malformed /\ Canon[e] # Rejected /\ KeyOf(e) \notin DOMAIN seen
  BY <1>2, <1>3, FreshNext
<1>5. m + 1 \in Fresh(list) =>
         (m + 1 \in OnTime(list) <=> last = NoSeq \/ last < e.seq)
  BY <1>3, OnTimeNext
<1>6. OnTime(list) \subseteq Fresh(list)
  BY DEF OnTime
<1>7. /\ tape' = tape /\ Advances(v, t)
      /\ \/ CaughtNoEvent(v, line)
         \/ CaughtCopy(line)
         \/ CaughtRejected(line)
         \/ CaughtLate(v, line)
         \/ CaughtInOrder(v, line, t)
  BY <1>1, CatchLine
<1>8. /\ BuffersKept => Out(v)' = Out(v) /\ lanes'[v].last_seq = last
      /\ m + 1 \notin OnTime(list) => KeptTo(list, m + 1) = KeptTo(list, m)
  BY <1>7, OutKept, KeptNext DEF BuffersKept
<1> HIDE DEF line, last, e
<1>9. ASSUME m + 1 \notin Fresh(list), BuffersKept,
             seen' = seen /\ (e # Malformed => KeyOf(e) \in DOMAIN seen)
      PROVE  Follows(v, list, m + 1, Out(v)', seen', lanes'[v].last_seq)
  <2>1. FirstsKnown(v, list, m + 1, seen)
    BY <1>3, <1>9, SameCopiesKnown DEF line, e
  <2>2. LastCarried(list, m + 1, last)
    BY <1>3, <1>9, LastStays
  <2> QED
    BY <1>3, <1>6, <1>8, <1>9, <2>1, <2>2 DEF Follows
<1>10. ASSUME e # Malformed, FirstSeen(e)
       PROVE  FirstsKnown(v, list, m + 1, seen')
  BY <1>2, <1>3, <1>10, FirstSeenEffect, FirstCopyKnown DEF line, e
<1>11. CASE CaughtNoEvent(v, line)
  <2>1. /\ BuffersKept /\ seen' = seen /\ e = Malformed
        /\ stats'.out_of_order = stats.out_of_order
    BY <1>11 DEF CaughtNoEvent, e
  <2>2. m + 1 \notin Fresh(list)
    BY <1>4, <2>1
  <2>3. m + 1 \notin Late(list)
    BY <2>2 DEF Late
  <2> QED
    BY <1>0, <1>9, <2>1, <2>2, <2>3
<1>12. CASE CaughtCopy(line)
  <2>1. /\ BuffersKept /\ seen' = seen /\ KeyOf(e) \in DOMAIN seen
        /\ stats'.out_of_order = stats.out_of_order
    BY <1>12 DEF CaughtCopy, e
  <2>2. m + 1 \notin Fresh(list)
    BY <1>4, <2>1
  <2>3. m + 1 \notin Late(list)
    BY <2>2 DEF Late
  <2> QED
    BY <1>0, <1>9, <2>1, <2>2, <2>3
<1>13. CASE CaughtRejected(line)
  <2>1. /\ BuffersKept /\ FirstSeen(e) /\ e # Malformed /\ Canon[e] = Rejected
        /\ stats'.out_of_order = stats.out_of_order
    BY <1>13 DEF CaughtRejected, e
  <2>2. m + 1 \notin Fresh(list)
    BY <1>4, <2>1
  <2>3. LastCarried(list, m + 1, last)
    BY <1>3, <2>2, LastStays
  <2>4. m + 1 \notin Late(list)
    BY <2>2 DEF Late
  <2>5. Follows(v, list, m + 1, Out(v)', seen', lanes'[v].last_seq)
    BY <1>3, <1>6, <1>8, <1>10, <2>1, <2>2, <2>3 DEF Follows
  <2> QED
    BY <1>0, <2>1, <2>4, <2>5
<1>14. CASE CaughtLate(v, line)
  <2>1. /\ BuffersKept /\ FirstSeen(e) /\ e # Malformed /\ Canon[e] # Rejected
        /\ last # NoSeq /\ e.seq <= last
        /\ stats'.out_of_order = stats.out_of_order + 1
    BY <1>14 DEF CaughtLate, e, last
  <2>2. m + 1 \in Fresh(list)
    BY <1>4, <2>1, FirstSeenEffect
  <2>3. LastCarried(list, m + 1, last)
    BY <1>3, <2>1, <2>2, LastStays DEF e, line
  <2>4. m + 1 \notin OnTime(list) /\ m + 1 \in Late(list)
    <3>1. last \in Nat
      BY <1>3, <2>1 DEF LastCarried
    <3>2. ~(last < e.seq)
      BY <1>2, <2>1, <3>1
    <3> QED
      BY <1>5, <2>1, <2>2, <3>2 DEF Late
  <2>5. Follows(v, list, m + 1, Out(v)', seen', lanes'[v].last_seq)
    BY <1>3, <1>8, <1>10, <2>1, <2>3, <2>4 DEF Follows
  <2> QED
    BY <1>0, <2>1, <2>4, <2>5
<1>15. CASE CaughtInOrder(v, line, t)
  <2>1. /\ Buffers(e, t) /\ e # Malformed /\ Canon[e] # Rejected
        /\ last = NoSeq \/ last < e.seq
        /\ lanes'[v].last_seq = e.seq
        /\ stats'.out_of_order = stats.out_of_order
    BY <1>15 DEF CaughtInOrder, e, last
  <2>2. FirstSeen(e) /\ e \in RawEvent /\ e.venue = v
    BY <1>2, <2>1 DEF Buffers
  <2>3. m + 1 \in Fresh(list)
    BY <1>4, <2>1, <2>2, FirstSeenEffect
  <2>4. m + 1 \in OnTime(list) /\ m + 1 \notin Late(list)
    BY <1>5, <2>1, <2>3 DEF Late
  <2>5. Out(v)' = Append(Out(v), Canon[e])
    BY <1>2, <1>7, <2>1, <2>2, OutPushed
  <2>6. KeptTo(list, m + 1) = Append(KeptTo(list, m), Canon[e])
    BY <2>4, KeptNext DEF e, line
  <2>7. LastCarried(list, m + 1, e.seq)
    BY <1>3, <2>1, <2>3, LastMoves DEF e, line
  <2>8. Follows(v, list, m + 1, Out(v)', seen', lanes'[v].last_seq)
    BY <1>3, <1>10, <2>1, <2>2, <2>5, <2>6, <2>7 DEF Follows
  <2> QED
    BY <1>0, <2>1, <2>4, <2>8
<1> QED
  BY <1>7, <1>11, <1>12, <1>13, <1>14, <1>15

(* The other venues' lists are as before. *)
LEMMA FollowsOther ==
    ASSUME Known, Counted, ~sealed, NEW v \in Venue, NEW t \in Stamp, lanes[v].frontier <= t,
           NEW line \in LinesOf(v), FillCaught(t, line),
           NEW w \in Venue, w # v, NEW list, NEW m,
           Follows(w, list, m, Out(w), seen, lanes[w].last_seq)
    PROVE  Follows(w, list, m, Out(w)', seen', lanes'[w].last_seq)
<1>1. /\ tape' = tape /\ Advances(v, t)
      /\ \/ CaughtNoEvent(v, line)
         \/ CaughtCopy(line)
         \/ CaughtRejected(line)
         \/ CaughtLate(v, line)
         \/ CaughtInOrder(v, line, t)
  BY CatchLine
<1>2. lanes'[w].last_seq = lanes[w].last_seq
  BY <1>1 DEF Advances
<1>3. TypeOK /\ (line.parsed # Malformed => line.parsed \in RawEvent /\ line.parsed.venue = v)
  BY DEF Known, LinesOf
<1>4. Out(w)' = Out(w)
  <2>1. CASE BuffersKept
    BY <1>1, <2>1, OutKept
  <2>2. CASE CaughtInOrder(v, line, t)
    BY <1>1, <1>3, <2>2, OutPushed DEF CaughtInOrder
  <2> QED
    BY <1>1, <2>1, <2>2 DEF CaughtNoEvent, CaughtCopy, CaughtRejected, CaughtLate
<1>5. FirstsKnown(w, list, m, seen')
  <2>1. \/ seen' = seen
        \/ line.parsed # Malformed /\ FirstSeen(line.parsed)
    BY <1>1 DEF CaughtNoEvent, CaughtCopy, CaughtRejected, CaughtLate, CaughtInOrder, Buffers
  <2>2. CASE line.parsed # Malformed /\ FirstSeen(line.parsed)
    BY <1>3, <2>2, FirstSeenEffect, OtherCopyKnown DEF Follows
  <2> QED
    BY <2>1, <2>2 DEF Follows
<1> QED
  BY <1>2, <1>4, <1>5 DEF Follows

-----------------------------------------------------------------------------
(* The letters about lines without an event.                               *)

MalformedOf(v) == {i \in Letters("Malformed") : dead_letters[i].venue = v}

LEMMA MalformedLetters ==
    ASSUME Known, Counted, ~sealed, NEW v \in Venue, NEW t \in Stamp, lanes[v].frontier <= t,
           NEW line \in LinesOf(v), FillCaught(t, line), NEW w \in Venue
    PROVE  /\ IsFiniteSet(MalformedOf(w))
           /\ Cardinality(MalformedOf(w)')
                 = Cardinality(MalformedOf(w))
                      + (IF w = v /\ line.parsed = Malformed THEN 1 ELSE 0)
<1> DEFINE n == Len(dead_letters) + 1
<1>1. dead_letters \in Seq(Letter) /\ n \in Nat /\ DOMAIN dead_letters = 1 .. n - 1
  BY DEF Known, LettersSound
<1>2. MalformedOf(w) = {i \in DOMAIN dead_letters :
                           /\ dead_letters[i].reason.kind = "Malformed"
                           /\ dead_letters[i].venue = w}
  BY DEF MalformedOf, Letters
<1>3. MalformedOf(w)' = {i \in DOMAIN dead_letters' :
                           /\ dead_letters'[i].reason.kind = "Malformed"
                           /\ dead_letters'[i].venue = w}
  BY DEF MalformedOf, Letters
<1>4. /\ IsFiniteSet(MalformedOf(w)) /\ Cardinality(MalformedOf(w)) \in Nat
      /\ n \notin MalformedOf(w)
  <2>1. IsFiniteSet(DOMAIN dead_letters)
    BY <1>1, FS_Interval
  <2> QED
    BY <1>1, <1>2, <2>1, FS_Subset, FS_CardinalityType
<1>5. ASSUME NEW letter, dead_letters' = Append(dead_letters, letter)
      PROVE  MalformedOf(w)' = MalformedOf(w)
                \cup (IF letter.reason.kind = "Malformed" /\ letter.venue = w THEN {n} ELSE {})
  <2>1. /\ DOMAIN dead_letters' = 1 .. n /\ dead_letters'[n] = letter
        /\ \A i \in 1 .. n - 1 : dead_letters'[i] = dead_letters[i]
    BY <1>1, <1>5
  <2>2. ASSUME NEW i
        PROVE  i \in MalformedOf(w)' <=>
                  i \in MalformedOf(w)
                    \/ (i = n /\ letter.reason.kind = "Malformed" /\ letter.venue = w)
    <3>1. i \in 1 .. n <=> i \in 1 .. n - 1 \/ i = n
      BY <1>1
    <3>2. i \in 1 .. n - 1 => i # n
      BY <1>1
    <3> QED
      BY <1>1, <1>2, <1>3, <2>1, <3>1, <3>2
  <2> QED
    BY <2>2
<1>6. \/ CaughtNoEvent(v, line)
      \/ line.parsed # Malformed /\ NoMalformedLetter
  BY CatchLine DEF CaughtCopy, CaughtRejected, CaughtLate, CaughtInOrder
<1>7. CASE CaughtNoEvent(v, line)
  <2>1. PICK letter : /\ dead_letters' = Append(dead_letters, letter)
                      /\ letter.reason.kind = "Malformed" /\ letter.venue = v
    BY <1>7 DEF CaughtNoEvent
  <2>2. line.parsed = Malformed
    BY <1>7 DEF CaughtNoEvent
  <2>3. CASE w = v
    <3>1. MalformedOf(w)' = MalformedOf(w) \cup {n}
      BY <1>5, <2>1, <2>3
    <3> QED
      BY <1>4, <2>2, <2>3, <3>1, FS_AddElement
  <2>4. CASE w # v
    <3>1. MalformedOf(w)' = MalformedOf(w)
      BY <1>5, <2>1, <2>4
    <3> QED
      BY <1>4, <2>4, <3>1
  <2> QED
    BY <2>3, <2>4
<1>8. CASE line.parsed # Malformed /\ NoMalformedLetter
  <2>1. MalformedOf(w)' = MalformedOf(w)
    <3>1. CASE dead_letters' = dead_letters
      BY <1>2, <1>3, <3>1
    <3>2. CASE dead_letters' # dead_letters
      <4>1. PICK letter : /\ dead_letters' = Append(dead_letters, letter)
                          /\ letter.reason.kind # "Malformed"
        BY <1>8, <3>2 DEF NoMalformedLetter
      <4> QED
        BY <1>5, <4>1
    <3> QED
      BY <3>1, <3>2
  <2> QED
    BY <1>4, <1>8, <2>1
<1> QED
  BY <1>4, <1>6, <1>7, <1>8

-----------------------------------------------------------------------------
(* Counting over all venues: f gives each venue a finite set.              *)

Pairs(f) == UNION {{v} \X f[v] : v \in Venue}

LEMMA PairMember ==
    ASSUME NEW f, NEW p
    PROVE  p \in Pairs(f) <=> \E v \in Venue : \E x \in f[v] : p = <<v, x>>
BY DEF Pairs

LEMMA VenuesAreFinite == IsFiniteSet(Venue)
BY KAssumption, FS_Interval DEF Venue

LEMMA PairsAreFinite ==
    ASSUME NEW f, \A v \in Venue : IsFiniteSet(f[v])
    PROVE  IsFiniteSet(Pairs(f)) /\ Cardinality(Pairs(f)) \in Nat
<1> DEFINE parts == {{v} \X f[v] : v \in Venue}
           part  == [v \in Venue |-> {v} \X f[v]]
<1>1. part \in Surjection(Venue, parts)
  BY DEF Surjection
<1>2. IsFiniteSet(parts)
  BY <1>1, VenuesAreFinite, FS_Surjection
<1>3. \A v \in Venue : IsFiniteSet({v} \X f[v])
  BY FS_Product, FS_Singleton
<1>4. \A T \in parts : IsFiniteSet(T)
  BY <1>3
<1> HIDE DEF parts
<1>5. IsFiniteSet(UNION parts)
  BY <1>2, <1>4, FS_UNION
<1> QED
  BY <1>5, FS_CardinalityType DEF Pairs, parts

LEMMA PairsGrow ==
    ASSUME NEW f, NEW g, \A w \in Venue : IsFiniteSet(f[w]),
           NEW v \in Venue, NEW x, x \notin f[v], g[v] = f[v] \cup {x},
           \A w \in Venue \ {v} : g[w] = f[w]
    PROVE  Cardinality(Pairs(g)) = Cardinality(Pairs(f)) + 1
<1>1. ASSUME NEW p
      PROVE  p \in Pairs(g) <=> p \in Pairs(f) \cup {<<v, x>>}
  BY PairMember
<1>2. Pairs(g) = Pairs(f) \cup {<<v, x>>}
  BY <1>1
<1>3. <<v, x>> \notin Pairs(f)
  BY PairMember
<1> QED
  BY <1>2, <1>3, PairsAreFinite, FS_AddElement

LEMMA BijectionFacts ==
    ASSUME NEW S, NEW T, NEW b \in Bijection(S, T)
    PROVE  /\ b \in [S -> T]
           /\ \A x, y \in S : b[x] = b[y] => x = y
           /\ \A y \in T : \E x \in S : b[x] = y
BY DEF Bijection, Injection, Surjection, IsInjective

LEMMA PairsOfOneSize ==
    ASSUME NEW f, NEW g, \A v \in Venue : /\ IsFiniteSet(f[v]) /\ IsFiniteSet(g[v])
                                          /\ Cardinality(f[v]) = Cardinality(g[v])
    PROVE  Cardinality(Pairs(f)) = Cardinality(Pairs(g))
<1> DEFINE across == [v \in Venue |-> CHOOSE b : b \in Bijection(f[v], g[v])]
           move   == [p \in Pairs(f) |-> <<p[1], across[p[1]][p[2]]>>]
<1>1. ASSUME NEW v \in Venue
      PROVE  across[v] \in Bijection(f[v], g[v])
  BY FS_SameCardinalityBij DEF ExistsBijection
<1> HIDE DEF across
<1>2. ASSUME NEW v \in Venue
      PROVE  /\ \A x \in f[v] : across[v][x] \in g[v]
             /\ \A x, y \in f[v] : across[v][x] = across[v][y] => x = y
             /\ \A y \in g[v] : \E x \in f[v] : across[v][x] = y
  BY <1>1, BijectionFacts
<1>3. ASSUME NEW v \in Venue, NEW x \in f[v]
      PROVE  <<v, x>> \in Pairs(f) /\ move[<<v, x>>] = <<v, across[v][x]>>
  BY PairMember
<1> HIDE DEF move
<1>4. ASSUME NEW p \in Pairs(f)
      PROVE  move[p] \in Pairs(g)
  <2>1. PICK v \in Venue : \E x \in f[v] : p = <<v, x>>
    BY PairMember
  <2>2. PICK x \in f[v] : p = <<v, x>>
    BY <2>1
  <2> QED
    BY <1>2, <1>3, <2>2, PairMember
<1>5. ASSUME NEW p \in Pairs(f), NEW q \in Pairs(f), move[p] = move[q]
      PROVE  p = q
  <2>1. PICK v \in Venue : \E x \in f[v] : p = <<v, x>>
    BY PairMember
  <2>2. PICK x \in f[v] : p = <<v, x>>
    BY <2>1
  <2>3. PICK w \in Venue : \E x1 \in f[w] : q = <<w, x1>>
    BY PairMember
  <2>4. PICK y \in f[w] : q = <<w, y>>
    BY <2>3
  <2>5. <<v, across[v][x]>> = <<w, across[w][y]>>
    BY <1>3, <1>5, <2>2, <2>4
  <2>6. v = w /\ across[v][x] = across[w][y]
    BY <2>5
  <2> QED
    BY <1>2, <2>2, <2>4, <2>6
<1>6. ASSUME NEW q \in Pairs(g)
      PROVE  \E p \in Pairs(f) : move[p] = q
  <2>1. PICK v \in Venue : \E y \in g[v] : q = <<v, y>>
    BY PairMember
  <2>2. PICK y \in g[v] : q = <<v, y>>
    BY <2>1
  <2>3. PICK x \in f[v] : across[v][x] = y
    BY <1>2
  <2> QED
    BY <1>3, <2>2, <2>3
<1>7. move \in [Pairs(f) -> Pairs(g)]
  <2>1. move = [p \in Pairs(f) |-> move[p]]
    BY DEF move
  <2> QED
    BY <1>4, <2>1
<1>8. move \in Bijection(Pairs(f), Pairs(g))
  BY <1>5, <1>6, <1>7 DEF Bijection, Injection, Surjection, IsInjective
<1>9. IsFiniteSet(Pairs(f))
  BY PairsAreFinite
<1> QED
  BY <1>8, <1>9, FS_Bijection DEF ExistsBijection

-----------------------------------------------------------------------------
(* How the lines a venue delivers lie in its file.                         *)

Placed(v, file, list, place) ==
    /\ place \in Bijection(DOMAIN list, Texts(file))
    /\ \A k \in DOMAIN list : list[k] = ReadLine(v, file[place[k]])
    /\ \A k, l \in DOMAIN list :
          k < l /\ SeqKey(list[k]) = SeqKey(list[l]) => place[k] < place[l]

LEMMA ReadPlaces ==
    ASSUME NEW v \in Venue, NEW file \in Seq(Text)
    PROVE  /\ Placed(v, file, ReadNdjson(v, file), Ascending(Texts(file)))
           /\ \A k, l \in DOMAIN ReadNdjson(v, file) :
                 k < l => Ascending(Texts(file))[k] < Ascending(Texts(file))[l]
<1> DEFINE n     == Cardinality(Texts(file))
           list  == ReadNdjson(v, file)
           place == Ascending(Texts(file))
<1>1. IsFiniteSet(Texts(file)) /\ Texts(file) \subseteq Nat
  <2>1. Texts(file) \subseteq DOMAIN file
    BY DEF Texts
  <2> QED
    BY <2>1, PlacesAreFinite
<1>2. /\ n \in Nat /\ DOMAIN list = 1 .. n
      /\ \A k \in 1 .. n : list[k] = ReadLine(v, file[place[k]])
  BY ReadNdjsonReads
<1> HIDE DEF n, list
<1>3. /\ place \in [1 .. n -> Texts(file)]
      /\ \A i \in Texts(file) : \E k \in 1 .. n : place[k] = i
      /\ \A k, l \in 1 .. n : k < l => place[k] < place[l]
  BY <1>1, AscendingAscends DEF n
<1> HIDE DEF place
<1>4. ASSUME NEW k \in 1 .. n, NEW l \in 1 .. n, place[k] = place[l]
      PROVE  k = l
  <2>1. place[k] \in Nat /\ place[l] \in Nat /\ k \in Nat /\ l \in Nat
    BY <1>1, <1>3
  <2>2. ~(k < l) /\ ~(l < k)
    BY <1>3, <1>4, <2>1
  <2> QED
    BY <2>1, <2>2
<1>5. place \in Bijection(1 .. n, Texts(file))
  BY <1>3, <1>4 DEF Bijection, Injection, Surjection, IsInjective
<1> QED
  BY <1>2, <1>3, <1>5 DEF Placed, list, place

LEMMA SortedPlaces ==
    ASSUME NEW v \in Venue, NEW file \in Seq(Text)
    PROVE  /\ \E place : Placed(v, file, SortedBySeq(ReadNdjson(v, file)), place)
           /\ \A k, l \in DOMAIN SortedBySeq(ReadNdjson(v, file)) : k < l =>
                 SeqKey(SortedBySeq(ReadNdjson(v, file))[k])
                    <= SeqKey(SortedBySeq(ReadNdjson(v, file))[l])
<1> DEFINE read  == ReadNdjson(v, file)
           list  == SortedBySeq(read)
           D     == DOMAIN read
           at    == Ascending(Texts(file))
           order == StablySorted(D, Keys(read))
           place == [k \in D |-> at[order[k]]]
<1>1. read \in Seq(LinesOf(v)) /\ D \subseteq Nat
  BY ReadNdjsonReads
<1>2. /\ Placed(v, file, read, at)
      /\ \A k, l \in D : k < l => at[k] < at[l]
  BY ReadPlaces
<1> HIDE DEF read, at
<1>3. list \in Seq(LinesOf(v)) /\ Len(list) = Len(read)
  BY <1>1, SortedBySeqSorts
<1>4. DOMAIN list = D
  BY <1>1, <1>3
<1>5. /\ order \in [D -> D]
      /\ \A k \in D : list[k] = read[order[k]]
      /\ \A i \in D : \E k \in D : order[k] = i
      /\ \A k, l \in D : k < l => Ahead(Keys(read), order[k], order[l])
  BY <1>1, SortedBySeqSorts
<1> HIDE DEF order, D, list
<1>6. \A k \in D : Keys(read)[order[k]] = SeqKey(list[k])
  BY <1>5 DEF Keys, D
<1>7. ASSUME NEW k \in D
      PROVE  order[k] \in Nat /\ k \in Nat /\ SeqKey(list[k]) \in Nat
  <2>1. list[k] \in LinesOf(v)
    BY <1>3, <1>4
  <2>2. SeqKey(list[k]) \in Nat
    BY <2>1, NumberAssumption, BoundAssumption DEF SeqKey, LinesOf
  <2>3. order[k] \in D
    BY <1>5
  <2> QED
    BY <1>1, <2>2, <2>3
<1>8. ASSUME NEW k \in D, NEW l \in D, k < l
      PROVE  /\ SeqKey(list[k]) <= SeqKey(list[l])
             /\ SeqKey(list[k]) = SeqKey(list[l]) => order[k] < order[l]
  <2>1. Ahead(Keys(read), order[k], order[l])
    BY <1>5, <1>8
  <2> QED
    BY <1>6, <1>7, <2>1 DEF Ahead
<1>9. ASSUME NEW k \in D, NEW l \in D, order[k] = order[l]
      PROVE  k = l
  <2>1. ASSUME NEW a \in D, NEW b \in D, a < b, order[a] = order[b]
        PROVE  FALSE
    <3>1. Ahead(Keys(read), order[a], order[b])
      BY <1>5, <2>1
    <3>2. order[a] \in Nat /\ Keys(read)[order[a]] \in Nat
      BY <1>6, <1>7
    <3> QED
      BY <2>1, <3>1, <3>2 DEF Ahead
  <2> QED
    BY <1>7, <1>9, <2>1
<1>10. /\ at \in [D -> Texts(file)]
       /\ \A k, l \in D : at[k] = at[l] => k = l
       /\ \A i \in Texts(file) : \E k \in D : at[k] = i
       /\ \A k \in D : read[k] = ReadLine(v, file[at[k]])
  BY <1>2 DEF Placed, Bijection, Injection, Surjection, IsInjective, D
<1>11. place \in Bijection(D, Texts(file))
  <2>1. place \in [D -> Texts(file)]
    BY <1>5, <1>10
  <2>2. \A k, l \in D : place[k] = place[l] => k = l
    BY <1>5, <1>9, <1>10
  <2>3. ASSUME NEW i \in Texts(file)
        PROVE  \E k \in D : place[k] = i
    <3>1. PICK h \in D : at[h] = i
      BY <1>10
    <3>2. PICK k \in D : order[k] = h
      BY <1>5
    <3> QED
      BY <3>1, <3>2
  <2> QED
    BY <2>1, <2>2, <2>3 DEF Bijection, Injection, Surjection, IsInjective
<1>12. \A k \in D : list[k] = ReadLine(v, file[place[k]])
  BY <1>5, <1>10
<1>13. \A k, l \in D :
          k < l /\ SeqKey(list[k]) = SeqKey(list[l]) => place[k] < place[l]
  BY <1>2, <1>5, <1>8
<1>14. Placed(v, file, list, place)
  BY <1>4, <1>11, <1>12, <1>13 DEF Placed
<1>15. \A k, l \in DOMAIN list : k < l => SeqKey(list[k]) <= SeqKey(list[l])
  BY <1>4, <1>8
<1> QED
  BY <1>14, <1>15 DEF list, read

=============================================================================
