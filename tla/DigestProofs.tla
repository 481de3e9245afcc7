---------------------------- MODULE DigestProofs ----------------------------
(***************************************************************************)
(* Proofs about Digest, for any markets, series, limits and settings.      *)
(*                                                                         *)
(* The digest takes the first of a ranking twice: of the candidates of a   *)
(* series, and of what then is left.  First(n, S, place) has n markets,    *)
(* or all of S, and precedes the rest of S (FirstProperties): the counting *)
(* map that sends a market to the number of those before it is one to one. *)
(* So a market that is left out has the whole of a First before it, and    *)
(* none of those is worse, which is the reason it is left out (LeftOut).   *)
(***************************************************************************)
EXTENDS Digest, SequenceTheorems, FiniteSetTheorems, TLAPS

-----------------------------------------------------------------------------
(* Taking the first of a ranking. *)

\* Each market of S has a place of its own.
Placed(S, place) ==
    /\ IsFiniteSet(S)
    /\ \A m \in S : place[m] \in Int
    /\ \A m, o \in S : place[m] = place[o] => m = o

\* The markets of S before m.
Ahead(S, m, place) == {o \in S : place[o] < place[m]}

(* Each market of a ranking has another number of markets before it, and    *)
(* every number below the size of the ranking is one market's.              *)
LEMMA Counting ==
    ASSUME NEW S, NEW place, Placed(S, place)
    PROVE  LET count == [m \in S |-> Cardinality(Ahead(S, m, place))]
           IN  /\ count \in Bijection(S, 0 .. Cardinality(S) - 1)
               /\ \A m, o \in S : place[m] < place[o] => count[m] < count[o]
<1> DEFINE count == [m \in S |-> Cardinality(Ahead(S, m, place))]
           N == Cardinality(S)
<1>1. N \in Nat
  BY FS_CardinalityType DEF Placed
<1>2. ASSUME NEW m \in S
      PROVE  /\ IsFiniteSet(Ahead(S, m, place)) /\ count[m] \in 0 .. N - 1
             /\ count[m] = Cardinality(Ahead(S, m, place))
  <2> DEFINE A == Ahead(S, m, place)
  <2>1. A \in SUBSET S /\ m \notin A
    BY DEF Ahead, Placed
  <2> HIDE DEF A
  <2>2. /\ IsFiniteSet(A) /\ Cardinality(A) <= N /\ N # Cardinality(A)
    BY <2>1, FS_Subset DEF Placed
  <2>3. Cardinality(A) \in Nat
    BY <2>2, FS_CardinalityType
  <2>4. count[m] = Cardinality(A)
    BY DEF A
  <2>5. Cardinality(A) \in 0 .. N - 1
    BY <1>1, <2>2, <2>3
  <2> QED BY <2>2, <2>4, <2>5 DEF A
<1>3. ASSUME NEW m \in S, NEW o \in S, place[m] < place[o] PROVE count[m] < count[o]
  <2> DEFINE A == Ahead(S, m, place)
             B == Ahead(S, o, place)
  <2>1. IsFiniteSet(A) /\ IsFiniteSet(B) /\ count[m] = Cardinality(A) /\ count[o] = Cardinality(B)
    BY <1>2
  <2>2. m \notin A /\ A \cup {m} \in SUBSET B
    BY <1>3 DEF Ahead, Placed
  <2> HIDE DEF A, B
  <2>3. Cardinality(A \cup {m}) = Cardinality(A) + 1
    BY <2>1, <2>2, FS_AddElement
  <2>4. Cardinality(A \cup {m}) <= Cardinality(B)
    BY <2>1, <2>2, FS_Subset
  <2>5. Cardinality(A) \in Nat /\ Cardinality(B) \in Nat
    BY <2>1, FS_CardinalityType
  <2> HIDE DEF count
  <2> QED BY <2>1, <2>3, <2>4, <2>5
<1>4. count \in [S -> 0 .. N - 1] /\ DOMAIN count = S
  BY <1>2
<1> HIDE DEF count, N
<1>5. \A m, o \in S : count[m] = count[o] => m = o
  <2>1. ASSUME NEW m \in S, NEW o \in S, m # o PROVE count[m] # count[o]
    <3>1. place[m] < place[o] \/ place[o] < place[m]
      BY <2>1 DEF Placed
    <3>2. count[m] \in Int /\ count[o] \in Int
      BY <1>1, <1>4
    <3> QED BY <1>3, <3>1, <3>2
  <2> QED BY <2>1
<1>6. count \in Injection(S, 0 .. N - 1)
  BY <1>4, <1>5 DEF Injection, IsInjective
<1>7. IsFiniteSet(0 .. N - 1) /\ Cardinality(0 .. N - 1) = N
  BY <1>1, FS_Interval
<1>8. count \in Surjection(S, 0 .. N - 1)
  BY <1>6, <1>7, FS_Injection DEF N
<1>9. count \in Bijection(S, 0 .. N - 1)
  BY <1>6, <1>8 DEF Bijection
<1> QED BY <1>3, <1>9 DEF count, N

(* The first n of a ranking are n or all of it, and precede the rest.       *)
LEMMA FirstProperties ==
    ASSUME NEW S, NEW place, Placed(S, place), NEW n \in Nat
    PROVE  /\ First(n, S, place) \in SUBSET S /\ IsFiniteSet(First(n, S, place))
           /\ Cardinality(First(n, S, place)) \in 0 .. n
           /\ First(n, S, place) # S => Cardinality(First(n, S, place)) = n
           /\ \A m \in First(n, S, place), o \in S \ First(n, S, place) : place[m] < place[o]
<1> DEFINE F == First(n, S, place)
           N == Cardinality(S)
           count == [m \in S |-> Cardinality(Ahead(S, m, place))]
           f == [m \in F |-> count[m]]
<1>1. /\ count \in Bijection(S, 0 .. N - 1)
      /\ \A m, o \in S : place[m] < place[o] => count[m] < count[o]
  BY Counting
<1>2. F = {m \in S : count[m] < n}
  BY DEF First, Ahead
<1>3. N \in Nat
  BY FS_CardinalityType DEF Placed
<1> HIDE DEF F, N, count
<1>4. /\ count \in [S -> 0 .. N - 1]
      /\ \A m, o \in S : count[m] = count[o] => m = o
      /\ \A k \in 0 .. N - 1 : \E m \in S : count[m] = k
  BY <1>1 DEF Bijection, Injection, Surjection, IsInjective
<1>5. F \in SUBSET S /\ IsFiniteSet(F)
  BY <1>2, FS_Subset DEF Placed
<1>6. f \in Injection(F, 0 .. n - 1)
  <2>1. \A m \in F : f[m] = count[m] /\ count[m] \in 0 .. n - 1
    BY <1>2, <1>3, <1>4
  <2>2. f \in [F -> 0 .. n - 1] /\ DOMAIN f = F
    BY <2>1
  <2>3. \A m, o \in F : f[m] = f[o] => m = o
    BY <1>4, <1>5, <2>1
  <2> HIDE DEF f
  <2> QED BY <2>2, <2>3 DEF Injection, IsInjective
<1>7. IsFiniteSet(0 .. n - 1) /\ Cardinality(0 .. n - 1) = n
  BY FS_Interval
<1>8. Cardinality(F) \in 0 .. n
  <2>1. Cardinality(F) <= n
    BY <1>6, <1>7, FS_Injection
  <2> QED BY <1>5, <2>1, FS_CardinalityType
<1>9. ASSUME F # S PROVE Cardinality(F) = n
  <2>1. PICK m \in S : ~(count[m] < n)
    BY <1>2, <1>9
  <2>2. count[m] \in 0 .. N - 1
    BY <1>4, <2>1
  <2>3. n <= N - 1
    BY <1>3, <2>1, <2>2
  <2>4. ASSUME NEW k \in 0 .. n - 1 PROVE \E o \in F : f[o] = k
    <3>1. k \in 0 .. N - 1
      BY <1>3, <2>3
    <3>2. PICK o \in S : count[o] = k
      BY <1>4, <3>1
    <3>3. o \in F
      BY <1>2, <3>2
    <3> QED BY <3>2, <3>3
  <2>5. f \in Surjection(F, 0 .. n - 1)
    BY <1>6, <2>4 DEF Injection, Surjection
  <2> HIDE DEF f
  <2> QED BY <1>6, <1>7, <2>5, FS_Injection
<1>10. ASSUME NEW m \in F, NEW o \in S \ F PROVE place[m] < place[o]
  <2>1. m \in S /\ count[m] < n /\ o \in S /\ ~(count[o] < n)
    BY <1>2, <1>10
  <2>2. count[m] \in Int /\ count[o] \in Int
    BY <1>3, <1>4, <2>1
  <2>3. ~(count[o] < count[m]) /\ count[m] # count[o]
    BY <2>1, <2>2
  <2>4. ~(place[o] < place[m]) /\ place[m] # place[o]
    BY <1>1, <2>1, <2>3 DEF Placed
  <2> QED BY <2>1, <2>4 DEF Placed
<1> QED BY <1>5, <1>8, <1>9, <1>10 DEF F

-----------------------------------------------------------------------------
(* The hour. *)

(* The code's comparison of hours, on either side of midnight, says whether *)
(* the hour is one of those from the start to the end.                      *)
LEMMA QuietMeans ==
    ASSUME quiet.start \in 0 .. Hours - 1, quiet.end \in 0 .. Hours - 1, hour \in 0 .. Hours - 1
    PROVE  InQuietHours <=> Quiet
<1> DEFINE s == quiet.start
           e == quiet.end
<1>1. Hours \in Nat \ {0}
  BY DigestAssumption
<1>2. \A a \in 0 .. Hours - 1, b \in 0 .. Hours - 1 :
         (a - b) % Hours = IF a >= b THEN a - b ELSE a - b + Hours
  <2> SUFFICES ASSUME NEW a \in 0 .. Hours - 1, NEW b \in 0 .. Hours - 1
               PROVE  (a - b) % Hours = IF a >= b THEN a - b ELSE a - b + Hours
    OBVIOUS
  <2>1. CASE a >= b
    <3>1. a - b \in Nat /\ a - b < Hours
      BY <1>1, <2>1
    <3>2. \A x \in Nat, h \in Nat \ {0} : x < h => x % h = x
      OBVIOUS
    <3> QED BY <1>1, <2>1, <3>1, <3>2
  <2>2. CASE ~(a >= b)
    <3>1. a - b \in Int /\ a - b < 0 /\ a - b + Hours >= 0
      BY <1>1, <2>2
    <3>2. \A x \in Int, h \in Nat \ {0} : x < 0 /\ x + h >= 0 => x % h = x + h
      OBVIOUS
    <3> QED BY <1>1, <2>2, <3>1, <3>2
  <2> QED BY <2>1, <2>2
<1>3. /\ (hour - s) % Hours = IF hour >= s THEN hour - s ELSE hour - s + Hours
      /\ (e - s) % Hours = IF e >= s THEN e - s ELSE e - s + Hours
  BY <1>2
<1>4. (hour - s) % Hours < (e - s) % Hours
        <=> s # e /\ IF s < e THEN hour >= s /\ hour < e ELSE hour >= s \/ hour < e
  BY <1>1, <1>3
<1> QED BY <1>4 DEF InQuietHours, Quiet

-----------------------------------------------------------------------------
(* Digests. *)

\* What is left after the series, and after the cut.
Kept(place) == Diverse(Good(place), place)
Chosen(place) == Cut(Kept(place), place)

LEMMA RankingPlaces ==
    ASSUME NEW place \in Rankings
    PROVE  /\ Candidates \subseteq Markets /\ DOMAIN place = Candidates
           /\ \A S \in SUBSET Candidates : Placed(S, place)
           /\ \A m, o \in Candidates : place[m] < place[o] => ~Before(o, m)
           /\ Good(place) \subseteq Candidates /\ Kept(place) \subseteq Good(place)
           /\ Chosen(place) \subseteq Kept(place)
<1>1. Candidates \subseteq Markets /\ IsFiniteSet(Candidates)
  <2>1. Candidates \in SUBSET Markets
    BY DEF Candidates
  <2> QED BY <2>1, FS_Subset, DigestAssumption
<1>2. place \in [Candidates -> 1 .. Cardinality(Candidates)]
  BY DEF Rankings
<1>3. \A a, b \in Candidates : /\ place[a] = place[b] => a = b
                               /\ place[a] < place[b] => ~Before(b, a)
  BY <1>2 DEF Rankings
<1>4. \A m \in Candidates : place[m] \in Int
  <2>1. \A k \in 1 .. Cardinality(Candidates) : k \in Int
    BY <1>1, FS_CardinalityType
  <2> QED BY <1>2, <2>1
<1>5. ASSUME NEW S \in SUBSET Candidates PROVE Placed(S, place)
  <2>1. IsFiniteSet(S)
    BY <1>1, FS_Subset
  <2> QED BY <1>3, <1>4, <2>1 DEF Placed
<1>6. Good(place) \subseteq Candidates /\ Kept(place) \subseteq Good(place)
      /\ Chosen(place) \subseteq Kept(place)
  BY <1>2 DEF Good, Kept, Diverse, Chosen, Cut, First
<1> QED BY <1>1, <1>2, <1>3, <1>5, <1>6

(* A set in some order.                                                     *)
LEMMA SetInOrder ==
    ASSUME NEW S, IsFiniteSet(S), NEW d \in SetToSeqs(S)
    PROVE  d \in Seq(S) /\ Len(d) = Cardinality(S) /\ Range(d) = S
<1> DEFINE n == Cardinality(S)
<1>1. n \in Nat
  BY FS_CardinalityType
<1>2. d \in [1 .. n -> S] /\ \A i, j \in 1 .. n : i # j => d[i] # d[j]
  BY DEF SetToSeqs
<1>3. IsFiniteSet(1 .. n) /\ Cardinality(1 .. n) = n
  BY <1>1, FS_Interval
<1> HIDE DEF n
<1>4. d \in Injection(1 .. n, S)
  BY <1>2 DEF Injection, IsInjective
<1>5. d \in Surjection(1 .. n, S)
  BY <1>3, <1>4, FS_Injection DEF n
<1>6. Range(d) = S
  BY <1>2, <1>5 DEF Surjection, Range
<1>7. d \in Seq(S) /\ Len(d) = n
  BY <1>1, <1>2, IsASeq
<1> QED BY <1>6, <1>7 DEF n

(* A digest has what is chosen and not held back, each market once.         *)
LEMMA DigestProperties ==
    ASSUME NEW d \in Digests
    PROVE  /\ \E place \in Rankings : Range(d) = Loud(Chosen(place))
           /\ d \in Seq(Markets) /\ Len(d) <= MaxAlerts /\ Cardinality(Range(d)) = Len(d)
<1>1. PICK place \in Rankings : d \in Ordered(Loud(Chosen(place)), place)
  BY DEF Digests, Chosen, Kept
<1> DEFINE C == Chosen(place)
           L == Loud(C)
<1>2. Placed(Kept(place), place)
  BY RankingPlaces
<1>3. MaxAlerts \in Nat
  BY DigestAssumption
<1>4. IsFiniteSet(C) /\ Cardinality(C) \in 0 .. MaxAlerts
  BY <1>2, <1>3, FirstProperties DEF Chosen, Cut
<1>5. L \in SUBSET C
  BY DEF Loud
<1>6. C \subseteq Markets
  BY RankingPlaces
<1>7. d \in SetToSeqs(L)
  BY <1>1 DEF Ordered
<1> HIDE DEF C, L
<1>8. IsFiniteSet(L) /\ Cardinality(L) <= Cardinality(C) /\ Cardinality(L) \in Nat
  BY <1>4, <1>5, FS_Subset, FS_CardinalityType
<1>9. d \in Seq(L) /\ Len(d) = Cardinality(L) /\ Range(d) = L
  BY <1>7, <1>8, SetInOrder
<1>10. d \in Seq(Markets)
  BY <1>5, <1>6, <1>9
<1>11. Len(d) <= MaxAlerts
  BY <1>3, <1>4, <1>8, <1>9
<1> QED BY <1>9, <1>10, <1>11 DEF C, L

-----------------------------------------------------------------------------
(* Types. *)

LEMMA HoursWrap == \A h \in 0 .. Hours - 1 : (h + 1) % Hours \in 0 .. Hours - 1
<1>1. \A a \in Int, b \in Nat \ {0} : a % b \in 0 .. b - 1
  OBVIOUS
<1>2. Hours \in Nat \ {0} /\ \A h \in 0 .. Hours - 1 : h + 1 \in Int
  BY DigestAssumption
<1> QED BY <1>1, <1>2

LEMMA NoDigest == <<>> \in Seq(Markets) /\ Len(<<>>) <= MaxAlerts /\ Cardinality(Range(<<>>)) = Len(<<>>)
<1>1. <<>> \in Seq(Markets) /\ Len(<<>>) = 0
  BY EmptySeq
<1>2. Range(<<>>) = {}
  BY DEF Range
<1>3. Cardinality({}) = 0
  BY FS_EmptySet
<1>4. MaxAlerts \in Nat
  BY DigestAssumption
<1> QED BY <1>1, <1>2, <1>3, <1>4

\* The part of TypeOK about the digest.
DigestOK == digest \in Seq(Markets) /\ Len(digest) <= MaxAlerts /\ Cardinality(Range(digest)) = Len(digest)

\* And the rest.
StateOK ==
    /\ ask \in [Markets -> Asks] /\ volume \in [Markets -> 0 .. MaxVolume]
    /\ near \in [Markets -> BOOLEAN] /\ score \in [Markets -> 0 .. MaxScore]
    /\ matching \subseteq Markets
    /\ watchlist \in [Markets -> [watched : BOOLEAN, max : 0 .. ServicePrice]]
    /\ priceLimit \in Asks
    /\ quiet \in [enabled : BOOLEAN, start : 0 .. Hours - 1, end : 0 .. Hours - 1]
    /\ marks \in [Markets -> [marked : BOOLEAN, ask : Asks, volume : 0 .. MaxVolume,
                              near : BOOLEAN, pass : {"no", "yes", "over"}]]
    /\ hour \in 0 .. Hours - 1 /\ scanned \in BOOLEAN /\ moves \in 0 .. MaxMoves

LEMMA TypeParts == TypeOK <=> StateOK /\ DigestOK
BY DEF TypeOK, StateOK, DigestOK

LEMMA TypeInit == Init => TypeOK
<1> SUFFICES ASSUME Init PROVE TypeOK
  OBVIOUS
<1>1. /\ ServicePrice \in Nat \ {0} /\ Hours \in Nat \ {0} /\ MaxVolume \in Nat \ {0} /\ MaxMoves \in Nat
  BY DigestAssumption
<1>2. DigestOK
  BY NoDigest DEF Init, DigestOK
<1>3. 1 % Hours \in 0 .. Hours - 1
  <2>1. \A a \in Int, b \in Nat \ {0} : a % b \in 0 .. b - 1
    OBVIOUS
  <2> QED BY <1>1, <2>1
<1>4. quiet \in [enabled : BOOLEAN, start : 0 .. Hours - 1, end : 0 .. Hours - 1]
  BY <1>1, <1>3 DEF Init
<1>5. volume \in [Markets -> 0 .. MaxVolume]
  <2>1. 1 \in 0 .. MaxVolume
    BY <1>1
  <2> QED BY <2>1 DEF Init
<1>6. ServicePrice \in Asks /\ 0 \in Asks /\ 0 \in 0 .. ServicePrice /\ 0 \in 0 .. MaxVolume
  BY <1>1 DEF Asks
<1>7. NotWatched \in [watched : BOOLEAN, max : 0 .. ServicePrice]
  BY <1>6 DEF NotWatched
<1>8. Unmarked \in [marked : BOOLEAN, ask : Asks, volume : 0 .. MaxVolume,
                    near : BOOLEAN, pass : {"no", "yes", "over"}]
  BY <1>6 DEF Unmarked
<1>9. hour \in 0 .. Hours - 1 /\ moves \in 0 .. MaxMoves /\ scanned \in BOOLEAN
  <2>1. 0 \in 0 .. Hours - 1 /\ 0 \in 0 .. MaxMoves
    BY <1>1
  <2> QED BY <2>1 DEF Init
<1>10. /\ watchlist \in [Markets -> [watched : BOOLEAN, max : 0 .. ServicePrice]]
       /\ marks \in [Markets -> [marked : BOOLEAN, ask : Asks, volume : 0 .. MaxVolume,
                                 near : BOOLEAN, pass : {"no", "yes", "over"}]]
  BY <1>7, <1>8 DEF Init
<1>11. ask \in [Markets -> Asks] /\ near \in [Markets -> BOOLEAN] /\ priceLimit \in Asks
       /\ score \in [Markets -> 0 .. MaxScore] /\ matching \subseteq Markets
  BY <1>6 DEF Init
<1>12. StateOK
  BY <1>4, <1>5, <1>9, <1>10, <1>11 DEF StateOK
<1> QED BY <1>2, <1>12, TypeParts

(* A step keeps the types: a cycle marks at the price and the volume of the *)
(* moment and its digest is within its limit, and hours wrap at midnight.   *)
LEMMA TypeStep == TypeOK /\ [Next]_vars => TypeOK'
<1> SUFFICES ASSUME TypeOK, [Next]_vars PROVE TypeOK'
  OBVIOUS
<1>1. StateOK /\ DigestOK
  BY TypeParts
<1>2. /\ ServicePrice \in Nat \ {0} /\ Hours \in Nat \ {0} /\ MaxVolume \in Nat \ {0} /\ MaxMoves \in Nat
  BY DigestAssumption
<1>3. Move => moves' \in 0 .. MaxMoves
  BY <1>1, <1>2 DEF Move, StateOK
<1>4. SUFFICES StateOK' /\ DigestOK'
  BY TypeParts, PTL
<1>5. CASE Scan
  <2>1. DigestOK'
    <3>1. digest' \in Digests
      BY <1>5 DEF Scan
    <3>2. \A d \in Digests : d \in Seq(Markets) /\ Len(d) <= MaxAlerts /\ Cardinality(Range(d)) = Len(d)
      BY DigestProperties
    <3> QED BY <3>1, <3>2 DEF DigestOK
  <2>2. \A m \in Markets : Mark(m) \in [marked : BOOLEAN, ask : Asks, volume : 0 .. MaxVolume,
                                        near : BOOLEAN, pass : {"no", "yes", "over"}]
    BY <1>1 DEF StateOK, Mark
  <2>3. marks' \in [Markets -> [marked : BOOLEAN, ask : Asks, volume : 0 .. MaxVolume,
                                near : BOOLEAN, pass : {"no", "yes", "over"}]]
    BY <1>1, <1>5, <2>2 DEF StateOK, Scan
  <2>4. StateOK'
    BY <1>1, <1>5, <2>3 DEF StateOK, Scan, market
  <2> QED BY <2>1, <2>4
<1>6. CASE ScanFails
  BY <1>1, <1>3, <1>6 DEF StateOK, DigestOK, ScanFails, market, user
<1>7. CASE NextHour
  <2>1. DigestOK'
    BY <1>7, NoDigest DEF NextHour, DigestOK
  <2>2. hour' \in 0 .. Hours - 1
    BY <1>1, <1>7, HoursWrap DEF NextHour, StateOK
  <2>3. StateOK'
    BY <1>1, <1>7, <2>2 DEF StateOK, NextHour, market, user
  <2> QED BY <2>1, <2>3
<1>8. CASE SetPrice
  BY <1>1, <1>3, <1>8 DEF StateOK, DigestOK, SetPrice, market
<1>9. CASE SetQuiet
  <2>1. quiet' \in [enabled : BOOLEAN, start : 0 .. Hours - 1, end : 0 .. Hours - 1]
    <3>1. quiet \in [enabled : BOOLEAN, start : 0 .. Hours - 1, end : 0 .. Hours - 1]
      BY <1>1 DEF StateOK
    <3>2. \A b \in BOOLEAN, s, e \in 0 .. Hours - 1 :
             [enabled |-> b, start |-> s, end |-> e]
               \in [enabled : BOOLEAN, start : 0 .. Hours - 1, end : 0 .. Hours - 1]
      OBVIOUS
    <3>3. CASE \E s, e \in 0 .. Hours - 1 : quiet' = [enabled |-> TRUE, start |-> s, end |-> e]
      BY <3>2, <3>3
    <3>4. CASE quiet' = [quiet EXCEPT !.enabled = ~@]
      BY <3>1, <3>4
    <3> QED BY <1>9, <3>3, <3>4 DEF SetQuiet
  <2> QED BY <1>1, <1>3, <1>9, <2>1 DEF StateOK, DigestOK, SetQuiet, market
<1>10. ASSUME NEW m \in Markets, Trade(m) PROVE StateOK' /\ DigestOK'
  <2>1. ask' \in [Markets -> Asks]
    BY <1>1, <1>10 DEF StateOK, Trade
  <2>2. volume' \in [Markets -> 0 .. MaxVolume]
    BY <1>1, <1>2, <1>10 DEF StateOK, Trade
  <2> QED BY <1>1, <1>3, <1>10, <2>1, <2>2 DEF StateOK, DigestOK, Trade, user
<1>11. ASSUME NEW m \in Markets, Approach(m) PROVE StateOK' /\ DigestOK'
  BY <1>1, <1>3, <1>11 DEF StateOK, DigestOK, Approach, user
<1>12. ASSUME NEW m \in Markets, Rescore(m) PROVE StateOK' /\ DigestOK'
  BY <1>1, <1>3, <1>12 DEF StateOK, DigestOK, Rescore, user
<1>13. ASSUME NEW m \in Markets, Rematch(m) PROVE StateOK' /\ DigestOK'
  BY <1>1, <1>3, <1>13 DEF StateOK, DigestOK, Rematch, user
<1>14. ASSUME NEW m \in Markets, Watch(m) PROVE StateOK' /\ DigestOK'
  <2>1. watchlist' \in [Markets -> [watched : BOOLEAN, max : 0 .. ServicePrice]]
    <3>1. watchlist \in [Markets -> [watched : BOOLEAN, max : 0 .. ServicePrice]]
      BY <1>1 DEF StateOK
    <3>2. NotWatched \in [watched : BOOLEAN, max : 0 .. ServicePrice]
      BY <1>2 DEF NotWatched
    <3>3. \E w \in [watched : BOOLEAN, max : 0 .. ServicePrice] :
             watchlist' = [watchlist EXCEPT ![m] = w]
      BY <1>14, <3>2 DEF Watch
    <3> QED BY <3>1, <3>3
  <2> QED BY <1>1, <1>3, <1>14, <2>1 DEF StateOK, DigestOK, Watch, market
<1>15. ASSUME NEW m \in Markets, Pass(m) PROVE StateOK' /\ DigestOK'
  <2>1. marks' \in [Markets -> [marked : BOOLEAN, ask : Asks, volume : 0 .. MaxVolume,
                                near : BOOLEAN, pass : {"no", "yes", "over"}]]
    BY <1>1, <1>15 DEF StateOK, Pass
  <2> QED BY <1>1, <1>3, <1>15, <2>1 DEF StateOK, DigestOK, Pass, market
<1>16. ASSUME NEW m \in Markets, PassEnds(m) PROVE StateOK' /\ DigestOK'
  <2>1. marks' \in [Markets -> [marked : BOOLEAN, ask : Asks, volume : 0 .. MaxVolume,
                                near : BOOLEAN, pass : {"no", "yes", "over"}]]
    BY <1>1, <1>16 DEF StateOK, PassEnds
  <2> QED BY <1>1, <1>16, <2>1 DEF StateOK, DigestOK, PassEnds, market
<1>17. CASE UNCHANGED vars
  BY <1>1, <1>17 DEF StateOK, DigestOK, vars, market, user
<1> QED BY <1>5, <1>6, <1>7, <1>8, <1>9, <1>10, <1>11, <1>12, <1>13, <1>14, <1>15, <1>16, <1>17 DEF Next

(* Types hold, and no digest is longer than MAX_ALERTS_PER_MESSAGE or has a *)
(* market twice, with any limits and whatever the scores (cycleForUser).    *)
THEOREM TypeCorrect == Spec => []TypeOK
BY TypeInit, TypeStep, PTL DEF Spec

-----------------------------------------------------------------------------
(* The best are sent. *)

LEMMA QuietNow == ASSUME TypeOK PROVE InQuietHours <=> Quiet
<1>1. quiet.start \in 0 .. Hours - 1 /\ quiet.end \in 0 .. Hours - 1 /\ hour \in 0 .. Hours - 1
  BY DEF TypeOK
<1> QED BY <1>1, QuietMeans

LEMMA PerSeriesType == PerSeries \in Nat
BY DigestAssumption DEF PerSeries

(* A message that is full of markets ranked before m is a reason to leave m *)
(* out, unless quiet hours are: of those before a watched market all are    *)
(* watched, so that quiet hours take none of them.                          *)
LEMMA FullReason ==
    ASSUME TypeOK, NEW place \in Rankings, NEW d, Range(d) = Loud(Chosen(place)),
           NEW m \in Candidates, Watching(m) \/ ~Quiet,
           Cardinality(Chosen(place)) = MaxAlerts, \A o \in Chosen(place) : place[o] < place[m]
    PROVE  LeftOut(m, d)
<1> DEFINE C == Chosen(place)
           NoWorse == {o \in Range(d) : ~Before(m, o)}
<1>1. \A o \in C : ~Before(m, o)
  BY RankingPlaces
<1>2. Loud(C) = C
  <2>1. CASE Watching(m)
    <3>1. \A o \in C : Watching(o)
      BY <1>1, <2>1 DEF Before
    <3> QED BY <3>1 DEF Loud
  <2>2. CASE ~Quiet
    BY <2>2, QuietNow DEF Loud
  <2> QED BY <2>1, <2>2
<1>3. NoWorse = C
  BY <1>1, <1>2
<1>4. Cardinality(NoWorse) = MaxAlerts
  BY <1>3
<1> QED BY <1>4 DEF LeftOut

(* So is a series with enough markets before m, even if the cut then took   *)
(* some of them: it took none that are ahead of a market it kept.           *)
LEMMA SeriesReason ==
    ASSUME TypeOK, NEW place \in Rankings, NEW d, Range(d) = Loud(Chosen(place)), ~Quiet,
           NEW m \in Good(place), m \notin Kept(place)
    PROVE  LeftOut(m, d)
<1> DEFINE C == Chosen(place)
           K == Kept(place)
           P == Companions(Good(place), m)
           F == First(PerSeries, P, place)
           NoWorse == {o \in Range(d) : ~Before(m, o)}
           Series == {o \in NoWorse : ~Watching(o) /\ SeriesOf[o] = SeriesOf[m]}
<1>1. /\ Good(place) \subseteq Candidates /\ K \subseteq Good(place) /\ C \subseteq K
      /\ \A S \in SUBSET Candidates : Placed(S, place)
      /\ \A o \in Candidates : place[o] < place[m] => ~Before(m, o)
  BY RankingPlaces
<1>2. ~Watching(m) /\ m \in P /\ m \notin F
  BY DEF Kept, Diverse, Companions
<1>3. P \subseteq Good(place)
  BY DEF Companions
<1>4. /\ F \in SUBSET P /\ IsFiniteSet(F) /\ (F # P => Cardinality(F) = PerSeries)
      /\ \A o \in F, q \in P \ F : place[o] < place[q]
  <2>1. Placed(P, place)
    BY <1>1, <1>3
  <2> QED BY <2>1, PerSeriesType, FirstProperties
<1>5. Cardinality(F) = PerSeries /\ \A o \in F : place[o] < place[m]
  BY <1>2, <1>4
<1>6. \A o \in F : o \in K
  <2> SUFFICES ASSUME NEW o \in F PROVE o \in K
    OBVIOUS
  <2>1. o \in P
    BY <1>4
  <2>2. Companions(Good(place), o) = P
    BY <2>1 DEF Companions
  <2> QED BY <1>3, <2>1, <2>2 DEF Kept, Diverse
<1>7. Range(d) = C
  BY QuietNow DEF Loud
<1>8. MaxAlerts \in Nat
  BY DigestAssumption
<1>9. /\ IsFiniteSet(C) /\ (C # K => Cardinality(C) = MaxAlerts)
      /\ \A o \in C, q \in K \ C : place[o] < place[q]
  <2>1. Placed(K, place)
    BY <1>1
  <2> QED BY <1>8, <2>1, FirstProperties DEF Chosen, Cut
<1>10. CASE F \subseteq C
  <2>1. \A o \in F : ~Watching(o) /\ SeriesOf[o] = SeriesOf[m] /\ o \in Candidates
    BY <1>1, <1>3, <1>4 DEF Companions
  <2>2. F \in SUBSET Series /\ Series \in SUBSET C
    BY <1>1, <1>5, <1>7, <1>10, <2>1
  <2> HIDE DEF F, Series, C
  <2>3. IsFiniteSet(Series) /\ Cardinality(F) <= Cardinality(Series)
    BY <1>9, <2>2, FS_Subset
  <2>4. Cardinality(Series) >= PerSeries
    BY <1>5, <2>3, PerSeriesType, FS_CardinalityType
  <2> QED BY <1>2, <2>4 DEF LeftOut, Series
<1>11. CASE ~(F \subseteq C)
  <2>1. PICK o \in F : o \notin C
    BY <1>11
  <2>2. o \in K \ C /\ C # K
    BY <1>6, <2>1
  <2>3. \A q \in C : place[q] < place[o]
    BY <1>9, <2>2
  <2>4. place[o] < place[m] /\ m \in Candidates /\ o \in Candidates
    BY <1>1, <1>5, <2>1, <2>2
  <2>5. \A q \in Candidates : place[q] \in Int
    BY <1>1 DEF Placed
  <2>6. \A q \in C : place[q] < place[m]
    <3>1. \A q \in C : q \in Candidates
      BY <1>1
    <3> HIDE DEF C
    <3> QED BY <2>3, <2>4, <2>5, <3>1
  <2>7. Cardinality(C) = MaxAlerts
    BY <1>9, <2>2
  <2> QED BY <2>4, <2>6, <2>7, FullReason
<1> QED BY <1>10, <1>11

(* What a digest has and leaves out.                                        *)
LEMMA BestOf ==
    ASSUME TypeOK, NEW d \in Digests
    PROVE  /\ \A m \in Range(d) : m \in Candidates /\ (Quiet => Watching(m))
           /\ \A m \in Candidates \ Range(d) : LeftOut(m, d)
<1>1. PICK place \in Rankings : Range(d) = Loud(Chosen(place))
  BY DigestProperties
<1> DEFINE C == Chosen(place)
           K == Kept(place)
<1>2. /\ Good(place) \subseteq Candidates /\ K \subseteq Good(place) /\ C \subseteq K
      /\ Placed(K, place) /\ DOMAIN place = Candidates /\ Candidates \subseteq Markets
  <2>1. /\ Good(place) \subseteq Candidates /\ K \subseteq Good(place) /\ C \subseteq K
        /\ \A S \in SUBSET Candidates : Placed(S, place)
        /\ DOMAIN place = Candidates /\ Candidates \subseteq Markets
    BY RankingPlaces
  <2>2. K \in SUBSET Candidates
    BY <2>1
  <2> QED BY <2>1, <2>2
<1>3. \A m \in Range(d) : m \in Candidates /\ (Quiet => Watching(m))
  BY <1>1, <1>2, QuietNow DEF Loud
<1>4. ASSUME NEW m \in Candidates, m \notin Range(d) PROVE LeftOut(m, d)
  <2>1. CASE Quiet /\ ~Watching(m)
    BY <2>1 DEF LeftOut
  <2>2. CASE (Watching(m) \/ ~Quiet) /\ m \notin Good(place)
    <3>1. ~Watching(m) /\ ~(score[m] >= MinScore)
      BY <1>2, <2>2 DEF Good, GoodEnough
    <3>2. score[m] \in Int /\ MinScore \in Int
      BY <1>2, DigestAssumption DEF TypeOK
    <3>3. score[m] < MinScore
      BY <3>1, <3>2
    <3> QED BY <3>1, <3>3 DEF LeftOut
  <2>3. CASE (Watching(m) \/ ~Quiet) /\ m \in Good(place) /\ m \notin K
    <3>1. ~Watching(m)
      BY <2>3 DEF Kept, Diverse
    <3> QED BY <1>1, <2>3, <3>1, SeriesReason
  <2>4. CASE (Watching(m) \/ ~Quiet) /\ m \in K /\ m \notin C
    <3>1. MaxAlerts \in Nat
      BY DigestAssumption
    <3>2. Cardinality(C) = MaxAlerts /\ \A o \in C : place[o] < place[m]
      BY <1>2, <2>4, <3>1, FirstProperties DEF Chosen, Cut
    <3> QED BY <1>1, <1>4, <2>4, <3>2, FullReason
  <2>5. CASE (Watching(m) \/ ~Quiet) /\ m \in C
    <3>1. ~Watching(m) /\ InQuietHours
      BY <1>1, <1>4, <2>5 DEF Loud
    <3> QED BY <2>5, <3>1, QuietNow
  <2> QED BY <2>1, <2>2, <2>3, <2>4, <2>5
<1> QED BY <1>3, <1>4

(* The best are sent, whatever the markets, the series and the limits: what *)
(* a cycle leaves out is held back by quiet hours, below the minimum score, *)
(* or beaten by a full message or by enough markets of its series           *)
(* (cycleForUser and applySeriesDiversity).                                 *)
THEOREM BestAreSentCorrect == Spec => BestAreSent
<1>1. TypeOK /\ [Next]_vars =>
        [Scan => /\ \A m \in Range(digest') : m \in Candidates /\ (Quiet => Watching(m))
                 /\ \A m \in Candidates \ Range(digest') : LeftOut(m, digest')]_vars
  <2> SUFFICES ASSUME TypeOK, Scan
               PROVE  /\ \A m \in Range(digest') : m \in Candidates /\ (Quiet => Watching(m))
                      /\ \A m \in Candidates \ Range(digest') : LeftOut(m, digest')
    OBVIOUS
  <2>1. digest' \in Digests
    BY DEF Scan
  <2>2. \A d \in Digests : /\ \A m \in Range(d) : m \in Candidates /\ (Quiet => Watching(m))
                           /\ \A m \in Candidates \ Range(d) : LeftOut(m, d)
    BY BestOf
  <2> QED BY <2>1, <2>2
<1> QED BY <1>1, TypeCorrect, PTL DEF Spec, BestAreSent
=============================================================================
