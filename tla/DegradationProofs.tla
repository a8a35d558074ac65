--------------------------- MODULE DegradationProofs ---------------------------
(***************************************************************************)
(* What holds of the degradation ladder for any senders, priorities,       *)
(* steps, ceilings and sampling streak, whichever calls are refused: after *)
(* the host's recover nothing is shed until a limitation is read, and      *)
(* whatever is shed is within the level from which the ladder will bring   *)
(* it back.                                                                *)
(***************************************************************************)
EXTENDS Degradation, FiniteSetTheorems, SequenceTheorems, TLAPS

Params == [scale : Nat, fps : Nat, rate : Nat]
Calls == [active : BOOLEAN, params : Params, memo : Params]
Ladders == [cpuLevel : Nat, bw : [Keys -> 0..Len(BandwidthSteps)], streak : Nat]
Passes == [targets : Seq(Thumbs), same : SUBSET Keys, reading : Readings(Keys)]
InFlight == pass \notin {NoPass, StalePass}

LadderTypeOK ==
    /\ programs \subseteq Programs
    /\ thumbs \in Seq(Thumbs) /\ IsInjective(thumbs)
    /\ enc \in [Keys -> Encodings] /\ calls \in [Keys -> Seq(Calls)]
    /\ ceiling \in Ceilings \cup {NoCeiling}
    /\ override \in [Programs -> Overrides \cup {0}]
    /\ ladder \in Ladders /\ calm \in BOOLEAN
    /\ InFlight => pass \in Passes

\* Whether a sender is on once its calls are settled.
On(box, e) == IF box = <<>> THEN e.active ELSE box[Len(box)].active

\* A sender that no call ever switches off.
AlwaysOn(box, e) == e.active /\ \A i \in 1..Len(box) : box[i].active
ProgramsOn == \A k \in Programs : AlwaysOn(calls[k], enc[k])

-----------------------------------------------------------------------------
(* Sequences of calls and of thumbnails *)

LEMMA Listed ==
    ASSUME NEW S, NEW q \in Seq(S)
    PROVE  /\ Len(q) \in Nat /\ DOMAIN q = 1..Len(q) /\ (q = <<>> <=> Len(q) = 0)
           /\ \A i \in 1..Len(q) : q[i] \in S
           /\ \A f \in S : /\ Append(q, f) \in Seq(S) /\ Len(Append(q, f)) = Len(q) + 1
                           /\ Append(q, f)[Len(q) + 1] = f /\ Append(q, f) # <<>>
                           /\ \A i \in 1..Len(q) : Append(q, f)[i] = q[i]
           /\ q # <<>> => /\ Tail(q) \in Seq(S) /\ Len(Tail(q)) = Len(q) - 1 /\ Len(q) > 0
                          /\ Head(q) = q[1] /\ \A i \in 1..(Len(q) - 1) : Tail(q)[i] = q[i + 1]
<1>1. /\ Len(q) \in Nat /\ DOMAIN q = 1..Len(q) /\ (q = <<>> <=> Len(q) = 0)
      /\ \A i \in 1..Len(q) : q[i] \in S
  OBVIOUS
<1>2. ASSUME NEW f \in S
      PROVE  /\ Append(q, f) \in Seq(S) /\ Len(Append(q, f)) = Len(q) + 1
             /\ Append(q, f)[Len(q) + 1] = f
             /\ \A i \in 1..Len(q) : Append(q, f)[i] = q[i]
  OBVIOUS
<1>3. ASSUME NEW f \in S PROVE Append(q, f) # <<>>
  <2>1. Append(q, f) \in Seq(S) /\ Len(Append(q, f)) = Len(q) + 1
    OBVIOUS
  <2> QED BY <1>1, <2>1
<1>4. ASSUME q # <<>>
      PROVE  /\ Tail(q) \in Seq(S) /\ Len(Tail(q)) = Len(q) - 1 /\ Len(q) > 0
             /\ Head(q) = q[1] /\ \A i \in 1..(Len(q) - 1) : Tail(q)[i] = q[i + 1]
  BY <1>4
<1> QED BY <1>1, <1>2, <1>3, <1>4

LEMMA RemovedAt ==
    ASSUME NEW S, NEW q \in Seq(S), NEW i \in 1..Len(q)
    PROVE  /\ RemoveAt(q, i) \in Seq(S) /\ Len(RemoveAt(q, i)) = Len(q) - 1
           /\ \A j \in 1..(Len(q) - 1) :
                 RemoveAt(q, i)[j] = IF j < i THEN q[j] ELSE q[j + 1]
<1> DEFINE a == SubSeq(q, 1, i - 1)
           b == SubSeq(q, i + 1, Len(q))
<1>1. /\ Len(q) \in Nat /\ a \in Seq(S) /\ Len(a) = i - 1
      /\ \A j \in 1..(i - 1) : a[j] = q[j]
  OBVIOUS
<1>2. /\ b \in Seq(S) /\ Len(b) = Len(q) - i
      /\ \A j \in 1..(Len(q) - i) : b[j] = q[j + i]
  OBVIOUS
<1> HIDE DEF a, b
<1>3. /\ a \o b \in Seq(S) /\ Len(a \o b) = Len(a) + Len(b)
      /\ \A j \in 1..(Len(a) + Len(b)) :
            (a \o b)[j] = IF j <= Len(a) THEN a[j] ELSE b[j - Len(a)]
  BY <1>1, <1>2, ConcatProperties
<1>4. ASSUME NEW j \in 1..(Len(q) - 1)
      PROVE  (a \o b)[j] = IF j < i THEN q[j] ELSE q[j + 1]
  BY <1>1, <1>2, <1>3
<1>5. Len(a \o b) = Len(q) - 1
  BY <1>1, <1>2, <1>3
<1> QED BY <1>3, <1>4, <1>5 DEF RemoveAt, a, b

\* How the outcome of the calls on a sender changes as they are made and settled.
LEMMA OutcomeOf ==
    ASSUME NEW box \in Seq(Calls), NEW e \in Encodings
    PROVE  /\ \A c \in Calls, d \in Encodings : On(Append(box, c), d) = c.active
           /\ \A c \in Calls :
                 AlwaysOn(box, e) /\ c.active => AlwaysOn(Append(box, c), e)
           /\ AlwaysOn(box, e) => On(box, e)
           /\ box # <<>> =>
                 /\ \A d \in Encodings : d.active = Head(box).active =>
                       /\ On(Tail(box), d) = On(box, e)
                       /\ AlwaysOn(box, e) => AlwaysOn(Tail(box), d)
                 /\ AlwaysOn(box, e) => AlwaysOn(Tail(box), e)
<1>1. /\ Len(box) \in Nat /\ (box = <<>> <=> Len(box) = 0)
      /\ \A i \in 1..Len(box) : box[i].active \in BOOLEAN
  <2>1. /\ Len(box) \in Nat /\ (box = <<>> <=> Len(box) = 0)
        /\ \A i \in 1..Len(box) : box[i] \in Calls
    BY Listed
  <2> QED BY <2>1 DEF Calls
<1>2. ASSUME NEW c \in Calls
      PROVE  /\ \A d \in Encodings : On(Append(box, c), d) = c.active
             /\ AlwaysOn(box, e) /\ c.active => AlwaysOn(Append(box, c), e)
  <2> DEFINE b == Append(box, c)
  <2>1. /\ Len(b) = Len(box) + 1 /\ b[Len(box) + 1] = c /\ b # <<>>
        /\ \A i \in 1..Len(box) : b[i] = box[i]
    BY Listed
  <2> HIDE DEF b
  <2>2. /\ \A d \in Encodings : On(b, d) = c.active
        /\ AlwaysOn(box, e) /\ c.active => AlwaysOn(b, e)
    BY <1>1, <2>1 DEF On, AlwaysOn
  <2> QED BY <2>2 DEF b
<1>3. AlwaysOn(box, e) => On(box, e)
  BY <1>1 DEF On, AlwaysOn
<1>4. ASSUME box # <<>>
      PROVE  /\ \A d \in Encodings : d.active = Head(box).active =>
                   /\ On(Tail(box), d) = On(box, e)
                   /\ AlwaysOn(box, e) => AlwaysOn(Tail(box), d)
             /\ AlwaysOn(box, e) => AlwaysOn(Tail(box), e)
  <2> DEFINE b == Tail(box)
  <2>1. /\ b \in Seq(Calls) /\ Len(b) = Len(box) - 1 /\ Len(box) > 0 /\ Head(box) = box[1]
        /\ \A i \in 1..(Len(box) - 1) : b[i] = box[i + 1]
    BY <1>4, Listed
  <2>2. b = <<>> <=> Len(b) = 0
    BY <2>1, Listed
  <2> HIDE DEF b
  <2>3. \A i \in 1..Len(b) : i + 1 \in 1..Len(box) /\ b[i] = box[i + 1]
    BY <1>1, <2>1
  <2>4. AlwaysOn(box, e) => \A i \in 1..Len(b) : b[i].active
    BY <2>3 DEF AlwaysOn
  <2>5. ASSUME NEW d \in Encodings, d.active = Head(box).active
        PROVE  On(b, d) = On(box, e)
    <3>1. CASE Len(box) = 1
      BY <1>1, <2>1, <2>2, <2>5, <3>1 DEF On
    <3>2. CASE Len(box) # 1
      BY <1>1, <1>4, <2>1, <2>2, <2>3, <3>2 DEF On
    <3> QED BY <3>1, <3>2
  <2>6. AlwaysOn(box, e) => Head(box).active /\ e.active
    BY <1>1, <2>1 DEF AlwaysOn
  <2>7. /\ \A d \in Encodings : d.active = Head(box).active =>
               /\ On(b, d) = On(box, e)
               /\ AlwaysOn(box, e) => AlwaysOn(b, d)
        /\ AlwaysOn(box, e) => AlwaysOn(b, e)
    BY <2>4, <2>5, <2>6 DEF AlwaysOn
  <2> QED BY <2>7 DEF b
<1> QED BY <1>2, <1>3, <1>4

LEMMA OnOrOff ==
    ASSUME NEW box \in Seq(Calls), NEW e \in Encodings
    PROVE  On(box, e) \in BOOLEAN
<1>1. /\ Len(box) \in Nat /\ (box = <<>> <=> Len(box) = 0)
      /\ \A i \in 1..Len(box) : box[i] \in Calls
  BY Listed
<1>2. box # <<>> => box[Len(box)] \in Calls
  BY <1>1
<1> QED BY <1>2 DEF On, Calls, Encodings

LEMMA FinalIs ==
    ASSUME NEW k \in Keys, calls \in [Keys -> Seq(Calls)], enc \in [Keys -> Encodings]
    PROVE  /\ Final(k).active = On(calls[k], enc[k]) /\ Final(k).active \in BOOLEAN
           /\ Final(k).params \in Params
<1>1. /\ calls[k] = <<>> <=> Len(calls[k]) = 0
      /\ Len(calls[k]) \in Nat /\ \A i \in 1..Len(calls[k]) : calls[k][i] \in Calls
  BY Listed
<1>2. calls[k] # <<>> => Last(calls[k]) \in Calls
  BY <1>1 DEF Last
<1> QED BY <1>1, <1>2 DEF Final, On, Last, Calls, Encodings, Params

-----------------------------------------------------------------------------
(* Who is shed before whom *)

LEMMA Joined ==
    ASSUME NEW q \in Seq(Thumbs), IsInjective(q), NEW k \in Thumbs, k \notin ToSet(q)
    PROVE  /\ Append(q, k) \in Seq(Thumbs) /\ IsInjective(Append(q, k))
           /\ ToSet(Append(q, k)) = ToSet(q) \cup {k}
           /\ \A t, m : m # k /\ Before(t, m, Append(q, k)) => Before(t, m, q)
<1> DEFINE r == Append(q, k)
<1>1. /\ Len(q) \in Nat /\ DOMAIN q = 1..Len(q) /\ r \in Seq(Thumbs)
      /\ Len(r) = Len(q) + 1 /\ r[Len(q) + 1] = k /\ \A i \in 1..Len(q) : r[i] = q[i]
  BY Listed
<1>2. DOMAIN r = 1..(Len(q) + 1)
  BY <1>1, Listed
<1>3. \A i \in 1..Len(q) : q[i] # k
  BY <1>1 DEF ToSet
<1> HIDE DEF r
<1>4. IsInjective(r)
  <2> SUFFICES ASSUME NEW i \in 1..(Len(q) + 1), NEW j \in 1..(Len(q) + 1), r[i] = r[j]
               PROVE  i = j
    BY <1>2 DEF IsInjective
  <2>1. CASE i \in 1..Len(q) /\ j \in 1..Len(q)
    BY <1>1, <2>1 DEF IsInjective
  <2>2. CASE i = Len(q) + 1 \/ j = Len(q) + 1
    BY <1>1, <1>3, <2>2
  <2> QED BY <1>1, <2>1, <2>2
<1>5. ToSet(r) = ToSet(q) \cup {k}
  <2>1. \A x : x \in ToSet(r) <=> \E i \in 1..(Len(q) + 1) : r[i] = x
    BY <1>2 DEF ToSet
  <2>2. \A x : x \in ToSet(q) <=> \E i \in 1..Len(q) : q[i] = x
    BY <1>1 DEF ToSet
  <2>3. \A x : x \in ToSet(r) <=> x \in ToSet(q) \/ x = k
    BY <1>1, <2>1, <2>2
  <2> QED BY <2>3
<1>6. ASSUME NEW t, NEW m, m # k, Before(t, m, r) PROVE Before(t, m, q)
  <2>1. PICK i \in 1..(Len(q) + 1), j \in 1..(Len(q) + 1) : i < j /\ r[i] = t /\ r[j] = m
    BY <1>2, <1>6 DEF Before
  <2>2. i \in 1..Len(q) /\ j \in 1..Len(q) /\ q[i] = t /\ q[j] = m
    BY <1>1, <1>6, <2>1
  <2> QED BY <1>1, <2>1, <2>2 DEF Before
<1> QED BY <1>1, <1>4, <1>5, <1>6 DEF r

LEMMA Gone ==
    ASSUME NEW q \in Seq(Thumbs), IsInjective(q), NEW i \in 1..Len(q)
    PROVE  /\ RemoveAt(q, i) \in Seq(Thumbs) /\ IsInjective(RemoveAt(q, i))
           /\ ToSet(RemoveAt(q, i)) = ToSet(q) \ {q[i]}
           /\ \A t, m : Before(t, m, RemoveAt(q, i)) => Before(t, m, q)
<1> DEFINE r == RemoveAt(q, i)
           at == [j \in 1..(Len(q) - 1) |-> IF j < i THEN j ELSE j + 1]
<1>1. /\ Len(q) \in Nat /\ DOMAIN q = 1..Len(q) /\ r \in Seq(Thumbs)
      /\ Len(r) = Len(q) - 1
      /\ \A j \in 1..(Len(q) - 1) : r[j] = IF j < i THEN q[j] ELSE q[j + 1]
  BY Listed, RemovedAt
<1>2. DOMAIN r = 1..(Len(q) - 1)
  BY <1>1, Listed
<1> HIDE DEF r
<1>3. \A j \in 1..(Len(q) - 1) : at[j] \in 1..Len(q) /\ at[j] # i /\ r[j] = q[at[j]]
  BY <1>1
<1>4. \A j, l \in 1..(Len(q) - 1) :
         /\ at[j] = at[l] => j = l
         /\ j < l => at[j] < at[l]
  BY <1>1
<1>5. \A n \in 1..Len(q) : n # i => \E j \in 1..(Len(q) - 1) : at[j] = n
  <2> SUFFICES ASSUME NEW n \in 1..Len(q), n # i
               PROVE  \E j \in 1..(Len(q) - 1) : at[j] = n
    OBVIOUS
  <2>1. CASE n < i
    BY <1>1, <2>1
  <2>2. CASE n > i
    <3>1. n - 1 \in 1..(Len(q) - 1) /\ at[n - 1] = n
      BY <1>1, <2>2
    <3> QED BY <3>1
  <2> QED BY <1>1, <2>1, <2>2
<1> HIDE DEF at
<1>6. IsInjective(r)
  <2> SUFFICES ASSUME NEW j \in 1..(Len(q) - 1), NEW l \in 1..(Len(q) - 1), r[j] = r[l]
               PROVE  j = l
    BY <1>2 DEF IsInjective
  <2>1. at[j] \in 1..Len(q) /\ at[l] \in 1..Len(q) /\ q[at[j]] = q[at[l]]
    BY <1>3
  <2>2. at[j] = at[l]
    BY <1>1, <2>1 DEF IsInjective
  <2> QED BY <1>1, <1>4, <2>2
<1>7. ToSet(r) = ToSet(q) \ {q[i]}
  <2>1. \A x : x \in ToSet(r) <=> \E j \in 1..(Len(q) - 1) : r[j] = x
    BY <1>2 DEF ToSet
  <2>2. \A x : x \in ToSet(q) <=> \E j \in 1..Len(q) : q[j] = x
    BY <1>1 DEF ToSet
  <2>3. \A j \in 1..Len(q) : q[j] = q[i] => j = i
    BY <1>1 DEF IsInjective
  <2>4. ASSUME NEW x \in ToSet(r) PROVE x \in ToSet(q) /\ x # q[i]
    BY <1>3, <2>1, <2>2, <2>3, <2>4
  <2>5. ASSUME NEW x \in ToSet(q), x # q[i] PROVE x \in ToSet(r)
    <3>1. PICK n \in 1..Len(q) : q[n] = x
      BY <2>2
    <3>2. PICK j \in 1..(Len(q) - 1) : at[j] = n
      BY <1>5, <2>5, <3>1
    <3>3. r[j] = x
      BY <1>3, <3>1, <3>2
    <3> QED BY <2>1, <3>3
  <2> QED BY <2>4, <2>5
<1>8. ASSUME NEW t, NEW m, Before(t, m, r) PROVE Before(t, m, q)
  <2>1. PICK j \in 1..(Len(q) - 1), l \in 1..(Len(q) - 1) : j < l /\ r[j] = t /\ r[l] = m
    BY <1>2, <1>8 DEF Before
  <2>2. /\ at[j] \in 1..Len(q) /\ at[l] \in 1..Len(q) /\ at[j] < at[l]
        /\ q[at[j]] = t /\ q[at[l]] = m
    <3>1. at[j] \in 1..Len(q) /\ at[l] \in 1..Len(q) /\ q[at[j]] = t /\ q[at[l]] = m
      BY <1>3, <2>1
    <3>2. at[j] < at[l]
      BY <1>1, <1>4, <2>1
    <3> QED BY <3>1, <3>2
  <2> QED BY <1>1, <2>2 DEF Before
<1> QED BY <1>1, <1>6, <1>7, <1>8 DEF r

LEMMA ListedFinite ==
    ASSUME NEW q \in Seq(Thumbs)
    PROVE  IsFiniteSet(ToSet(q)) /\ Cardinality(ToSet(q)) <= Len(q)
<1>1. Len(q) \in Nat /\ DOMAIN q = 1..Len(q) /\ q \in [1..Len(q) -> Thumbs]
  BY Listed
<1>2. q \in Surjection(1..Len(q), ToSet(q))
  <2>1. \A i \in 1..Len(q) : q[i] \in ToSet(q)
    BY <1>1 DEF ToSet
  <2>2. q \in [1..Len(q) -> ToSet(q)]
    BY <1>1, <2>1
  <2>3. \A x \in ToSet(q) : \E i \in 1..Len(q) : q[i] = x
    BY <1>1 DEF ToSet
  <2> QED BY <2>2, <2>3 DEF Surjection
<1>3. IsFiniteSet(1..Len(q)) /\ Cardinality(1..Len(q)) = Len(q)
  <2>1. 1 \in Int /\ Len(q) \in Int
    BY <1>1
  <2>2. /\ IsFiniteSet(1..Len(q))
        /\ Cardinality(1..Len(q)) = IF 1 > Len(q) THEN 0 ELSE Len(q) - 1 + 1
    BY <2>1, FS_Interval
  <2> QED BY <1>1, <2>2
<1> QED BY <1>2, <1>3, FS_Surjection

\* Those that are shed before k: by priority, and within one in the order they joined.
Ahead(k, q) == {t \in ToSet(q) : ShedBefore(t, k, q)}

LEMMA PlaceIs ==
    ASSUME NEW q \in Seq(Thumbs), NEW k \in Thumbs
    PROVE  /\ Place(k, q) = Cardinality(Ahead(k, q)) /\ Place(k, q) \in Nat
           /\ IsFiniteSet(Ahead(k, q)) /\ ToSet(q) \subseteq Thumbs
<1>1. ToSet(q) \subseteq Thumbs
  BY Listed DEF ToSet
<1>2. Place(k, q) = Cardinality(Ahead(k, q))
  BY DEF Place, Ahead
<1>3. IsFiniteSet(Ahead(k, q))
  BY ListedFinite, FS_Subset DEF Ahead
<1> QED BY <1>1, <1>2, <1>3, FS_CardinalityType

LEMMA PlaceNoLater ==
    ASSUME NEW q \in Seq(Thumbs), NEW r \in Seq(Thumbs), NEW k \in Thumbs,
           \A t \in ToSet(q) : ShedBefore(t, k, q) => t \in ToSet(r) /\ ShedBefore(t, k, r)
    PROVE  Place(k, q) <= Place(k, r)
<1>1. Ahead(k, q) \subseteq Ahead(k, r)
  BY DEF Ahead
<1> QED BY <1>1, PlaceIs, FS_Subset

\* The order in which thumbnails are shed is a strict total order.
LEMMA ShedOrder ==
    ASSUME NEW q \in Seq(Thumbs), IsInjective(q),
           NEW s \in ToSet(q), NEW t \in ToSet(q), NEW x \in ToSet(q)
    PROVE  /\ ~ShedBefore(s, s, q)
           /\ s # t => ShedBefore(s, t, q) \/ ShedBefore(t, s, q)
           /\ ShedBefore(x, s, q) /\ ShedBefore(s, t, q) => ShedBefore(x, t, q)
<1>1. Len(q) \in Nat /\ DOMAIN q = 1..Len(q) /\ ToSet(q) \subseteq Thumbs
  BY Listed DEF ToSet
<1>2. Priority[s] \in Nat /\ Priority[t] \in Nat /\ Priority[x] \in Nat
  BY <1>1, KeysAssumption
<1>3. ~Before(s, s, q)
  BY <1>1 DEF Before, IsInjective
<1>4. ASSUME s # t PROVE Before(s, t, q) \/ Before(t, s, q)
  <2>1. PICK i \in 1..Len(q), j \in 1..Len(q) : q[i] = s /\ q[j] = t
    BY <1>1 DEF ToSet
  <2>2. i < j \/ j < i
    BY <1>1, <1>4, <2>1
  <2> QED BY <1>1, <2>1, <2>2 DEF Before
<1>5. ASSUME Before(x, s, q), Before(s, t, q) PROVE Before(x, t, q)
  <2>1. PICK a \in 1..Len(q), b \in 1..Len(q) : a < b /\ q[a] = x /\ q[b] = s
    BY <1>1, <1>5 DEF Before
  <2>2. PICK c \in 1..Len(q), d \in 1..Len(q) : c < d /\ q[c] = s /\ q[d] = t
    BY <1>1, <1>5 DEF Before
  <2>3. b = c
    BY <1>1, <2>1, <2>2 DEF IsInjective
  <2>4. a < d
    BY <1>1, <2>1, <2>2, <2>3
  <2> QED BY <1>1, <2>1, <2>2, <2>4 DEF Before
<1>6. ~ShedBefore(s, s, q)
  BY <1>2, <1>3 DEF ShedBefore
<1>7. s # t => ShedBefore(s, t, q) \/ ShedBefore(t, s, q)
  BY <1>2, <1>4 DEF ShedBefore
<1>8. ShedBefore(x, s, q) /\ ShedBefore(s, t, q) => ShedBefore(x, t, q)
  BY <1>2, <1>5 DEF ShedBefore
<1> QED BY <1>6, <1>7, <1>8

LEMMA PlacesDiffer ==
    ASSUME NEW q \in Seq(Thumbs), IsInjective(q),
           NEW k \in ToSet(q), NEW m \in ToSet(q), k # m
    PROVE  Place(k, q) # Place(m, q)
<1>1. ToSet(q) \subseteq Thumbs
  BY Listed DEF ToSet
<1>2. ASSUME NEW s \in ToSet(q), NEW t \in ToSet(q), ShedBefore(s, t, q)
      PROVE  Place(s, q) # Place(t, q)
  <2>1. s \in Ahead(t, q) /\ s \notin Ahead(s, q)
    BY <1>2, ShedOrder DEF Ahead
  <2>2. Ahead(s, q) \subseteq Ahead(t, q)
    BY <1>2, ShedOrder DEF Ahead
  <2>3. Ahead(s, q) # Ahead(t, q)
    BY <2>1
  <2>4. /\ Cardinality(Ahead(s, q)) # Cardinality(Ahead(t, q))
    BY <1>1, <2>2, <2>3, PlaceIs, FS_Subset
  <2> QED BY <1>1, <2>4, PlaceIs
<1>3. ShedBefore(k, m, q) \/ ShedBefore(m, k, q)
  BY ShedOrder
<1> QED BY <1>2, <1>3

LEMMA PlaceInRange ==
    ASSUME NEW q \in Seq(Thumbs), IsInjective(q), NEW k \in ToSet(q)
    PROVE  Place(k, q) < Len(q)
<1>1. Len(q) \in Nat /\ k \in Thumbs
  BY Listed DEF ToSet
<1>2. Ahead(k, q) \subseteq ToSet(q) /\ Ahead(k, q) # ToSet(q)
  BY ShedOrder DEF Ahead
<1>3. /\ Cardinality(Ahead(k, q)) <= Cardinality(ToSet(q))
      /\ Cardinality(Ahead(k, q)) # Cardinality(ToSet(q))
      /\ Cardinality(ToSet(q)) \in Nat /\ Cardinality(ToSet(q)) <= Len(q)
  BY <1>2, ListedFinite, FS_Subset, FS_CardinalityType
<1> QED BY <1>1, <1>3, PlaceIs

-----------------------------------------------------------------------------
(* What a sample plans *)

Level == Lesser(ladder.cpuLevel, Len(pass.targets))

Planned(p) ==
    /\ p.ladder \in Ladders
    /\ \/ p.action = NoAction /\ p.ladder.cpuLevel = Level
       \/ \E k \in Keys, n \in 0..Len(BandwidthSteps) :
             p.action = Restep(k, n) /\ p.ladder.cpuLevel = Level
       \/ \E k \in AtPlace(Level, pass.targets) :
             p.action = Switch(k, FALSE) /\ p.ladder.cpuLevel = Level + 1
       \/ \E k \in AtPlace(Level - 1, pass.targets) :
             p.action = Switch(k, TRUE) /\ p.ladder.cpuLevel = Level - 1
    /\ p.dir = "none" => p.action = NoAction /\ Level = 0

LEMMA Plans ==
    ASSUME LadderTypeOK, InFlight, NEW p \in PlanLadder(pass.reading, pass.targets)
    PROVE  Planned(p)
<1> DEFINE l == Clamped(ladder, pass.targets)
<1>1. /\ pass.targets \in Seq(Thumbs) /\ pass.reading \in Readings(Keys)
      /\ Len(pass.targets) \in Nat /\ ladder \in Ladders
      /\ Len(BandwidthSteps) \in Nat
  <2>1. pass.targets \in Seq(Thumbs) /\ pass.reading \in Readings(Keys) /\ ladder \in Ladders
    BY DEF LadderTypeOK, Passes
  <2>2. Len(BandwidthSteps) \in Nat
    BY CeilingsAssumption
  <2> QED BY <2>1, <2>2, Listed
<1>2. l \in Ladders /\ l.cpuLevel = Level /\ Level \in Nat /\ l.bw = ladder.bw
  BY <1>1 DEF Clamped, Ladders, Level, Lesser
<1>7. /\ l = [cpuLevel |-> Level, bw |-> ladder.bw, streak |-> ladder.streak]
      /\ ladder.bw \in [Keys -> 0..Len(BandwidthSteps)] /\ ladder.streak \in Nat
  BY <1>1, <1>2 DEF Clamped, Ladders
<1> HIDE DEF l
<1>3. RecoverStreak \in Nat
  BY CeilingsAssumption
<1>4. CASE pass.reading.reason = "cpu"
  <2>1. p \in ShedMore(l, pass.targets)
    BY <1>4 DEF PlanLadder, l
  <2>2. CASE l.cpuLevel < Len(pass.targets)
    <3>1. PICK k \in AtPlace(Level, pass.targets) :
             p = Plan([l EXCEPT !.cpuLevel = @ + 1, !.streak = 0], Switch(k, FALSE), "lowering")
      BY <1>2, <2>1, <2>2 DEF ShedMore
    <3> DEFINE m == [l EXCEPT !.cpuLevel = @ + 1, !.streak = 0]
    <3>2. m = [cpuLevel |-> Level + 1, bw |-> ladder.bw, streak |-> 0]
      <4> DEFINE raised == [l EXCEPT !.cpuLevel = @ + 1]
      <4>1. raised = [cpuLevel |-> Level + 1, bw |-> ladder.bw, streak |-> ladder.streak]
        BY <1>2, <1>7
      <4>2. m = [raised EXCEPT !.streak = 0]
        OBVIOUS
      <4> HIDE DEF raised, m
      <4> QED BY <4>1, <4>2
    <3>4. m \in Ladders /\ m.cpuLevel = Level + 1
      BY <1>2, <1>7, <3>2 DEF Ladders
    <3>3. p.ladder = m /\ p.action = Switch(k, FALSE) /\ p.dir = "lowering"
      BY <3>1 DEF Plan
    <3> HIDE DEF m
    <3> QED BY <3>1, <3>3, <3>4 DEF Planned
  <2>3. CASE ~(l.cpuLevel < Len(pass.targets))
    <3>1. p = Plan([l EXCEPT !.streak = 0], NoAction, "lowering")
      BY <2>1, <2>3 DEF ShedMore
    <3> QED BY <1>2, <3>1 DEF Planned, Plan, Ladders
  <2> QED BY <2>2, <2>3
<1>5. CASE pass.reading.reason = "bandwidth"
  <2>1. p = StepDown(l, pass.reading.key)
    BY <1>5 DEF PlanLadder, l
  <2>2. pass.reading.key \in Keys
    BY <1>1, <1>5 DEF Readings, NoLimit, CpuLimit, LinkLimit
  <2> DEFINE k == pass.reading.key
  <2> HIDE DEF k
  <2>3. CASE l.bw[k] < Len(BandwidthSteps)
    <3> DEFINE n == l.bw[k] + 1
               m == [l EXCEPT !.bw[k] = @ + 1, !.streak = 0]
    <3>1. n \in 0..Len(BandwidthSteps)
      BY <1>1, <1>2, <2>2, <2>3 DEF Ladders, k
    <3>2. m \in Ladders /\ m.cpuLevel = Level
      BY <1>2, <2>2, <3>1 DEF Ladders, k
    <3>3. p = Plan(m, Restep(k, n), "lowering")
      BY <2>1, <2>3 DEF StepDown, k
    <3> HIDE DEF m, n
    <3> QED BY <2>2, <3>1, <3>2, <3>3 DEF Planned, Plan, k
  <2>4. CASE ~(l.bw[k] < Len(BandwidthSteps))
    <3>1. p = Plan([l EXCEPT !.streak = 0], NoAction, "lowering")
      BY <2>1, <2>4 DEF StepDown, k
    <3> QED BY <1>2, <3>1 DEF Planned, Plan, Ladders
  <2> QED BY <2>3, <2>4
<1>6. CASE pass.reading.reason \notin {"cpu", "bandwidth"}
  <2>1. p \in Clean(l, pass.targets)
    BY <1>6 DEF PlanLadder, l
  <2>2. CASE ~Shedding(l)
    <3>1. p = Plan(l, NoAction, "none") /\ l.cpuLevel = 0
      BY <1>2, <2>1, <2>2 DEF Clean, Shedding, Ladders
    <3> QED BY <1>2, <3>1 DEF Planned, Plan
  <2>3. CASE Shedding(l) /\ l.streak + 1 < RecoverStreak
    <3> DEFINE m == [l EXCEPT !.streak = @ + 1]
    <3>1. p = Plan(m, NoAction, "lowering")
      BY <2>1, <2>3 DEF Clean
    <3>2. m \in Ladders /\ m.cpuLevel = Level
      BY <1>2 DEF Ladders
    <3> HIDE DEF m
    <3> QED BY <3>1, <3>2 DEF Planned, Plan
  <2>4. CASE Shedding(l) /\ ~(l.streak + 1 < RecoverStreak)
    <3> DEFINE reset == [l EXCEPT !.streak = 0]
               stepped == {k \in Keys : l.bw[k] > 0}
    <3>1. p \in Recover(l, pass.targets, l.cpuLevel - 1)
      BY <2>1, <2>4 DEF Clean, RecoverOne
    <3>2. ASSUME NEW k \in stepped,
                 p = Plan([reset EXCEPT !.bw[k] = @ - 1], Restep(k, l.bw[k] - 1), "recovering")
          PROVE  Planned(p)
      <4> DEFINE n == l.bw[k] - 1
                 m == [reset EXCEPT !.bw[k] = @ - 1]
      <4>1. n \in 0..Len(BandwidthSteps) /\ k \in Keys
        BY <1>1, <1>2 DEF Ladders
      <4>2. m \in Ladders /\ m.cpuLevel = Level
        BY <1>2, <4>1 DEF Ladders
      <4>3. p = Plan(m, Restep(k, n), "recovering")
        BY <3>2
      <4> HIDE DEF m, n
      <4> QED BY <4>1, <4>2, <4>3 DEF Planned, Plan
    <3>3. ASSUME stepped = {}, NEW k \in AtPlace(l.cpuLevel - 1, pass.targets),
                 p = Plan([reset EXCEPT !.cpuLevel = @ - 1], Switch(k, TRUE), "recovering")
          PROVE  Planned(p)
      <4>1. l.cpuLevel > 0 /\ k \in AtPlace(Level - 1, pass.targets)
        BY <1>2, <2>4, <3>3 DEF Shedding
      <4> DEFINE m == [reset EXCEPT !.cpuLevel = @ - 1]
      <4>2. m = [cpuLevel |-> l.cpuLevel - 1, bw |-> l.bw, streak |-> 0]
        <5>1. reset = [cpuLevel |-> Level, bw |-> ladder.bw, streak |-> 0]
          BY <1>2, <1>7
        <5> HIDE DEF reset
        <5> QED BY <1>2, <1>7, <5>1
      <4>3. /\ l.cpuLevel - 1 \in Nat /\ l.cpuLevel - 1 = Level - 1
            /\ l.bw \in [Keys -> 0..Len(BandwidthSteps)]
        BY <1>2, <4>1 DEF Ladders
      <4>4. m \in Ladders /\ m.cpuLevel = Level - 1
        BY <4>2, <4>3 DEF Ladders
      <4>5. p.ladder = m /\ p.action = Switch(k, TRUE) /\ p.dir = "recovering"
        BY <3>3 DEF Plan
      <4> HIDE DEF m
      <4> QED BY <4>1, <4>4, <4>5 DEF Planned
    <3> QED BY <3>1, <3>2, <3>3 DEF Recover
  <2> QED BY <2>2, <2>3, <2>4
<1> QED BY <1>4, <1>5, <1>6

-----------------------------------------------------------------------------
(* What a step does to the senders *)

BaseInv == LadderTypeOK /\ ProgramsOn

\* Whether k is on once its calls are settled.
Lit(k) == On(calls[k], enc[k])
Untouched(S) == \A k \in S : Lit(k)' = Lit(k)

LEMMA Baselines == Baseline \in Params /\ Fresh \in Encodings /\ Fresh.active
BY DEF Baseline, Params, Fresh, Encodings, Free

LEMMA CapParams ==
    ASSUME NEW k \in Programs, NEW c \in Ceilings, NEW ov \in [Programs -> Overrides \cup {0}]
    PROVE  CeilingParamsFor(k, c, ov) \in Params
<1>1. /\ c \in [res : Nat \ {0}, fps : Nat \ {0}, rate : Nat \ {0}] /\ ov[k] \in Nat
      /\ Height \in Nat \ {0}
  <2>1. c \in [res : Nat \ {0}, fps : Nat \ {0}, rate : Nat \ {0}]
    BY CeilingsAssumption
  <2>2. Overrides \subseteq Nat /\ Height \in Nat \ {0}
    BY CeilingsAssumption
  <2>3. ov[k] \in Overrides \cup {0}
    OBVIOUS
  <2>4. ov[k] \in Nat
    <3>1. ASSUME ov[k] \in Overrides PROVE ov[k] \in Nat
      BY <2>2, <3>1, Zenon
    <3>2. 0 \in Nat
      OBVIOUS
    <3> QED BY <2>3, <3>1, <3>2, Zenon
  <2> QED BY <2>1, <2>2, <2>4, Zenon
<1> DEFINE res == IF ov[k] = 0 THEN c.res ELSE Lesser(c.res, ov[k])
<1>2. res \in Nat \ {0}
  BY <1>1 DEF Lesser
<1> HIDE DEF res
<1>3. (IF Height > res THEN Height \div res ELSE 1) \in Nat
  BY <1>1, <1>2
<1> QED BY <1>1, <1>3 DEF CeilingParamsFor, Params, res

\* Enforcing the ceiling leaves a sender as it is but for its encoding: the calls
\* are e after cs, where fin says who is on.
Capped(e, cs, fin, c, ov) ==
    /\ fin \in [Keys -> BOOLEAN] /\ c \in Ceilings \cup {NoCeiling}
    /\ ov \in [Programs -> Overrides \cup {0}] /\ e = [k \in Keys |-> e[k]]
    /\ \A k \in Keys :
          \/ e[k] = cs[k]
          \/ /\ k \in Programs /\ c # NoCeiling
             /\ e[k] = Append(cs[k], [active |-> fin[k],
                                      params |-> CeilingParamsFor(k, c, ov),
                                      memo |-> CeilingParamsFor(k, c, ov)])
Finals == [k \in Keys |-> Final(k).active]

LEMMA EnforcedIs ==
    ASSUME NEW cs \in [Keys -> Seq(Calls)], NEW fin, NEW c, NEW ov, NEW e,
           Capped(e, cs, fin, c, ov)
    PROVE  /\ e \in [Keys -> Seq(Calls)]
           /\ \A k \in Thumbs : e[k] = cs[k]
           /\ \A k \in Programs : \/ e[k] = cs[k]
                                 \/ \E a \in Calls : /\ e[k] = Append(cs[k], a)
                                                    /\ a.active = fin[k]
<1>1. /\ e = [k \in Keys |-> e[k]] /\ fin \in [Keys -> BOOLEAN]
      /\ c \in Ceilings \cup {NoCeiling} /\ ov \in [Programs -> Overrides \cup {0}]
  BY DEF Capped
<1>2. ASSUME NEW k \in Programs
      PROVE  \/ e[k] = cs[k]
             \/ \E a \in Calls : e[k] = Append(cs[k], a) /\ a.active = fin[k]
  <2> DEFINE cap == CeilingParamsFor(k, c, ov)
             a == [active |-> fin[k], params |-> cap, memo |-> cap]
  <2>1. e[k] = cs[k] \/ (c # NoCeiling /\ e[k] = Append(cs[k], a))
    BY DEF Capped, Keys
  <2>2. c # NoCeiling => cap \in Params
    BY <1>1, CapParams
  <2> HIDE DEF cap
  <2>3. c # NoCeiling => a \in Calls /\ a.active = fin[k]
    BY <1>1, <2>2 DEF Calls, Keys
  <2> HIDE DEF a
  <2> QED BY <2>1, <2>3
<1>3. ASSUME NEW k \in Thumbs PROVE e[k] = cs[k]
  <2>1. k \notin Programs
    BY KeysAssumption
  <2> QED BY <2>1 DEF Capped, Keys
<1>4. ASSUME NEW k \in Keys PROVE e[k] \in Seq(Calls)
  <2>1. cs[k] \in Seq(Calls)
    OBVIOUS
  <2>2. CASE k \in Programs
    <3>1. ASSUME NEW a \in Calls, e[k] = Append(cs[k], a) PROVE e[k] \in Seq(Calls)
      BY <2>1, <3>1, Listed
    <3> QED BY <1>2, <2>1, <2>2, <3>1
  <2>3. CASE k \in Thumbs
    BY <1>3, <2>1, <2>3
  <2> QED BY <2>2, <2>3 DEF Keys
<1> QED BY <1>1, <1>2, <1>3, <1>4

LEMMA FinalsAre ==
    ASSUME LadderTypeOK
    PROVE  Finals \in [Keys -> BOOLEAN] /\ \A k \in Keys : Finals[k] = Final(k).active
BY FinalIs DEF Finals, LadderTypeOK

\* So it keeps programs on, if they were.
LEMMA EnforcedOn ==
    ASSUME BaseInv, NEW k \in Programs, NEW b \in Seq(Calls), NEW d,
           AlwaysOn(b, enc[k]),
           d = b \/ \E a \in Calls : d = Append(b, a) /\ a.active = Finals[k]
    PROVE  AlwaysOn(d, enc[k])
<1>1. Finals[k]
  <2>1. On(calls[k], enc[k]) /\ Finals[k] = On(calls[k], enc[k])
    BY FinalsAre, FinalIs, OutcomeOf DEF BaseInv, LadderTypeOK, ProgramsOn, Keys
  <2> QED BY <2>1
<1>2. enc[k] \in Encodings
  BY DEF BaseInv, LadderTypeOK, Keys
<1>3. ASSUME NEW a \in Calls, d = Append(b, a), a.active = Finals[k]
      PROVE  AlwaysOn(d, enc[k])
  BY <1>1, <1>2, <1>3, OutcomeOf
<1> QED BY <1>3

LEMMA OpensStep ==
    ASSUME BaseInv, NEW k \in Keys, SenderOpens(k)
    PROVE  /\ BaseInv' /\ Lit(k)' /\ Untouched(Keys \ {k})
           /\ UNCHANGED <<ladder, pass, degraded, calm, refused>>
           /\ k \notin Present /\ Present' = Present \cup {k}
           /\ k \notin ToSet(thumbs)
           /\ \/ thumbs' = thumbs /\ overtaken' = overtaken
              \/ /\ k \in Thumbs /\ thumbs' = Append(thumbs, k)
                 /\ overtaken' = overtaken \cup Overtakes(k)
<1>1. /\ k \notin Present
      /\ UNCHANGED <<ceiling, override, ladder, pass, degraded, calm, refused>>
      /\ enc' = [enc EXCEPT ![k] = Fresh] /\ calls' = [calls EXCEPT ![k] = <<>>]
      /\ k \in Programs \/ k \in Thumbs
      /\ enc \in [Keys -> Encodings] /\ calls \in [Keys -> Seq(Calls)]
      /\ thumbs \in Seq(Thumbs) /\ IsInjective(thumbs) /\ programs \subseteq Programs
  BY DEF SenderOpens, Keys, BaseInv, LadderTypeOK
<1>2. \/ /\ k \in Programs /\ programs' = programs \cup {k} /\ thumbs' = thumbs
         /\ overtaken' = overtaken
      \/ /\ k \in Thumbs /\ thumbs' = Append(thumbs, k) /\ programs' = programs
         /\ overtaken' = overtaken \cup Overtakes(k)
  BY <1>1 DEF SenderOpens
<1>3. k \notin ToSet(thumbs)
  BY <1>1 DEF Present
<1>4. /\ programs' \subseteq Programs /\ thumbs' \in Seq(Thumbs) /\ IsInjective(thumbs')
      /\ Present' = Present \cup {k}
  <2>1. CASE k \in Programs /\ programs' = programs \cup {k} /\ thumbs' = thumbs
    BY <1>1, <2>1 DEF Present
  <2>2. CASE k \in Thumbs /\ thumbs' = Append(thumbs, k) /\ programs' = programs
    <3>1. /\ Append(thumbs, k) \in Seq(Thumbs) /\ IsInjective(Append(thumbs, k))
          /\ ToSet(Append(thumbs, k)) = ToSet(thumbs) \cup {k}
      BY <1>1, <1>3, <2>2, Joined
    <3> QED BY <1>1, <2>2, <3>1 DEF Present
  <2> QED BY <1>2, <2>1, <2>2
<1>5. /\ enc' \in [Keys -> Encodings] /\ calls' \in [Keys -> Seq(Calls)]
      /\ enc'[k] = Fresh /\ calls'[k] = <<>>
      /\ \A m \in Keys \ {k} : enc'[m] = enc[m] /\ calls'[m] = calls[m]
  <2>1. <<>> \in Seq(Calls)
    OBVIOUS
  <2> QED BY <1>1, <2>1, Baselines
<1>6. LadderTypeOK'
  BY <1>1, <1>4, <1>5 DEF BaseInv, LadderTypeOK, InFlight
<1>7. Lit(k)' /\ Untouched(Keys \ {k})
  BY <1>5, Baselines DEF Lit, On, Untouched
<1>8. ProgramsOn'
  <2> SUFFICES ASSUME NEW m \in Programs PROVE AlwaysOn(calls'[m], enc'[m])
    BY DEF ProgramsOn
  <2>1. CASE m = k
    <3>1. Len(<<>>) = 0
      OBVIOUS
    <3> QED BY <1>5, <2>1, <3>1, Baselines DEF AlwaysOn
  <2>2. CASE m # k
    BY <1>5, <2>2 DEF BaseInv, ProgramsOn, Keys
  <2> QED BY <2>1, <2>2
<1> QED BY <1>1, <1>2, <1>3, <1>4, <1>6, <1>7, <1>8 DEF BaseInv

LEMMA ClosesStep ==
    ASSUME BaseInv, NEW k \in Keys, SenderCloses(k)
    PROVE  /\ BaseInv' /\ Lit(k)' /\ Untouched(Keys \ {k})
           /\ UNCHANGED <<ladder, degraded, calm>>
           /\ refused' = refused \ {k} /\ overtaken' = overtaken \ {k}
           /\ Present' = Present \ {k}
           /\ thumbs' = thumbs \/ \E i \in 1..Len(thumbs) : /\ thumbs[i] = k
                                                          /\ thumbs' = RemoveAt(thumbs, i)
           /\ k \in Thumbs => k \notin ToSet(thumbs')
           /\ InFlight' => InFlight /\ pass' = [pass EXCEPT !.same = @ \ {k}]
<1>1. /\ k \in Present /\ UNCHANGED <<ceiling, override, ladder, degraded, calm>>
      /\ refused' = refused \ {k} /\ overtaken' = overtaken \ {k}
      /\ enc' = [enc EXCEPT ![k] = Fresh] /\ calls' = [calls EXCEPT ![k] = <<>>]
      /\ programs' = programs \ {k}
      /\ enc \in [Keys -> Encodings] /\ calls \in [Keys -> Seq(Calls)]
      /\ thumbs \in Seq(Thumbs) /\ IsInjective(thumbs) /\ programs \subseteq Programs
      /\ DOMAIN thumbs = 1..Len(thumbs) /\ ToSet(thumbs) \subseteq Thumbs
      /\ Programs \cap Thumbs = {}
  BY Listed, KeysAssumption DEF SenderCloses, BaseInv, LadderTypeOK, ToSet
<1>2. \/ k \in Programs /\ thumbs' = thumbs
      \/ /\ k \in Thumbs
         /\ \E i \in 1..Len(thumbs) : thumbs[i] = k /\ thumbs' = RemoveAt(thumbs, i)
  BY <1>1 DEF SenderCloses, Keys
<1>3. /\ programs' \subseteq Programs /\ thumbs' \in Seq(Thumbs) /\ IsInjective(thumbs')
      /\ Present' = Present \ {k} /\ (k \in Thumbs => k \notin ToSet(thumbs'))
  <2>1. CASE k \in Programs /\ thumbs' = thumbs
    BY <1>1, <2>1 DEF Present
  <2>2. ASSUME k \in Thumbs, NEW i \in 1..Len(thumbs), thumbs[i] = k,
               thumbs' = RemoveAt(thumbs, i)
        PROVE  /\ thumbs' \in Seq(Thumbs) /\ IsInjective(thumbs')
               /\ ToSet(thumbs') = ToSet(thumbs) \ {k}
    BY <1>1, <2>2, Gone
  <2> QED BY <1>1, <1>2, <2>1, <2>2 DEF Present
<1>4. /\ enc' \in [Keys -> Encodings] /\ calls' \in [Keys -> Seq(Calls)]
      /\ enc'[k] = Fresh /\ calls'[k] = <<>>
      /\ \A m \in Keys \ {k} : enc'[m] = enc[m] /\ calls'[m] = calls[m]
  <2>1. <<>> \in Seq(Calls)
    OBVIOUS
  <2> QED BY <1>1, <2>1, Baselines
<1>5. InFlight' => /\ InFlight /\ pass' = [pass EXCEPT !.same = @ \ {k}]
                   /\ pass' \in Passes
  <2>1. InFlight' => InFlight /\ pass' = [pass EXCEPT !.same = @ \ {k}]
    BY DEF SenderCloses, InFlight
  <2>2. ASSUME InFlight' PROVE pass' \in Passes
    <3>1. pass \in Passes /\ pass' = [pass EXCEPT !.same = @ \ {k}]
      BY <2>1, <2>2 DEF BaseInv, LadderTypeOK
    <3> QED BY <3>1 DEF Passes
  <2> QED BY <2>1, <2>2
<1>6. LadderTypeOK'
  BY <1>1, <1>3, <1>4, <1>5 DEF BaseInv, LadderTypeOK
<1>7. Lit(k)' /\ Untouched(Keys \ {k})
  BY <1>4, Baselines DEF Lit, On, Untouched
<1>8. ProgramsOn'
  <2> SUFFICES ASSUME NEW m \in Programs PROVE AlwaysOn(calls'[m], enc'[m])
    BY DEF ProgramsOn
  <2>1. CASE m = k
    <3>1. Len(<<>>) = 0
      OBVIOUS
    <3> QED BY <1>4, <2>1, <3>1, Baselines DEF AlwaysOn
  <2>2. CASE m # k
    BY <1>4, <2>2 DEF BaseInv, ProgramsOn, Keys
  <2> QED BY <2>1, <2>2
<1> QED BY <1>1, <1>2, <1>3, <1>5, <1>6, <1>7, <1>8 DEF BaseInv

\* Only of a thumbnail that has been refused a call it is not known whether it is on.
Sure == Keys \ (refused' \cap Thumbs)

LEMMA SettlesStep ==
    ASSUME BaseInv, NEW k \in Keys, Applied(k) \/ Refused(k)
    PROVE  /\ BaseInv' /\ Untouched(Sure)
           /\ UNCHANGED <<programs, thumbs, ladder, pass, degraded, calm, overtaken>>
           /\ refused \ Programs \subseteq refused'
<1>1. /\ UNCHANGED <<programs, thumbs, ceiling, override, ladder, pass, degraded, calm>>
      /\ overtaken' = overtaken /\ refused \ Programs \subseteq refused'
      /\ calls[k] # <<>> /\ calls' = [calls EXCEPT ![k] = Tail(@)]
      /\ enc \in [Keys -> Encodings] /\ calls \in [Keys -> Seq(Calls)]
  BY DEF Applied, Refused, BaseInv, LadderTypeOK
<1>2. /\ Tail(calls[k]) \in Seq(Calls) /\ Head(calls[k]) \in Calls
      /\ Len(calls[k]) > 0 /\ Len(calls[k]) \in Nat
  <2>1. 1 \in 1..Len(calls[k])
    BY <1>1, Listed
  <2> QED BY <1>1, <2>1, Listed
<1> DEFINE settled == [active |-> Head(calls[k]).active, params |-> Head(calls[k]).params]
<1>3. \/ Applied(k) /\ enc' = [enc EXCEPT ![k] = settled]
      \/ (k \in Thumbs => k \in refused') /\ enc' = enc
  <2>1. ASSUME Refused(k), k \in Thumbs PROVE k \in refused'
    <3>1. k \notin Programs
      BY <2>1, KeysAssumption
    <3>2. ~Repeated(k)
      BY <3>1 DEF Repeated
    <3> QED BY <2>1, <3>2 DEF Refused
  <2> QED BY <2>1 DEF Applied, Refused
<1>4. settled \in Encodings /\ settled.active = Head(calls[k]).active
  BY <1>2 DEF Calls, Encodings, Params
<1> HIDE DEF settled
<1>5. /\ enc' \in [Keys -> Encodings] /\ calls' \in [Keys -> Seq(Calls)]
      /\ calls'[k] = Tail(calls[k])
      /\ enc'[k] = settled \/ ((k \in Thumbs => k \in refused') /\ enc'[k] = enc[k])
      /\ \A m \in Keys \ {k} : enc'[m] = enc[m] /\ calls'[m] = calls[m]
  BY <1>1, <1>2, <1>3, <1>4
<1>6. enc[k] \in Encodings /\ calls[k] \in Seq(Calls)
  BY <1>1
<1>7. LadderTypeOK'
  BY <1>1, <1>5 DEF BaseInv, LadderTypeOK, InFlight
<1>8. AlwaysOn(calls[k], enc[k]) => AlwaysOn(calls'[k], enc'[k])
  BY <1>1, <1>4, <1>5, <1>6, OutcomeOf
<1>9. ProgramsOn'
  <2> SUFFICES ASSUME NEW m \in Programs PROVE AlwaysOn(calls'[m], enc'[m])
    BY DEF ProgramsOn
  <2>1. AlwaysOn(calls[m], enc[m])
    BY DEF BaseInv, ProgramsOn
  <2> QED BY <1>5, <1>8, <2>1 DEF Keys
<1>10. k \in Sure => Lit(k)' = Lit(k)
  <2> SUFFICES ASSUME k \in Sure PROVE On(calls'[k], enc'[k]) = On(calls[k], enc[k])
    BY DEF Lit
  <2>1. CASE enc'[k] = settled
    BY <1>1, <1>4, <1>5, <1>6, <2>1, OutcomeOf
  <2>2. CASE k \in Thumbs => k \in refused'
    <3>1. k \in Programs
      BY <2>2 DEF Sure, Keys
    <3>2. AlwaysOn(calls[k], enc[k]) /\ AlwaysOn(calls'[k], enc'[k])
      BY <1>8, <3>1 DEF BaseInv, ProgramsOn
    <3>3. On(calls[k], enc[k]) /\ On(calls'[k], enc'[k])
      BY <1>5, <1>6, <3>2, OutcomeOf
    <3>4. On(calls[k], enc[k]) \in BOOLEAN /\ On(calls'[k], enc'[k]) \in BOOLEAN
      BY <1>5, <1>6, OnOrOff
    <3> QED BY <3>3, <3>4
  <2> QED BY <1>5, <2>1, <2>2
<1> QED BY <1>1, <1>5, <1>7, <1>9, <1>10 DEF BaseInv, Untouched, Lit, Sure

LEMMA CapsStep ==
    ASSUME BaseInv,
           \/ \E c \in Ceilings : SetCeiling(c)
           \/ \E k \in Programs, res \in Overrides : SetSourceOverride(k, res)
    PROVE  /\ BaseInv' /\ Untouched(Keys)
           /\ UNCHANGED <<programs, thumbs, ladder, pass, degraded, calm, overtaken>>
           /\ refused \ Programs \subseteq refused' /\ refused' \subseteq refused
<1>1. /\ UNCHANGED <<programs, thumbs, enc, ladder, pass, degraded, calm, overtaken>>
      /\ refused \ Programs \subseteq refused' /\ refused' \subseteq refused
      /\ ceiling' \in Ceilings \cup {NoCeiling}
      /\ override' \in [Programs -> Overrides \cup {0}]
      /\ Capped(calls', calls, Finals, ceiling', override')
  <2>1. ASSUME NEW c \in Ceilings, SetCeiling(c)
        PROVE  /\ UNCHANGED <<programs, thumbs, enc, ladder, pass, degraded, calm, overtaken>>
               /\ refused \ Programs \subseteq refused' /\ refused' \subseteq refused
               /\ ceiling' \in Ceilings \cup {NoCeiling}
               /\ override' \in [Programs -> Overrides \cup {0}]
               /\ Capped(calls', calls, Finals, ceiling', override')
    BY <2>1, FinalsAre DEF SetCeiling, SetCalls, BaseInv, LadderTypeOK, Enforced, Capped,
                CapCall, Call, Finals
  <2>2. ASSUME NEW k \in Programs, NEW res \in Overrides, SetSourceOverride(k, res)
        PROVE  /\ UNCHANGED <<programs, thumbs, enc, ladder, pass, degraded, calm, overtaken>>
               /\ refused \ Programs \subseteq refused' /\ refused' \subseteq refused
               /\ ceiling' \in Ceilings \cup {NoCeiling}
               /\ override' \in [Programs -> Overrides \cup {0}]
               /\ Capped(calls', calls, Finals, ceiling', override')
    BY <2>2, FinalsAre DEF SetSourceOverride, SetCalls, BaseInv, LadderTypeOK, Enforced, Capped,
                CapCall, Call, Finals, historyVars
  <2> QED BY <2>1, <2>2
<1>2. calls \in [Keys -> Seq(Calls)] /\ enc \in [Keys -> Encodings] /\ LadderTypeOK
  BY DEF BaseInv, LadderTypeOK
<1>3. /\ calls' \in [Keys -> Seq(Calls)]
      /\ \A k \in Thumbs : calls'[k] = calls[k]
      /\ \A k \in Programs : \/ calls'[k] = calls[k]
                            \/ \E a \in Calls : /\ calls'[k] = Append(calls[k], a)
                                               /\ a.active = Finals[k]
  <2>1. calls \in [Keys -> Seq(Calls)] /\ Capped(calls', calls, Finals, ceiling', override')
    BY <1>1, <1>2
  <2>2. calls' \in [Keys -> Seq(Calls)]
    BY <2>1, EnforcedIs
  <2>3. \A k \in Thumbs : calls'[k] = calls[k]
    BY <2>1, EnforcedIs
  <2>4. \A k \in Programs : \/ calls'[k] = calls[k]
                            \/ \E a \in Calls : /\ calls'[k] = Append(calls[k], a)
                                               /\ a.active = Finals[k]
    BY <2>1, EnforcedIs
  <2> QED BY <2>2, <2>3, <2>4
<1>4. LadderTypeOK'
  BY <1>1, <1>2, <1>3 DEF LadderTypeOK, InFlight
<1>5. ASSUME NEW k \in Programs PROVE AlwaysOn(calls[k], enc[k]) /\ AlwaysOn(calls'[k], enc[k])
  <2>1. AlwaysOn(calls[k], enc[k]) /\ calls[k] \in Seq(Calls)
    BY <1>2 DEF BaseInv, ProgramsOn, Keys
  <2> QED BY <1>3, <2>1, EnforcedOn, FinalsAre
<1>6. ASSUME NEW k \in Keys PROVE On(calls'[k], enc[k]) = On(calls[k], enc[k])
  <2>1. CASE k \in Programs
    <3>1. On(calls[k], enc[k]) /\ On(calls'[k], enc[k])
      BY <1>2, <1>3, <1>5, <2>1, OutcomeOf
    <3>2. On(calls[k], enc[k]) \in BOOLEAN /\ On(calls'[k], enc[k]) \in BOOLEAN
      BY <1>2, <1>3, OnOrOff
    <3> QED BY <3>1, <3>2
  <2>2. CASE k \in Thumbs
    BY <1>3, <2>2
  <2> QED BY <2>1, <2>2 DEF Keys
<1> QED BY <1>1, <1>4, <1>5, <1>6 DEF BaseInv, ProgramsOn, Untouched, Lit

LEMMA StartsStep ==
    ASSUME BaseInv, NEW r, SampleStarts(r)
    PROVE  /\ BaseInv' /\ Untouched(Keys)
           /\ UNCHANGED <<programs, thumbs, ladder, degraded, refused, overtaken>>
           /\ pass' = [targets |-> thumbs, same |-> Present, reading |-> r]
           /\ calm' = (calm /\ r = NoLimit)
<1>1. /\ UNCHANGED <<programs, thumbs, enc, calls, ceiling, override, ladder, degraded>>
      /\ UNCHANGED <<refused, overtaken>>
      /\ pass' = [targets |-> thumbs, same |-> Present, reading |-> r]
      /\ calm' = (calm /\ r = NoLimit) /\ r \in Readings(Present)
  BY DEF SampleStarts, senderVars
<1>2. thumbs \in Seq(Thumbs) /\ programs \subseteq Programs
  BY DEF BaseInv, LadderTypeOK
<1>3. Present \subseteq Keys
  BY <1>2, Listed DEF Present, ToSet, Keys
<1>4. Readings(Present) \subseteq Readings(Keys)
  BY <1>3 DEF Readings
<1>5. pass' \in Passes
  BY <1>1, <1>2, <1>3, <1>4 DEF Passes
<1>6. LadderTypeOK'
  <2>1. calm' \in BOOLEAN
    BY <1>1
  <2> QED BY <1>1, <1>5, <2>1 DEF BaseInv, LadderTypeOK
<1>7. ProgramsOn' /\ Untouched(Keys)
  BY <1>1 DEF BaseInv, ProgramsOn, Untouched, Lit
<1> QED BY <1>1, <1>6, <1>7 DEF BaseInv

\* What a sample that goes through does to the thumbnails.
LEMMA PlansStep ==
    ASSUME BaseInv, SamplePlans
    PROVE  /\ BaseInv' /\ InFlight /\ pass' = NoPass
           /\ UNCHANGED <<programs, thumbs, calm, refused, overtaken>>
           /\ \E p \in PlanLadder(pass.reading, pass.targets) :
                 /\ Planned(p) /\ ladder' = p.ladder
                 /\ degraded' = IF p.dir = "none" /\ Shedding(p.ladder) THEN "lowering"
                                ELSE p.dir
                 /\ \A k \in Thumbs :
                       Lit(k)' = IF k \in ActsOn(p.action) THEN p.action.active ELSE Lit(k)
<1>1. PICK p \in PlanLadder(pass.reading, pass.targets) :
         /\ ladder' = p.ladder
         /\ degraded' = IF p.dir = "none" /\ Shedding(p.ladder) THEN "lowering" ELSE p.dir
         /\ Capped(calls', Acted(p.action), Finals, ceiling, override)
  BY FinalsAre DEF SamplePlans, SetCalls, Enforced, Capped, CapCall, Call, Finals, BaseInv, LadderTypeOK
<1>2. /\ InFlight /\ pass' = NoPass
      /\ UNCHANGED <<programs, thumbs, enc, ceiling, override, calm, refused, overtaken>>
      /\ calls \in [Keys -> Seq(Calls)] /\ enc \in [Keys -> Encodings] /\ LadderTypeOK
      /\ pass \in Passes
      /\ ceiling \in Ceilings \cup {NoCeiling} /\ override \in [Programs -> Overrides \cup {0}]
  BY DEF SamplePlans, InFlight, BaseInv, LadderTypeOK, historyVars
<1>3. Planned(p)
  BY <1>2, Plans
<1> DEFINE a == p.action
<1>4. ASSUME NEW k \in ActsOn(a)
      PROVE  /\ k \in Keys /\ a.active \in BOOLEAN /\ a.params \in Params
             /\ k \in Programs => a.active
  <2>1. k \in a.key
    BY DEF ActsOn
  <2>2. CASE a = NoAction
    BY <2>1, <2>2 DEF NoAction
  <2>3. ASSUME NEW m \in Keys, NEW n \in 0..Len(BandwidthSteps), a = Restep(m, n)
        PROVE  /\ k \in Keys /\ a.active \in BOOLEAN /\ a.params \in Params
               /\ k \in Programs => a.active
    <3>1. k = m /\ a.active = Final(m).active
          /\ a.params = IF n = 0 THEN Baseline ELSE BandwidthSteps[n]
      BY <2>1, <2>3 DEF Restep
    <3>2. /\ Final(m).active \in BOOLEAN /\ Final(m).active = On(calls[m], enc[m])
      BY <1>2, FinalIs
    <3>3. a.params \in Params
      <4>1. BandwidthSteps \in Seq(Params)
        BY CeilingsAssumption DEF Params
      <4>2. n # 0 => BandwidthSteps[n] \in Params
        BY <4>1
      <4> QED BY <3>1, <4>2, Baselines
    <3>4. m \in Programs => On(calls[m], enc[m])
      BY <1>2, OutcomeOf DEF BaseInv, ProgramsOn
    <3> QED BY <3>1, <3>2, <3>3, <3>4
  <2>4. ASSUME NEW n, NEW m \in AtPlace(n, pass.targets), NEW b \in BOOLEAN, a = Switch(m, b)
        PROVE  /\ k \in Keys /\ a.active \in BOOLEAN /\ a.params \in Params
               /\ k \in Programs => a.active
    <3>1. k = m /\ a.active = b /\ a.params = Final(m).params
      BY <2>1, <2>4 DEF Switch
    <3>2. m \in Thumbs
      <4>1. pass.targets \in Seq(Thumbs)
        BY <1>2 DEF Passes
      <4>2. ToSet(pass.targets) \subseteq Thumbs
        BY <4>1, Listed DEF ToSet
      <4> QED BY <4>2 DEF AtPlace
    <3>3. m \in Keys /\ m \notin Programs
      BY <3>2, KeysAssumption DEF Keys
    <3>4. Final(m).params \in Params
      BY <1>2, <3>3, FinalIs
    <3> QED BY <3>1, <3>3, <3>4
  <2> QED BY <1>3, <2>2, <2>3, <2>4 DEF Planned
<1>5. ASSUME NEW k \in ActsOn(a)
      PROVE  Call(k, a.active, a.params, NoCap) \in Calls
  BY <1>4, Baselines DEF Call, Calls, NoCap
<1> HIDE DEF a
<1>6. ASSUME NEW k \in Keys
      PROVE  /\ Acted(a)[k] \in Seq(Calls)
             /\ On(Acted(a)[k], enc[k]) = IF k \in ActsOn(a) THEN a.active ELSE Lit(k)
             /\ k \in Programs => AlwaysOn(Acted(a)[k], enc[k])
  <2>1. calls[k] \in Seq(Calls) /\ enc[k] \in Encodings
    BY <1>2
  <2>2. k \in Programs => AlwaysOn(calls[k], enc[k])
    BY DEF BaseInv, ProgramsOn
  <2>3. CASE k \in ActsOn(a)
    <3> DEFINE c == Call(k, a.active, a.params, NoCap)
    <3>1. Acted(a)[k] = Append(calls[k], c)
      BY <2>3 DEF Acted
    <3>2. c \in Calls /\ c.active = a.active
      BY <1>5, <2>3 DEF Call
    <3> HIDE DEF c
    <3> QED BY <1>4, <2>1, <2>2, <2>3, <3>1, <3>2, Listed, OutcomeOf
  <2>4. CASE k \notin ActsOn(a)
    BY <2>1, <2>2, <2>4 DEF Acted, Lit
  <2> QED BY <2>3, <2>4
<1>7. Acted(a) \in [Keys -> Seq(Calls)]
  <2>1. Acted(a) = [k \in Keys |-> Acted(a)[k]]
    BY DEF Acted
  <2> QED BY <1>6, <2>1
<1>8. /\ calls' \in [Keys -> Seq(Calls)]
      /\ \A k \in Thumbs : calls'[k] = Acted(a)[k]
      /\ \A k \in Programs : \/ calls'[k] = Acted(a)[k]
                            \/ \E c \in Calls : /\ calls'[k] = Append(Acted(a)[k], c)
                                               /\ c.active = Finals[k]
  <2>1. Acted(a) \in [Keys -> Seq(Calls)] /\ Capped(calls', Acted(a), Finals, ceiling, override)
    BY <1>1, <1>7 DEF a
  <2>2. calls' \in [Keys -> Seq(Calls)]
    BY <2>1, EnforcedIs
  <2>3. \A k \in Thumbs : calls'[k] = Acted(a)[k]
    BY <2>1, EnforcedIs
  <2>4. \A k \in Programs : \/ calls'[k] = Acted(a)[k]
                            \/ \E c \in Calls : /\ calls'[k] = Append(Acted(a)[k], c)
                                               /\ c.active = Finals[k]
    BY SMTT(30), <2>1, EnforcedIs
  <2> QED BY <2>2, <2>3, <2>4
<1>9. LadderTypeOK'
  BY <1>1, <1>2, <1>3, <1>8 DEF LadderTypeOK, InFlight, Planned
<1>10. ProgramsOn'
  <2> SUFFICES ASSUME NEW k \in Programs PROVE AlwaysOn(calls'[k], enc[k])
    BY <1>2 DEF ProgramsOn
  <2>1. AlwaysOn(Acted(a)[k], enc[k]) /\ Acted(a)[k] \in Seq(Calls)
    BY <1>6 DEF Keys
  <2> QED BY <1>8, <2>1, EnforcedOn, FinalsAre
<1>11. ASSUME NEW k \in Thumbs
       PROVE  Lit(k)' = IF k \in ActsOn(a) THEN a.active ELSE Lit(k)
  <2>1. Lit(k)' = On(calls'[k], enc[k])
    BY <1>2 DEF Lit
  <2> QED BY <1>6, <1>8, <2>1 DEF Keys
<1> QED BY <1>1, <1>2, <1>3, <1>9, <1>10, <1>11 DEF BaseInv, a

LEMMA RecoversStep ==
    ASSUME BaseInv, RecoverNow
    PROVE  /\ BaseInv' /\ ~InFlight' /\ calm' /\ ladder' = AtRest
           /\ UNCHANGED <<programs, thumbs>>
           /\ \A k \in Present : Lit(k)'
<1>1. /\ UNCHANGED <<programs, thumbs, enc, ceiling, override>>
      /\ Capped(calls', Restored, Finals, ceiling, override)
      /\ ladder' = AtRest /\ calm' = TRUE /\ ~InFlight'
      /\ calls \in [Keys -> Seq(Calls)] /\ enc \in [Keys -> Encodings] /\ LadderTypeOK
      /\ ceiling \in Ceilings \cup {NoCeiling} /\ override \in [Programs -> Overrides \cup {0}]
      /\ thumbs \in Seq(Thumbs) /\ programs \subseteq Programs
  BY FinalsAre DEF RecoverNow, SetCalls, InFlight, Outdated, BaseInv, LadderTypeOK, Enforced, Capped,
         CapCall, Call, Finals
<1>2. Present \subseteq Keys
  BY <1>1, Listed DEF Present, ToSet, Keys
<1>3. ASSUME NEW k \in Keys
      PROVE  /\ Restored[k] \in Seq(Calls)
             /\ k \in Present => On(Restored[k], enc[k])
             /\ k \in Programs => AlwaysOn(Restored[k], enc[k])
  <2> DEFINE c == Call(k, TRUE, Baseline, NoCap)
  <2>1. calls[k] \in Seq(Calls) /\ enc[k] \in Encodings
    BY <1>1
  <2>2. k \in Programs => AlwaysOn(calls[k], enc[k])
    BY DEF BaseInv, ProgramsOn
  <2>3. Restored[k] = IF k \in Present THEN Append(calls[k], c) ELSE calls[k]
    BY DEF Restored
  <2>4. c \in Calls /\ c.active
    BY Baselines DEF Call, Calls, NoCap
  <2> HIDE DEF c
  <2> QED BY <2>1, <2>2, <2>3, <2>4, Listed, OutcomeOf
<1>4. Restored \in [Keys -> Seq(Calls)]
  <2>1. Restored = [k \in Keys |-> Restored[k]]
    BY DEF Restored
  <2> QED BY <1>3, <2>1
<1>5. /\ calls' \in [Keys -> Seq(Calls)]
      /\ \A k \in Thumbs : calls'[k] = Restored[k]
      /\ \A k \in Programs : \/ calls'[k] = Restored[k]
                            \/ \E c \in Calls : /\ calls'[k] = Append(Restored[k], c)
                                               /\ c.active = Finals[k]
  <2>1. Restored \in [Keys -> Seq(Calls)] /\ Capped(calls', Restored, Finals, ceiling, override)
    BY <1>1, <1>4
  <2>2. calls' \in [Keys -> Seq(Calls)]
    BY <2>1, EnforcedIs
  <2>3. \A k \in Thumbs : calls'[k] = Restored[k]
    BY <2>1, EnforcedIs
  <2>4. \A k \in Programs : \/ calls'[k] = Restored[k]
                            \/ \E c \in Calls : /\ calls'[k] = Append(Restored[k], c)
                                               /\ c.active = Finals[k]
    BY SMTT(30), <2>1, EnforcedIs
  <2> QED BY <2>2, <2>3, <2>4
<1>6. AtRest \in Ladders
  BY CeilingsAssumption DEF AtRest, Ladders
<1>7. LadderTypeOK'
  BY <1>1, <1>5, <1>6 DEF LadderTypeOK
<1>8. ASSUME NEW k \in Programs PROVE AlwaysOn(calls'[k], enc[k])
  <2>1. AlwaysOn(Restored[k], enc[k]) /\ Restored[k] \in Seq(Calls)
    BY <1>3 DEF Keys
  <2> QED BY <1>5, <2>1, EnforcedOn, FinalsAre
<1>9. ASSUME NEW k \in Present PROVE Lit(k)'
  <2>1. Lit(k)' = On(calls'[k], enc[k])
    BY <1>1 DEF Lit
  <2>2. CASE k \in Programs
    BY <1>1, <1>2, <1>5, <1>8, <2>1, <2>2, OutcomeOf
  <2>3. CASE k \in Thumbs
    BY <1>2, <1>3, <1>5, <2>1, <2>3
  <2> QED BY <1>2, <2>2, <2>3 DEF Keys
<1> QED BY <1>1, <1>7, <1>8, <1>9 DEF BaseInv, ProgramsOn

-----------------------------------------------------------------------------
(* Types, and the programs that are never switched off *)

LEMMA StartsBase == Init => BaseInv
<1> SUFFICES ASSUME Init PROVE BaseInv
  OBVIOUS
<1>1. AtRest \in Ladders
  BY CeilingsAssumption DEF AtRest, Ladders
<1>2. /\ thumbs = <<>> /\ thumbs \in Seq(Thumbs) /\ IsInjective(thumbs)
      /\ <<>> \in Seq(Calls) /\ Len(<<>>) = 0
  BY DEF Init, IsInjective
<1>3. LadderTypeOK
  BY <1>1, <1>2, Baselines DEF Init, LadderTypeOK, InFlight
<1>4. ProgramsOn
  BY <1>2, Baselines DEF Init, ProgramsOn, AlwaysOn, Keys
<1> QED BY <1>3, <1>4 DEF BaseInv

LEMMA PresentAreKeys == BaseInv => Present \subseteq Keys
<1> SUFFICES ASSUME BaseInv PROVE Present \subseteq Keys
  OBVIOUS
<1>1. thumbs \in Seq(Thumbs) /\ programs \subseteq Programs
  BY DEF BaseInv, LadderTypeOK
<1> QED BY <1>1, Listed DEF Present, ToSet, Keys

LEMMA AbandonedStep ==
    ASSUME BaseInv, SampleAbandoned \/ UNCHANGED vars
    PROVE  /\ BaseInv' /\ Untouched(Keys) /\ (pass' = pass \/ ~InFlight')
           /\ UNCHANGED <<programs, thumbs, ladder, degraded, calm, refused, overtaken>>
<1>1. /\ UNCHANGED <<programs, thumbs, enc, calls, ceiling, override, ladder, degraded>>
      /\ UNCHANGED <<calm, refused, overtaken>>
      /\ pass' = pass \/ ~InFlight'
  BY DEF SampleAbandoned, vars, senderVars, historyVars, InFlight
<1>2. InFlight' => InFlight /\ pass' = pass
  BY <1>1 DEF InFlight
<1>3. LadderTypeOK'
  BY <1>1, <1>2 DEF BaseInv, LadderTypeOK
<1>4. ProgramsOn' /\ Untouched(Keys)
  BY <1>1 DEF BaseInv, ProgramsOn, Untouched, Lit
<1> QED BY <1>1, <1>3, <1>4 DEF BaseInv

\* The actions there are.
LEMMA Actions ==
    ASSUME [Next]_vars
    PROVE  \/ \E k \in Keys : SenderOpens(k)
           \/ \E k \in Keys : SenderCloses(k)
           \/ \E k \in Keys : Applied(k) \/ Refused(k)
           \/ \E c \in Ceilings : SetCeiling(c)
           \/ \E k \in Programs, res \in Overrides : SetSourceOverride(k, res)
           \/ \E r \in Readings(Keys) : SampleStarts(r)
           \/ SamplePlans
           \/ SampleAbandoned \/ UNCHANGED vars
           \/ RecoverNow
BY DEF Next, Sampling, Settling

LEMMA BaseNext == BaseInv /\ [Next]_vars => BaseInv'
<1> SUFFICES ASSUME BaseInv, [Next]_vars PROVE BaseInv'
  OBVIOUS
<1>1. ASSUME NEW k \in Keys, SenderOpens(k) PROVE BaseInv'
  BY <1>1, OpensStep
<1>2. ASSUME NEW k \in Keys, SenderCloses(k) PROVE BaseInv'
  BY <1>2, ClosesStep
<1>3. ASSUME NEW k \in Keys, Applied(k) \/ Refused(k) PROVE BaseInv'
  BY <1>3, SettlesStep
<1>4. ASSUME \/ \E c \in Ceilings : SetCeiling(c)
             \/ \E k \in Programs, res \in Overrides : SetSourceOverride(k, res)
      PROVE  BaseInv'
  BY <1>4, CapsStep
<1>5. ASSUME NEW r \in Readings(Keys), SampleStarts(r) PROVE BaseInv'
  BY <1>5, StartsStep
<1>6. CASE SamplePlans
  BY <1>6, PlansStep
<1>7. CASE SampleAbandoned \/ UNCHANGED vars
  BY <1>7, AbandonedStep
<1>8. CASE RecoverNow
  BY <1>8, RecoversStep
<1> QED BY <1>1, <1>2, <1>3, <1>4, <1>5, <1>6, <1>7, <1>8, Actions

LEMMA BaseHolds == Spec => []BaseInv
<1> QED BY StartsBase, BaseNext, PTL DEF Spec

\* Protected senders are never shed: whatever sheds, restores or caps them, a
\* program's encoder is on, and no call that would switch it off is under way
\* (degradation.js sheds the thumbnails only).
THEOREM ProgramsStayOn == Spec => [](\A k \in programs : Final(k).active)
<1>1. BaseInv => \A k \in programs : Final(k).active
  <2> SUFFICES ASSUME BaseInv, NEW k \in programs PROVE Final(k).active
    OBVIOUS
  <2>1. /\ k \in Programs /\ k \in Keys
        /\ calls \in [Keys -> Seq(Calls)] /\ enc \in [Keys -> Encodings]
    BY DEF BaseInv, LadderTypeOK, Keys
  <2>2. On(calls[k], enc[k])
    BY <2>1, OutcomeOf DEF BaseInv, ProgramsOn
  <2> QED BY <2>1, <2>2, FinalIs
<1> QED BY <1>1, BaseHolds, PTL

-----------------------------------------------------------------------------
(* After the host's recover *)

\* While nothing limited has been read since, nothing is shed and no sample is
\* under way that would shed something.
CalmInv ==
    calm => /\ ladder = AtRest
            /\ InFlight => pass.reading = NoLimit
            /\ \A k \in ToSet(thumbs) \ refused : Lit(k)

LEMMA ThumbsAre == BaseInv => ToSet(thumbs) \subseteq Thumbs
BY Listed DEF BaseInv, LadderTypeOK, ToSet

LEMMA CalmKept ==
    ASSUME BaseInv, CalmInv, UNCHANGED <<thumbs, ladder, calm>>,
           \A m \in Thumbs : m \notin refused' => m \notin refused /\ Lit(m)' = Lit(m),
           InFlight' => InFlight /\ pass'.reading = pass.reading
    PROVE  CalmInv'
BY ThumbsAre DEF CalmInv

LEMMA CalmNext ==
    ASSUME BaseInv, CalmInv, [Next]_vars
    PROVE  CalmInv'
<1>0. Thumbs \subseteq Keys /\ Programs \cap Thumbs = {} /\ ToSet(thumbs) \subseteq Thumbs
  BY ThumbsAre, KeysAssumption DEF Keys
<1>1. ASSUME NEW k \in Keys, SenderOpens(k) PROVE CalmInv'
  <2>1. /\ Lit(k)' /\ Untouched(Keys \ {k}) /\ UNCHANGED <<ladder, pass, calm, refused>>
        /\ InFlight' = InFlight
        /\ thumbs' = thumbs \/ (k \in Thumbs /\ thumbs' = Append(thumbs, k))
        /\ k \notin ToSet(thumbs)
    BY <1>1, OpensStep DEF InFlight
  <2>2. \A m \in ToSet(thumbs) \ {k} : Lit(m)' = Lit(m)
    BY <1>0, <2>1 DEF Untouched
  <2>3. thumbs \in Seq(Thumbs) /\ IsInjective(thumbs)
    BY DEF BaseInv, LadderTypeOK
  <2>4. ToSet(thumbs') \subseteq ToSet(thumbs) \cup {k}
    BY <2>1, <2>3, Joined
  <2> QED BY <2>1, <2>2, <2>4 DEF CalmInv
<1>2. ASSUME NEW k \in Keys, SenderCloses(k) PROVE CalmInv'
  <2>1. /\ Lit(k)' /\ Untouched(Keys \ {k}) /\ UNCHANGED <<ladder, calm>>
        /\ refused' = refused \ {k}
        /\ thumbs' = thumbs \/ \E i \in 1..Len(thumbs) : /\ thumbs[i] = k
                                                       /\ thumbs' = RemoveAt(thumbs, i)
        /\ InFlight' => InFlight /\ pass' = [pass EXCEPT !.same = @ \ {k}]
    BY <1>2, ClosesStep
  <2>2. InFlight' => pass'.reading = pass.reading
    BY <2>1 DEF BaseInv, LadderTypeOK, Passes
  <2>3. \A m \in ToSet(thumbs) \ {k} : Lit(m)' = Lit(m)
    BY <1>0, <2>1 DEF Untouched
  <2>4. thumbs \in Seq(Thumbs) /\ IsInjective(thumbs)
    BY DEF BaseInv, LadderTypeOK
  <2>5. ToSet(thumbs') \subseteq ToSet(thumbs)
    BY <2>1, <2>4, Gone
  <2> QED BY <2>1, <2>2, <2>3, <2>5 DEF CalmInv
<1>3. ASSUME NEW k \in Keys, Applied(k) \/ Refused(k) PROVE CalmInv'
  <2>1. /\ Untouched(Sure) /\ UNCHANGED <<thumbs, ladder, pass, calm>>
        /\ refused \ Programs \subseteq refused'
    BY <1>3, SettlesStep
  <2>2. \A m \in Thumbs : m \notin refused' => m \notin refused /\ Lit(m)' = Lit(m)
    BY <1>0, <2>1 DEF Sure, Untouched
  <2> QED BY <2>1, <2>2, CalmKept DEF InFlight
<1>4. ASSUME \/ \E c \in Ceilings : SetCeiling(c)
             \/ \E k \in Programs, res \in Overrides : SetSourceOverride(k, res)
      PROVE  CalmInv'
  <2>1. /\ Untouched(Keys) /\ UNCHANGED <<thumbs, ladder, pass, calm>>
        /\ refused \ Programs \subseteq refused' /\ refused' \subseteq refused
    BY <1>4, CapsStep
  <2>2. \A m \in Thumbs : m \notin refused' => m \notin refused /\ Lit(m)' = Lit(m)
    BY <1>0, <2>1 DEF Untouched
  <2> QED BY <2>1, <2>2, CalmKept DEF InFlight
<1>5. ASSUME NEW r \in Readings(Keys), SampleStarts(r) PROVE CalmInv'
  <2>1. /\ Untouched(Keys) /\ UNCHANGED <<thumbs, ladder, refused>>
        /\ pass'.reading = r /\ calm' = (calm /\ r = NoLimit)
    BY <1>5, StartsStep
  <2>2. \A m \in ToSet(thumbs) : Lit(m)' = Lit(m)
    BY <1>0, <2>1 DEF Untouched
  <2> QED BY <2>1, <2>2 DEF CalmInv
<1>6. CASE SamplePlans
  <2>0. UNCHANGED <<thumbs, calm, refused>> /\ pass' = NoPass /\ InFlight
    BY <1>6, PlansStep
  <2> SUFFICES ASSUME calm
               PROVE  ladder' = AtRest /\ \A k \in ToSet(thumbs) \ refused : Lit(k)'
    BY <2>0 DEF CalmInv, InFlight
  <2>1. /\ ladder = AtRest /\ pass.reading = NoLimit
        /\ \A k \in ToSet(thumbs) \ refused : Lit(k)
    BY <2>0 DEF CalmInv
  <2>2. pass.targets \in Seq(Thumbs) /\ Len(pass.targets) \in Nat
    BY <2>0, Listed DEF BaseInv, LadderTypeOK, Passes
  <2>3. Clamped(AtRest, pass.targets) = AtRest
    BY <2>2 DEF Clamped, AtRest, Lesser
  <2>4. ~Shedding(AtRest)
    BY DEF Shedding, AtRest
  <2>5. PlanLadder(pass.reading, pass.targets) = {Plan(AtRest, NoAction, "none")}
    BY <2>1, <2>3, <2>4 DEF PlanLadder, Clean, NoLimit
  <2>6. \E p \in PlanLadder(pass.reading, pass.targets) :
           /\ ladder' = p.ladder
           /\ \A k \in Thumbs :
                 Lit(k)' = IF k \in ActsOn(p.action) THEN p.action.active ELSE Lit(k)
    BY <1>6, PlansStep
  <2>7. ladder' = AtRest /\ \A k \in Thumbs : Lit(k)' = Lit(k)
    BY <2>5, <2>6 DEF Plan, NoAction, ActsOn
  <2> QED BY <1>0, <2>1, <2>7
<1>7. CASE SampleAbandoned \/ UNCHANGED vars
  <2>1. /\ Untouched(Keys) /\ (pass' = pass \/ ~InFlight')
        /\ UNCHANGED <<thumbs, ladder, calm, refused>>
    BY <1>7, AbandonedStep
  <2>2. \A m \in Thumbs : m \notin refused' => m \notin refused /\ Lit(m)' = Lit(m)
    BY <1>0, <2>1 DEF Untouched
  <2> QED BY <2>1, <2>2, CalmKept DEF InFlight
<1>8. CASE RecoverNow
  <2>1. /\ ~InFlight' /\ ladder' = AtRest /\ UNCHANGED thumbs
        /\ \A k \in Present : Lit(k)'
    BY <1>8, RecoversStep
  <2>2. ToSet(thumbs) \subseteq Present
    BY DEF Present
  <2> QED BY <2>1, <2>2 DEF CalmInv
<1> QED BY <1>1, <1>2, <1>3, <1>4, <1>5, <1>6, <1>7, <1>8, Actions

\* A sample that was under way never undoes the host's "bump quality now"
\* (degradation.js recoverNow against sample): until a limitation is read again the
\* ladder is at rest, and every sender is on that has not refused a call since.
THEOREM CalmIsKept == Spec => []CalmAfterRecover
<1>1. Init => CalmInv
  <2>1. Init => ToSet(thumbs) = {} /\ ladder = AtRest /\ ~InFlight
    BY DEF Init, ToSet, InFlight
  <2> QED BY <2>1 DEF CalmInv
<1>2. BaseInv /\ CalmInv /\ [Next]_vars => CalmInv'
  BY CalmNext
<1>3. BaseInv /\ CalmInv => CalmAfterRecover
  <2> SUFFICES ASSUME BaseInv, CalmInv, calm
               PROVE  ladder = AtRest /\ \A k \in Present \ refused : Final(k).active
    BY DEF CalmAfterRecover
  <2>1. ladder = AtRest
    BY DEF CalmInv
  <2>2. ASSUME NEW k \in Present \ refused PROVE Final(k).active
    <3>1. k \in Keys /\ calls \in [Keys -> Seq(Calls)] /\ enc \in [Keys -> Encodings]
      BY PresentAreKeys DEF BaseInv, LadderTypeOK
    <3>2. CASE k \in programs
      BY <3>1, <3>2, FinalIs, OutcomeOf DEF BaseInv, LadderTypeOK, ProgramsOn
    <3>3. CASE k \in ToSet(thumbs)
      BY <2>2, <3>1, <3>3, FinalIs DEF CalmInv, Lit
    <3> QED BY <3>2, <3>3 DEF Present
  <2> QED BY <2>1, <2>2
<1> QED BY <1>1, <1>2, <1>3, BaseHolds, PTL DEF Spec

-----------------------------------------------------------------------------
(* What is shed is what the ladder brings back *)

\* The thumbnails of which the ladder has lost track.
Lost == refused \cup overtaken

\* What a pass in flight knows of the thumbnails: those that are off were there when
\* it set out, and nobody has come between them and those that are shed before.
ShedInv ==
    /\ \A k \in ToSet(thumbs) \ Lost : ~Lit(k) =>
          Place(k, thumbs) < ladder.cpuLevel /\ degraded # "none"
    /\ InFlight => /\ IsInjective(pass.targets)
                   /\ \A k \in ToSet(thumbs) \ Lost : ~Lit(k) => k \in pass.same
                   /\ \A k \in pass.same \cap Thumbs :
                         k \in ToSet(thumbs) /\ k \in ToSet(pass.targets)
                   /\ \A k \in (pass.same \cap Thumbs) \ Lost :
                         /\ ~Lit(k) => Place(k, pass.targets) < ladder.cpuLevel
                         /\ \A t \in ToSet(thumbs) : ShedBefore(t, k, thumbs) =>
                               t \in ToSet(pass.targets) /\ ShedBefore(t, k, pass.targets)

LEMMA ShedKept ==
    ASSUME BaseInv, ShedInv, UNCHANGED <<thumbs, ladder, degraded>>,
           \A m \in Thumbs : m \notin Lost' => m \notin Lost /\ Lit(m)' = Lit(m),
           InFlight' => InFlight /\ pass' = pass
    PROVE  ShedInv'
<1>1. ToSet(thumbs) \subseteq Thumbs
  BY ThumbsAre
<1> QED BY <1>1 DEF ShedInv

\* A sender came or went, and behind those of which the ladder keeps track nobody came.
LEMMA ShedMoves ==
    ASSUME BaseInv, BaseInv', ShedInv, NEW k \in Keys,
           Untouched(Keys \ {k}), Lit(k)', UNCHANGED <<ladder, degraded>>,
           \A m \in ToSet(thumbs') : m # k => m \in ToSet(thumbs),
           \A m \in ToSet(thumbs) : m # k => m \in ToSet(thumbs'),
           \A m : m # k /\ m \notin Lost' => m \notin Lost,
           \A m \in ToSet(thumbs), t \in ToSet(thumbs') :
              m # k /\ m \notin Lost' /\ (~Lit(m) \/ InFlight) /\ ShedBefore(t, m, thumbs')
              => t \in ToSet(thumbs) /\ ShedBefore(t, m, thumbs),
           InFlight' => /\ InFlight /\ pass'.targets = pass.targets
                        /\ pass'.same \subseteq pass.same /\ pass.same \ {k} \subseteq pass'.same
                        /\ k \in Thumbs => k \notin pass'.same
    PROVE  ShedInv'
<1>1. /\ thumbs \in Seq(Thumbs) /\ thumbs' \in Seq(Thumbs)
      /\ ToSet(thumbs) \subseteq Thumbs /\ ToSet(thumbs') \subseteq Thumbs
      /\ ladder.cpuLevel \in Nat
  <2>1. thumbs \in Seq(Thumbs) /\ thumbs' \in Seq(Thumbs) /\ ladder \in Ladders
    BY DEF BaseInv, LadderTypeOK
  <2>2. ToSet(thumbs) \subseteq Thumbs /\ ToSet(thumbs') \subseteq Thumbs
    BY <2>1, Listed DEF ToSet
  <2> QED BY <2>1, <2>2 DEF Ladders
<1>2. \A m \in Thumbs : m # k => Lit(m)' = Lit(m)
  BY DEF Untouched, Keys
<1>3. ASSUME NEW m \in ToSet(thumbs') \ Lost', ~Lit(m)'
      PROVE  Place(m, thumbs') < ladder.cpuLevel /\ degraded # "none"
  <2>1. m # k /\ m \in ToSet(thumbs) \ Lost /\ m \in Thumbs /\ ~Lit(m)
    BY <1>1, <1>2, <1>3
  <2>2. Place(m, thumbs) < ladder.cpuLevel /\ degraded # "none"
    BY <2>1 DEF ShedInv
  <2>3. \A t \in ToSet(thumbs') :
           ShedBefore(t, m, thumbs') => t \in ToSet(thumbs) /\ ShedBefore(t, m, thumbs)
    BY <1>3, <2>1
  <2>4. Place(m, thumbs') <= Place(m, thumbs)
    BY <1>1, <2>1, <2>3, PlaceNoLater
  <2>5. Place(m, thumbs') \in Nat /\ Place(m, thumbs) \in Nat
    BY <1>1, <2>1, PlaceIs
  <2> QED BY <1>1, <2>2, <2>4, <2>5
<1>4. ASSUME InFlight'
      PROVE  /\ IsInjective(pass'.targets)
             /\ \A m \in ToSet(thumbs') \ Lost' : ~Lit(m)' => m \in pass'.same
             /\ \A m \in pass'.same \cap Thumbs :
                   m \in ToSet(thumbs') /\ m \in ToSet(pass'.targets)
             /\ \A m \in (pass'.same \cap Thumbs) \ Lost' :
                   /\ ~Lit(m)' => Place(m, pass'.targets) < ladder'.cpuLevel
                   /\ \A t \in ToSet(thumbs') : ShedBefore(t, m, thumbs') =>
                         t \in ToSet(pass'.targets) /\ ShedBefore(t, m, pass'.targets)
  <2>1. /\ InFlight /\ pass'.targets = pass.targets /\ IsInjective(pass.targets)
        /\ pass'.same \subseteq pass.same /\ pass.same \ {k} \subseteq pass'.same
        /\ k \in Thumbs => k \notin pass'.same
    BY <1>4 DEF ShedInv
  <2>2. ASSUME NEW m \in ToSet(thumbs') \ Lost', ~Lit(m)' PROVE m \in pass'.same
    <3>1. m # k /\ m \in ToSet(thumbs) \ Lost /\ ~Lit(m)
      BY <1>1, <1>2, <2>2
    <3> QED BY <2>1, <3>1 DEF ShedInv
  <2>3. ASSUME NEW m \in pass'.same \cap Thumbs
        PROVE  m # k /\ m \in ToSet(thumbs') /\ m \in ToSet(pass'.targets)
    <3>1. m \in pass.same \cap Thumbs /\ m # k
      BY <2>1
    <3>2. m \in ToSet(thumbs) /\ m \in ToSet(pass.targets)
      BY <2>1, <3>1 DEF ShedInv
    <3> QED BY <2>1, <3>1, <3>2
  <2>4. ASSUME NEW m \in (pass'.same \cap Thumbs) \ Lost'
        PROVE  /\ ~Lit(m)' => Place(m, pass'.targets) < ladder'.cpuLevel
               /\ \A t \in ToSet(thumbs') : ShedBefore(t, m, thumbs') =>
                     t \in ToSet(pass'.targets) /\ ShedBefore(t, m, pass'.targets)
    <3>1. m \in (pass.same \cap Thumbs) \ Lost /\ m # k /\ Lit(m)' = Lit(m)
      BY <1>2, <2>1
    <3>2. /\ m \in ToSet(thumbs)
          /\ ~Lit(m) => Place(m, pass.targets) < ladder.cpuLevel
          /\ \A t \in ToSet(thumbs) : ShedBefore(t, m, thumbs) =>
                t \in ToSet(pass.targets) /\ ShedBefore(t, m, pass.targets)
      BY <2>1, <3>1 DEF ShedInv
    <3>3. ASSUME NEW t \in ToSet(thumbs'), ShedBefore(t, m, thumbs')
          PROVE  t \in ToSet(pass.targets) /\ ShedBefore(t, m, pass.targets)
      <4>1. t \in ToSet(thumbs) /\ ShedBefore(t, m, thumbs)
        BY <2>1, <2>4, <3>1, <3>2, <3>3
      <4> QED BY <3>2, <4>1
    <3> QED BY <2>1, <3>1, <3>2, <3>3
  <2> QED BY <2>1, <2>2, <2>3, <2>4
<1> QED BY <1>3, <1>4 DEF ShedInv

\* Whoever opens in front of a thumbnail that is off, or under a sample, overtakes it.
LEMMA ShedOpens ==
    ASSUME BaseInv, ShedInv, NEW k \in Keys, SenderOpens(k)
    PROVE  ShedInv'
<1>1. /\ BaseInv' /\ Lit(k)' /\ Untouched(Keys \ {k})
      /\ UNCHANGED <<ladder, pass, degraded, refused>>
      /\ k \notin ToSet(thumbs)
      /\ \/ thumbs' = thumbs /\ overtaken' = overtaken
         \/ /\ k \in Thumbs /\ thumbs' = Append(thumbs, k)
            /\ overtaken' = overtaken \cup Overtakes(k)
  BY OpensStep
<1>2. thumbs \in Seq(Thumbs) /\ IsInjective(thumbs) /\ ToSet(thumbs) \subseteq Thumbs
  BY ThumbsAre DEF BaseInv, LadderTypeOK
<1>3. ASSUME k \in Thumbs, thumbs' = Append(thumbs, k)
      PROVE  /\ ToSet(thumbs') = ToSet(thumbs) \cup {k}
             /\ \A t, m : m # k /\ Before(t, m, thumbs') => Before(t, m, thumbs)
  BY <1>1, <1>2, <1>3, Joined
<1>4. ASSUME NEW m \in ToSet(thumbs), NEW t \in ToSet(thumbs'), m \notin Lost',
             ~Lit(m) \/ InFlight, ShedBefore(t, m, thumbs')
      PROVE  t \in ToSet(thumbs) /\ ShedBefore(t, m, thumbs)
  <2>1. CASE thumbs' = thumbs
    BY <1>4, <2>1
  <2>2. CASE /\ k \in Thumbs /\ thumbs' = Append(thumbs, k)
             /\ overtaken' = overtaken \cup Overtakes(k)
    <3>1. m \in Thumbs /\ m \in Keys /\ m # k /\ t \in Thumbs
      BY <1>1, <1>2, <1>3, <2>2 DEF Keys
    <3>2. Priority[m] \in Nat /\ Priority[k] \in Nat
      BY <2>2, <3>1, KeysAssumption
    <3>3. Final(m).active = Lit(m)
      BY <3>1, FinalIs DEF BaseInv, LadderTypeOK, Lit
    <3>4. ~(Priority[k] < Priority[m])
      BY <1>4, <2>2, <3>3 DEF Lost, Overtakes, InFlight
    <3>5. CASE t = k
      <4>1. Before(k, m, thumbs)
        BY <1>3, <1>4, <2>2, <3>1, <3>4, <3>5 DEF ShedBefore
      <4>2. k \in ToSet(thumbs)
        BY <4>1 DEF Before, ToSet
      <4> QED BY <1>1, <4>2
    <3>6. CASE t # k
      BY <1>3, <1>4, <2>2, <3>1, <3>6 DEF ShedBefore
    <3> QED BY <3>5, <3>6
  <2> QED BY <1>1, <2>1, <2>2
<1>5. /\ \A m \in ToSet(thumbs') : m # k => m \in ToSet(thumbs)
      /\ \A m \in ToSet(thumbs) : m # k => m \in ToSet(thumbs')
  BY <1>1, <1>3
<1>6. \A m : m # k /\ m \notin Lost' => m \notin Lost
  BY <1>1 DEF Lost
<1>7. ASSUME InFlight' PROVE InFlight /\ pass' = pass /\ (k \in Thumbs => k \notin pass.same)
  <2>1. InFlight /\ pass' = pass
    BY <1>1, <1>7 DEF InFlight
  <2> QED BY <1>1, <2>1 DEF ShedInv
<1> QED BY <1>1, <1>4, <1>5, <1>6, <1>7, ShedMoves

LEMMA ShedCloses ==
    ASSUME BaseInv, ShedInv, NEW k \in Keys, SenderCloses(k)
    PROVE  ShedInv'
<1>1. /\ BaseInv' /\ Lit(k)' /\ Untouched(Keys \ {k}) /\ UNCHANGED <<ladder, degraded>>
      /\ refused' = refused \ {k} /\ overtaken' = overtaken \ {k}
      /\ thumbs' = thumbs \/ \E i \in 1..Len(thumbs) : /\ thumbs[i] = k
                                                     /\ thumbs' = RemoveAt(thumbs, i)
      /\ k \in Thumbs => k \notin ToSet(thumbs')
      /\ InFlight' => InFlight /\ pass' = [pass EXCEPT !.same = @ \ {k}]
  BY ClosesStep
<1>2. thumbs \in Seq(Thumbs) /\ IsInjective(thumbs)
  BY DEF BaseInv, LadderTypeOK
<1>3. /\ \A m \in ToSet(thumbs') : m # k => m \in ToSet(thumbs)
      /\ \A m \in ToSet(thumbs) : m # k => m \in ToSet(thumbs')
      /\ \A t, m : Before(t, m, thumbs') => Before(t, m, thumbs)
      /\ ToSet(thumbs') \subseteq ToSet(thumbs)
  <2>1. CASE thumbs' = thumbs
    BY <2>1
  <2>2. ASSUME NEW i \in 1..Len(thumbs), thumbs[i] = k, thumbs' = RemoveAt(thumbs, i)
        PROVE  /\ ToSet(thumbs') = ToSet(thumbs) \ {k}
               /\ \A t, m : Before(t, m, thumbs') => Before(t, m, thumbs)
    BY <1>2, <2>2, Gone
  <2> QED BY <1>1, <2>1, <2>2
<1>4. \A m \in ToSet(thumbs), t \in ToSet(thumbs') :
         ShedBefore(t, m, thumbs') => t \in ToSet(thumbs) /\ ShedBefore(t, m, thumbs)
  BY <1>3 DEF ShedBefore
<1>5. \A m : m # k /\ m \notin Lost' => m \notin Lost
  BY <1>1 DEF Lost
<1>6. ASSUME InFlight'
      PROVE  /\ InFlight /\ pass'.targets = pass.targets /\ pass'.same = pass.same \ {k}
  <2>1. InFlight /\ pass \in Passes /\ pass' = [pass EXCEPT !.same = @ \ {k}]
    BY <1>1, <1>6 DEF BaseInv, LadderTypeOK
  <2> QED BY <2>1 DEF Passes
<1> QED BY <1>1, <1>3, <1>4, <1>5, <1>6, ShedMoves

LEMMA ShedStarts ==
    ASSUME BaseInv, ShedInv, NEW r \in Readings(Keys), SampleStarts(r)
    PROVE  ShedInv'
<1>1. /\ Untouched(Keys) /\ UNCHANGED <<programs, thumbs, ladder, degraded, refused, overtaken>>
      /\ pass' = [targets |-> thumbs, same |-> Present, reading |-> r]
  BY StartsStep
<1>2. /\ thumbs \in Seq(Thumbs) /\ IsInjective(thumbs) /\ ToSet(thumbs) \subseteq Thumbs
      /\ programs \cap Thumbs = {}
  BY Listed, KeysAssumption DEF BaseInv, LadderTypeOK, ToSet
<1>3. \A k \in Thumbs : Lit(k)' = Lit(k)
  BY <1>1 DEF Untouched, Keys
<1>4. /\ pass'.targets = thumbs /\ pass'.same = Present
      /\ Present \cap Thumbs = ToSet(thumbs)
  BY <1>1, <1>2 DEF Present
<1>5. \A k \in ToSet(thumbs) \ Lost : ~Lit(k)' =>
         Place(k, thumbs) < ladder.cpuLevel /\ degraded # "none"
  BY <1>2, <1>3 DEF ShedInv
<1>6. Lost' = Lost
  BY <1>1 DEF Lost
<1> QED BY <1>1, <1>2, <1>4, <1>5, <1>6 DEF ShedInv

LEMMA ShedPlans ==
    ASSUME BaseInv, ShedInv, SamplePlans
    PROVE  ShedInv'
<1>1. InFlight /\ ~InFlight' /\ thumbs' = thumbs /\ Lost' = Lost
  BY PlansStep DEF InFlight, Lost
<1>2. PICK p \in PlanLadder(pass.reading, pass.targets) :
         /\ Planned(p) /\ ladder' = p.ladder
         /\ degraded' = IF p.dir = "none" /\ Shedding(p.ladder) THEN "lowering" ELSE p.dir
         /\ \A k \in Thumbs :
               Lit(k)' = IF k \in ActsOn(p.action) THEN p.action.active ELSE Lit(k)
  BY PlansStep
<1> DEFINE q == pass.targets
<1>3. /\ thumbs \in Seq(Thumbs) /\ ToSet(thumbs) \subseteq Thumbs
      /\ q \in Seq(Thumbs) /\ IsInjective(q) /\ Len(q) \in Nat
      /\ ladder.cpuLevel \in Nat /\ Level \in Nat
  <2>1. thumbs \in Seq(Thumbs) /\ q \in Seq(Thumbs) /\ ladder \in Ladders
    BY <1>1 DEF BaseInv, LadderTypeOK, Passes
  <2>2. Len(q) \in Nat /\ ToSet(thumbs) \subseteq Thumbs
    BY <2>1, Listed DEF ToSet
  <2>3. ladder.cpuLevel \in Nat /\ Level \in Nat
    BY <2>1, <2>2 DEF Ladders, Level, Lesser
  <2> QED BY <1>1, <2>1, <2>2, <2>3 DEF ShedInv
<1>4. calls \in [Keys -> Seq(Calls)] /\ enc \in [Keys -> Encodings]
  BY DEF BaseInv, LadderTypeOK
<1> HIDE DEF q
\* A thumbnail that is off was among the pass's targets, before the level.
<1>5. ASSUME NEW k \in ToSet(thumbs) \ Lost, ~Lit(k)
      PROVE  k \in pass.same /\ k \in ToSet(q) /\ Place(k, q) \in Nat /\ Place(k, q) < Level
  <2>1. k \in pass.same /\ k \in Thumbs
    BY <1>1, <1>3, <1>5 DEF ShedInv
  <2>2. k \in ToSet(q) /\ Place(k, q) < ladder.cpuLevel
    BY <1>1, <1>5, <2>1 DEF ShedInv, q
  <2>3. Place(k, q) < Len(q) /\ Place(k, q) \in Nat
    BY <1>3, <2>1, <2>2, PlaceInRange, PlaceIs
  <2> QED BY <1>3, <2>1, <2>2, <2>3 DEF Level, Lesser, q
<1>6. ASSUME NEW k \in ToSet(thumbs) \ Lost, ~Lit(k)'
      PROVE  /\ k \in pass.same /\ Place(k, q) < p.ladder.cpuLevel
             /\ p.action = NoAction => Level > 0
  <2>0. \A m : p.action.key = {m} => p.action # NoAction
    <3>1. NoAction.key = {}
      BY DEF NoAction
    <3> QED BY <3>1
  <2>1. k \in Thumbs /\ k \in Keys /\ Lit(k) \in BOOLEAN
    BY <1>3, <1>4, OnOrOff DEF Lit, Keys
  <2>2. CASE p.action = NoAction /\ p.ladder.cpuLevel = Level
    <3>1. ~Lit(k)
      BY <1>2, <1>6, <2>1, <2>2 DEF NoAction, ActsOn
    <3> QED BY <1>3, <1>5, <2>2, <3>1
  <2>3. ASSUME NEW m \in Keys, NEW n \in 0..Len(BandwidthSteps),
               p.action = Restep(m, n), p.ladder.cpuLevel = Level
        PROVE  k \in pass.same /\ Place(k, q) < p.ladder.cpuLevel /\ p.action # NoAction
    <3>1. p.action.key = {m} /\ p.action.active = Lit(m)
      BY <1>4, <2>3, FinalIs DEF Restep, Lit
    <3>2. ~Lit(k)
      BY <1>2, <1>6, <2>1, <3>1 DEF ActsOn
    <3> QED BY <1>5, <2>0, <2>3, <3>1, <3>2
  <2>4. ASSUME NEW m \in AtPlace(Level, q), p.action = Switch(m, FALSE),
               p.ladder.cpuLevel = Level + 1
        PROVE  k \in pass.same /\ Place(k, q) < p.ladder.cpuLevel /\ p.action # NoAction
    <3>1. p.action.key = {m} /\ p.action.active = FALSE /\ Place(m, q) = Level
      BY <2>4 DEF Switch, AtPlace
    <3>2. CASE k = m /\ m \in pass.same
      <4>1. Place(k, q) < p.ladder.cpuLevel
        BY <1>3, <2>4, <3>1, <3>2
      <4> QED BY <2>0, <3>1, <3>2, <4>1
    <3>3. CASE ~(k = m /\ m \in pass.same)
      <4>1. ~Lit(k)
        BY <1>2, <1>6, <2>1, <3>1, <3>3 DEF ActsOn
      <4>2. k \in pass.same /\ Place(k, q) \in Nat /\ Place(k, q) < Level
        BY <1>5, <4>1
      <4>3. Place(k, q) < p.ladder.cpuLevel
        BY <1>3, <2>4, <4>2
      <4> QED BY <2>0, <3>1, <4>2, <4>3
    <3> QED BY <3>2, <3>3
  <2>5. ASSUME NEW m \in AtPlace(Level - 1, q), p.action = Switch(m, TRUE),
               p.ladder.cpuLevel = Level - 1
        PROVE  k \in pass.same /\ Place(k, q) < p.ladder.cpuLevel /\ p.action # NoAction
    <3>1. /\ p.action.key = {m} /\ p.action.active = TRUE
          /\ Place(m, q) = Level - 1 /\ m \in ToSet(q)
      BY <2>5 DEF Switch, AtPlace
    <3>2. ~Lit(k) /\ ~(k = m /\ m \in pass.same)
      BY <1>2, <1>6, <2>1, <3>1 DEF ActsOn
    <3>3. k \in pass.same /\ k \in ToSet(q) /\ Place(k, q) \in Nat /\ Place(k, q) < Level
      BY <1>5, <3>2
    <3>4. Place(k, q) # Place(m, q)
      BY <1>3, <3>1, <3>2, <3>3, PlacesDiffer
    <3>5. Place(k, q) < p.ladder.cpuLevel
      BY <1>3, <2>5, <3>1, <3>3, <3>4
    <3> QED BY <2>0, <3>1, <3>3, <3>5
  <2> QED BY <1>2, <2>2, <2>3, <2>4, <2>5 DEF Planned, q
<1>7. ASSUME NEW k \in ToSet(thumbs) \ Lost, ~Lit(k)'
      PROVE  Place(k, thumbs) < p.ladder.cpuLevel /\ degraded' # "none"
  <2>1. k \in pass.same \cap Thumbs /\ Place(k, q) < p.ladder.cpuLevel
    BY <1>3, <1>6, <1>7
  <2>2. \A t \in ToSet(thumbs) :
           ShedBefore(t, k, thumbs) => t \in ToSet(q) /\ ShedBefore(t, k, q)
    BY <1>1, <1>7, <2>1 DEF ShedInv, q
  <2>3. /\ Place(k, thumbs) <= Place(k, q)
        /\ Place(k, thumbs) \in Nat /\ Place(k, q) \in Nat
    BY <1>3, <2>1, <2>2, PlaceNoLater, PlaceIs
  <2>4. p.ladder.cpuLevel \in Nat
    BY <1>2 DEF Planned, Ladders
  <2>5. degraded' # "none"
    <3>1. p.dir # "none"
      BY <1>2, <1>3, <1>6, <1>7 DEF Planned
    <3> QED BY <1>2, <3>1
  <2> QED BY <2>1, <2>3, <2>4, <2>5
<1> QED BY <1>1, <1>2, <1>7 DEF ShedInv

LEMMA ShedNext ==
    ASSUME BaseInv, ShedInv, [Next]_vars
    PROVE  ShedInv'
<1>0. Thumbs \subseteq Keys /\ Programs \cap Thumbs = {}
  BY KeysAssumption DEF Keys
<1>1. ASSUME NEW k \in Keys, SenderOpens(k) PROVE ShedInv'
  BY <1>1, ShedOpens
<1>2. ASSUME NEW k \in Keys, SenderCloses(k) PROVE ShedInv'
  BY <1>2, ShedCloses
<1>3. ASSUME NEW k \in Keys, Applied(k) \/ Refused(k) PROVE ShedInv'
  <2>1. /\ Untouched(Sure) /\ UNCHANGED <<thumbs, ladder, pass, degraded, overtaken>>
        /\ refused \ Programs \subseteq refused'
    BY <1>3, SettlesStep
  <2>2. \A m \in Thumbs : m \notin Lost' => m \notin Lost /\ Lit(m)' = Lit(m)
    BY <1>0, <2>1 DEF Sure, Untouched, Lost
  <2> QED BY <2>1, <2>2, ShedKept DEF InFlight
<1>4. ASSUME \/ \E c \in Ceilings : SetCeiling(c)
             \/ \E k \in Programs, res \in Overrides : SetSourceOverride(k, res)
      PROVE  ShedInv'
  <2>1. /\ Untouched(Keys) /\ UNCHANGED <<thumbs, ladder, pass, degraded, overtaken>>
        /\ refused \ Programs \subseteq refused'
    BY <1>4, CapsStep
  <2>2. \A m \in Thumbs : m \notin Lost' => m \notin Lost /\ Lit(m)' = Lit(m)
    BY <1>0, <2>1 DEF Untouched, Lost
  <2> QED BY <2>1, <2>2, ShedKept DEF InFlight
<1>5. ASSUME NEW r \in Readings(Keys), SampleStarts(r) PROVE ShedInv'
  BY <1>5, ShedStarts
<1>6. CASE SamplePlans
  BY <1>6, ShedPlans
<1>7. CASE SampleAbandoned \/ UNCHANGED vars
  <2>1. /\ Untouched(Keys) /\ (pass' = pass \/ ~InFlight')
        /\ UNCHANGED <<thumbs, ladder, degraded, refused, overtaken>>
    BY <1>7, AbandonedStep
  <2>2. \A m \in Thumbs : m \notin Lost' => m \notin Lost /\ Lit(m)' = Lit(m)
    BY <1>0, <2>1 DEF Untouched, Lost
  <2> QED BY <2>1, <2>2, ShedKept DEF InFlight
<1>8. CASE RecoverNow
  <2>1. ~InFlight' /\ UNCHANGED thumbs /\ \A k \in Present : Lit(k)'
    BY <1>8, RecoversStep
  <2>2. ToSet(thumbs) \subseteq Present
    BY DEF Present
  <2> QED BY <2>1, <2>2 DEF ShedInv
<1> QED BY <1>1, <1>2, <1>3, <1>4, <1>5, <1>6, <1>7, <1>8, Actions

\* A sender that is off, or is being switched off, is one of those that the ladder's
\* level counts, so that recovery reaches it, and the host has been told (degradation.js
\* planLadder, clampState and applyAction), however guests and co-hosts come and go while
\* a sample waits for its statistics; unless it has refused a call, or been overtaken.
THEOREM ShedIsKeptTrack == Spec => []ShedIsTracked
<1>1. Init => ShedInv
  <2>1. Init => ToSet(thumbs) = {} /\ ~InFlight
    BY DEF Init, ToSet, InFlight
  <2> QED BY <2>1 DEF ShedInv
<1>2. BaseInv /\ ShedInv /\ [Next]_vars => ShedInv'
  BY ShedNext
<1>3. BaseInv /\ ShedInv => ShedIsTracked
  <2> SUFFICES ASSUME BaseInv, ShedInv, NEW k \in Present \ Lost, ~Final(k).active
               PROVE  k \in Disabled(ladder, thumbs) /\ degraded # "none"
    BY DEF ShedIsTracked, Lost
  <2>1. k \in Keys /\ calls \in [Keys -> Seq(Calls)] /\ enc \in [Keys -> Encodings]
    BY PresentAreKeys DEF BaseInv, LadderTypeOK
  <2>2. ~Lit(k)
    BY <2>1, FinalIs DEF Lit
  <2>3. k \notin programs
    <3>1. \A m \in Programs : AlwaysOn(calls[m], enc[m]) => On(calls[m], enc[m])
      BY <2>1, OutcomeOf DEF Keys
    <3> QED BY <2>2, <3>1 DEF BaseInv, LadderTypeOK, ProgramsOn, Lit
  <2>4. k \in ToSet(thumbs)
    BY <2>3 DEF Present
  <2> QED BY <2>2, <2>4 DEF ShedInv, Disabled
<1> QED BY <1>1, <1>2, <1>3, BaseHolds, PTL DEF Spec
================================================================================
