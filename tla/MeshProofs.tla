------------------------------- MODULE MeshProofs -------------------------------
(***************************************************************************)
(* What holds of the backstage link for any two guests and any number of   *)
(* faults: a page hides a guest whose camera is locked, and an offer is    *)
(* left without an answer only when the guest it was made to came back     *)
(* before the room knew that it was gone.                                  *)
(***************************************************************************)
EXTENDS Mesh, TLAPS

\* The frames of the room that say who is there, and what each page sends.
News == [t : {"roster"}, there : BOOLEAN, locked : BOOLEAN]
        \cup [t : {"joined"}, locked : BOOLEAN] \cup [t : {"left"}]
SignalsOf(p) == [t : IF p = Lo THEN {"offer"} ELSE {"answer"}, fresh : BOOLEAN]
FramesFor(p) == News \cup SignalsOf(Other(p))
Frames == News \cup [t : {"offer", "answer"}, fresh : BOOLEAN]
Links == [open : BOOLEAN, sig : {"new", "offered", "got", "stable"},
          making : BOOLEAN, fresh : BOOLEAN]

Outs(boxes) == /\ boxes \in [Pages -> Seq(Frames)]
               /\ \A p \in Pages : boxes[p] \in Seq(SignalsOf(p))
Ins(boxes) == /\ boxes \in [Pages -> Seq(Frames)]
              /\ \A p \in Pages : boxes[p] \in Seq(FramesFor(p))

MeshTypeOK ==
    /\ page \in [Pages -> {"up", "down"}] /\ sock \in [Pages -> {"none", "live", "dead"}]
    /\ Outs(out) /\ Outs(late) /\ Ins(inbox)
    /\ locked \in [Pages -> BOOLEAN] /\ there \in [Pages -> BOOLEAN]
    /\ link \in [Pages -> Links]
    /\ barred \in [Pages -> BOOLEAN] /\ enabled \in [Pages -> BOOLEAN]
    /\ overtook \in BOOLEAN /\ faults \in 0..MaxFaults

\* A page without its socket has nothing; a link is there with the other guest, and
\* a guest that is locked is not shown.
PageOK(p) ==
    /\ Up(p) <=> sock[p] = "live"
    /\ ~Up(p) => ~link[p].open /\ out[p] = << >> /\ inbox[p] = << >>
    /\ link[p].open <=> there[p]
    /\ barred[p] => ~enabled[p]
PagesOK == MeshTypeOK /\ \A p \in Pages : PageOK(p)

-----------------------------------------------------------------------------
(* What a page has been sent *)

IsNews(f) == f.t \in {"roster", "joined", "left"}
Shows(f) == f.t = "joined" \/ (f.t = "roster" /\ f.there)

\* Once a page that sees (seen, with the lock bar) has read box up to j, the rest
\* says nothing new, and it knows who is there (is, with the lock lock).
KnownAt(box, j, seen, bar, is, lock) ==
    /\ \A k \in (j + 1)..Len(box) : ~IsNews(box[k])
    /\ IF j = 0 THEN seen = is /\ (seen => bar = lock)
       ELSE IsNews(box[j]) /\ Shows(box[j]) = is /\ (Shows(box[j]) => box[j].locked = lock)
Known(box, seen, bar, is, lock) ==
    \E j \in 0..Len(box) : KnownAt(box, j, seen, bar, is, lock)

\* Nothing after j says that the other guest is not there.
Stays(box, j) == \A k \in (j + 1)..Len(box) : IsNews(box[k]) => Shows(box[k])

\* An offer that a page will have a link for when it reads it, and keep.
HeardAt(box, open, i, j) ==
    /\ j < i /\ box[i].t = "offer" /\ Stays(box, j)
    /\ IF j = 0 THEN open ELSE IsNews(box[j]) /\ Shows(box[j])
Heard(box, open) ==
    \E i \in 1..Len(box), j \in 0..Len(box) : HeardAt(box, open, i, j)

\* The same frames but for what is outdated.
Alike(b, c) ==
    /\ Len(c) = Len(b)
    /\ \A i \in 1..Len(b) : c[i].t = b[i].t /\ (IsNews(b[i]) => c[i] = b[i])

LEMMA Names ==
    /\ Pages = {Lo, Hi} /\ Lo # Hi /\ Other(Lo) = Hi /\ Other(Hi) = Lo
    /\ \A p \in Pages : Other(p) \in Pages /\ Other(p) # p /\ Other(Other(p)) = p
BY MeshAssumption DEF Pages, Other

LEMMA Boxes ==
    ASSUME NEW S, NEW q \in Seq(S)
    PROVE  /\ Len(q) \in Nat /\ (q = << >> <=> Len(q) = 0)
           /\ \A i \in 1..Len(q) : q[i] \in S
           /\ \A f \in S : /\ q \o <<f>> \in Seq(S) /\ Len(q \o <<f>>) = Len(q) + 1
                           /\ (q \o <<f>>)[Len(q) + 1] = f /\ q \o <<f>> # << >>
                           /\ \A k \in 1..Len(q) : (q \o <<f>>)[k] = q[k]
                           /\ Append(q, f) \in Seq(S) /\ Append(q, f) # << >>
           /\ q # << >> => /\ Tail(q) \in Seq(S) /\ Len(Tail(q)) = Len(q) - 1 /\ Len(q) > 0
                           /\ Head(q) = q[1] /\ \A k \in 1..(Len(q) - 1) : Tail(q)[k] = q[k + 1]
<1>1. /\ Len(q) \in Nat /\ (q = << >> <=> Len(q) = 0)
      /\ \A i \in 1..Len(q) : q[i] \in S
  OBVIOUS
<1>2. ASSUME NEW f \in S
      PROVE  /\ q \o <<f>> \in Seq(S) /\ Len(q \o <<f>>) = Len(q) + 1
             /\ (q \o <<f>>)[Len(q) + 1] = f /\ q \o <<f>> # << >>
             /\ \A k \in 1..Len(q) : (q \o <<f>>)[k] = q[k]
  <2>1. <<f>> \in Seq(S) /\ Len(<<f>>) = 1 /\ <<f>>[1] = f
    OBVIOUS
  <2>2. q \o <<f>> \in Seq(S) /\ Len(q \o <<f>>) = Len(q) + 1
    BY <2>1
  <2> QED BY <1>1, <2>1, <2>2
<1>3. ASSUME NEW f \in S
      PROVE  Append(q, f) \in Seq(S) /\ Append(q, f) # << >>
  <2>1. Append(q, f) \in Seq(S) /\ Len(Append(q, f)) = Len(q) + 1
    OBVIOUS
  <2> QED BY <1>1, <2>1
<1>4. ASSUME q # << >>
      PROVE  /\ Tail(q) \in Seq(S) /\ Len(Tail(q)) = Len(q) - 1 /\ Len(q) > 0
             /\ Head(q) = q[1] /\ \A k \in 1..(Len(q) - 1) : Tail(q)[k] = q[k + 1]
  BY <1>4
<1> QED BY <1>1, <1>2, <1>3, <1>4

LEMMA KnownAlike ==
    ASSUME NEW b \in Seq(Frames), NEW c, Alike(b, c), NEW seen, NEW bar, NEW is, NEW lock,
           Known(b, seen, bar, is, lock)
    PROVE  Known(c, seen, bar, is, lock)
<1>1. PICK j \in 0..Len(b) : KnownAt(b, j, seen, bar, is, lock)
  BY DEF Known
<1>2. Len(b) \in Nat
  OBVIOUS
<1>3. KnownAt(c, j, seen, bar, is, lock)
  BY <1>1, <1>2 DEF KnownAt, Alike, IsNews
<1> QED BY <1>1, <1>3 DEF Known, Alike

\* News from the room says what is.
LEMMA KnownByNews ==
    ASSUME NEW b \in Seq(Frames), NEW f \in Frames, NEW seen, NEW bar, NEW is, NEW lock,
           IsNews(f), Shows(f) = is, Shows(f) => f.locked = lock
    PROVE  Known(b \o <<f>>, seen, bar, is, lock)
<1>1. Len(b) + 1 \in 0..Len(b \o <<f>>) /\ Len(b) + 1 # 0 /\ Len(b) \in Nat
  BY Boxes
<1>2. KnownAt(b \o <<f>>, Len(b) + 1, seen, bar, is, lock)
  <2> DEFINE c == b \o <<f>>
  <2>1. c[Len(b) + 1] = f /\ Len(c) = Len(b) + 1
    BY Boxes
  <2> HIDE DEF c
  <2>2. KnownAt(c, Len(b) + 1, seen, bar, is, lock)
    BY <1>1, <2>1 DEF KnownAt
  <2> QED BY <2>2 DEF c
<1> QED BY <1>1, <1>2 DEF Known

LEMMA KnownBySignal ==
    ASSUME NEW b \in Seq(Frames), NEW f \in Frames, NEW seen, NEW bar, NEW is, NEW lock,
           ~IsNews(f), Known(b, seen, bar, is, lock)
    PROVE  Known(b \o <<f>>, seen, bar, is, lock)
<1> DEFINE c == b \o <<f>>
<1>1. PICK j \in 0..Len(b) : KnownAt(b, j, seen, bar, is, lock)
  BY DEF Known
<1>2. /\ Len(b) \in Nat /\ Len(c) = Len(b) + 1 /\ c[Len(b) + 1] = f
      /\ \A k \in 1..Len(b) : c[k] = b[k]
  BY Boxes
<1> HIDE DEF c
<1>3. KnownAt(c, j, seen, bar, is, lock)
  BY <1>1, <1>2 DEF KnownAt
<1>4. Known(c, seen, bar, is, lock)
  BY <1>1, <1>2, <1>3 DEF Known
<1> QED BY <1>4 DEF c

LEMMA KnownTail ==
    ASSUME NEW b \in Seq(Frames), b # << >>, NEW seen, NEW bar, NEW is, NEW lock,
           NEW seen2, NEW bar2, Known(b, seen, bar, is, lock),
           IF IsNews(Head(b)) THEN seen2 = Shows(Head(b)) /\ (Shows(Head(b)) => bar2 = Head(b).locked)
                              ELSE seen2 = seen /\ bar2 = bar
    PROVE  Known(Tail(b), seen2, bar2, is, lock)
<1> DEFINE c == Tail(b)
<1>1. PICK j \in 0..Len(b) : KnownAt(b, j, seen, bar, is, lock)
  BY DEF Known
<1>2. /\ Len(b) \in Nat /\ Len(c) = Len(b) - 1 /\ Len(b) > 0 /\ Head(b) = b[1]
      /\ \A k \in 1..(Len(b) - 1) : c[k] = b[k + 1]
  BY Boxes
<1> HIDE DEF c
<1>3. CASE j = 0
  <2>1. ~IsNews(Head(b))
    BY <1>1, <1>2, <1>3 DEF KnownAt
  <2>2. KnownAt(c, 0, seen2, bar2, is, lock)
    BY <1>1, <1>2, <1>3, <2>1 DEF KnownAt
  <2> QED BY <1>2, <2>2 DEF Known, c
<1>4. CASE j = 1
  <2>1. KnownAt(c, 0, seen2, bar2, is, lock)
    BY <1>1, <1>2, <1>4 DEF KnownAt
  <2> QED BY <1>2, <2>1 DEF Known, c
<1>5. CASE j > 1
  <2>1. j - 1 \in 1..Len(c)
    BY <1>1, <1>2, <1>5
  <2>2. KnownAt(c, j - 1, seen2, bar2, is, lock)
    <3>1. c[j - 1] = b[j]
      BY <1>1, <1>2, <1>5
    <3>2. ASSUME NEW k \in (j - 1 + 1)..Len(c) PROVE ~IsNews(c[k])
      <4>1. k + 1 \in (j + 1)..Len(b) /\ c[k] = b[k + 1]
        BY <1>1, <1>2, <1>5
      <4> QED BY <1>1, <4>1 DEF KnownAt
    <3> QED BY <1>1, <1>5, <2>1, <3>1, <3>2 DEF KnownAt
  <2> QED BY <2>1, <2>2 DEF Known, c
<1> QED BY <1>1, <1>3, <1>4, <1>5

LEMMA StaysAlike ==
    ASSUME NEW b \in Seq(Frames), NEW c, Alike(b, c), NEW j \in 0..Len(b)
    PROVE  Stays(b, j) <=> Stays(c, j)
<1>1. Len(b) \in Nat /\ \A k \in (j + 1)..Len(b) : k \in 1..Len(b)
  OBVIOUS
<1>2. \A k \in (j + 1)..Len(b) : (IsNews(b[k]) <=> IsNews(c[k])) /\ (IsNews(b[k]) => c[k] = b[k])
  BY <1>1 DEF Alike, IsNews
<1> QED BY <1>1, <1>2 DEF Stays, Alike

LEMMA HeardAlike ==
    ASSUME NEW b \in Seq(Frames), NEW c, Alike(b, c), NEW open, Heard(b, open)
    PROVE  Heard(c, open)
<1>1. PICK i \in 1..Len(b), j \in 0..Len(b) : HeardAt(b, open, i, j)
  BY DEF Heard
<1>2. Len(b) \in Nat /\ Len(c) = Len(b)
  BY DEF Alike
<1>3. c[i].t = b[i].t /\ (j # 0 /\ IsNews(b[j]) => c[j] = b[j])
  BY <1>1, <1>2 DEF Alike
<1>4. HeardAt(c, open, i, j)
  BY <1>1, <1>3, StaysAlike DEF HeardAt
<1> QED BY <1>1, <1>2, <1>4 DEF Heard

LEMMA StaysAppended ==
    ASSUME NEW b \in Seq(Frames), NEW f \in Frames, IsNews(f) => Shows(f),
           NEW j \in 0..Len(b), Stays(b, j)
    PROVE  Stays(b \o <<f>>, j)
<1> DEFINE c == b \o <<f>>
<1>1. /\ Len(b) \in Nat /\ Len(c) = Len(b) + 1 /\ c[Len(b) + 1] = f
      /\ \A k \in 1..Len(b) : c[k] = b[k]
  BY Boxes
<1> HIDE DEF c
<1>2. Stays(c, j)
  BY <1>1 DEF Stays
<1> QED BY <1>2 DEF c

LEMMA HeardAppended ==
    ASSUME NEW b \in Seq(Frames), NEW f \in Frames, IsNews(f) => Shows(f),
           NEW open, Heard(b, open)
    PROVE  Heard(b \o <<f>>, open)
<1> DEFINE c == b \o <<f>>
<1>1. PICK i \in 1..Len(b), j \in 0..Len(b) : HeardAt(b, open, i, j)
  BY DEF Heard
<1>2. /\ Len(b) \in Nat /\ Len(c) = Len(b) + 1
      /\ \A k \in 1..Len(b) : c[k] = b[k]
  BY Boxes
<1>3. Stays(c, j)
  BY <1>1, StaysAppended DEF HeardAt
<1> HIDE DEF c
<1>4. HeardAt(c, open, i, j)
  BY <1>1, <1>2, <1>3 DEF HeardAt
<1>5. Heard(c, open)
  BY <1>1, <1>2, <1>4 DEF Heard
<1> QED BY <1>5 DEF c

\* An offer reaches a page that knows that the other guest is there.
LEMMA HeardOnArrival ==
    ASSUME NEW b \in Seq(Frames), NEW f \in Frames, f.t = "offer",
           NEW open \in BOOLEAN, NEW bar, NEW lock, Known(b, open, bar, TRUE, lock)
    PROVE  Heard(b \o <<f>>, open)
<1> DEFINE c == b \o <<f>>
<1>1. PICK j \in 0..Len(b) : KnownAt(b, j, open, bar, TRUE, lock)
  BY DEF Known
<1>2. /\ Len(b) \in Nat /\ Len(c) = Len(b) + 1 /\ c[Len(b) + 1] = f
      /\ \A k \in 1..Len(b) : c[k] = b[k]
  BY Boxes
<1> HIDE DEF c
<1>3. Stays(c, j)
  BY <1>1, <1>2 DEF KnownAt, Stays, IsNews
<1>4. HeardAt(c, open, Len(b) + 1, j)
  BY <1>1, <1>2, <1>3 DEF HeardAt, KnownAt
<1>5. Heard(c, open)
  BY <1>1, <1>2, <1>4 DEF Heard
<1> QED BY <1>5 DEF c

LEMMA StaysTail ==
    ASSUME NEW b \in Seq(Frames), b # << >>, Stays(b, 0)
    PROVE  Stays(Tail(b), 0) /\ (IsNews(Head(b)) => Shows(Head(b)))
<1> DEFINE c == Tail(b)
<1>1. /\ Len(b) \in Nat /\ Len(c) = Len(b) - 1 /\ Len(b) > 0 /\ Head(b) = b[1]
      /\ \A k \in 1..(Len(b) - 1) : c[k] = b[k + 1]
  BY Boxes
<1> HIDE DEF c
<1>2. Stays(c, 0)
  <2> SUFFICES ASSUME NEW k \in 1..Len(c) PROVE IsNews(c[k]) => Shows(c[k])
    BY DEF Stays
  <2>1. k + 1 \in 1..Len(b) /\ c[k] = b[k + 1]
    BY <1>1
  <2> QED BY <2>1 DEF Stays
<1> QED BY <1>1, <1>2 DEF Stays, c

\* The page reads on: the offer is still to come, or it is the one it reads, over the
\* link it has and keeps.
LEMMA HeardTail ==
    ASSUME NEW b \in Seq(Frames), b # << >>, NEW open \in BOOLEAN, NEW open2 \in BOOLEAN,
           Heard(b, open), open2 = IF IsNews(Head(b)) THEN Shows(Head(b)) ELSE open
    PROVE  \/ Heard(Tail(b), open2)
           \/ Head(b).t = "offer" /\ open /\ Stays(Tail(b), 0)
<1> DEFINE c == Tail(b)
<1>1. PICK i \in 1..Len(b), j \in 0..Len(b) : HeardAt(b, open, i, j)
  BY DEF Heard
<1>2. /\ Len(b) \in Nat /\ Len(c) = Len(b) - 1 /\ Len(b) > 0 /\ Head(b) = b[1]
      /\ \A k \in 1..(Len(b) - 1) : c[k] = b[k + 1]
  BY Boxes
<1> HIDE DEF c
<1>3. CASE i = 1
  <2>1. j = 0
    BY <1>1, <1>3 DEF HeardAt
  <2> QED BY <1>1, <1>2, <1>3, <2>1, StaysTail DEF HeardAt
<1>4. ASSUME i # 1, j \in {0, 1}
      PROVE  Heard(c, open2)
  <2>1. Stays(c, 0) /\ open2
    <3>1. CASE j = 0
      <4>1. Stays(c, 0) /\ (IsNews(Head(b)) => Shows(Head(b)))
        BY <1>1, <3>1, StaysTail DEF HeardAt, c
      <4> QED BY <1>1, <3>1, <4>1 DEF HeardAt
    <3>2. CASE j = 1
      <4>1. IsNews(Head(b)) /\ Shows(Head(b))
        BY <1>1, <1>2, <3>2 DEF HeardAt
      <4>2. ASSUME NEW k \in 1..Len(c) PROVE IsNews(c[k]) => Shows(c[k])
        <5>1. k + 1 \in (1 + 1)..Len(b) /\ c[k] = b[k + 1]
          BY <1>2
        <5> QED BY <1>1, <3>2, <5>1 DEF HeardAt, Stays
      <4> QED BY <4>1, <4>2 DEF Stays
    <3> QED BY <1>4, <3>1, <3>2
  <2>2. i - 1 \in 1..Len(c) /\ c[i - 1] = b[i] /\ 0 \in 0..Len(c) /\ 0 < i - 1
    BY <1>1, <1>2, <1>4
  <2>3. c[i - 1].t = "offer"
    BY <1>1, <2>2 DEF HeardAt
  <2>4. HeardAt(c, open2, i - 1, 0)
    BY <2>1, <2>2, <2>3 DEF HeardAt
  <2> QED BY <2>2, <2>4 DEF Heard
<1>5. ASSUME i # 1, j > 1
      PROVE  Heard(c, open2)
  <2>1. /\ i - 1 \in 1..Len(c) /\ c[i - 1] = b[i] /\ j - 1 \in 1..Len(c) /\ c[j - 1] = b[j]
        /\ j - 1 \in 0..Len(c) /\ j - 1 < i - 1
    BY <1>1, <1>2, <1>5 DEF HeardAt
  <2>2. Stays(c, j - 1)
    <3> SUFFICES ASSUME NEW k \in (j - 1 + 1)..Len(c) PROVE IsNews(c[k]) => Shows(c[k])
      BY DEF Stays
    <3>1. k + 1 \in (j + 1)..Len(b) /\ c[k] = b[k + 1]
      BY <1>1, <1>2, <1>5
    <3> QED BY <1>1, <3>1 DEF HeardAt, Stays
  <2>3. HeardAt(c, open2, i - 1, j - 1)
    BY <1>1, <1>5, <2>1, <2>2 DEF HeardAt
  <2> QED BY <2>1, <2>3 DEF Heard
<1>6. j \in {0, 1} \/ j > 1
  BY <1>1
<1> QED BY <1>3, <1>4, <1>5, <1>6 DEF c

\* To know that the other guest is gone, a page must be told or have no link.
LEMMA GoneIsTold ==
    ASSUME NEW b \in Seq(Frames), NEW open, NEW bar, NEW lock,
           Known(b, open, bar, FALSE, lock), Stays(b, 0)
    PROVE  open = FALSE
<1>1. PICK j \in 0..Len(b) : KnownAt(b, j, open, bar, FALSE, lock)
  BY DEF Known
<1>2. j = 0
  BY <1>1 DEF KnownAt, Stays
<1> QED BY <1>1, <1>2 DEF KnownAt

-----------------------------------------------------------------------------
(* What the steps do to the frames and the links *)

LEMMA FrameSets ==
    ASSUME NEW p \in Pages
    PROVE  /\ SignalsOf(p) \subseteq Frames /\ FramesFor(p) \subseteq Frames
           /\ News \subseteq FramesFor(p) /\ SignalsOf(Other(p)) \subseteq FramesFor(p)
           /\ \A f \in SignalsOf(p) : ~IsNews(f)
           /\ \A f \in News : IsNews(f)
BY Names DEF SignalsOf, FramesFor, Frames, News, IsNews

LEMMA OutdatedFrame ==
    ASSUME NEW f \in Frames, NEW kinds \in SUBSET {"offer", "answer"}, NEW g,
           g = IF f.t \in kinds THEN [f EXCEPT !.fresh = FALSE] ELSE f
    PROVE  /\ g \in Frames /\ g.t = f.t /\ (IsNews(f) => g = f)
           /\ \A p \in Pages : /\ f \in SignalsOf(p) => g \in SignalsOf(p)
                               /\ f \in FramesFor(p) => g \in FramesFor(p)
<1>1. CASE f.t \in kinds
  <2>1. f \in [t : {"offer", "answer"}, fresh : BOOLEAN]
    BY <1>1 DEF Frames, News
  <2>2. g \in [t : {"offer", "answer"}, fresh : BOOLEAN] /\ g.t = f.t
    BY <1>1, <2>1
  <2>3. ~IsNews(f)
    BY <2>1 DEF IsNews
  <2>4. ASSUME NEW p \in Pages
        PROVE  /\ f \in SignalsOf(p) => g \in SignalsOf(p)
               /\ f \in FramesFor(p) => g \in FramesFor(p)
    <3>1. ASSUME NEW q \in Pages, f \in SignalsOf(q) PROVE g \in SignalsOf(q)
      BY <2>2, <3>1 DEF SignalsOf
    <3>2. f \notin News
      BY <2>1 DEF News
    <3> QED BY <3>1, <3>2, Names DEF FramesFor
  <2> QED BY <2>2, <2>3, <2>4 DEF Frames
<1>2. CASE f.t \notin kinds
  BY <1>2
<1> QED BY <1>1, <1>2

LEMMA OutdatedBoxes ==
    ASSUME NEW boxes \in [Pages -> Seq(Frames)], NEW kinds \in SUBSET {"offer", "answer"}
    PROVE  /\ Outdated(boxes, kinds) \in [Pages -> Seq(Frames)]
           /\ \A p \in Pages : Alike(boxes[p], Outdated(boxes, kinds)[p])
           /\ \A p \in Pages : boxes[p] = << >> <=> Outdated(boxes, kinds)[p] = << >>
           /\ Outs(boxes) => Outs(Outdated(boxes, kinds))
           /\ Ins(boxes) => Ins(Outdated(boxes, kinds))
<1> DEFINE new == Outdated(boxes, kinds)
<1>1. ASSUME NEW p \in Pages
      PROVE  /\ DOMAIN new[p] = 1..Len(boxes[p]) /\ Len(boxes[p]) \in Nat
             /\ new[p] = [i \in 1..Len(boxes[p]) |->
                            IF boxes[p][i].t \in kinds THEN [boxes[p][i] EXCEPT !.fresh = FALSE]
                                                       ELSE boxes[p][i]]
  BY <1>1 DEF Outdated
<1>2. new = [p \in Pages |-> new[p]]
  BY DEF Outdated
<1> HIDE DEF new
<1>3. ASSUME NEW p \in Pages, NEW i \in 1..Len(boxes[p])
      PROVE  /\ new[p][i] \in Frames /\ new[p][i].t = boxes[p][i].t
             /\ IsNews(boxes[p][i]) => new[p][i] = boxes[p][i]
             /\ \A q \in Pages : /\ boxes[p][i] \in SignalsOf(q) => new[p][i] \in SignalsOf(q)
                                 /\ boxes[p][i] \in FramesFor(q) => new[p][i] \in FramesFor(q)
  <2>1. boxes[p][i] \in Frames
    BY <1>3
  <2>2. new[p][i] = IF boxes[p][i].t \in kinds THEN [boxes[p][i] EXCEPT !.fresh = FALSE]
                                               ELSE boxes[p][i]
    BY <1>1
  <2> QED BY <2>1, <2>2, OutdatedFrame
<1>4. ASSUME NEW p \in Pages, NEW S, \A i \in 1..Len(boxes[p]) : new[p][i] \in S
      PROVE  new[p] \in Seq(S) /\ Len(new[p]) = Len(boxes[p])
  <2> DEFINE n == Len(boxes[p])
             e(i) == IF boxes[p][i].t \in kinds THEN [boxes[p][i] EXCEPT !.fresh = FALSE]
                                                ELSE boxes[p][i]
  <2>1. n \in Nat /\ new[p] = [i \in 1..n |-> e(i)] /\ \A i \in 1..n : e(i) \in S
    BY ZenonT(60), <1>1, <1>4
  <2> HIDE DEF n, e
  <2>2. new[p] \in [1..n -> S]
    BY <2>1
  <2>3. new[p] \in Seq(S)
    BY <2>1, <2>2
  <2>4. Len(new[p]) = n
    BY <2>1, <2>2
  <2> QED BY <2>3, <2>4 DEF n
<1>5. ASSUME NEW p \in Pages
      PROVE  /\ new[p] \in Seq(Frames) /\ Alike(boxes[p], new[p])
             /\ boxes[p] = << >> <=> new[p] = << >>
  <2>1. new[p] \in Seq(Frames) /\ Len(new[p]) = Len(boxes[p])
    BY <1>3, <1>4
  <2>2. boxes[p] \in Seq(Frames)
    OBVIOUS
  <2> QED BY <1>3, <2>1, <2>2, Boxes DEF Alike
<1>6. ASSUME NEW p \in Pages, NEW q \in Pages
      PROVE  /\ boxes[p] \in Seq(SignalsOf(q)) => new[p] \in Seq(SignalsOf(q))
             /\ boxes[p] \in Seq(FramesFor(q)) => new[p] \in Seq(FramesFor(q))
  <2>1. ASSUME NEW S, boxes[p] \in Seq(S) PROVE \A i \in 1..Len(boxes[p]) : boxes[p][i] \in S
    BY <2>1
  <2> QED BY <1>3, <1>4, <2>1
<1>7. new \in [Pages -> Seq(Frames)]
  BY <1>2, <1>5
<1> QED BY <1>5, <1>6, <1>7 DEF Outs, Ins, new

LEMMA DeliverTyped ==
    ASSUME NEW boxes, Ins(boxes), NEW p \in Pages, NEW f \in FramesFor(p)
    PROVE  /\ Ins(Deliver(boxes, p, <<f>>))
           /\ Deliver(boxes, p, <<f>>)[p] = IF sock[p] = "live" THEN boxes[p] \o <<f>> ELSE boxes[p]
           /\ \A q \in Pages \ {p} : Deliver(boxes, p, <<f>>)[q] = boxes[q]
<1>1. /\ boxes \in [Pages -> Seq(Frames)] /\ boxes[p] \in Seq(FramesFor(p)) /\ f \in Frames
  BY FrameSets DEF Ins
<1>2. boxes[p] \o <<f>> \in Seq(FramesFor(p)) /\ boxes[p] \o <<f>> \in Seq(Frames)
  BY <1>1, Boxes
<1> QED BY <1>1, <1>2 DEF Deliver, Ins

LEMMA BoxesTyped ==
    ASSUME NEW p \in Pages, NEW boxes
    PROVE  /\ Outs(boxes) => Outs([boxes EXCEPT ![p] = << >>])
           /\ Ins(boxes) => Ins([boxes EXCEPT ![p] = << >>])
           /\ Outs(boxes) /\ boxes[p] # << >> =>
                 Outs([boxes EXCEPT ![p] = Tail(@)]) /\ Head(boxes[p]) \in SignalsOf(p)
           /\ Ins(boxes) /\ boxes[p] # << >> =>
                 Ins([boxes EXCEPT ![p] = Tail(@)]) /\ Head(boxes[p]) \in FramesFor(p)
           /\ \A f \in SignalsOf(p) : Outs(boxes) => Outs([boxes EXCEPT ![p] = Append(@, f)])
           /\ \A b \in Seq(SignalsOf(p)) : Outs(boxes) => Outs([boxes EXCEPT ![p] = b])
<1>1. \A S : << >> \in Seq(S)
  OBVIOUS
<1>2. ASSUME NEW S, NEW q \in Seq(S), q # << >> PROVE Tail(q) \in Seq(S) /\ Head(q) \in S
  BY <1>2
<1>3. ASSUME Outs(boxes), NEW b \in Seq(SignalsOf(p))
      PROVE  Outs([boxes EXCEPT ![p] = b])
  <2>1. b \in Seq(Frames)
    BY FrameSets
  <2> QED BY <1>3, <2>1 DEF Outs
<1>4. ASSUME Ins(boxes), NEW b \in Seq(FramesFor(p))
      PROVE  Ins([boxes EXCEPT ![p] = b])
  <2>1. b \in Seq(Frames)
    BY FrameSets
  <2> QED BY <1>4, <2>1 DEF Ins
<1>5. /\ Outs(boxes) => boxes[p] \in Seq(SignalsOf(p))
      /\ Ins(boxes) => boxes[p] \in Seq(FramesFor(p))
  BY DEF Outs, Ins
<1>6. ASSUME NEW f \in SignalsOf(p), Outs(boxes) PROVE Append(boxes[p], f) \in Seq(SignalsOf(p))
  BY <1>5, <1>6
<1> QED BY <1>1, <1>2, <1>3, <1>4, <1>5, <1>6

LEMMA StaleEndsFields ==
    ASSUME NEW links \in [Pages -> Links], NEW p \in Pages
    PROVE  /\ StaleEnds(links, p) \in [Pages -> Links]
           /\ \A q \in Pages : /\ StaleEnds(links, p)[q].open = links[q].open
                               /\ StaleEnds(links, p)[q].sig = links[q].sig
                               /\ StaleEnds(links, p)[q].making = links[q].making
<1>1. ASSUME NEW l \in Links
      PROVE  /\ [l EXCEPT !.fresh = FALSE] \in Links
             /\ [l EXCEPT !.fresh = FALSE].open = l.open
             /\ [l EXCEPT !.fresh = FALSE].sig = l.sig
             /\ [l EXCEPT !.fresh = FALSE].making = l.making
  BY DEF Links
<1>2. CASE p = Lo
  BY <1>1, <1>2 DEF StaleEnds
<1>3. CASE p # Lo
  <2>1. StaleEnds(links, p) = [links EXCEPT ![Lo] = [links[Lo] EXCEPT !.fresh = FALSE]]
    BY <1>3 DEF StaleEnds
  <2>2. links[Lo] \in Links
    BY Names
  <2> HIDE DEF Links
  <2> QED BY <1>1, <2>1, <2>2, Names
<1> QED BY <1>2, <1>3

LEMMA EndedKinds == \A p \in Pages : Ended(p) \in SUBSET {"offer", "answer"}
BY DEF Ended

LEMMA OpenedFields ==
    ASSUME NEW p \in Pages
    PROVE  /\ Opened(p) \in Links /\ Opened(p).open /\ Opened(p).sig = "new"
           /\ Opened(p).making <=> p = Lo
           /\ Closed \in Links /\ ~Closed.open
BY DEF Opened, Closed, Links

-----------------------------------------------------------------------------
(* Every page is in order *)

LEMMA DropsInOrder ==
    ASSUME PagesOK, NEW p \in Pages, PageDrops(p)
    PROVE  PagesOK'
<1> USE EndedKinds, BoxesTyped, OutdatedBoxes, StaleEndsFields, OpenedFields
<1> DEFINE k == Ended(p)
<1>0. /\ page' = [page EXCEPT ![p] = "down"] /\ sock' = [sock EXCEPT ![p] = "dead"]
      /\ link' = [StaleEnds(link, p) EXCEPT ![p] = Closed]
      /\ there' = [there EXCEPT ![p] = FALSE] /\ barred' = [barred EXCEPT ![p] = FALSE]
      /\ enabled' = [enabled EXCEPT ![p] = FALSE]
      /\ out' = [Outdated(out, k) EXCEPT ![p] = << >>]
      /\ late' = Outdated([late EXCEPT ![p] = out[p]], k)
      /\ inbox' = [Outdated(inbox, k) EXCEPT ![p] = << >>]
      /\ faults' = faults + 1 /\ faults < MaxFaults
      /\ UNCHANGED <<locked, overtook>>
  BY DEF PageDrops
<1>1. Outs(out') /\ Outs(late') /\ Ins(inbox')
  <2>1. Outs([late EXCEPT ![p] = out[p]])
    BY DEF PagesOK, MeshTypeOK, Outs
  <2>2. out \in [Pages -> Seq(Frames)] /\ [late EXCEPT ![p] = out[p]] \in [Pages -> Seq(Frames)]
        /\ inbox \in [Pages -> Seq(Frames)]
    BY <2>1 DEF PagesOK, MeshTypeOK, Outs, Ins
  <2> QED BY <1>0, <2>1, <2>2 DEF PagesOK, MeshTypeOK
<1>2. link' \in [Pages -> Links]
  BY <1>0 DEF PagesOK, MeshTypeOK
<1>3. ASSUME NEW boxes \in [Pages -> Seq(Frames)]
      PROVE  LET new == [Outdated(boxes, k) EXCEPT ![p] = << >>]
             IN  /\ new[p] = << >>
                 /\ \A q \in Pages : boxes[q] = << >> => new[q] = << >>
  <2>1. /\ Outdated(boxes, k) \in [Pages -> Seq(Frames)]
        /\ \A q \in Pages : boxes[q] = << >> => Outdated(boxes, k)[q] = << >>
    BY ZenonT(60)
  <2> QED BY <2>1
<1>4. out \in [Pages -> Seq(Frames)] /\ inbox \in [Pages -> Seq(Frames)]
  BY DEF PagesOK, MeshTypeOK, Outs, Ins
<1>5. /\ out'[p] = << >> /\ inbox'[p] = << >>
      /\ \A q \in Pages : (out[q] = << >> => out'[q] = << >>) /\ (inbox[q] = << >> => inbox'[q] = << >>)
  BY <1>0, <1>3, <1>4
<1>6. MeshTypeOK'
  <2>1. faults' \in 0..MaxFaults
    BY <1>0, MeshAssumption DEF PagesOK, MeshTypeOK
  <2> QED BY <1>0, <1>1, <1>2, <2>1 DEF PagesOK, MeshTypeOK
<1>7. ASSUME NEW q \in Pages PROVE PageOK(q)'
  <2>1. CASE q = p
    <3>1. link'[p] = Closed
      BY ZenonT(60), <1>0 DEF PagesOK, MeshTypeOK
    <3> QED BY <1>0, <1>5, <2>1, <3>1 DEF PagesOK, MeshTypeOK, PageOK, Up
  <2>2. CASE q # p
    <3>1. /\ page'[q] = page[q] /\ sock'[q] = sock[q] /\ there'[q] = there[q]
          /\ barred'[q] = barred[q] /\ enabled'[q] = enabled[q]
          /\ link'[q].open = link[q].open
      BY SMTT(30), <1>0, <2>2 DEF PagesOK, MeshTypeOK
    <3> QED BY <1>5, <3>1 DEF PagesOK, PageOK, Up
  <2> QED BY <2>1, <2>2
<1> QED BY <1>6, <1>7 DEF PagesOK

\* Steps of the room and of the links: the pages stay as they are, and a frame goes
\* to a page that is up.
LEMMA StaysInOrder ==
    ASSUME PagesOK, MeshTypeOK',
           \A q \in Pages :
              /\ page'[q] = page[q] /\ (sock'[q] = "live" <=> sock[q] = "live")
              /\ there'[q] = there[q] /\ barred'[q] = barred[q] /\ enabled'[q] = enabled[q]
              /\ link'[q].open = link[q].open
              /\ ~Up(q) => out'[q] = << >> /\ inbox'[q] = << >>
    PROVE  PagesOK'
BY DEF PagesOK, PageOK, Up

\* A frame that the room delivers keeps the pages in order.
LEMMA DeliveredInOrder ==
    ASSUME PagesOK, NEW p \in Pages, NEW f \in FramesFor(p), inbox' = Deliver(inbox, p, <<f>>)
    PROVE  /\ Ins(inbox')
           /\ inbox'[p] = IF Up(p) THEN inbox[p] \o <<f>> ELSE inbox[p]
           /\ \A q \in Pages \ {p} : inbox'[q] = inbox[q]
           /\ \A q \in Pages : ~Up(q) => inbox'[q] = << >>
<1>1. Up(p) <=> sock[p] = "live"
  BY DEF PagesOK, PageOK
<1>2. \A q \in Pages : ~Up(q) => inbox[q] = << >>
  BY DEF PagesOK, PageOK
<1>3. Ins(inbox)
  BY DEF PagesOK, MeshTypeOK
<1> QED BY <1>1, <1>2, <1>3, DeliverTyped

LEMMA RoomFrames ==
    ASSUME PagesOK, NEW p \in Pages, NEW is \in BOOLEAN, NEW lock \in BOOLEAN
    PROVE  /\ Roster(is, lock) \in FramesFor(p) /\ [t |-> "left"] \in FramesFor(p)
           /\ [t |-> "joined", locked |-> lock] \in FramesFor(p)
           /\ IsNews(Roster(is, lock)) /\ Shows(Roster(is, lock)) = is
           /\ Roster(is, lock).locked = lock
           /\ IsNews([t |-> "left"]) /\ ~Shows([t |-> "left"])
           /\ IsNews([t |-> "joined", locked |-> lock]) /\ Shows([t |-> "joined", locked |-> lock])
BY DEF Roster, FramesFor, News, IsNews, Shows

LEMMA NoticesInOrder ==
    ASSUME PagesOK, NEW p \in Pages, RoomNotices(p)
    PROVE  PagesOK'
<1> DEFINE f == [t |-> "left"]
<1>0. /\ sock[p] = "dead" /\ sock' = [sock EXCEPT ![p] = "none"]
      /\ late' = [late EXCEPT ![p] = << >>] /\ inbox' = Deliver(inbox, Other(p), <<f>>)
      /\ UNCHANGED <<page, out, locked, viewVars, overtook, faults>>
  BY DEF RoomNotices
<1>1. Other(p) \in Pages /\ f \in FramesFor(Other(p))
  BY Names, RoomFrames
<1> HIDE DEF f
<1>2. Ins(inbox') /\ \A q \in Pages : ~Up(q) => inbox'[q] = << >>
  BY <1>0, <1>1, DeliveredInOrder
<1>3. Outs(late')
  BY <1>0, BoxesTyped DEF PagesOK, MeshTypeOK
<1>4. MeshTypeOK'
  BY <1>0, <1>2, <1>3 DEF PagesOK, MeshTypeOK, viewVars
<1>5. \A q \in Pages : sock'[q] = "live" <=> sock[q] = "live"
  BY <1>0 DEF PagesOK, MeshTypeOK
<1> QED BY <1>0, <1>2, <1>4, <1>5, StaysInOrder DEF PagesOK, PageOK, viewVars

LEMMA JoinsInOrder ==
    ASSUME PagesOK, NEW p \in Pages, PageJoins(p)
    PROVE  PagesOK'
<1> DEFINE f == [t |-> "joined", locked |-> locked[p]]
           told == IF Member(p) THEN inbox ELSE Deliver(inbox, Other(p), <<f>>)
           g == Roster(Member(Other(p)), locked[Other(p)])
<1>0. /\ page' = [page EXCEPT ![p] = "up"] /\ sock' = [sock EXCEPT ![p] = "live"] /\ ~Up(p)
      /\ inbox' = [told EXCEPT ![p] = << g >>]
      /\ overtook' = (overtook \/ (p = Hi /\ Member(p)))
      /\ UNCHANGED <<out, late, locked, viewVars, faults>>
  BY DEF PageJoins
<1>1. Other(p) \in Pages /\ f \in FramesFor(Other(p)) /\ g \in FramesFor(p) /\ g \in Frames
  <2>1. locked[p] \in BOOLEAN /\ Other(p) \in Pages /\ locked[Other(p)] \in BOOLEAN
        /\ Member(Other(p)) \in BOOLEAN
    BY Names DEF PagesOK, MeshTypeOK, Member
  <2> QED BY <2>1, RoomFrames, FrameSets
<1>2. Ins(told) /\ \A q \in Pages : ~Up(q) => told[q] = << >>
  <2>1. Ins(inbox) /\ \A q \in Pages : ~Up(q) => inbox[q] = << >>
    BY DEF PagesOK, MeshTypeOK, PageOK
  <2>2. /\ Ins(Deliver(inbox, Other(p), <<f>>))
        /\ \A q \in Pages : ~Up(q) => Deliver(inbox, Other(p), <<f>>)[q] = << >>
    BY <1>1, <2>1, DeliverTyped DEF PagesOK, PageOK
  <2> QED BY <2>1, <2>2
<1> HIDE DEF told, f, g
<1>3. Ins(inbox') /\ \A q \in Pages : q # p /\ ~Up(q) => inbox'[q] = << >>
  <2>1. << g >> \in Seq(FramesFor(p)) /\ << g >> \in Seq(Frames)
    BY <1>1
  <2> QED BY <1>0, <1>2, <2>1 DEF Ins
<1>4. MeshTypeOK'
  BY <1>0, <1>3 DEF PagesOK, MeshTypeOK, viewVars, Member
<1>5. ASSUME NEW q \in Pages PROVE PageOK(q)'
  <2>1. CASE q = p
    BY <1>0, <2>1 DEF PagesOK, MeshTypeOK, PageOK, Up, viewVars
  <2>2. CASE q # p
    BY <1>0, <1>3, <2>2 DEF PagesOK, MeshTypeOK, PageOK, Up, viewVars
  <2> QED BY <2>1, <2>2
<1> QED BY <1>4, <1>5 DEF PagesOK

LEMMA RelaysInOrder ==
    ASSUME PagesOK, NEW p \in Pages, Relay(p) \/ RelayLate(p) \/ LateEnds(p)
    PROVE  PagesOK'
<1>0. /\ UNCHANGED <<page, sock, locked, viewVars, overtook, faults>>
      /\ Outs(out) /\ Outs(late) /\ Ins(inbox)
  BY DEF Relay, RelayLate, LateEnds, PagesOK, MeshTypeOK
<1>1. ASSUME NEW f \in SignalsOf(p), inbox' = Deliver(inbox, Other(p), <<f>>)
      PROVE  Ins(inbox') /\ \A q \in Pages : ~Up(q) => inbox'[q] = << >>
  <2>1. Other(p) \in Pages /\ f \in FramesFor(Other(p))
    BY Names, FrameSets
  <2> QED BY <1>1, <2>1, DeliveredInOrder
<1>2. CASE Relay(p)
  <2>1. /\ out[p] # << >> /\ sock[p] = "live" /\ late' = late
        /\ inbox' = Deliver(inbox, Other(p), << Head(out[p]) >>)
        /\ out' = [out EXCEPT ![p] = Tail(@)]
    BY <1>2 DEF Relay
  <2>2. Outs(out') /\ Head(out[p]) \in SignalsOf(p)
    BY <1>0, <2>1, BoxesTyped
  <2>3. Ins(inbox') /\ \A q \in Pages : ~Up(q) => inbox'[q] = << >>
    BY <1>1, <2>1, <2>2
  <2>4. MeshTypeOK'
    BY <1>0, <2>1, <2>2, <2>3 DEF PagesOK, MeshTypeOK, viewVars
  <2>5. \A q \in Pages : ~Up(q) => out'[q] = << >>
    BY <1>0, <2>1 DEF PagesOK, PageOK, Outs
  <2> QED BY <1>0, <2>3, <2>4, <2>5, StaysInOrder DEF viewVars
<1>3. CASE RelayLate(p)
  <2>1. /\ late[p] # << >> /\ out' = out
        /\ inbox' = Deliver(inbox, Other(p), << Head(late[p]) >>)
        /\ late' = [late EXCEPT ![p] = Tail(@)]
    BY <1>3 DEF RelayLate
  <2>2. Outs(late') /\ Head(late[p]) \in SignalsOf(p)
    BY <1>0, <2>1, BoxesTyped
  <2>3. Ins(inbox') /\ \A q \in Pages : ~Up(q) => inbox'[q] = << >>
    BY <1>1, <2>1, <2>2
  <2>4. MeshTypeOK'
    BY <1>0, <2>1, <2>2, <2>3 DEF PagesOK, MeshTypeOK, viewVars
  <2>5. \A q \in Pages : ~Up(q) => out'[q] = << >>
    BY <2>1 DEF PagesOK, PageOK
  <2> QED BY <1>0, <2>3, <2>4, <2>5, StaysInOrder DEF viewVars
<1>4. CASE LateEnds(p)
  <2>1. out' = out /\ inbox' = inbox /\ late' = [late EXCEPT ![p] = << >>]
    BY <1>4 DEF LateEnds
  <2>2. MeshTypeOK'
    BY <1>0, <2>1, BoxesTyped DEF PagesOK, MeshTypeOK, viewVars
  <2>3. \A q \in Pages : ~Up(q) => out'[q] = << >> /\ inbox'[q] = << >>
    BY <2>1 DEF PagesOK, PageOK
  <2> QED BY <1>0, <2>2, <2>3, StaysInOrder DEF viewVars
<1> QED BY <1>2, <1>3, <1>4

\* The roster that a page is sent when p is locked or released.
RosterFor(q) == Roster(Member(Other(q)), locked'[Other(q)])

LEMMA LockSends ==
    ASSUME PagesOK, NEW p \in Pages, Lock(p)
    PROVE  /\ Ins(inbox')
           /\ \A q \in Pages : RosterFor(q) \in FramesFor(q) /\ inbox'[q] =
                 IF Up(q) THEN inbox[q] \o << RosterFor(q) >> ELSE inbox[q]
           /\ \A q \in Pages : ~Up(q) => inbox'[q] = << >>
           /\ locked' \in [Pages -> BOOLEAN] /\ sock[p] # "none"
           /\ \A q \in Pages \ {p} : locked'[q] = locked[q]
           /\ UNCHANGED <<page, sock, out, late, viewVars, overtook, faults>>
<1>0. /\ locked' = [locked EXCEPT ![p] = ~@] /\ Member(p)
      /\ inbox' = [q \in Pages |-> Deliver(inbox, q, << RosterFor(q) >>)[q]]
      /\ UNCHANGED <<page, sock, out, late, viewVars, overtook, faults>>
  BY DEF Lock, RosterFor
<1>1. locked' \in [Pages -> BOOLEAN] /\ \A q \in Pages \ {p} : locked'[q] = locked[q]
  BY <1>0 DEF PagesOK, MeshTypeOK
<1>2. ASSUME NEW q \in Pages PROVE RosterFor(q) \in FramesFor(q)
  <2>1. Other(q) \in Pages /\ Member(Other(q)) \in BOOLEAN /\ locked'[Other(q)] \in BOOLEAN
    BY <1>1, Names DEF Member
  <2> QED BY <2>1, RoomFrames DEF RosterFor
<1>3. ASSUME NEW q \in Pages
      PROVE  /\ inbox'[q] \in Seq(FramesFor(q)) /\ inbox'[q] \in Seq(Frames)
             /\ inbox'[q] = IF Up(q) THEN inbox[q] \o << RosterFor(q) >> ELSE inbox[q]
             /\ ~Up(q) => inbox'[q] = << >>
  <2>1. /\ Ins(inbox) /\ (Up(q) <=> sock[q] = "live") /\ (~Up(q) => inbox[q] = << >>)
    BY DEF PagesOK, MeshTypeOK, PageOK
  <2>2. inbox'[q] = Deliver(inbox, q, << RosterFor(q) >>)[q]
    BY <1>0
  <2>3. /\ Ins(Deliver(inbox, q, << RosterFor(q) >>))
        /\ Deliver(inbox, q, << RosterFor(q) >>)[q] =
              IF sock[q] = "live" THEN inbox[q] \o << RosterFor(q) >> ELSE inbox[q]
    BY <1>2, <2>1, DeliverTyped
  <2> QED BY <2>1, <2>2, <2>3 DEF Ins
<1>4. Ins(inbox')
  <2>1. inbox' = [q \in Pages |-> inbox'[q]]
    BY <1>0
  <2> QED BY <1>3, <2>1 DEF Ins
<1> QED BY <1>0, <1>1, <1>2, <1>3, <1>4 DEF Member

LEMMA LocksInOrder ==
    ASSUME PagesOK, NEW p \in Pages, Lock(p)
    PROVE  PagesOK'
<1>1. MeshTypeOK'
  BY LockSends DEF PagesOK, MeshTypeOK, viewVars
<1> QED BY <1>1, LockSends, StaysInOrder DEF PagesOK, PageOK, viewVars

\* What a page makes of news: it takes the frame, and has a link when the other guest
\* is there; the frames in flight stay what they are.
Learns(p, is, lock) ==
    /\ there' = [there EXCEPT ![p] = is] /\ link'[p].open = is
    /\ link[p].open /\ is => link'[p] = link[p]
    /\ ~(link[p].open /\ is) => link'[p].sig = "new" /\ (link'[p].making <=> is /\ p = Lo)
    /\ \A q \in Pages \ {p} : /\ link'[q].open = link[q].open /\ link'[q].sig = link[q].sig
                              /\ link'[q].making = link[q].making
                              /\ Alike(inbox[q], inbox'[q])
    /\ barred' = [barred EXCEPT ![p] = is /\ lock]
    /\ enabled' = [enabled EXCEPT ![p] = is /\ ~lock]
    /\ \A q \in Pages : out[q] = << >> <=> out'[q] = << >>
    /\ Alike(Tail(inbox[p]), inbox'[p])
    /\ overtook' = (overtook /\ ~(p = Lo /\ is /\ ~link[p].open))

LEMMA AlikeItself == \A b : Alike(b, b)
BY DEF Alike

\* Outdating the frames leaves every box alike.
LEMMA TailOutdated ==
    ASSUME PagesOK, NEW p \in Pages, inbox[p] # << >>,
           NEW kinds \in SUBSET {"offer", "answer"},
           inbox' = [Outdated(inbox, kinds) EXCEPT ![p] = Tail(@)]
    PROVE  /\ Ins(inbox') /\ Alike(Tail(inbox[p]), inbox'[p])
           /\ \A q \in Pages \ {p} : Alike(inbox[q], inbox'[q])
<1> DEFINE new == Outdated(inbox, kinds)
           b == inbox[p]
           c == new[p]
<1>1. /\ Ins(inbox) /\ inbox \in [Pages -> Seq(Frames)] /\ Ins(new)
      /\ new \in [Pages -> Seq(Frames)]
      /\ \A q \in Pages : Alike(inbox[q], new[q])
      /\ c # << >>
  BY OutdatedBoxes DEF PagesOK, MeshTypeOK, Ins
<1>2. Ins(inbox') /\ inbox'[p] = Tail(c) /\ \A q \in Pages \ {p} : inbox'[q] = new[q]
  <2> HIDE DEF new
  <2>1. inbox' = [new EXCEPT ![p] = Tail(@)]
    BY DEF new
  <2>2. new \in [Pages -> Seq(Frames)] /\ Ins(new) /\ new[p] # << >>
    BY <1>1
  <2>3. Ins([new EXCEPT ![p] = Tail(@)])
    BY <2>2, BoxesTyped
  <2>4. inbox'[p] = Tail(new[p]) /\ \A q \in Pages \ {p} : inbox'[q] = new[q]
    BY <2>1, <2>2
  <2> QED BY <2>1, <2>3, <2>4
<1>3. Alike(Tail(b), Tail(c))
  <2>1. b \in Seq(Frames) /\ c \in Seq(Frames) /\ b # << >> /\ c # << >> /\ Alike(b, c)
    BY <1>1
  <2> HIDE DEF b, c
  <2>2. /\ Len(b) \in Nat /\ Len(b) > 0 /\ Len(Tail(b)) = Len(b) - 1 /\ Len(c) = Len(b)
        /\ Len(Tail(c)) = Len(c) - 1
        /\ \A k \in 1..(Len(b) - 1) : Tail(b)[k] = b[k + 1] /\ Tail(c)[k] = c[k + 1]
    BY <2>1, Boxes DEF Alike
  <2>3. ASSUME NEW k \in 1..Len(Tail(b))
        PROVE  Tail(c)[k].t = Tail(b)[k].t /\ (IsNews(Tail(b)[k]) => Tail(c)[k] = Tail(b)[k])
    <3>1. k + 1 \in 1..Len(b) /\ Tail(b)[k] = b[k + 1] /\ Tail(c)[k] = c[k + 1]
      BY <2>2
    <3> QED BY <2>1, <3>1 DEF Alike
  <2> QED BY <2>2, <2>3 DEF Alike
<1> QED BY <1>1, <1>2, <1>3

\* The frame that is read goes, and nothing is outdated.
LEMMA TailOnly ==
    ASSUME PagesOK, NEW p \in Pages, inbox[p] # << >>, inbox' = [inbox EXCEPT ![p] = Tail(@)]
    PROVE  /\ Ins(inbox') /\ Alike(Tail(inbox[p]), inbox'[p])
           /\ \A q \in Pages \ {p} : Alike(inbox[q], inbox'[q])
<1>1. Ins(inbox) /\ inbox \in [Pages -> Seq(Frames)]
  BY DEF PagesOK, MeshTypeOK, Ins
<1>2. inbox'[p] = Tail(inbox[p]) /\ \A q \in Pages \ {p} : inbox'[q] = inbox[q]
  BY <1>1
<1> QED BY <1>1, <1>2, BoxesTyped, AlikeItself

LEMMA OutdatedOuts ==
    ASSUME PagesOK, NEW kinds \in SUBSET {"offer", "answer"},
           out' = Outdated(out, kinds), late' = Outdated(late, kinds)
    PROVE  /\ Outs(out') /\ Outs(late')
           /\ \A q \in Pages : out[q] = << >> <=> out'[q] = << >>
<1>1. Outs(out) /\ out \in [Pages -> Seq(Frames)] /\ Outs(late) /\ late \in [Pages -> Seq(Frames)]
  BY DEF PagesOK, MeshTypeOK, Outs
<1> QED BY <1>1, OutdatedBoxes

LEMMA PresentLearns ==
    ASSUME PagesOK, NEW p \in Pages, NEW lock \in BOOLEAN, inbox[p] # << >>, Present(p, lock)
    PROVE  /\ Learns(p, TRUE, lock) /\ link' \in [Pages -> Links]
           /\ Outs(out') /\ Outs(late') /\ Ins(inbox')
<1>0. /\ link \in [Pages -> Links] /\ Ended(p) \in SUBSET {"offer", "answer"}
      /\ there' = [there EXCEPT ![p] = TRUE] /\ barred' = [barred EXCEPT ![p] = lock]
      /\ enabled' = [enabled EXCEPT ![p] = ~lock] /\ overtook \in BOOLEAN
      /\ Outs(out) /\ Outs(late)
  BY EndedKinds DEF Present, PagesOK, MeshTypeOK
<1>1. CASE link[p].open
  <2>1. inbox' = [inbox EXCEPT ![p] = Tail(@)] /\ UNCHANGED <<link, out, late, overtook>>
    BY <1>1 DEF Present, Opens
  <2> QED BY <1>0, <1>1, <2>1, TailOnly DEF Learns
<1>2. CASE ~link[p].open
  <2>1. /\ link' = [StaleEnds(link, p) EXCEPT ![p] = Opened(p)]
        /\ out' = Outdated(out, Ended(p)) /\ late' = Outdated(late, Ended(p))
        /\ inbox' = [Outdated(inbox, Ended(p)) EXCEPT ![p] = Tail(@)]
        /\ overtook' = (overtook /\ p # Lo)
    BY <1>2 DEF Present, Opens
  <2>2. /\ link' \in [Pages -> Links] /\ link'[p] = Opened(p)
        /\ \A q \in Pages \ {p} : /\ link'[q].open = link[q].open /\ link'[q].sig = link[q].sig
                                  /\ link'[q].making = link[q].making
    <3>1. /\ StaleEnds(link, p) \in [Pages -> Links] /\ Opened(p) \in Links
      BY <1>0, StaleEndsFields, OpenedFields
    <3>2. \A q \in Pages \ {p} : link'[q] = StaleEnds(link, p)[q]
      BY <2>1, <3>1
    <3> QED BY <1>0, <2>1, <3>1, <3>2, StaleEndsFields
  <2>3. /\ Ins(inbox') /\ Alike(Tail(inbox[p]), inbox'[p])
        /\ \A q \in Pages \ {p} : Alike(inbox[q], inbox'[q])
    BY <1>0, <2>1, TailOutdated
  <2>4. /\ Outs(out') /\ Outs(late')
        /\ \A q \in Pages : out[q] = << >> <=> out'[q] = << >>
    BY <1>0, <2>1, OutdatedOuts
  <2>5. overtook' = (overtook /\ ~(p = Lo /\ TRUE /\ ~link[p].open))
    BY <1>2, <2>1
  <2> QED BY <1>0, <1>2, <2>2, <2>3, <2>4, <2>5, OpenedFields DEF Learns
<1> QED BY <1>1, <1>2

LEMMA AbsentLearns ==
    ASSUME PagesOK, NEW p \in Pages, NEW lock \in BOOLEAN, inbox[p] # << >>, Absent(p)
    PROVE  /\ Learns(p, FALSE, lock) /\ link' \in [Pages -> Links]
           /\ Outs(out') /\ Outs(late') /\ Ins(inbox')
<1>0. /\ link \in [Pages -> Links] /\ Ended(p) \in SUBSET {"offer", "answer"}
      /\ there' = [there EXCEPT ![p] = FALSE] /\ barred' = [barred EXCEPT ![p] = FALSE]
      /\ enabled' = [enabled EXCEPT ![p] = FALSE] /\ overtook \in BOOLEAN
      /\ link' = [StaleEnds(link, p) EXCEPT ![p] = Closed]
      /\ out' = Outdated(out, Ended(p)) /\ late' = Outdated(late, Ended(p))
      /\ inbox' = [Outdated(inbox, Ended(p)) EXCEPT ![p] = Tail(@)]
      /\ overtook' = overtook
  BY EndedKinds DEF Absent, PagesOK, MeshTypeOK
<1>1. /\ link' \in [Pages -> Links] /\ link'[p] = Closed
      /\ \A q \in Pages \ {p} : /\ link'[q].open = link[q].open /\ link'[q].sig = link[q].sig
                                /\ link'[q].making = link[q].making
  <2>1. StaleEnds(link, p) \in [Pages -> Links] /\ Closed \in Links
    BY <1>0, StaleEndsFields, OpenedFields
  <2>2. \A q \in Pages \ {p} : link'[q] = StaleEnds(link, p)[q]
    BY <1>0, <2>1
  <2> QED BY SMTT(30), <1>0, <2>1, <2>2, StaleEndsFields
<1>2. /\ Ins(inbox') /\ Alike(Tail(inbox[p]), inbox'[p])
      /\ \A q \in Pages \ {p} : Alike(inbox[q], inbox'[q])
  BY <1>0, TailOutdated
<1>3. /\ Outs(out') /\ Outs(late')
      /\ \A q \in Pages : out[q] = << >> <=> out'[q] = << >>
  BY <1>0, OutdatedOuts
<1>4. link'[p].open = FALSE /\ link'[p].sig = "new" /\ ~link'[p].making
  BY <1>1 DEF Closed
<1>5. /\ barred' = [barred EXCEPT ![p] = FALSE /\ lock]
      /\ enabled' = [enabled EXCEPT ![p] = FALSE /\ ~lock]
      /\ overtook' = (overtook /\ ~(p = Lo /\ FALSE /\ ~link[p].open))
  <2>1. (FALSE /\ lock) = FALSE /\ (FALSE /\ ~lock) = FALSE
    OBVIOUS
  <2> QED BY <1>0, <2>1
<1> QED BY <1>0, <1>1, <1>2, <1>3, <1>4, <1>5 DEF Learns

\* A page that reads news learns what it says.
LEMMA NewsRead ==
    ASSUME PagesOK, NEW p \in Pages, ReadRoster(p) \/ ReadJoined(p) \/ ReadLeft(p)
    PROVE  /\ Up(p) /\ inbox[p] # << >> /\ IsNews(Head(inbox[p]))
           /\ UNCHANGED <<page, sock, locked, faults>>
           /\ \E lock \in BOOLEAN :
                 /\ Learns(p, Shows(Head(inbox[p])), lock)
                 /\ Shows(Head(inbox[p])) => lock = Head(inbox[p]).locked
           /\ Outs(out') /\ Outs(late') /\ Ins(inbox') /\ link' \in [Pages -> Links]
<1> DEFINE f == Head(inbox[p])
<1>1. /\ Up(p) /\ inbox[p] # << >> /\ f.t \in {"roster", "joined", "left"}
      /\ UNCHANGED <<page, sock, locked, faults>>
  BY DEF ReadRoster, ReadJoined, ReadLeft, Reading, Aside
<1>2. f \in FramesFor(p)
  BY <1>1, BoxesTyped DEF PagesOK, MeshTypeOK
<1>3. /\ f \in News
      /\ f.t = "roster" => f.there \in BOOLEAN /\ f.locked \in BOOLEAN
      /\ f.t = "joined" => f.locked \in BOOLEAN
  BY <1>1, <1>2 DEF FramesFor, SignalsOf, News
<1>4. IsNews(f)
  BY <1>1 DEF IsNews
<1>5. CASE ReadRoster(p)
  <2>1. f.t = "roster" /\ IF f.there THEN Present(p, f.locked) ELSE Absent(p)
    BY <1>5 DEF ReadRoster, Reading
  <2>2. Shows(f) = f.there
    BY <1>3, <2>1 DEF Shows
  <2> HIDE DEF f
  <2>3. CASE f.there
    <3>1. Present(p, f.locked) /\ f.locked \in BOOLEAN /\ Shows(f) = TRUE
      BY <1>3, <2>1, <2>2, <2>3
    <3>2. /\ Learns(p, Shows(f), f.locked) /\ link' \in [Pages -> Links]
          /\ Outs(out') /\ Outs(late') /\ Ins(inbox')
      BY <1>1, <3>1, PresentLearns
    <3> QED BY <1>1, <1>4, <3>1, <3>2 DEF f
  <2>4. CASE ~f.there
    <3>1. Absent(p) /\ Shows(f) = FALSE
      BY <1>3, <2>1, <2>2, <2>4
    <3>2. /\ Learns(p, Shows(f), FALSE) /\ link' \in [Pages -> Links]
          /\ Outs(out') /\ Outs(late') /\ Ins(inbox')
      BY <1>1, <3>1, AbsentLearns
    <3> QED BY <1>1, <1>4, <3>1, <3>2 DEF f
  <2> QED BY <2>3, <2>4
<1>6. CASE ReadJoined(p)
  <2>1. Present(p, f.locked) /\ f.t = "joined"
    BY <1>6 DEF ReadJoined, Reading
  <2>2. f.locked \in BOOLEAN /\ Shows(f) = TRUE
    BY <1>3, <2>1 DEF Shows
  <2> HIDE DEF f
  <2>3. /\ Learns(p, Shows(f), f.locked) /\ link' \in [Pages -> Links]
        /\ Outs(out') /\ Outs(late') /\ Ins(inbox')
    BY <1>1, <2>1, <2>2, PresentLearns
  <2> QED BY <1>1, <1>4, <2>2, <2>3 DEF f
<1>7. CASE ReadLeft(p)
  <2>1. Absent(p) /\ f.t = "left"
    BY <1>7 DEF ReadLeft, Reading
  <2>2. Shows(f) = FALSE
    BY <2>1 DEF Shows
  <2> HIDE DEF f
  <2>3. /\ Learns(p, Shows(f), FALSE) /\ link' \in [Pages -> Links]
        /\ Outs(out') /\ Outs(late') /\ Ins(inbox')
    BY <1>1, <2>1, <2>2, AbsentLearns
  <2> QED BY <1>1, <1>4, <2>2, <2>3 DEF f
<1> QED BY <1>5, <1>6, <1>7

LEMMA NewsInOrder ==
    ASSUME PagesOK, NEW p \in Pages, ReadRoster(p) \/ ReadJoined(p) \/ ReadLeft(p)
    PROVE  PagesOK'
<1> DEFINE is == Shows(Head(inbox[p]))
<1>0. /\ Up(p) /\ UNCHANGED <<page, sock, locked, faults>> /\ link' \in [Pages -> Links]
      /\ Outs(out') /\ Outs(late') /\ Ins(inbox') /\ is \in BOOLEAN
  BY NewsRead DEF Shows
<1>1. PICK lock \in BOOLEAN : Learns(p, is, lock)
  BY NewsRead
<1> HIDE DEF is
<1>2. MeshTypeOK'
  BY <1>0, <1>1 DEF Learns, PagesOK, MeshTypeOK
<1>3. ASSUME NEW q \in Pages PROVE PageOK(q)'
  <2>1. CASE q = p
    BY <1>0, <1>1, <2>1 DEF Learns, PagesOK, MeshTypeOK, PageOK, Up
  <2>2. CASE q # p
    <3>1. inbox[q] = << >> => inbox'[q] = << >>
      <4>1. Alike(inbox[q], inbox'[q]) /\ inbox[q] \in Seq(Frames) /\ inbox'[q] \in Seq(Frames)
        BY <1>0, <1>1, <2>2 DEF Learns, PagesOK, MeshTypeOK, Ins
      <4> QED BY <4>1, Boxes DEF Alike
    <3>2. /\ there'[q] = there[q] /\ barred'[q] = barred[q] /\ enabled'[q] = enabled[q]
          /\ link'[q].open = link[q].open /\ (out[q] = << >> <=> out'[q] = << >>)
      BY <1>1, <2>2 DEF Learns, PagesOK, MeshTypeOK
    <3> QED BY <1>0, <3>1, <3>2 DEF PagesOK, PageOK, Up
  <2> QED BY <2>1, <2>2
<1> QED BY <1>2, <1>3 DEF PagesOK

\* A signal that is read came from the other guest: Hi reads offers and Lo answers.
LEMMA SignalRead ==
    ASSUME PagesOK, NEW p \in Pages, NEW kind \in {"offer", "answer"}, Reading(p, kind)
    PROVE  /\ Up(p) /\ inbox[p] # << >> /\ Head(inbox[p]).t = kind /\ ~IsNews(Head(inbox[p]))
           /\ p = IF kind = "offer" THEN Hi ELSE Lo
           /\ Head(inbox[p]).fresh \in BOOLEAN
<1> DEFINE f == Head(inbox[p])
<1>1. Up(p) /\ inbox[p] # << >> /\ f.t = kind
  BY DEF Reading
<1>2. f \in FramesFor(p)
  BY <1>1, BoxesTyped DEF PagesOK, MeshTypeOK
<1> HIDE DEF f
<1>3. f \in SignalsOf(Other(p))
  BY <1>1, <1>2 DEF FramesFor, News
<1> QED BY <1>1, <1>3, Names DEF SignalsOf, IsNews, f

LEMMA LinkEdits ==
    ASSUME NEW l \in Links, NEW s \in {"new", "offered", "got", "stable"}, NEW b \in BOOLEAN
    PROVE  LET m == [[l EXCEPT !.sig = s] EXCEPT !.fresh = b]
           IN  m \in Links /\ m.open = l.open /\ m.making = l.making /\ m.sig = s
BY DEF Links

LEMMA OfferRead ==
    ASSUME PagesOK, NEW p \in Pages, ReadOffer(p)
    PROVE  /\ p = Hi /\ Up(Hi) /\ inbox[Hi] # << >>
           /\ Head(inbox[Hi]).t = "offer" /\ ~IsNews(Head(inbox[Hi]))
           /\ UNCHANGED <<page, sock, locked, faults, there, barred, overtook>>
           /\ Outs(out') /\ Outs(late') /\ Ins(inbox') /\ link' \in [Pages -> Links]
           /\ \A q \in Pages : out[q] = << >> <=> out'[q] = << >>
           /\ Alike(inbox[Lo], inbox'[Lo]) /\ Alike(Tail(inbox[Hi]), inbox'[Hi])
           /\ \A q \in Pages : link'[q].open = link[q].open /\ link'[q].making = link[q].making
           /\ link'[Lo].sig = link[Lo].sig /\ (link[Hi].open => link'[Hi].sig = "got")
           /\ enabled' \in [Pages -> BOOLEAN] /\ enabled'[Lo] = enabled[Lo]
           /\ enabled'[Hi] = enabled[Hi] \/ enabled'[Hi] = ~barred[Hi]
<1>0. /\ p = Hi /\ Up(Hi) /\ inbox[Hi] # << >>
      /\ Head(inbox[Hi]).t = "offer" /\ ~IsNews(Head(inbox[Hi]))
      /\ Head(inbox[Hi]).fresh \in BOOLEAN
  BY SignalRead DEF ReadOffer
<1>1. UNCHANGED <<page, sock, locked, faults, there, barred, overtook>>
  BY DEF ReadOffer, Aside
<1>2. /\ Hi \in Pages /\ Lo \in Pages /\ Lo # Hi /\ {"answer"} \in SUBSET {"offer", "answer"}
      /\ link \in [Pages -> Links] /\ Outs(out) /\ Outs(late)
      /\ enabled \in [Pages -> BOOLEAN] /\ barred \in [Pages -> BOOLEAN]
      /\ \A q \in Pages : q = Lo \/ q = Hi
  BY Names DEF PagesOK, MeshTypeOK
<1>3. CASE link[Hi].open
  <2> DEFINE sl == StaleEnds(link, Hi)
             fr == Head(inbox[Hi]).fresh
  <2>1. /\ link' = [sl EXCEPT ![Hi].sig = "got", ![Hi].fresh = fr]
        /\ out' = Outdated(out, {"answer"}) /\ late' = Outdated(late, {"answer"})
        /\ inbox' = [Outdated(inbox, {"answer"}) EXCEPT ![Hi] = Tail(@)]
        /\ enabled' = [enabled EXCEPT ![Hi] = IF link[Hi].sig = "new" THEN Arrives(Hi) ELSE @]
    BY <1>0, <1>3 DEF ReadOffer
  <2>2. /\ sl \in [Pages -> Links] /\ fr \in BOOLEAN
        /\ \A q \in Pages : /\ sl[q].open = link[q].open /\ sl[q].sig = link[q].sig
                            /\ sl[q].making = link[q].making
    BY <1>0, <1>2, StaleEndsFields
  <2> HIDE DEF sl, fr
  <2>3. link' = [sl EXCEPT ![Hi] = [[sl[Hi] EXCEPT !.sig = "got"] EXCEPT !.fresh = fr]]
    BY <1>2, <2>1, <2>2 DEF Links
  <2>4. link'[Hi] = [[sl[Hi] EXCEPT !.sig = "got"] EXCEPT !.fresh = fr] /\ link'[Lo] = sl[Lo]
    BY <1>2, <2>2, <2>3
  <2>5. /\ link'[Hi] \in Links /\ link'[Hi].open = sl[Hi].open
        /\ link'[Hi].making = sl[Hi].making /\ link'[Hi].sig = "got"
    <3>1. sl[Hi] \in Links
      BY <1>2, <2>2
    <3> DEFINE m == [[sl[Hi] EXCEPT !.sig = "got"] EXCEPT !.fresh = fr]
    <3>2. m \in Links /\ m.open = sl[Hi].open /\ m.making = sl[Hi].making /\ m.sig = "got"
      BY ZenonT(60), <2>2, <3>1, LinkEdits
    <3>3. link'[Hi] = m
      BY <2>4
    <3> HIDE DEF m
    <3> QED BY <3>2, <3>3
  <2>6. link' \in [Pages -> Links]
    BY <1>2, <2>2, <2>3, <2>4, <2>5
  <2>7. /\ Ins(inbox') /\ Alike(Tail(inbox[Hi]), inbox'[Hi]) /\ Alike(inbox[Lo], inbox'[Lo])
    BY <1>0, <1>2, <2>1, TailOutdated
  <2>8. Outs(out') /\ Outs(late') /\ \A q \in Pages : out[q] = << >> <=> out'[q] = << >>
    BY <1>2, <2>1, OutdatedOuts
  <2>9. /\ enabled' \in [Pages -> BOOLEAN] /\ enabled'[Lo] = enabled[Lo]
        /\ enabled'[Hi] = enabled[Hi] \/ enabled'[Hi] = ~barred[Hi]
    BY <1>2, <2>1 DEF Arrives
  <2>10. /\ \A q \in Pages : link'[q].open = link[q].open /\ link'[q].making = link[q].making
         /\ link'[Lo].sig = link[Lo].sig
    <3>1. link'[Lo] = sl[Lo]
      BY <2>4
    <3> QED BY <1>2, <2>2, <2>5, <3>1
  <2> QED BY <1>0, <1>1, <2>5, <2>6, <2>7, <2>8, <2>9, <2>10
<1>4. CASE ~link[Hi].open
  <2>1. inbox' = [inbox EXCEPT ![Hi] = Tail(@)] /\ UNCHANGED <<out, late, link, enabled>>
    BY <1>0, <1>4 DEF ReadOffer
  <2>2. /\ Ins(inbox') /\ Alike(Tail(inbox[Hi]), inbox'[Hi]) /\ Alike(inbox[Lo], inbox'[Lo])
    BY <1>0, <1>2, <2>1, TailOnly
  <2> QED BY <1>0, <1>1, <1>2, <1>4, <2>1, <2>2
<1> QED BY <1>3, <1>4

LEMMA AnswerRead ==
    ASSUME PagesOK, NEW p \in Pages, ReadAnswer(p)
    PROVE  /\ p = Lo /\ Up(Lo) /\ inbox[Lo] # << >>
           /\ Head(inbox[Lo]).t = "answer" /\ ~IsNews(Head(inbox[Lo]))
           /\ UNCHANGED <<page, sock, locked, faults, out, late, there, barred, enabled>>
           /\ Ins(inbox') /\ link' \in [Pages -> Links]
           /\ inbox'[Hi] = inbox[Hi] /\ Alike(Tail(inbox[Lo]), inbox'[Lo])
           /\ link'[Hi] = link[Hi] /\ link'[Lo].open = link[Lo].open
           /\ link'[Lo].sig # "offered" \/ ~link[Lo].open
           /\ overtook' \in BOOLEAN
<1>0. /\ p = Lo /\ Up(Lo) /\ inbox[Lo] # << >>
      /\ Head(inbox[Lo]).t = "answer" /\ ~IsNews(Head(inbox[Lo]))
      /\ Head(inbox[Lo]).fresh \in BOOLEAN
  BY SignalRead DEF ReadAnswer
<1>1. /\ UNCHANGED <<page, sock, locked, faults, out, late, there, barred, enabled>>
      /\ inbox' = [inbox EXCEPT ![Lo] = Tail(@)]
  BY <1>0 DEF ReadAnswer, Aside
<1>2. /\ Hi \in Pages /\ Lo \in Pages /\ Lo # Hi
      /\ link \in [Pages -> Links] /\ overtook \in BOOLEAN /\ inbox \in [Pages -> Seq(Frames)]
      /\ \A q \in Pages : q = Lo \/ q = Hi
  BY Names DEF PagesOK, MeshTypeOK, Ins
<1>3. /\ Ins(inbox') /\ inbox'[Hi] = inbox[Hi] /\ Alike(Tail(inbox[Lo]), inbox'[Lo])
  BY <1>0, <1>1, <1>2, TailOnly
<1>4. CASE link[Lo].open /\ link[Lo].sig = "offered"
  <2> DEFINE fr == Head(inbox[Lo]).fresh
  <2>1. link' = [link EXCEPT ![Lo].sig = "stable", ![Lo].fresh = fr] /\ overtook' = FALSE
    BY <1>0, <1>4 DEF ReadAnswer
  <2>2. fr \in BOOLEAN
    BY <1>0
  <2> HIDE DEF fr
  <2>3. link' = [link EXCEPT ![Lo] = [[link[Lo] EXCEPT !.sig = "stable"] EXCEPT !.fresh = fr]]
    BY <1>2, <2>1 DEF Links
  <2>4. link'[Lo] = [[link[Lo] EXCEPT !.sig = "stable"] EXCEPT !.fresh = fr] /\ link'[Hi] = link[Hi]
    BY <1>2, <2>3
  <2>5. link'[Lo] \in Links /\ link'[Lo].open = link[Lo].open /\ link'[Lo].sig = "stable"
    BY ZenonT(60), <1>2, <2>2, <2>4 DEF Links
  <2>6. link' \in [Pages -> Links]
    BY <1>2, <2>3, <2>4, <2>5
  <2> QED BY <1>0, <1>1, <1>3, <2>1, <2>4, <2>5, <2>6
<1>5. CASE ~(link[Lo].open /\ link[Lo].sig = "offered")
  <2>1. UNCHANGED <<link, overtook>>
    BY <1>0, <1>5 DEF ReadAnswer
  <2> QED BY <1>0, <1>1, <1>2, <1>3, <1>5, <2>1
<1> QED BY <1>4, <1>5

LEMMA SignalsInOrder ==
    ASSUME PagesOK, NEW p \in Pages, ReadOffer(p) \/ ReadAnswer(p)
    PROVE  PagesOK'
<1>0. \A q \in Pages : q = Lo \/ q = Hi
  BY Names
<1>1. ASSUME NEW q \in Pages, Ins(inbox'), Alike(inbox[q], inbox'[q]), inbox[q] = << >>
      PROVE  inbox'[q] = << >>
  <2>1. inbox[q] \in Seq(Frames) /\ inbox'[q] \in Seq(Frames)
    BY <1>1 DEF PagesOK, MeshTypeOK, Ins
  <2> QED BY <1>1, <2>1, Boxes DEF Alike
<1>2. CASE ReadOffer(p)
  <2>1. MeshTypeOK'
    BY <1>2, OfferRead DEF PagesOK, MeshTypeOK
  <2>2. ASSUME NEW q \in Pages PROVE PageOK(q)'
    <3>1. CASE q = Hi
      BY <1>2, <3>1, OfferRead DEF PagesOK, MeshTypeOK, PageOK, Up
    <3>2. CASE q = Lo
      BY <1>1, <1>2, <3>2, OfferRead DEF PagesOK, PageOK, Up
    <3> QED BY <1>0, <3>1, <3>2
  <2> QED BY <2>1, <2>2 DEF PagesOK
<1>3. CASE ReadAnswer(p)
  <2>1. MeshTypeOK'
    BY <1>3, AnswerRead DEF PagesOK, MeshTypeOK
  <2>2. ASSUME NEW q \in Pages PROVE PageOK(q)'
    <3>1. CASE q = Lo
      BY <1>3, <3>1, AnswerRead DEF PagesOK, PageOK, Up
    <3>2. CASE q = Hi
      BY <1>3, <3>2, AnswerRead DEF PagesOK, PageOK, Up
    <3> QED BY <1>0, <3>1, <3>2
  <2> QED BY <2>1, <2>2 DEF PagesOK
<1> QED BY <1>2, <1>3

\* What the ends of a link do on their own: they answer, offer, fail and restart.
LEMMA LinkSteps ==
    ASSUME PagesOK, Answer \/ Offer \/ IceFails \/ PathFails \/ Reconnect
    PROVE  /\ UNCHANGED <<page, sock, locked, there, barred, enabled, overtook>>
           /\ Outs(out') /\ Outs(late') /\ Ins(inbox') /\ link' \in [Pages -> Links]
           /\ faults' \in 0..MaxFaults
           /\ \A q \in Pages : link'[q].open = link[q].open /\ Alike(inbox[q], inbox'[q])
           /\ \A q \in Pages : out'[q] # << >> => out[q] # << >> \/ link[q].open
           /\ \/ out'[Hi] # << >> \/ out'[Lo] # << >>
              \/ /\ link'[Hi].sig = link[Hi].sig /\ link'[Lo].sig = link[Lo].sig
                 /\ link'[Lo].making = link[Lo].making \/ link'[Lo].making
                 /\ out' = out
<1>0. /\ Hi \in Pages /\ Lo \in Pages /\ Lo # Hi /\ \A q \in Pages : q = Lo \/ q = Hi
      /\ link \in [Pages -> Links] /\ faults \in 0..MaxFaults
      /\ Outs(out) /\ Outs(late) /\ Ins(inbox)
      /\ out \in [Pages -> Seq(Frames)] /\ late \in [Pages -> Seq(Frames)]
      /\ inbox \in [Pages -> Seq(Frames)]
  BY Names DEF PagesOK, MeshTypeOK, Outs, Ins
<1>1. ASSUME Answer
      PROVE  /\ UNCHANGED <<page, sock, late, inbox, locked, there, barred, enabled, overtook, faults>>
             /\ Outs(out') /\ link' \in [Pages -> Links] /\ link[Hi].open
             /\ link'[Lo] = link[Lo] /\ link'[Hi].open = link[Hi].open
             /\ out'[Hi] # << >> /\ out'[Lo] = out[Lo]
  <2> DEFINE f == Signal("answer", link[Hi].fresh)
  <2>1. /\ link' = [link EXCEPT ![Hi].sig = "stable"]
        /\ out' = [out EXCEPT ![Hi] = Append(@, f)] /\ link[Hi].open
        /\ UNCHANGED <<page, sock, late, inbox, locked, there, barred, enabled, overtook, faults>>
    BY <1>1 DEF Answer
  <2>2. f \in SignalsOf(Hi) /\ f \in Frames
    <3>1. link[Hi].fresh \in BOOLEAN
      BY <1>0 DEF Links
    <3> QED BY <1>0, <3>1, FrameSets DEF Signal, SignalsOf
  <2> HIDE DEF f
  <2>3. Outs(out') /\ out'[Hi] # << >> /\ out'[Lo] = out[Lo]
    <3>1. Append(out[Hi], f) # << >>
      <4>1. out[Hi] \in Seq(Frames)
        BY <1>0
      <4> QED BY <2>2, <4>1, Boxes
    <3>2. Outs([out EXCEPT ![Hi] = Append(@, f)])
      BY <1>0, <2>2, BoxesTyped
    <3> QED BY <1>0, <2>1, <3>1, <3>2
  <2>4. /\ link' \in [Pages -> Links] /\ link'[Lo] = link[Lo] /\ link'[Hi].open = link[Hi].open
    BY <1>0, <2>1 DEF Links
  <2> QED BY <2>1, <2>3, <2>4
<1>2. ASSUME Offer
      PROVE  /\ UNCHANGED <<page, sock, locked, there, barred, enabled, overtook, faults>>
             /\ Outs(out') /\ Outs(late') /\ Ins(inbox') /\ link' \in [Pages -> Links] /\ link[Lo].open
             /\ link'[Hi].sig = link[Hi].sig /\ \A q \in Pages : link'[q].open = link[q].open
             /\ \A q \in Pages : Alike(inbox[q], inbox'[q])
             /\ out'[Lo] # << >> /\ (out'[Hi] = << >> <=> out[Hi] = << >>)
  <2> DEFINE f == Signal("offer", TRUE)
             k == Ended(Lo)
             sl == StaleEnds(link, Lo)
             o == Outdated(out, k)
  <2>1. /\ link' = [sl EXCEPT ![Lo].sig = "offered", ![Lo].making = FALSE]
        /\ late' = Outdated(late, k) /\ inbox' = Outdated(inbox, k)
        /\ out' = [o EXCEPT ![Lo] = Append(@, f)] /\ link[Lo].open
        /\ UNCHANGED <<page, sock, locked, there, barred, enabled, overtook, faults>>
    BY <1>2 DEF Offer
  <2>2. /\ f \in SignalsOf(Lo) /\ f \in Frames /\ k \in SUBSET {"offer", "answer"}
        /\ sl \in [Pages -> Links]
        /\ \A q \in Pages : sl[q].open = link[q].open /\ sl[q].sig = link[q].sig
    <3>1. f \in SignalsOf(Lo)
      BY <1>0 DEF Signal, SignalsOf
    <3> QED BY ZenonT(60), <1>0, <3>1, FrameSets, EndedKinds, StaleEndsFields
  <2> HIDE DEF f, k, sl
  <2>3. /\ Outs(o) /\ o \in [Pages -> Seq(Frames)] /\ Outs(late') /\ Ins(inbox')
        /\ \A q \in Pages : out[q] = << >> <=> o[q] = << >>
        /\ \A q \in Pages : Alike(inbox[q], inbox'[q])
    BY <1>0, <2>1, <2>2, OutdatedBoxes
  <2> HIDE DEF o
  <2>4. Outs(out') /\ out'[Lo] # << >> /\ (out'[Hi] = << >> <=> out[Hi] = << >>)
    <3>1. Append(o[Lo], f) # << >>
      <4>1. o[Lo] \in Seq(Frames)
        BY <1>0, <2>3
      <4> QED BY <2>2, <4>1, Boxes
    <3>2. Outs([o EXCEPT ![Lo] = Append(@, f)])
      BY <1>0, <2>2, <2>3, BoxesTyped
    <3> QED BY <1>0, <2>1, <2>3, <3>1, <3>2
  <2>5. link' \in [Pages -> Links] /\ link'[Lo].open = sl[Lo].open /\ link'[Hi] = sl[Hi]
    <3> DEFINE m == [[sl[Lo] EXCEPT !.sig = "offered"] EXCEPT !.making = FALSE]
    <3>1. sl[Lo] \in Links /\ \A l \in Links : [l EXCEPT !.sig = "offered"] \in Links
      BY <1>0, <2>2 DEF Links
    <3>2. m \in Links /\ m.open = sl[Lo].open
      BY <3>1 DEF Links
    <3>3. link' = [sl EXCEPT ![Lo] = m]
      BY <2>1, <2>2
    <3> HIDE DEF m
    <3> QED BY <1>0, <2>2, <3>2, <3>3
  <2> QED BY <1>0, <2>1, <2>2, <2>3, <2>4, <2>5
<1>3. ASSUME IceFails \/ PathFails \/ Reconnect
      PROVE  /\ UNCHANGED <<page, sock, netVars, locked, there, barred, enabled, overtook>>
             /\ link' \in [Pages -> Links] /\ faults' \in 0..MaxFaults
             /\ link'[Hi] = link[Hi] /\ link'[Lo].open = link[Lo].open
             /\ link'[Lo].sig = link[Lo].sig
             /\ link'[Lo].making = link[Lo].making \/ link'[Lo].making
  <2>1. /\ UNCHANGED <<page, sock, netVars, locked, there, barred, enabled, overtook>>
        /\ \/ faults' = faults
           \/ faults' = faults + 1 /\ faults < MaxFaults
    BY <1>3 DEF IceFails, PathFails, Reconnect
  <2>2. faults' \in 0..MaxFaults
    BY <1>0, <2>1, MeshAssumption
  <2>3. \/ link' = [link EXCEPT ![Lo] = [link[Lo] EXCEPT !.making = TRUE]]
        \/ link' = [link EXCEPT ![Lo] = [link[Lo] EXCEPT !.fresh = FALSE]]
    BY <1>0, <1>3 DEF IceFails, PathFails, Reconnect, Restarts
  <2>4. ASSUME NEW l \in Links
        PROVE  /\ [l EXCEPT !.making = TRUE] \in Links /\ [l EXCEPT !.fresh = FALSE] \in Links
               /\ [l EXCEPT !.making = TRUE].making
               /\ [l EXCEPT !.making = TRUE].open = l.open
               /\ [l EXCEPT !.making = TRUE].sig = l.sig
               /\ [l EXCEPT !.fresh = FALSE].making = l.making
               /\ [l EXCEPT !.fresh = FALSE].open = l.open
               /\ [l EXCEPT !.fresh = FALSE].sig = l.sig
    BY DEF Links
  <2>5. CASE link' = [link EXCEPT ![Lo] = [link[Lo] EXCEPT !.making = TRUE]]
    <3>1. link[Lo] \in Links
      BY <1>0
    <3>2. link'[Lo] = [link[Lo] EXCEPT !.making = TRUE] /\ link'[Hi] = link[Hi]
      BY <1>0, <2>5
    <3>3. link' \in [Pages -> Links]
      BY <1>0, <2>4, <2>5, <3>1
    <3> QED BY <2>1, <2>2, <2>4, <3>1, <3>2, <3>3
  <2>6. CASE link' = [link EXCEPT ![Lo] = [link[Lo] EXCEPT !.fresh = FALSE]]
    <3>1. link[Lo] \in Links
      BY <1>0
    <3>2. link'[Lo] = [link[Lo] EXCEPT !.fresh = FALSE] /\ link'[Hi] = link[Hi]
      BY <1>0, <2>6
    <3>3. link' \in [Pages -> Links]
      BY <1>0, <2>4, <2>6, <3>1
    <3> QED BY <2>1, <2>2, <2>4, <3>1, <3>2, <3>3
  <2> QED BY <2>3, <2>5, <2>6
<1>4. CASE Answer
  <2>1. \A q \in Pages : link'[q].open = link[q].open /\ Alike(inbox[q], inbox'[q])
    BY <1>0, <1>1, <1>4, AlikeItself
  <2>2. \A q \in Pages : out'[q] # << >> => out[q] # << >> \/ link[q].open
    BY <1>0, <1>1, <1>4
  <2> QED BY <1>0, <1>1, <1>4, <2>1, <2>2
<1>5. CASE Offer
  <2>1. \A q \in Pages : out'[q] # << >> => out[q] # << >> \/ link[q].open
    BY <1>0, <1>2, <1>5
  <2> QED BY <1>0, <1>2, <1>5, <2>1
<1>6. CASE IceFails \/ PathFails \/ Reconnect
  <2>1. UNCHANGED <<out, late, inbox>>
    BY <1>3, <1>6 DEF netVars
  <2> QED BY <1>0, <1>3, <1>6, <2>1, AlikeItself
<1> QED BY <1>4, <1>5, <1>6

LEMMA LinkStepsInOrder ==
    ASSUME PagesOK, Answer \/ Offer \/ IceFails \/ PathFails \/ Reconnect
    PROVE  PagesOK'
<1>1. MeshTypeOK'
  BY LinkSteps DEF PagesOK, MeshTypeOK
<1>2. ASSUME NEW q \in Pages, ~Up(q) PROVE out'[q] = << >> /\ inbox'[q] = << >>
  <2>1. out[q] = << >> /\ inbox[q] = << >> /\ ~link[q].open
    BY <1>2 DEF PagesOK, PageOK
  <2>2. out'[q] = << >>
    BY <1>2, <2>1, LinkSteps
  <2>3. Alike(inbox[q], inbox'[q]) /\ inbox[q] \in Seq(Frames) /\ inbox'[q] \in Seq(Frames)
    BY <1>2, LinkSteps DEF PagesOK, MeshTypeOK, Ins
  <2> QED BY <2>1, <2>2, <2>3, Boxes DEF Alike
<1> QED BY <1>1, <1>2, LinkSteps, StaysInOrder

LEMMA NextCases ==
    ASSUME Next
    PROVE  \/ \E p \in Pages : \/ PageDrops(p) \/ RoomNotices(p) \/ PageJoins(p)
                               \/ Relay(p) \/ RelayLate(p) \/ LateEnds(p) \/ Lock(p)
                               \/ ReadRoster(p) \/ ReadJoined(p) \/ ReadLeft(p)
                               \/ ReadOffer(p) \/ ReadAnswer(p)
           \/ Answer \/ Offer \/ IceFails \/ PathFails \/ Reconnect
BY DEF Next, Read

LEMMA OrderKept == PagesOK /\ [Next]_vars => PagesOK'
<1> SUFFICES ASSUME PagesOK, [Next]_vars PROVE PagesOK'
  OBVIOUS
<1>1. CASE UNCHANGED vars
  BY <1>1 DEF vars, netVars, viewVars, PagesOK, MeshTypeOK, Outs, Ins, PageOK, Up
<1>2. CASE Next
  BY <1>2, NextCases, DropsInOrder, NoticesInOrder, JoinsInOrder, RelaysInOrder, LocksInOrder,
     NewsInOrder, SignalsInOrder, LinkStepsInOrder
<1> QED BY <1>1, <1>2

LEMMA InOrderInitially == Init => PagesOK
<1> SUFFICES ASSUME Init PROVE PagesOK
  OBVIOUS
<1>1. \A S : << >> \in Seq(S)
  OBVIOUS
<1>2. Closed \in Links /\ ~Closed.open /\ 0 \in 0..MaxFaults
  BY OpenedFields, Names, MeshAssumption
<1>3. MeshTypeOK
  BY <1>1, <1>2 DEF Init, MeshTypeOK, Outs, Ins
<1> QED BY <1>2, <1>3 DEF Init, PagesOK, PageOK, Up

LEMMA InOrder == Spec => []PagesOK
BY InOrderInitially, OrderKept, PTL DEF Spec

-----------------------------------------------------------------------------
(* What a page knows of the other guest *)

Told(p) ==
    Up(p) => Known(inbox[p], there[p], barred[p], Member(Other(p)), locked[Other(p)])
AllTold == \A p \in Pages : Told(p)

\* A page that sees no change, and is sent none, is told as before.
LEMMA SameTold ==
    ASSUME PagesOK, NEW p \in Pages, Told(p), Alike(inbox[p], inbox'[p]),
           page'[p] = page[p], there'[p] = there[p], barred'[p] = barred[p],
           Member(Other(p))' = Member(Other(p)), locked'[Other(p)] = locked[Other(p)]
    PROVE  Told(p)'
<1>1. inbox[p] \in Seq(Frames)
  BY DEF PagesOK, MeshTypeOK, Ins
<1> QED BY <1>1, KnownAlike DEF Told, Up

\* A page that is told is told, whatever it knew.
LEMMA NewsTold ==
    ASSUME PagesOK, NEW p \in Pages, NEW f \in Frames, inbox'[p] = inbox[p] \o << f >>,
           IsNews(f), Shows(f) = Member(Other(p))', Shows(f) => f.locked = locked'[Other(p)]
    PROVE  Told(p)'
<1>1. inbox[p] \in Seq(Frames)
  BY DEF PagesOK, MeshTypeOK, Ins
<1> QED BY <1>1, KnownByNews DEF Told

LEMMA DropsTold ==
    ASSUME PagesOK, AllTold, NEW p \in Pages, PageDrops(p)
    PROVE  AllTold'
<1>1. /\ page' = [page EXCEPT ![p] = "down"] /\ sock' = [sock EXCEPT ![p] = "dead"]
      /\ there' = [there EXCEPT ![p] = FALSE] /\ barred' = [barred EXCEPT ![p] = FALSE]
      /\ inbox' = [Outdated(inbox, Ended(p)) EXCEPT ![p] = << >>] /\ locked' = locked /\ Up(p)
  BY DEF PageDrops
<1>2. ASSUME NEW q \in Pages PROVE Told(q)'
  <2>1. CASE q = p
    BY <1>1, <2>1 DEF Told, Up, PagesOK, MeshTypeOK
  <2>2. CASE q # p
    <3>1. Other(q) = p
      BY <2>2, Names
    <3>2. Alike(inbox[q], inbox'[q])
      <4>1. /\ Outdated(inbox, Ended(p)) \in [Pages -> Seq(Frames)]
            /\ Alike(inbox[q], Outdated(inbox, Ended(p))[q])
        BY EndedKinds, OutdatedBoxes DEF PagesOK, MeshTypeOK, Ins
      <4> QED BY <1>1, <2>2, <4>1
    <3>3. Member(p)' = Member(p)
      BY <1>1 DEF Member, PagesOK, MeshTypeOK, PageOK
    <3> QED BY <1>1, <2>2, <3>1, <3>2, <3>3, SameTold DEF AllTold, PagesOK, MeshTypeOK
  <2> QED BY <2>1, <2>2
<1> QED BY <1>2 DEF AllTold

LEMMA NoticesTold ==
    ASSUME PagesOK, AllTold, NEW p \in Pages, RoomNotices(p)
    PROVE  AllTold'
<1> DEFINE f == [t |-> "left"]
<1>1. /\ sock[p] = "dead" /\ sock' = [sock EXCEPT ![p] = "none"] /\ ~Up(p)
      /\ inbox' = Deliver(inbox, Other(p), <<f>>)
      /\ UNCHANGED <<page, locked, there, barred>>
  BY DEF RoomNotices, viewVars
<1>2. /\ f \in FramesFor(Other(p)) /\ IsNews(f) /\ ~Shows(f) /\ Other(p) \in Pages /\ f \in Frames
  BY Names, RoomFrames, FrameSets
<1> HIDE DEF f
<1>3. inbox'[Other(p)] = IF Up(Other(p)) THEN inbox[Other(p)] \o <<f>> ELSE inbox[Other(p)]
  BY <1>1, <1>2, DeliveredInOrder
<1>4. ASSUME NEW q \in Pages PROVE Told(q)'
  <2>1. CASE q = p \/ ~Up(q)
    BY <1>1, <2>1 DEF Told, Up
  <2>2. CASE q # p /\ Up(q)
    <3>1. Other(q) = p /\ q = Other(p)
      BY <2>2, Names
    <3>2. Member(Other(q))' = FALSE /\ Shows(f) = FALSE
      BY <1>1, <1>2, <3>1 DEF Member, PagesOK, MeshTypeOK, Shows
    <3>3. inbox'[q] = inbox[q] \o <<f>>
      BY <1>3, <2>2, <3>1
    <3> QED BY <1>2, <3>2, <3>3, NewsTold
  <2> QED BY <2>1, <2>2
<1> QED BY <1>4 DEF AllTold

LEMMA JoinsTold ==
    ASSUME PagesOK, AllTold, NEW p \in Pages, PageJoins(p)
    PROVE  AllTold'
<1> DEFINE o == Other(p)
           f == [t |-> "joined", locked |-> locked[p]]
           told == IF Member(p) THEN inbox ELSE Deliver(inbox, o, <<f>>)
           g == Roster(Member(o), locked[o])
<1>1. /\ page' = [page EXCEPT ![p] = "up"] /\ sock' = [sock EXCEPT ![p] = "live"] /\ ~Up(p)
      /\ inbox' = [told EXCEPT ![p] = << g >>]
      /\ UNCHANGED <<locked, there, barred>>
  BY DEF PageJoins, viewVars
<1>2. /\ o \in Pages /\ o # p /\ Other(o) = p
      /\ \A q \in Pages : q = p \/ q = o
  BY Names
<1>3. /\ f \in FramesFor(o) /\ IsNews(f) /\ Shows(f) /\ f \in Frames /\ f.locked = locked[p]
      /\ g \in Frames /\ IsNews(g) /\ Shows(g) = Member(o) /\ g.locked = locked[o]
  <2>1. locked[p] \in BOOLEAN /\ locked[o] \in BOOLEAN /\ Member(o) \in BOOLEAN
    BY <1>2 DEF PagesOK, MeshTypeOK, Member
  <2> QED BY <1>2, <2>1, RoomFrames, FrameSets
<1>4. /\ told \in [Pages -> Seq(Frames)]
      /\ told[o] = IF ~Member(p) /\ Up(o) THEN inbox[o] \o <<f>> ELSE inbox[o]
  <2>1. Ins(inbox) /\ (Up(o) <=> sock[o] = "live")
    BY <1>2 DEF PagesOK, MeshTypeOK, PageOK
  <2> HIDE DEF f, o
  <2>2. /\ Ins(Deliver(inbox, o, <<f>>))
        /\ Deliver(inbox, o, <<f>>)[o] = IF sock[o] = "live" THEN inbox[o] \o <<f>> ELSE inbox[o]
    BY <1>2, <1>3, <2>1, DeliverTyped
  <2>3. told[o] = IF ~Member(p) /\ Up(o) THEN inbox[o] \o <<f>> ELSE inbox[o]
    BY <2>1, <2>2
  <2>4. Ins(told)
    BY <2>1, <2>2
  <2> QED BY <2>3, <2>4 DEF Ins
<1> HIDE DEF told, f, g, o
<1>5. inbox'[p] = << g >> /\ inbox'[o] = told[o]
  BY <1>1, <1>2, <1>4
<1>6. /\ Member(p)' = TRUE /\ Member(o)' = Member(o)
  BY <1>1, <1>2 DEF Member, PagesOK, MeshTypeOK
<1>7. Told(p)'
  <2>1. << >> \in Seq(Frames) /\ << g >> = << >> \o << g >>
    BY <1>3
  <2>2. Known(<< g >>, there'[p], barred'[p], Member(o)', locked'[o])
    BY <1>1, <1>3, <1>6, <2>1, KnownByNews
  <2> QED BY <1>5, <2>2 DEF Told, o
<1>8. Told(o)'
  <2>1. CASE ~Member(p) /\ Up(o)
    <3>1. /\ inbox'[o] = inbox[o] \o <<f>> /\ Member(Other(o))' = TRUE
          /\ f.locked = locked'[Other(o)] /\ Shows(f) = TRUE
      BY <1>1, <1>2, <1>3, <1>4, <1>5, <1>6, <2>1 DEF Shows
    <3> QED BY <1>2, <1>3, <3>1, NewsTold
  <2>2. CASE ~(~Member(p) /\ Up(o))
    <3>1. CASE ~Up(o)
      BY <1>1, <1>2, <3>1 DEF Told, Up, PagesOK, MeshTypeOK
    <3>2. CASE Up(o)
      <4>1. inbox'[o] = inbox[o] /\ Member(p)' = Member(p)
        BY <1>4, <1>5, <1>6, <2>2, <3>2 DEF Member
      <4>2. page'[o] = page[o]
        BY <1>1, <1>2 DEF PagesOK, MeshTypeOK
      <4> QED BY <1>1, <1>2, <4>1, <4>2, AlikeItself, SameTold DEF AllTold
    <3> QED BY <3>1, <3>2
  <2> QED BY <2>1, <2>2
<1> QED BY <1>2, <1>7, <1>8 DEF AllTold

LEMMA RelaysTold ==
    ASSUME PagesOK, AllTold, NEW p \in Pages, Relay(p) \/ RelayLate(p) \/ LateEnds(p)
    PROVE  AllTold'
<1>1. UNCHANGED <<page, sock, locked, there, barred>>
  BY DEF Relay, RelayLate, LateEnds, viewVars
<1>2. ASSUME NEW f \in SignalsOf(p), inbox' = Deliver(inbox, Other(p), <<f>>)
      PROVE  AllTold'
  <2>1. Other(p) \in Pages /\ f \in FramesFor(Other(p)) /\ f \in Frames /\ ~IsNews(f)
    BY Names, FrameSets
  <2>2. /\ inbox'[Other(p)] = IF Up(Other(p)) THEN inbox[Other(p)] \o <<f>> ELSE inbox[Other(p)]
        /\ \A q \in Pages \ {Other(p)} : inbox'[q] = inbox[q]
    BY <1>2, <2>1, DeliveredInOrder
  <2>3. ASSUME NEW q \in Pages PROVE Told(q)'
    <3>1. CASE inbox'[q] = inbox[q]
      BY <1>1, <3>1 DEF AllTold, Told, Up, Member
    <3>2. CASE inbox'[q] = inbox[q] \o <<f>>
      <4>1. inbox[q] \in Seq(Frames)
        BY DEF PagesOK, MeshTypeOK, Ins
      <4> QED BY <1>1, <2>1, <3>2, <4>1, KnownBySignal DEF AllTold, Told, Up, Member
    <3> QED BY <2>2, <3>1, <3>2
  <2> QED BY <2>3 DEF AllTold
<1>3. CASE Relay(p)
  <2>1. Head(out[p]) \in SignalsOf(p) /\ inbox' = Deliver(inbox, Other(p), << Head(out[p]) >>)
    BY <1>3, BoxesTyped DEF Relay, PagesOK, MeshTypeOK
  <2> QED BY <1>2, <2>1
<1>4. CASE RelayLate(p)
  <2>1. Head(late[p]) \in SignalsOf(p) /\ inbox' = Deliver(inbox, Other(p), << Head(late[p]) >>)
    BY <1>4, BoxesTyped DEF RelayLate, PagesOK, MeshTypeOK
  <2> QED BY <1>2, <2>1
<1>5. CASE LateEnds(p)
  <2>1. inbox' = inbox
    BY <1>5 DEF LateEnds
  <2> QED BY <1>1, <2>1 DEF AllTold, Told, Up, Member
<1> QED BY <1>3, <1>4, <1>5

LEMMA LocksTold ==
    ASSUME PagesOK, AllTold, NEW p \in Pages, Lock(p)
    PROVE  AllTold'
<1> SUFFICES ASSUME NEW q \in Pages, Up(q)' PROVE Told(q)'
  BY DEF AllTold, Told
<1>1. /\ inbox'[q] = inbox[q] \o << RosterFor(q) >> /\ RosterFor(q) \in Frames
      /\ UNCHANGED <<page, sock>> /\ locked' \in [Pages -> BOOLEAN]
  BY LockSends, FrameSets DEF Up
<1>2. IsNews(RosterFor(q)) /\ Shows(RosterFor(q)) = Member(Other(q))' /\ RosterFor(q).locked = locked'[Other(q)]
  <2>1. Other(q) \in Pages /\ Member(Other(q)) \in BOOLEAN /\ locked'[Other(q)] \in BOOLEAN
    BY <1>1, Names DEF Member
  <2> QED BY <1>1, <2>1, RoomFrames DEF RosterFor, Member
<1> QED BY <1>1, <1>2, NewsTold

LEMMA NewsReadTold ==
    ASSUME PagesOK, PagesOK', AllTold, NEW p \in Pages, ReadRoster(p) \/ ReadJoined(p) \/ ReadLeft(p)
    PROVE  AllTold'
<1> DEFINE is == Shows(Head(inbox[p]))
<1>0. /\ Up(p) /\ UNCHANGED <<page, sock, locked>> /\ inbox[p] # << >> /\ IsNews(Head(inbox[p]))
  BY NewsRead
<1>1. PICK lock \in BOOLEAN : Learns(p, is, lock) /\ (is => lock = Head(inbox[p]).locked)
  BY NewsRead
<1>2. ASSUME NEW q \in Pages PROVE Told(q)'
  <2>1. CASE q = p
    <3>1. /\ inbox[p] \in Seq(Frames) /\ Tail(inbox[p]) \in Seq(Frames)
          /\ there'[p] = is /\ barred'[p] = (is /\ lock)
          /\ Alike(Tail(inbox[p]), inbox'[p])
      BY <1>0, <1>1, Boxes DEF Learns, PagesOK, MeshTypeOK, Ins
    <3>2. is => barred'[p] = Head(inbox[p]).locked
      BY <1>1, <3>1
    <3>3. Known(Tail(inbox[p]), there'[p], barred'[p], Member(Other(p)), locked[Other(p)])
      BY <1>0, <3>1, <3>2, KnownTail DEF AllTold, Told
    <3>4. Known(inbox'[p], there'[p], barred'[p], Member(Other(p)), locked[Other(p)])
      BY <3>1, <3>3, KnownAlike
    <3> QED BY <1>0, <2>1, <3>4 DEF Told, Member
  <2>2. CASE q # p
    BY <1>0, <1>1, <2>2, SameTold DEF Learns, AllTold, PagesOK, MeshTypeOK, Member
  <2> QED BY <2>1, <2>2
<1> QED BY <1>2 DEF AllTold

LEMMA SignalsTold ==
    ASSUME PagesOK, AllTold, NEW p \in Pages, ReadOffer(p) \/ ReadAnswer(p)
    PROVE  AllTold'
<1>1. UNCHANGED <<page, sock, locked, there, barred>>
  BY OfferRead, AnswerRead
<1>2. ASSUME NEW q \in Pages, inbox[q] # << >>, ~IsNews(Head(inbox[q])),
             Alike(Tail(inbox[q]), inbox'[q])
      PROVE  Told(q)'
  <2>1. inbox[q] \in Seq(Frames) /\ Tail(inbox[q]) \in Seq(Frames)
    BY <1>2, Boxes DEF PagesOK, MeshTypeOK, Ins
  <2>2. Up(q) => Known(Tail(inbox[q]), there[q], barred[q], Member(Other(q)), locked[Other(q)])
    BY <1>2, <2>1, KnownTail DEF AllTold, Told
  <2> QED BY <1>1, <1>2, <2>1, <2>2, KnownAlike DEF Told, Up, Member
<1>3. ASSUME NEW q \in Pages, Alike(inbox[q], inbox'[q])
      PROVE  Told(q)'
  BY <1>1, <1>3, SameTold DEF AllTold, Member
<1>4. Told(Lo)' /\ Told(Hi)'
  <2>1. CASE ReadOffer(p)
    BY <1>2, <1>3, <2>1, Names, OfferRead
  <2>2. CASE ReadAnswer(p)
    BY <1>2, <1>3, <2>2, Names, AnswerRead, AlikeItself
  <2> QED BY <2>1, <2>2
<1> QED BY <1>4, Names DEF AllTold

LEMMA ToldKept == PagesOK /\ PagesOK' /\ AllTold /\ [Next]_vars => AllTold'
<1> SUFFICES ASSUME PagesOK, PagesOK', AllTold, [Next]_vars PROVE AllTold'
  OBVIOUS
<1>1. CASE UNCHANGED vars
  BY <1>1 DEF vars, netVars, viewVars, AllTold, Told, Up, Member
<1>2. CASE Answer \/ Offer \/ IceFails \/ PathFails \/ Reconnect
  <2>1. ASSUME NEW q \in Pages PROVE Told(q)'
    BY <1>2, LinkSteps, SameTold DEF AllTold, Member
  <2> QED BY <2>1 DEF AllTold
<1>3. CASE Next
  BY <1>2, <1>3, NextCases, DropsTold, NoticesTold, JoinsTold, RelaysTold, LocksTold,
     NewsReadTold, SignalsTold
<1> QED BY <1>1, <1>3

LEMMA ToldAlways == Spec => []AllTold
<1>1. Init => AllTold
  BY DEF Init, AllTold, Told, Up
<1> QED BY <1>1, ToldKept, InOrder, PTL DEF Spec

\* setLocks, _applyLocks: once a page has read all it was sent, it shows nothing of a
\* guest whose camera is locked, however locks, tracks, drops and returns interleaved.
THEOREM LockedAreHidden == Spec => []LockedIsHidden
<1>1. PagesOK /\ AllTold => LockedIsHidden
  <2> SUFFICES ASSUME PagesOK, AllTold, NEW p \in Pages, Up(p), inbox[p] = << >>,
                      link[p].open, locked[Other(p)]
               PROVE  ~enabled[p]
    BY DEF LockedIsHidden
  <2>1. Known(inbox[p], there[p], barred[p], Member(Other(p)), locked[Other(p)]) /\ Len(inbox[p]) = 0
    BY DEF AllTold, Told
  <2>2. there[p] => barred[p] = locked[Other(p)]
    <3>1. PICK j \in 0..Len(inbox[p]) :
             KnownAt(inbox[p], j, there[p], barred[p], Member(Other(p)), locked[Other(p)])
      BY <2>1 DEF Known
    <3>2. j = 0
      BY <2>1, <3>1
    <3> QED BY <3>1, <3>2 DEF KnownAt
  <2> QED BY <2>2 DEF PagesOK, PageOK
<1> QED BY <1>1, InOrder, ToldAlways, PTL

-----------------------------------------------------------------------------
(* An offer is answered *)

Answered(box) == \E i \in 1..Len(box) : box[i].t = "answer"

\* The offer is on its way, or its answer is being made or on its way.
Pending ==
    \/ out[Lo] # << >>
    \/ Heard(inbox[Hi], link[Hi].open)
    \/ link[Hi].open /\ link[Hi].sig = "got" /\ Stays(inbox[Hi], 0)
    \/ out[Hi] # << >>
    \/ Answered(inbox[Lo])

\* Lo waits for an answer of a page that is there, and is not to be told that it went.
Awaited ==
    /\ link[Lo].open /\ link[Lo].sig = "offered" /\ ~link[Lo].making
    /\ Up(Hi) /\ ~overtook /\ Stays(inbox[Lo], 0)
AwaitedPending == Awaited => Pending

LEMMA AnsweredFacts ==
    ASSUME NEW b \in Seq(Frames)
    PROVE  /\ \A c : Alike(b, c) /\ Answered(b) => Answered(c)
           /\ \A f \in Frames : Answered(b) \/ f.t = "answer" => Answered(b \o <<f>>)
           /\ b # << >> /\ Answered(b) /\ Head(b).t # "answer" => Answered(Tail(b))
<1>1. Len(b) \in Nat
  OBVIOUS
<1>2. ASSUME NEW c, Alike(b, c), Answered(b) PROVE Answered(c)
  BY <1>2 DEF Alike, Answered
<1>3. ASSUME NEW f \in Frames, Answered(b) \/ f.t = "answer" PROVE Answered(b \o <<f>>)
  <2> DEFINE c == b \o <<f>>
  <2>1. /\ Len(c) = Len(b) + 1 /\ c[Len(b) + 1] = f
        /\ \A k \in 1..Len(b) : c[k] = b[k]
    BY Boxes
  <2> HIDE DEF c
  <2>2. Answered(c)
    BY <1>1, <1>3, <2>1 DEF Answered
  <2> QED BY <2>2 DEF c
<1>4. ASSUME b # << >>, Answered(b), Head(b).t # "answer" PROVE Answered(Tail(b))
  <2> DEFINE c == Tail(b)
  <2>1. /\ Len(c) = Len(b) - 1 /\ Head(b) = b[1] /\ \A k \in 1..(Len(b) - 1) : c[k] = b[k + 1]
    BY <1>4, Boxes
  <2> HIDE DEF c
  <2>2. PICK i \in 1..Len(b) : b[i].t = "answer"
    BY <1>4 DEF Answered
  <2>3. i - 1 \in 1..Len(c) /\ c[i - 1] = b[i]
    BY <1>1, <1>4, <2>1, <2>2
  <2>4. Answered(c)
    BY <2>2, <2>3 DEF Answered
  <2> QED BY <2>4 DEF c
<1> QED BY <1>2, <1>3, <1>4

LEMMA StaysBefore ==
    ASSUME NEW b \in Seq(Frames)
    PROVE  /\ \A f \in Frames : Stays(b \o <<f>>, 0) => Stays(b, 0)
           /\ b # << >> /\ Stays(Tail(b), 0) /\ (IsNews(Head(b)) => Shows(Head(b))) => Stays(b, 0)
<1>1. ASSUME NEW f \in Frames, Stays(b \o <<f>>, 0) PROVE Stays(b, 0)
  <2> DEFINE c == b \o <<f>>
  <2>1. Len(b) \in Nat /\ Len(c) = Len(b) + 1 /\ \A k \in 1..Len(b) : c[k] = b[k]
    BY Boxes
  <2>2. Stays(c, 0)
    BY <1>1
  <2> HIDE DEF c
  <2> QED BY <2>1, <2>2 DEF Stays
<1>2. ASSUME b # << >>, Stays(Tail(b), 0), IsNews(Head(b)) => Shows(Head(b)) PROVE Stays(b, 0)
  <2> DEFINE c == Tail(b)
  <2>1. /\ Len(b) \in Nat /\ Len(c) = Len(b) - 1 /\ Head(b) = b[1] /\ Len(b) > 0
        /\ \A k \in 1..(Len(b) - 1) : c[k] = b[k + 1]
    BY <1>2, Boxes
  <2>2. Stays(c, 0)
    BY <1>2
  <2> HIDE DEF c
  <2> SUFFICES ASSUME NEW k \in 1..Len(b) PROVE IsNews(b[k]) => Shows(b[k])
    BY DEF Stays
  <2>3. CASE k = 1
    BY <1>2, <2>1, <2>3
  <2>4. CASE k # 1
    <3>1. k - 1 \in 1..Len(c) /\ c[k - 1] = b[k]
      BY <2>1, <2>4
    <3> QED BY <2>2, <3>1 DEF Stays
  <2> QED BY <2>3, <2>4
<1> QED BY <1>1, <1>2

LEMMA BoxesAre ==
    PagesOK => /\ inbox[Lo] \in Seq(Frames) /\ inbox[Hi] \in Seq(Frames)
               /\ Lo \in Pages /\ Hi \in Pages
BY Names DEF PagesOK, MeshTypeOK, Ins

LEMMA DropsAwaited ==
    ASSUME PagesOK, NEW p \in Pages, PageDrops(p) \/ RoomNotices(p)
    PROVE  ~Awaited'
<1>0. Hi \in Pages /\ Lo \in Pages /\ (p = Lo \/ p = Hi) /\ Lo # Hi
  BY Names
<1>1. CASE PageDrops(p)
  <2>1. page' = [page EXCEPT ![p] = "down"] /\ link' = [StaleEnds(link, p) EXCEPT ![p] = Closed]
    BY <1>1 DEF PageDrops
  <2>2. page'[p] = "down" /\ link'[p] = Closed
    BY <2>1, StaleEndsFields DEF PagesOK, MeshTypeOK
  <2> QED BY <1>0, <2>2 DEF Awaited, Up, Closed
<1>2. CASE RoomNotices(p)
  <2>1. page' = page /\ link' = link /\ ~Up(p)
    BY <1>2 DEF RoomNotices, viewVars
  <2> QED BY <1>0, <2>1 DEF Awaited, Up, PagesOK, PageOK
<1> QED BY <1>1, <1>2

LEMMA JoinsAwaited ==
    ASSUME PagesOK, AllTold, NEW p \in Pages, PageJoins(p)
    PROVE  ~Awaited'
<1> SUFFICES ASSUME Awaited' PROVE FALSE
  OBVIOUS
<1>0. Hi \in Pages /\ Lo \in Pages /\ (p = Lo \/ p = Hi) /\ Lo # Hi /\ Other(Hi) = Lo /\ Other(Lo) = Hi
  BY Names
<1> DEFINE f == [t |-> "joined", locked |-> locked[p]]
           told == IF Member(p) THEN inbox ELSE Deliver(inbox, Other(p), <<f>>)
           g == Roster(Member(Other(p)), locked[Other(p)])
<1>1. /\ ~Up(p) /\ inbox' = [told EXCEPT ![p] = << g >>]
      /\ overtook' = (overtook \/ (p = Hi /\ Member(p))) /\ link' = link
  BY DEF PageJoins, viewVars
<1>2. link[Lo].open /\ Up(Lo) /\ there[Lo]
  BY <1>0, <1>1 DEF Awaited, PagesOK, PageOK
<1>3. p = Hi /\ ~Member(Hi)
  BY <1>0, <1>1, <1>2 DEF Awaited
<1>4. /\ f \in FramesFor(Lo) /\ f \in Frames
  <2>1. locked[p] \in BOOLEAN
    BY DEF PagesOK, MeshTypeOK
  <2> QED BY <1>0, <2>1, RoomFrames, FrameSets
<1> HIDE DEF f, g
<1>5. inbox'[Lo] = inbox[Lo] \o <<f>>
  <2>1. Ins(inbox) /\ sock[Lo] = "live"
    BY <1>0, <1>2 DEF PagesOK, MeshTypeOK, PageOK
  <2>2. /\ Ins(Deliver(inbox, Lo, <<f>>))
        /\ Deliver(inbox, Lo, <<f>>)[Lo] = inbox[Lo] \o <<f>>
    BY <1>0, <1>4, <2>1, DeliverTyped
  <2>3. inbox' = [Deliver(inbox, Lo, <<f>>) EXCEPT ![Hi] = << g >>]
    BY <1>0, <1>1, <1>3
  <2> QED BY <1>0, <2>2, <2>3 DEF Ins
<1>6. Stays(inbox[Lo], 0)
  BY <1>4, <1>5, BoxesAre, StaysBefore DEF Awaited
<1>7. Known(inbox[Lo], there[Lo], barred[Lo], FALSE, locked[Hi])
  <2>1. Known(inbox[Lo], there[Lo], barred[Lo], Member(Hi), locked[Hi])
    BY <1>0, <1>2 DEF AllTold, Told
  <2>2. Member(Hi) = FALSE
    BY <1>3 DEF Member
  <2> QED BY <2>1, <2>2
<1> QED BY <1>2, <1>6, <1>7, BoxesAre, GoneIsTold

\* Where the links stay as they were and a frame is added that sends nobody away, what
\* is awaited was, and is still pending unless it is what was sent.
LEMMA AddedPending ==
    ASSUME PagesOK, AwaitedPending, Awaited',
           UNCHANGED <<page, link, overtook>>, NEW q \in Pages, NEW f \in Frames,
           inbox'[q] = inbox[q] \/ inbox'[q] = inbox[q] \o <<f>>,
           inbox'[Other(q)] = inbox[Other(q)] \/
              \E h \in Frames : /\ inbox'[Other(q)] = inbox[Other(q)] \o <<h>>
                                /\ IsNews(h) => Shows(h),
           IsNews(f) => Shows(f)
    PROVE  Awaited /\ (out' = out => Pending')
<1>0. /\ inbox[Lo] \in Seq(Frames) /\ inbox[Hi] \in Seq(Frames)
      /\ (q = Lo /\ Other(q) = Hi) \/ (q = Hi /\ Other(q) = Lo)
  BY BoxesAre, Names
<1>1. \A c \in {Lo, Hi} : \/ inbox'[c] = inbox[c]
                          \/ \E h \in Frames : /\ inbox'[c] = inbox[c] \o <<h>>
                                               /\ IsNews(h) => Shows(h)
  BY <1>0
<1>2. Stays(inbox[Lo], 0)
  <2>1. Stays(inbox'[Lo], 0)
    BY DEF Awaited
  <2>2. CASE inbox'[Lo] = inbox[Lo]
    BY <2>1, <2>2
  <2>3. ASSUME NEW h \in Frames, inbox'[Lo] = inbox[Lo] \o <<h>> PROVE Stays(inbox[Lo], 0)
    <3>1. Stays(inbox[Lo] \o <<h>>, 0)
      BY <2>1, <2>3
    <3> QED BY <1>0, <3>1, StaysBefore
  <2> QED BY <1>1, <2>2, <2>3
<1>3. Awaited
  BY <1>2 DEF Awaited, Up
<1>4. ASSUME out' = out PROVE Pending'
  <2>1. Heard(inbox[Hi], link[Hi].open) => Heard(inbox'[Hi], link'[Hi].open)
    BY <1>0, <1>1, HeardAppended
  <2>2. Stays(inbox[Hi], 0) => Stays(inbox'[Hi], 0)
    <3>1. 0 \in 0..Len(inbox[Hi])
      BY <1>0, Boxes
    <3>2. ASSUME NEW h \in Frames, inbox'[Hi] = inbox[Hi] \o <<h>>, IsNews(h) => Shows(h)
          PROVE  Stays(inbox[Hi], 0) => Stays(inbox'[Hi], 0)
      BY <1>0, <3>1, <3>2, StaysAppended
    <3> QED BY <1>1, <3>2
  <2>3. Answered(inbox[Lo]) => Answered(inbox'[Lo])
    BY <1>0, <1>1, AnsweredFacts
  <2> QED BY <1>3, <1>4, <2>1, <2>2, <2>3 DEF AwaitedPending, Pending
<1> QED BY <1>3, <1>4

LEMMA RelaysPending ==
    ASSUME PagesOK, AllTold, AwaitedPending, NEW p \in Pages,
           Relay(p) \/ RelayLate(p) \/ LateEnds(p), Awaited'
    PROVE  Pending'
<1>0. /\ UNCHANGED <<page, sock, locked, link, there, barred, overtook>>
      /\ (p = Lo /\ Other(p) = Hi) \/ (p = Hi /\ Other(p) = Lo)
      /\ Other(p) \in Pages /\ Other(Other(p)) = p /\ Other(p) # p
      /\ Outs(out) /\ Outs(late) /\ inbox[Lo] \in Seq(Frames) /\ inbox[Hi] \in Seq(Frames)
      /\ Lo \in Pages /\ Hi \in Pages
  BY Names, BoxesAre DEF Relay, RelayLate, LateEnds, viewVars, PagesOK, MeshTypeOK
<1>1. Up(Lo) /\ Up(Hi)
  BY <1>0 DEF Awaited, Up, PagesOK, PageOK
<1>2. ASSUME NEW f \in SignalsOf(p), inbox' = Deliver(inbox, Other(p), <<f>>)
      PROVE  /\ f \in Frames /\ ~IsNews(f) /\ f.t = (IF p = Lo THEN "offer" ELSE "answer")
             /\ inbox'[Other(p)] = inbox[Other(p)] \o <<f>> /\ inbox'[p] = inbox[p]
  <2>1. f \in Frames /\ ~IsNews(f) /\ f \in FramesFor(Other(p))
    BY <1>0, FrameSets
  <2>2. f.t = (IF p = Lo THEN "offer" ELSE "answer")
    BY DEF SignalsOf
  <2> QED BY <1>0, <1>1, <1>2, <2>1, <2>2, DeliveredInOrder
<1>3. ASSUME NEW f \in SignalsOf(p), inbox' = Deliver(inbox, Other(p), <<f>>), p = Hi
      PROVE  Pending'
  <2>1. f \in Frames /\ f.t = "answer" /\ inbox'[Lo] = inbox[Lo] \o <<f>>
    BY <1>0, <1>2, <1>3, Names
  <2>2. Answered(inbox[Lo] \o <<f>>)
    BY <1>0, <2>1, AnsweredFacts
  <2>3. Answered(inbox'[Lo])
    BY <2>1, <2>2
  <2> QED BY <2>3 DEF Pending
<1>4. CASE Relay(p)
  <2>1. Head(out[p]) \in SignalsOf(p) /\ inbox' = Deliver(inbox, Other(p), << Head(out[p]) >>)
    BY <1>0, <1>4, BoxesTyped DEF Relay
  <2>2. CASE p = Lo
    <3> DEFINE f == Head(out[p])
    <3>1. /\ f \in Frames /\ f.t = "offer" /\ inbox'[Hi] = inbox[Hi] \o <<f>>
      BY <1>0, <1>2, <2>1, <2>2
    <3>2. Known(inbox[Hi], there[Hi], barred[Hi], Member(Lo), locked[Lo])
      BY <1>0, <1>1, Names DEF AllTold, Told
    <3>3. Member(Lo) = TRUE /\ there[Hi] = link[Hi].open /\ link[Hi].open \in BOOLEAN
      BY <1>0, <1>1 DEF Member, PagesOK, MeshTypeOK, PageOK, Links
    <3> HIDE DEF f
    <3>4. Heard(inbox'[Hi], link'[Hi].open)
      BY <1>0, <3>1, <3>2, <3>3, HeardOnArrival
    <3> QED BY <3>4 DEF Pending
  <2>3. CASE p = Hi
    BY <1>3, <2>1, <2>3
  <2> QED BY <1>0, <2>2, <2>3
<1>5. CASE RelayLate(p)
  <2>1. /\ Head(late[p]) \in SignalsOf(p) /\ inbox' = Deliver(inbox, Other(p), << Head(late[p]) >>)
        /\ out' = out
    BY <1>0, <1>5, BoxesTyped DEF RelayLate
  <2> DEFINE f == Head(late[p])
  <2>2. /\ f \in Frames /\ ~IsNews(f) /\ inbox'[Other(p)] = inbox[Other(p)] \o <<f>>
        /\ inbox'[p] = inbox[p]
    BY <1>2, <2>1
  <2> HIDE DEF f
  <2> QED BY <1>0, <2>1, <2>2, AddedPending
<1>6. CASE LateEnds(p)
  <2>1. inbox' = inbox /\ out' = out
    BY <1>6 DEF LateEnds
  <2> QED BY <1>0, <2>1 DEF AwaitedPending, Awaited, Pending, Up
<1> QED BY <1>4, <1>5, <1>6

LEMMA LocksPending ==
    ASSUME PagesOK, AwaitedPending, NEW p \in Pages, Lock(p), Awaited'
    PROVE  Pending'
<1>0. /\ UNCHANGED <<page, sock, link, overtook, out>>
      /\ Lo \in Pages /\ Hi \in Pages /\ Other(Lo) = Hi /\ Other(Hi) = Lo
  BY Names, LockSends DEF viewVars
<1>1. Up(Lo) /\ Up(Hi) /\ Member(Lo) = TRUE /\ Member(Hi) = TRUE
  BY <1>0 DEF Awaited, Up, PagesOK, MeshTypeOK, PageOK, Member
<1>2. ASSUME NEW q \in Pages
      PROVE  /\ inbox'[q] = inbox[q] \o << RosterFor(q) >> /\ RosterFor(q) \in Frames
             /\ Shows(RosterFor(q))
  <2>1. q = Lo \/ q = Hi
    BY Names
  <2>2. /\ inbox'[q] = inbox[q] \o << RosterFor(q) >> /\ RosterFor(q) \in Frames
        /\ locked'[Other(q)] \in BOOLEAN /\ Member(Other(q)) = TRUE
    BY <1>0, <1>1, <2>1, LockSends, FrameSets
  <2>3. Shows(Roster(TRUE, locked'[Other(q)]))
    BY <2>2, RoomFrames
  <2> QED BY <2>2, <2>3 DEF RosterFor
<1> QED BY <1>0, <1>2, AddedPending

LEMMA NewsPending ==
    ASSUME PagesOK, AwaitedPending, NEW p \in Pages,
           ReadRoster(p) \/ ReadJoined(p) \/ ReadLeft(p), Awaited'
    PROVE  Pending'
<1> DEFINE is == Shows(Head(inbox[p]))
<1>0. /\ Up(p) /\ UNCHANGED page /\ inbox[p] # << >> /\ IsNews(Head(inbox[p])) /\ is \in BOOLEAN
  BY NewsRead DEF Shows
<1>1. PICK lock \in BOOLEAN : Learns(p, is, lock)
  BY NewsRead
<1>2. /\ (p = Lo /\ Hi \in Pages \ {p}) \/ (p = Hi /\ Lo \in Pages \ {p})
      /\ Lo \in Pages /\ Hi \in Pages /\ Lo # Hi
      /\ inbox[Lo] \in Seq(Frames) /\ inbox[Hi] \in Seq(Frames)
      /\ Tail(inbox[p]) \in Seq(Frames)
      /\ link[Hi].open \in BOOLEAN
  <2>1. Tail(inbox[p]) \in Seq(Frames)
    BY <1>0, Boxes DEF PagesOK, MeshTypeOK, Ins
  <2> QED BY <2>1, Names, BoxesAre DEF PagesOK, MeshTypeOK, Links
<1> USE DEF Learns
<1>3. /\ out[Lo] # << >> => out'[Lo] # << >>
      /\ out[Hi] # << >> => out'[Hi] # << >>
  BY <1>1, <1>2
<1>4. 0 \in 0..Len(inbox[Lo]) /\ 0 \in 0..Len(inbox[Hi]) /\ 0 \in 0..Len(Tail(inbox[p]))
  BY <1>2, Boxes
<1>5. CASE p = Lo
  <2>1. link'[Lo].open = is /\ link'[Lo].sig = "offered"
    BY <1>1, <1>5 DEF Awaited
  <2>2. is /\ link[Lo].open /\ link'[Lo] = link[Lo]
    BY <1>1, <1>5, <2>1 DEF Awaited
  <2>3. overtook' = overtook
    BY <1>1, <1>5, <2>2 DEF PagesOK, MeshTypeOK
  <2>4. Stays(inbox[Lo], 0)
    <3>1. Stays(Tail(inbox[Lo]), 0)
      BY <1>1, <1>2, <1>4, <1>5, StaysAlike DEF Awaited
    <3> QED BY <1>0, <1>2, <1>5, <2>2, <3>1, StaysBefore
  <2>5. Awaited
    BY <1>0, <2>2, <2>3, <2>4 DEF Awaited, Up
  <2>6. /\ link'[Hi].open = link[Hi].open /\ link'[Hi].sig = link[Hi].sig
        /\ Alike(inbox[Hi], inbox'[Hi])
    BY <1>1, <1>2, <1>5
  <2>7. /\ Heard(inbox[Hi], link[Hi].open) => Heard(inbox'[Hi], link'[Hi].open)
        /\ Stays(inbox[Hi], 0) => Stays(inbox'[Hi], 0)
    BY <1>2, <1>4, <2>6, HeardAlike, StaysAlike
  <2>8. Answered(inbox[Lo]) => Answered(inbox'[Lo])
    <3>1. Head(inbox[Lo]).t # "answer"
      BY <1>0, <1>5 DEF IsNews
    <3>2. Answered(inbox[Lo]) => Answered(Tail(inbox[Lo]))
      BY <1>0, <1>2, <1>5, <3>1, AnsweredFacts
    <3> QED BY <1>1, <1>2, <1>5, <3>2, AnsweredFacts
  <2> QED BY <1>3, <2>5, <2>6, <2>7, <2>8 DEF AwaitedPending, Pending
<1>6. CASE p = Hi
  <2>1. /\ link'[Lo].open = link[Lo].open /\ link'[Lo].sig = link[Lo].sig
        /\ link'[Lo].making = link[Lo].making /\ Alike(inbox[Lo], inbox'[Lo])
        /\ overtook' = overtook /\ link'[Hi].open = is
    BY <1>1, <1>2, <1>6 DEF PagesOK, MeshTypeOK
  <2>2. Awaited
    BY <1>0, <1>2, <1>4, <2>1, StaysAlike DEF Awaited, Up
  <2>3. Heard(inbox[Hi], link[Hi].open) => Heard(inbox'[Hi], link'[Hi].open)
    <3>1. Head(inbox[Hi]).t # "offer"
      BY <1>0, <1>6 DEF IsNews
    <3>2. Heard(inbox[Hi], link[Hi].open) => Heard(Tail(inbox[Hi]), is)
      BY <1>0, <1>2, <1>6, <3>1, HeardTail
    <3> QED BY <1>1, <1>2, <1>6, <2>1, <3>2, HeardAlike
  <2>4. ASSUME link[Hi].open, link[Hi].sig = "got", Stays(inbox[Hi], 0)
        PROVE  link'[Hi].open /\ link'[Hi].sig = "got" /\ Stays(inbox'[Hi], 0)
    <3>1. Stays(Tail(inbox[Hi]), 0) /\ is
      BY <1>0, <1>2, <1>6, <2>4, StaysTail
    <3>2. link'[Hi] = link[Hi]
      BY <1>1, <1>6, <2>4, <3>1
    <3>3. Stays(inbox'[Hi], 0)
      BY <1>1, <1>2, <1>4, <1>6, <3>1, StaysAlike
    <3> QED BY <2>4, <3>2, <3>3
  <2>5. Answered(inbox[Lo]) => Answered(inbox'[Lo])
    BY <1>2, <2>1, AnsweredFacts
  <2> QED BY <1>3, <2>2, <2>3, <2>4, <2>5 DEF AwaitedPending, Pending
<1> QED BY <1>2, <1>5, <1>6

LEMMA OffersPending ==
    ASSUME PagesOK, AwaitedPending, NEW p \in Pages, ReadOffer(p), Awaited'
    PROVE  Pending'
<1>0. /\ Lo \in Pages /\ Hi \in Pages /\ inbox[Lo] \in Seq(Frames) /\ inbox[Hi] \in Seq(Frames)
      /\ link[Hi].open \in BOOLEAN
  BY BoxesAre DEF PagesOK, MeshTypeOK, Links
<1>1. /\ inbox[Hi] # << >> /\ ~IsNews(Head(inbox[Hi])) /\ UNCHANGED <<page, overtook>>
      /\ Alike(inbox[Lo], inbox'[Lo]) /\ Alike(Tail(inbox[Hi]), inbox'[Hi])
      /\ \A q \in Pages : link'[q].open = link[q].open /\ link'[q].making = link[q].making
      /\ link'[Lo].sig = link[Lo].sig /\ (link[Hi].open => link'[Hi].sig = "got")
      /\ \A q \in Pages : out[q] = << >> <=> out'[q] = << >>
  BY OfferRead
<1>2. /\ Tail(inbox[Hi]) \in Seq(Frames) /\ 0 \in 0..Len(inbox[Lo])
      /\ 0 \in 0..Len(Tail(inbox[Hi]))
  BY <1>0, <1>1, Boxes
<1>3. Awaited
  BY <1>0, <1>1, <1>2, StaysAlike DEF Awaited, Up
<1>4. ASSUME link[Hi].open, Stays(Tail(inbox[Hi]), 0)
      PROVE  Pending'
  BY <1>0, <1>1, <1>2, <1>4, StaysAlike DEF Pending
<1>5. CASE Heard(inbox[Hi], link[Hi].open)
  <2>1. \/ Heard(Tail(inbox[Hi]), link[Hi].open)
        \/ link[Hi].open /\ Stays(Tail(inbox[Hi]), 0)
    BY <1>0, <1>1, <1>5, HeardTail
  <2>2. Heard(Tail(inbox[Hi]), link[Hi].open) => Heard(inbox'[Hi], link'[Hi].open)
    BY ZenonT(60), <1>0, <1>1, <1>2, HeardAlike
  <2> QED BY <1>4, <2>1, <2>2 DEF Pending
<1>6. CASE link[Hi].open /\ Stays(inbox[Hi], 0)
  BY <1>0, <1>1, <1>4, <1>6, StaysTail
<1>7. Answered(inbox[Lo]) => Answered(inbox'[Lo])
  BY <1>0, <1>1, AnsweredFacts
<1> QED BY <1>0, <1>1, <1>3, <1>5, <1>6, <1>7 DEF AwaitedPending, Pending

LEMMA AwaitedKept ==
    PagesOK /\ AllTold /\ AwaitedPending /\ [Next]_vars => AwaitedPending'
<1> SUFFICES ASSUME PagesOK, AllTold, AwaitedPending, [Next]_vars, Awaited' PROVE Pending'
  BY DEF AwaitedPending
<1>1. CASE UNCHANGED vars
  BY <1>1 DEF vars, netVars, viewVars, AwaitedPending, Awaited, Pending, Up
<1>2. CASE Answer \/ Offer \/ IceFails \/ PathFails \/ Reconnect
  <2>0. /\ Lo \in Pages /\ Hi \in Pages /\ inbox[Lo] \in Seq(Frames) /\ inbox[Hi] \in Seq(Frames)
        /\ link[Lo].making \in BOOLEAN
    BY BoxesAre DEF PagesOK, MeshTypeOK, Links
  <2>1. CASE out'[Hi] # << >> \/ out'[Lo] # << >>
    BY <2>1 DEF Pending
  <2>2. CASE /\ link'[Hi].sig = link[Hi].sig /\ link'[Lo].sig = link[Lo].sig
             /\ link'[Lo].making = link[Lo].making \/ link'[Lo].making
             /\ out' = out
    <3>1. /\ UNCHANGED <<page, overtook>>
          /\ \A q \in Pages : link'[q].open = link[q].open /\ Alike(inbox[q], inbox'[q])
      BY <1>2, LinkSteps
    <3>2. 0 \in 0..Len(inbox[Lo]) /\ 0 \in 0..Len(inbox[Hi])
      BY <2>0, Boxes
    <3>3. Awaited
      BY <2>0, <2>2, <3>1, <3>2, StaysAlike DEF Awaited, Up
    <3>4. /\ Heard(inbox[Hi], link[Hi].open) => Heard(inbox'[Hi], link'[Hi].open)
          /\ Stays(inbox[Hi], 0) => Stays(inbox'[Hi], 0)
          /\ Answered(inbox[Lo]) => Answered(inbox'[Lo])
      BY <2>0, <3>1, <3>2, HeardAlike, StaysAlike, AnsweredFacts
    <3> QED BY <2>0, <2>2, <3>1, <3>3, <3>4 DEF AwaitedPending, Pending
  <2> QED BY <1>2, <2>1, <2>2, LinkSteps
<1>3. ASSUME NEW p \in Pages, ReadAnswer(p) PROVE FALSE
  BY <1>3, AnswerRead DEF Awaited
<1>4. CASE Next
  BY <1>2, <1>3, <1>4, NextCases, DropsAwaited, JoinsAwaited, RelaysPending, LocksPending,
     NewsPending, OffersPending
<1> QED BY <1>1, <1>4

\* onSignal, restartIce: whatever answers of earlier connections and late frames the
\* guests are sent, an offer stays without an answer only when Hi came back before the
\* room had noticed that it was gone.
THEOREM StrandedOnlyBySilentReturn == Spec => []StrandedOnlyByReturn
<1>1. Init => AwaitedPending
  BY Names, OpenedFields DEF Init, AwaitedPending, Awaited
<1>2. Spec => []AwaitedPending
  BY <1>1, AwaitedKept, InOrder, ToldAlways, PTL DEF Spec
<1>3. PagesOK /\ AwaitedPending => StrandedOnlyByReturn
  <2> SUFFICES ASSUME PagesOK, AwaitedPending, Stranded, ~overtook PROVE FALSE
    BY DEF StrandedOnlyByReturn
  <2>0. Lo \in Pages /\ Hi \in Pages
    BY Names
  <2>1. /\ Up(Hi) /\ out[Lo] = << >> /\ out[Hi] = << >> /\ there[Lo]
        /\ link[Lo].open /\ link[Lo].sig = "offered" /\ ~link[Lo].making
        /\ ~(link[Hi].open /\ link[Hi].sig = "got")
    BY <2>0 DEF Stranded, Settled, PagesOK, PageOK
  <2>2. ASSUME NEW q \in Pages, NEW i \in 1..Len(inbox[q])
        PROVE  inbox[q][i].t = "roster" /\ inbox[q][i].there = there[q]
    <3>1. i \in DOMAIN inbox[q]
      BY DEF PagesOK, MeshTypeOK, Ins
    <3> QED BY <3>1 DEF Stranded, Settled
  <2>3. Stays(inbox[Lo], 0)
    BY <2>0, <2>1, <2>2 DEF Stays, Shows
  <2>4. ~Heard(inbox[Hi], link[Hi].open) /\ ~Answered(inbox[Lo])
    BY <2>0, <2>2 DEF Heard, HeardAt, Answered
  <2> QED BY <2>1, <2>3, <2>4 DEF AwaitedPending, Awaited, Pending
<1> QED BY <1>2, <1>3, InOrder, PTL
=================================================================================
