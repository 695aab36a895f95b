------------------------- MODULE PendingChangesProofs -------------------------
(* Machine-checked facts about the pending changes of a file, for any       *)
(* number of units, translators, texts and disturbances.                    *)
EXTENDS PendingChanges, SequenceTheorems, WellFoundedInduction, TLAPS

-----------------------------------------------------------------------------
(* Numbers and sequences.                                                   *)

LEMMA LeastNat ==
    ASSUME NEW T \in SUBSET Nat, T # {}
    PROVE  \E n \in T : \A m \in T : n <= m
<1>1. PICK x \in T : \A y \in T : <<y, x>> \notin OpToRel(<, Nat)
  BY NatLessThanWellFounded, WFMin
<1>2. \A y \in T : ~(y < x)
  BY <1>1 DEF OpToRel
<1> QED
  BY <1>2

(* A set of numbers that has a bound has a greatest element, which is Max.  *)
LEMMA MaxTaken ==
    ASSUME NEW S \in SUBSET Nat, S # {}, NEW b \in Nat, \A x \in S : x <= b
    PROVE  Max(S) \in S /\ \A x \in S : x <= Max(S)
<1> DEFINE T == {n \in Nat : \A x \in S : x <= n}
<1>1. PICK n \in T : \A m \in T : n <= m
  <2>1. b \in T /\ T \in SUBSET Nat
    OBVIOUS
  <2> QED
    BY <2>1, LeastNat
<1>2. n \in S
  <2> SUFFICES ASSUME n \notin S PROVE FALSE
    OBVIOUS
  <2>1. \A x \in S : x <= n - 1
    OBVIOUS
  <2>2. n - 1 \in T
    <3>1. PICK x \in S : x <= n - 1
      BY <2>1
    <3>2. n - 1 \in Nat
      BY <3>1
    <3> QED
      BY <2>1, <3>2
  <2> QED
    BY <1>1, <2>2
<1>3. \E x \in S : \A y \in S : x >= y
  BY <1>2
<1>4. Max(S) = CHOOSE x \in S : \A y \in S : x >= y
  BY DEF Max
<1>5. Max(S) \in S /\ \A y \in S : Max(S) >= y
  BY <1>3, <1>4
<1> QED
  BY <1>5

LEMMA Bounds == MaxTexts \in Nat /\ MaxDisturbances \in Nat /\ Texts \subseteq Nat
BY PendingAssumption DEF Texts

LEMMA Removed ==
    ASSUME NEW S, NEW s \in Seq(S), NEW c \in DOMAIN s
    PROVE  /\ RemoveAt(s, c) \in Seq(S)
           /\ Len(RemoveAt(s, c)) = Len(s) - 1
           /\ \A i \in 1 .. Len(s) - 1 :
                  RemoveAt(s, c)[i] = IF i < c THEN s[i] ELSE s[i + 1]
<1>1. Len(s) \in Nat /\ c \in 1 .. Len(s) /\ \A i \in 1 .. Len(s) : s[i] \in S
  BY LenProperties, ElementOfSeq
<1> DEFINE a == SubSeq(s, 1, c - 1)
           b == SubSeq(s, c + 1, Len(s))
<1>2. /\ a \in Seq(S) /\ Len(a) = c - 1
      /\ \A i \in 1 .. c - 1 : a[i] = s[i]
  <2>1. \A i \in 1 .. c - 1 : s[i] \in S
    BY <1>1
  <2>2. /\ a \in Seq(S) /\ Len(a) = IF 1 <= c - 1 THEN c - 1 - 1 + 1 ELSE 0
        /\ \A i \in 1 .. c - 1 - 1 + 1 : a[i] = s[1 + i - 1]
    BY <1>1, <2>1, SubSeqProperties
  <2> QED
    BY <1>1, <2>2
<1>3. /\ b \in Seq(S) /\ Len(b) = Len(s) - c
      /\ \A i \in 1 .. Len(s) - c : b[i] = s[c + i]
  <2>1. \A i \in c + 1 .. Len(s) : s[i] \in S
    BY <1>1
  <2>2. /\ b \in Seq(S) /\ Len(b) = IF c + 1 <= Len(s) THEN Len(s) - (c + 1) + 1 ELSE 0
        /\ \A i \in 1 .. Len(s) - (c + 1) + 1 : b[i] = s[c + 1 + i - 1]
    BY <1>1, <2>1, SubSeqProperties
  <2> QED
    BY <1>1, <2>2
<1> HIDE DEF a, b
<1>4. RemoveAt(s, c) = a \o b
  BY DEF RemoveAt, a, b
<1>5. /\ a \o b \in Seq(S) /\ Len(a \o b) = Len(a) + Len(b)
      /\ \A i \in 1 .. Len(a) + Len(b) : (a \o b)[i] = IF i <= Len(a) THEN a[i] ELSE b[i - Len(a)]
  BY <1>2, <1>3, ConcatProperties
<1>6. Len(a) + Len(b) = Len(s) - 1 /\ Len(a) = c - 1 /\ Len(b) = Len(s) - c
  BY <1>1, <1>2, <1>3
<1> DEFINE ab == a \o b
           l == Len(s)
<1> HIDE DEF ab, l
<1>7. /\ l \in Nat /\ c \in 1 .. l
      /\ \A i \in 1 .. l - 1 : ab[i] = IF i <= c - 1 THEN a[i] ELSE b[i - (c - 1)]
      /\ \A i \in 1 .. c - 1 : a[i] = s[i]
      /\ \A i \in 1 .. l - c : b[i] = s[c + i]
  BY <1>1, <1>2, <1>3, <1>5, <1>6 DEF ab, l
<1>8. ASSUME NEW i \in 1 .. l - 1
      PROVE  ab[i] = IF i < c THEN s[i] ELSE s[i + 1]
  <2>1. CASE i <= c - 1
    BY <1>7, <2>1
  <2>2. CASE ~(i <= c - 1)
    <3>1. ab[i] = b[i - (c - 1)]
      BY <1>7, <2>2
    <3>2. i - (c - 1) \in 1 .. l - c /\ c + (i - (c - 1)) = i + 1
      BY <1>7, <2>2
    <3>3. b[i - (c - 1)] = s[c + (i - (c - 1))]
      BY <1>7, <3>2
    <3>4. ~(i < c)
      BY <1>7, <2>2
    <3> QED
      BY <3>1, <3>2, <3>3, <3>4
  <2> QED
    BY <2>1, <2>2
<1>9. RemoveAt(s, c) = ab /\ ab \in Seq(S) /\ Len(ab) = l - 1 /\ l = Len(s)
  BY <1>4, <1>5, <1>6 DEF ab, l
<1> QED
  BY <1>8, <1>9

LEMMA Appended ==
    ASSUME NEW S, NEW s \in Seq(S), NEW e \in S
    PROVE  /\ Append(s, e) \in Seq(S) /\ Len(Append(s, e)) = Len(s) + 1
           /\ \A i \in 1 .. Len(s) : Append(s, e)[i] = s[i]
           /\ Append(s, e)[Len(s) + 1] = e
OBVIOUS

-----------------------------------------------------------------------------
(* The groups of a commit.                                                  *)

(* Of two groups that hold the same unit, the earlier one has older texts.  *)
Before(q, p) == q.unit = p.unit => q.text < p.text
Ordered(groups) ==
    \A i, j \in DOMAIN groups : i < j => \A q \in groups[i], p \in groups[j] : Before(q, p)

(* Active groups share neither a unit nor an author; each has one author.   *)
Separate(groups) ==
    \A i, j \in DOMAIN groups : \A q \in groups[i], p \in groups[j] :
        IF i = j THEN q.author = p.author ELSE q.author # p.author /\ q.unit # p.unit

Grouping(S, n, done, active) ==
    /\ done \in Seq(SUBSET S) /\ active \in Seq(SUBSET S)
    /\ \A i \in DOMAIN done : \A q \in done[i] : q.text <= n
    /\ \A i \in DOMAIN active : \A q \in active[i] : q.text <= n
    /\ Ordered(done) /\ Separate(active)
    /\ \A i \in DOMAIN done, j \in DOMAIN active :
           \A q \in done[i], p \in active[j] : Before(q, p)

(* The groups that stay active when r is added, and the finished ones.      *)
Clash(active, r) == {i \in DOMAIN active : Conflicts(active[i], r)}
Clashing(active, r) == CHOOSE i \in Clash(active, r) : TRUE
Rest(active, r) ==
    IF Clash(active, r) = {} THEN active ELSE RemoveAt(active, Clashing(active, r))
Done(done, active, r) ==
    IF Clash(active, r) = {} THEN done ELSE Append(done, active[Clashing(active, r)])
WithRow(rest, r) ==
    IF \E i \in DOMAIN rest : ByAuthor(rest[i], r)
    THEN [i \in DOMAIN rest |-> IF ByAuthor(rest[i], r) THEN rest[i] \cup {r} ELSE rest[i]]
    ELSE Append(rest, {r})

LEMMA Adding ==
    ASSUME NEW g, NEW r
    PROVE  AddChange(g, r) = [done |-> Done(g.done, g.active, r),
                              active |-> WithRow(Rest(g.active, r), r)]
BY DEF AddChange, Done, Rest, WithRow, Clash, Clashing

(* Where the groups that stay come from.                                    *)
Place(active, r, i) ==
    IF Clash(active, r) = {} \/ i < Clashing(active, r) THEN i ELSE i + 1

Stays(S, active, r) ==
    /\ Clash(active, r) # {} => Clashing(active, r) \in Clash(active, r)
    /\ Rest(active, r) \in Seq(SUBSET S)
    /\ \A i \in DOMAIN Rest(active, r) :
           /\ Place(active, r, i) \in DOMAIN active
           /\ Rest(active, r)[i] = active[Place(active, r, i)]
           /\ Clash(active, r) # {} => Place(active, r, i) # Clashing(active, r)
    /\ \A i, j \in DOMAIN Rest(active, r) :
           i # j => Place(active, r, i) # Place(active, r, j)

LEMMA RestStays ==
    ASSUME NEW S, NEW active \in Seq(SUBSET S), NEW r
    PROVE  Stays(S, active, r)
<1> USE DEF Stays
<1>1. CASE Clash(active, r) = {}
  BY <1>1 DEF Rest, Place
<1>2. CASE Clash(active, r) # {}
  <2>1. PICK c : c = Clashing(active, r)
    OBVIOUS
  <2>2. c \in Clash(active, r) /\ c \in DOMAIN active
    BY <1>2, <2>1 DEF Clashing, Clash
  <2>3. PICK l \in Nat : l = Len(active)
    BY LenProperties
  <2>4. DOMAIN active = 1 .. l /\ c \in 1 .. l
    BY <2>2, <2>3, LenProperties
  <2>5. PICK rest \in Seq(SUBSET S) : rest = Rest(active, r)
    BY <1>2, <2>1, <2>2, Removed DEF Rest
  <2>6. /\ Len(rest) = l - 1
        /\ \A i \in 1 .. l - 1 : rest[i] = IF i < c THEN active[i] ELSE active[i + 1]
    BY <1>2, <2>1, <2>2, <2>3, <2>5, Removed DEF Rest
  <2>7. DOMAIN rest = 1 .. l - 1
    BY <2>6, LenProperties
  <2>8. \A i : Place(active, r, i) = IF i < c THEN i ELSE i + 1
    BY <1>2, <2>1 DEF Place
  <2>9. /\ \A i \in 1 .. l - 1 : LET k == IF i < c THEN i ELSE i + 1 IN
                                 k \in 1 .. l /\ rest[i] = active[k] /\ k # c
        /\ \A i, j \in 1 .. l - 1 :
               i # j => (IF i < c THEN i ELSE i + 1) # (IF j < c THEN j ELSE j + 1)
    BY <2>3, <2>4, <2>6
  <2> QED
    BY <2>1, <2>2, <2>4, <2>5, <2>7, <2>8, <2>9
<1> QED
  BY <1>1, <1>2

(* No group that stays holds another author's row of the unit.              *)
LEMMA RestAgrees ==
    ASSUME NEW S, NEW active \in Seq(SUBSET S), Separate(active), NEW r,
           NEW i \in DOMAIN Rest(active, r)
    PROVE  ~Conflicts(Rest(active, r)[i], r)
<1> DEFINE k == Place(active, r, i)
<1>0. Stays(S, active, r)
  BY RestStays
<1>1. k \in DOMAIN active /\ Rest(active, r)[i] = active[k]
      /\ (Clash(active, r) # {} => k # Clashing(active, r))
  BY <1>0 DEF Stays
<1> HIDE DEF k
<1> SUFFICES ASSUME Conflicts(active[k], r) PROVE FALSE
  BY <1>1
<1>2. k \in Clash(active, r)
  BY <1>1 DEF Clash
<1>3. Clashing(active, r) \in Clash(active, r) /\ k # Clashing(active, r)
  BY <1>0, <1>1, <1>2 DEF Stays
<1>4. PICK q \in active[k] : q.unit = r.unit
  BY DEF Conflicts
<1>5. PICK c \in DOMAIN active : c = Clashing(active, r) /\ Conflicts(active[c], r)
  BY <1>3 DEF Clash
<1>6. PICK p \in active[c] : p.unit = r.unit
  BY <1>5 DEF Conflicts
<1> QED
  BY <1>1, <1>3, <1>4, <1>5, <1>6 DEF Separate

LEMMA RestSeparate ==
    ASSUME NEW S, NEW active \in Seq(SUBSET S), Separate(active), NEW r
    PROVE  Separate(Rest(active, r))
<1> SUFFICES ASSUME NEW i \in DOMAIN Rest(active, r), NEW j \in DOMAIN Rest(active, r),
                    NEW q \in Rest(active, r)[i], NEW p \in Rest(active, r)[j]
             PROVE  IF i = j THEN q.author = p.author
                    ELSE q.author # p.author /\ q.unit # p.unit
  BY DEF Separate
<1>0. Stays(S, active, r)
  BY RestStays
<1>1. PICK k \in DOMAIN active : k = Place(active, r, i) /\ q \in active[k]
  BY <1>0 DEF Stays
<1>2. PICK l \in DOMAIN active : l = Place(active, r, j) /\ p \in active[l]
  BY <1>0 DEF Stays
<1>3. i = j <=> k = l
  BY <1>0, <1>1, <1>2 DEF Stays
<1> QED
  BY <1>1, <1>2, <1>3 DEF Separate

(* What a group holds after r was added.                                    *)
LEMMA RowAdded ==
    ASSUME NEW S, NEW rest \in Seq(SUBSET S), NEW r \in S, Separate(rest),
           \A i \in DOMAIN rest : ~Conflicts(rest[i], r)
    PROVE  /\ WithRow(rest, r) \in Seq(SUBSET S)
           /\ Separate(WithRow(rest, r))
           /\ \A j \in DOMAIN WithRow(rest, r) : \A p \in WithRow(rest, r)[j] :
                  p = r \/ \E i \in DOMAIN rest : p \in rest[i]
<1>1. CASE \E i \in DOMAIN rest : ByAuthor(rest[i], r)
  <2>1. PICK n \in Nat : n = Len(rest) /\ DOMAIN rest = 1 .. n
    BY LenProperties
  <2> DEFINE new == [i \in 1 .. n |-> IF ByAuthor(rest[i], r) THEN rest[i] \cup {r} ELSE rest[i]]
  <2>2. WithRow(rest, r) = new
    BY <1>1, <2>1 DEF WithRow
  <2>3. \A i \in 1 .. n : rest[i] \in SUBSET S
    BY <2>1, ElementOfSeq
  <2>4. \A i \in 1 .. n : (IF ByAuthor(rest[i], r) THEN rest[i] \cup {r} ELSE rest[i]) \in SUBSET S
    BY <2>3
  <2>5. new \in [1 .. n -> SUBSET S]
    BY <2>4
  <2>6. new \in Seq(SUBSET S) /\ DOMAIN new = 1 .. n
    BY <2>5, SeqDef
  <2>7. \A i \in 1 .. n : \A p \in new[i] : p \in rest[i] \/ (p = r /\ ByAuthor(rest[i], r))
    OBVIOUS
  <2> HIDE DEF new
  <2>8. ASSUME NEW i \in 1 .. n, NEW j \in 1 .. n, NEW q \in new[i], NEW p \in new[j]
        PROVE  IF i = j THEN q.author = p.author
               ELSE q.author # p.author /\ q.unit # p.unit
    <3>1. ASSUME NEW k \in 1 .. n, NEW x \in rest[k]
          PROVE  x.unit = r.unit => x.author = r.author
      BY <2>1, <3>1 DEF Conflicts
    <3>2. ASSUME NEW k \in 1 .. n, ByAuthor(rest[k], r)
          PROVE  /\ \A x \in rest[k] : x.author = r.author
                 /\ \A l \in 1 .. n : l # k => \A x \in rest[l] : x.author # r.author
      <4>1. PICK y \in rest[k] : y.author = r.author
        BY <3>2 DEF ByAuthor
      <4> QED
        BY <2>1, <4>1 DEF Separate
    <3>3. CASE q \in rest[i] /\ p \in rest[j]
      BY <2>1, <3>3 DEF Separate
    <3>4. CASE q = r /\ ByAuthor(rest[i], r) /\ p \in rest[j]
      BY <3>1, <3>2, <3>4
    <3>5. CASE p = r /\ ByAuthor(rest[j], r) /\ q \in rest[i]
      BY <3>1, <3>2, <3>5
    <3>6. CASE q = r /\ ByAuthor(rest[i], r) /\ p = r /\ ByAuthor(rest[j], r)
      <4>1. i = j
        <5>1. PICK y \in rest[i] : y.author = r.author
          BY <3>6 DEF ByAuthor
        <5> QED
          BY <3>2, <3>6, <5>1
      <4> QED
        BY <3>6, <4>1
    <3> QED
      BY <2>7, <3>3, <3>4, <3>5, <3>6
  <2>9. Separate(new)
    BY <2>6, <2>8 DEF Separate
  <2> QED
    BY <2>1, <2>2, <2>6, <2>7, <2>9
<1>2. CASE ~\E i \in DOMAIN rest : ByAuthor(rest[i], r)
  <2>1. PICK n \in Nat : n = Len(rest) /\ DOMAIN rest = 1 .. n
    BY LenProperties
  <2> DEFINE new == Append(rest, {r})
  <2>2. WithRow(rest, r) = new
    BY <1>2 DEF WithRow
  <2>3. /\ new \in Seq(SUBSET S) /\ Len(new) = n + 1
        /\ \A i \in 1 .. n : new[i] = rest[i]
        /\ new[n + 1] = {r}
    BY <2>1, Appended
  <2>4. DOMAIN new = 1 .. n + 1
    BY <2>3, LenProperties
  <2> HIDE DEF new
  <2>5. \A i \in 1 .. n + 1 : i \in 1 .. n \/ i = n + 1
    OBVIOUS
  <2>6. \A i \in 1 .. n : \A x \in rest[i] : x.author # r.author /\ x.unit # r.unit
    BY <1>2, <2>1 DEF ByAuthor, Conflicts
  <2>7. ASSUME NEW i \in 1 .. n + 1, NEW j \in 1 .. n + 1, NEW q \in new[i], NEW p \in new[j]
        PROVE  IF i = j THEN q.author = p.author
               ELSE q.author # p.author /\ q.unit # p.unit
    <3>1. CASE i \in 1 .. n /\ j \in 1 .. n
      BY <2>1, <2>3, <3>1 DEF Separate
    <3>2. CASE i = n + 1 /\ j \in 1 .. n
      BY <2>1, <2>3, <2>6, <3>2
    <3>3. CASE i \in 1 .. n /\ j = n + 1
      BY <2>1, <2>3, <2>6, <3>3
    <3>4. CASE i = n + 1 /\ j = n + 1
      BY <2>3, <3>4
    <3> QED
      BY <2>5, <3>1, <3>2, <3>3, <3>4
  <2>8. Separate(new)
    BY <2>4, <2>7 DEF Separate
  <2> QED
    BY <2>1, <2>2, <2>3, <2>4, <2>5, <2>8
<1> QED
  BY <1>1, <1>2

LEMMA AddStep ==
    ASSUME NEW S \in SUBSET Rows, NEW n \in Nat, NEW done, NEW active,
           Grouping(S, n, done, active), NEW r \in S, r.text = n + 1
    PROVE  Grouping(S, n + 1, Done(done, active, r), WithRow(Rest(active, r), r))
<1> DEFINE rest == Rest(active, r)
           new == WithRow(rest, r)
           closed == Done(done, active, r)
<1>0. \A x \in S : x.text \in Nat
  BY Bounds DEF Rows
<1>1. /\ done \in Seq(SUBSET S) /\ active \in Seq(SUBSET S)
      /\ Ordered(done) /\ Separate(active)
  BY DEF Grouping
<1>1a. Stays(S, active, r)
  BY <1>1, RestStays
<1>2. rest \in Seq(SUBSET S) /\ Separate(rest)
      /\ \A i \in DOMAIN rest : ~Conflicts(rest[i], r)
  BY <1>1a, <1>1, RestSeparate, RestAgrees DEF Stays
<1>3. /\ new \in Seq(SUBSET S) /\ Separate(new)
      /\ \A j \in DOMAIN new : \A p \in new[j] : p = r \/ \E i \in DOMAIN rest : p \in rest[i]
  BY <1>2, RowAdded
<1>4. \A i \in DOMAIN rest : \A p \in rest[i] :
          \E k \in DOMAIN active : p \in active[k]
                                   /\ (Clash(active, r) # {} => k # Clashing(active, r))
  BY <1>1a DEF Stays
<1>5. \A j \in DOMAIN new : \A p \in new[j] :
          \/ p = r
          \/ \E k \in DOMAIN active : p \in active[k]
                                      /\ (Clash(active, r) # {} => k # Clashing(active, r))
  BY <1>3, <1>4
<1> HIDE DEF new, rest
<1>6. \A i \in DOMAIN active : active[i] \in SUBSET S
  BY <1>1, LenProperties, ElementOfSeq
<1>7. \A i \in DOMAIN done : done[i] \in SUBSET S
  BY <1>1, LenProperties, ElementOfSeq
<1>8. \A j \in DOMAIN new : \A p \in new[j] : p.text <= n + 1
  BY <1>0, <1>5, <1>6 DEF Grouping
<1>9. CASE Clash(active, r) = {}
  <2>1. closed = done
    BY <1>9 DEF Done
  <2>2. \A i \in DOMAIN done : \A q \in done[i] : q.text <= n + 1 /\ q.text < r.text
    BY <1>0, <1>7 DEF Grouping
  <2>3. \A i \in DOMAIN done, j \in DOMAIN new :
            \A q \in done[i], p \in new[j] : Before(q, p)
    BY <1>5, <2>2 DEF Grouping, Before
  <2> QED
    BY <1>1, <1>3, <1>8, <2>1, <2>2, <2>3 DEF Grouping, new, rest
<1>10. CASE Clash(active, r) # {}
  <2>1. PICK c \in DOMAIN active : c = Clashing(active, r)
    BY <1>1a, <1>10 DEF Clash, Stays
  <2>2. closed = Append(done, active[c])
    BY <1>10, <2>1 DEF Done
  <2>3. PICK d \in Nat : d = Len(done) /\ DOMAIN done = 1 .. d
    BY <1>1, LenProperties
  <2>4. /\ closed \in Seq(SUBSET S) /\ Len(closed) = d + 1
        /\ \A i \in 1 .. d : closed[i] = done[i]
        /\ closed[d + 1] = active[c]
    BY <1>1, <1>6, <2>1, <2>2, <2>3, Appended
  <2>5. DOMAIN closed = 1 .. d + 1
    BY <2>4, LenProperties
  <2> HIDE DEF closed
  <2>6. \A i \in 1 .. d + 1 : i \in 1 .. d \/ i = d + 1
    OBVIOUS
  <2>7. \A i \in 1 .. d + 1 : \A q \in closed[i] : q.text <= n + 1 /\ q.text < r.text
    <3>1. \A i \in 1 .. d : \A q \in done[i] : q.text <= n + 1 /\ q.text < r.text
      BY <1>0, <1>7, <2>3 DEF Grouping
    <3>2. \A q \in active[c] : q.text <= n + 1 /\ q.text < r.text
      BY <1>0, <1>6 DEF Grouping
    <3> QED
      BY <2>4, <2>6, <3>1, <3>2
  <2>8. Ordered(closed)
    <3> SUFFICES ASSUME NEW i \in 1 .. d + 1, NEW j \in 1 .. d + 1, i < j,
                        NEW q \in closed[i], NEW p \in closed[j]
                 PROVE  Before(q, p)
      BY <2>5 DEF Ordered
    <3>1. i \in 1 .. d
      OBVIOUS
    <3>2. CASE j \in 1 .. d
      BY <1>1, <2>3, <2>4, <3>1, <3>2 DEF Ordered
    <3>3. CASE j = d + 1
      BY <2>3, <2>4, <3>1, <3>3 DEF Grouping
    <3> QED
      BY <2>6, <3>2, <3>3
  <2>9. ASSUME NEW i \in 1 .. d + 1, NEW j \in DOMAIN new, NEW q \in closed[i], NEW p \in new[j]
        PROVE  Before(q, p)
    <3>1. CASE p = r
      BY <2>7, <3>1 DEF Before
    <3>2. CASE \E k \in DOMAIN active : p \in active[k] /\ k # c
      <4>1. PICK k \in DOMAIN active : p \in active[k] /\ k # c
        BY <3>2
      <4>2. CASE i \in 1 .. d
        BY <2>3, <2>4, <4>1, <4>2 DEF Grouping
      <4>3. CASE i = d + 1
        <5>1. q \in active[c]
          BY <2>4, <4>3
        <5>2. q.unit # p.unit
          BY <1>1, <4>1, <5>1 DEF Separate
        <5> QED
          BY <5>2 DEF Before
      <4> QED
        BY <2>6, <4>2, <4>3
    <3> QED
      BY <1>5, <1>10, <2>1, <3>1, <3>2
  <2>10. Grouping(S, n + 1, closed, new)
    BY <1>3, <1>8, <2>4, <2>5, <2>7, <2>8, <2>9 DEF Grouping
  <2> QED
    BY <2>10 DEF closed, new, rest
<1> QED
  BY <1>9, <1>10

(* The recursion of Groups: the grouping after the rows with the texts up   *)
(* to n.  That such a function exists, and what it computes, is shown with  *)
(* a least text that contradicts it.                                        *)
Start == [done |-> <<>>, active |-> <<>>]
At(S, n) == {r \in S : r.text = n}
Turn(S, before, n) ==
    IF At(S, n) = {} THEN before ELSE AddChange(before, CHOOSE r \in At(S, n) : TRUE)
IsFold(S, g, m) ==
    g = [n \in 0 .. m |-> Turn(S, IF n = 0 THEN Start ELSE g[n - 1], n)]

LEMMA FoldExists ==
    ASSUME NEW S
    PROVE  \A m \in Nat : \E g : IsFold(S, g, m)
<1> DEFINE T == {m \in Nat : ~\E g : IsFold(S, g, m)}
<1> SUFFICES ASSUME T # {} PROVE FALSE
  OBVIOUS
<1>1. PICK m \in T : \A k \in T : m <= k
  <2> HIDE DEF T
  <2>1. T \in SUBSET Nat
    BY DEF T
  <2> QED
    BY <2>1, LeastNat
<1>2. CASE m = 0
  <2> DEFINE h == [n \in 0 .. 0 |-> Turn(S, Start, n)]
  <2>1. h = [n \in 0 .. 0 |-> Turn(S, IF n = 0 THEN Start ELSE h[n - 1], n)]
    OBVIOUS
  <2>2. IsFold(S, h, 0)
    BY <2>1 DEF IsFold
  <2> QED
    BY <1>1, <1>2, <2>2
<1>3. CASE m # 0
  <2>1. m \in Nat /\ m - 1 \in Nat /\ ~(m <= m - 1) /\ m - 1 # m
    BY <1>1, <1>3
  <2>2. m - 1 \notin T
    BY <1>1, <2>1
  <2>3. PICK g : IsFold(S, g, m - 1)
    BY <2>1, <2>2
  <2> DEFINE h == [n \in 0 .. m |-> IF n = m THEN Turn(S, g[m - 1], m) ELSE g[n]]
  <2>4. \A n \in 0 .. m - 1 : g[n] = Turn(S, IF n = 0 THEN Start ELSE g[n - 1], n)
    BY <2>3 DEF IsFold
  <2>5. \A n \in 0 .. m : h[n] = IF n = m THEN Turn(S, g[m - 1], m) ELSE g[n]
    OBVIOUS
  <2>6. DOMAIN h = 0 .. m /\ h = [n \in 0 .. m |-> h[n]]
    OBVIOUS
  <2> HIDE DEF h
  <2>7. ASSUME NEW n \in 0 .. m
        PROVE  h[n] = Turn(S, IF n = 0 THEN Start ELSE h[n - 1], n)
    <3>1. CASE n = m
      <4>1. m - 1 \in 0 .. m /\ n # 0
        BY <1>3, <2>1, <3>1
      <4>2. h[n - 1] = g[m - 1]
        BY <2>1, <2>5, <3>1, <4>1
      <4> QED
        BY <2>5, <3>1, <4>1, <4>2
    <3>2. CASE n # m
      <4>1. n \in 0 .. m - 1
        BY <2>1, <3>2
      <4>2. CASE n = 0
        BY <2>4, <2>5, <3>2, <4>1, <4>2
      <4>3. CASE n # 0
        <5>1. n - 1 \in 0 .. m /\ n - 1 # m
          BY <2>1, <3>2, <4>3
        <5>2. h[n - 1] = g[n - 1]
          BY <2>5, <5>1
        <5> QED
          BY <2>4, <2>5, <3>2, <4>1, <4>3, <5>2
      <4> QED
        BY <4>2, <4>3
    <3> QED
      BY <3>1, <3>2
  <2>8. IsFold(S, h, m)
    BY <2>6, <2>7 DEF IsFold
  <2> QED
    BY <1>1, <2>8
<1> QED
  BY <1>2, <1>3

LEMMA GroupsFold ==
    ASSUME NEW S
    PROVE  \E g : IsFold(S, g, MaxTexts) /\ Groups(S) = g[MaxTexts].done \o g[MaxTexts].active
<1> DEFINE g == CHOOSE g : g = [n \in Texts |->
                  LET before == IF n = 0 THEN [done |-> <<>>, active |-> <<>>] ELSE g[n - 1]
                      rows == {r \in S : r.text = n}
                  IN  IF rows = {} THEN before ELSE AddChange(before, CHOOSE r \in rows : TRUE)]
<1>1. Groups(S) = g[MaxTexts].done \o g[MaxTexts].active
  BY DEF Groups
<1>2. \E f : IsFold(S, f, MaxTexts)
  BY FoldExists, Bounds
<1>3. IsFold(S, g, MaxTexts)
  BY <1>2 DEF IsFold, Turn, At, Start, Texts
<1> HIDE DEF g
<1> QED
  BY <1>1, <1>3

LEMMA FoldGroups ==
    ASSUME NEW S \in SUBSET Rows, \A r \in S : 0 < r.text, NEW g, IsFold(S, g, MaxTexts)
    PROVE  \A n \in Texts : Grouping(S, n, g[n].done, g[n].active)
<1> DEFINE T == {n \in Texts : ~Grouping(S, n, g[n].done, g[n].active)}
<1> SUFFICES ASSUME T # {} PROVE FALSE
  OBVIOUS
<1>1. PICK n \in T : \A k \in T : n <= k
  <2> HIDE DEF T
  <2>1. T \in SUBSET Nat
    BY Bounds DEF T
  <2> QED
    BY <2>1, LeastNat
<1>2. n \in 0 .. MaxTexts /\ MaxTexts \in Nat /\ n \in Nat
  BY <1>1, Bounds DEF Texts
<1>3. g[n] = Turn(S, IF n = 0 THEN Start ELSE g[n - 1], n)
  BY <1>2 DEF IsFold
<1>4. CASE n = 0
  <2>1. At(S, 0) = {}
    BY DEF At
  <2>2. g[n].done = <<>> /\ g[n].active = <<>>
    BY <1>3, <1>4, <2>1 DEF Turn, Start
  <2>3. Grouping(S, n, <<>>, <<>>)
    BY DEF Grouping, Ordered, Separate
  <2> QED
    BY <1>1, <2>2, <2>3
<1>5. CASE n # 0
  <2>1. n - 1 \in Texts /\ n - 1 \in Nat /\ ~(n <= n - 1) /\ n - 1 + 1 = n
    BY <1>2, <1>5 DEF Texts
  <2>2. n - 1 \notin T
    BY <1>1, <2>1
  <2>3. Grouping(S, n - 1, g[n - 1].done, g[n - 1].active)
    BY <2>1, <2>2
  <2>4. g[n] = Turn(S, g[n - 1], n)
    BY <1>3, <1>5
  <2>5. CASE At(S, n) = {}
    <3>1. g[n] = g[n - 1]
      BY <2>4, <2>5 DEF Turn
    <3>2a. \A x \in S : x.text \in Nat
      BY Bounds DEF Rows
    <3>2. \A x \in S : x.text <= n - 1 => x.text <= n
      BY <1>2, <3>2a
    <3>3. PICK done, active : done = g[n].done /\ active = g[n].active
      OBVIOUS
    <3>4. Grouping(S, n - 1, done, active)
      BY <2>3, <3>1, <3>3
    <3>5. /\ \A i \in DOMAIN done : done[i] \in SUBSET S
          /\ \A i \in DOMAIN active : active[i] \in SUBSET S
      BY <3>4, LenProperties, ElementOfSeq DEF Grouping
    <3>6. Grouping(S, n, done, active)
      BY <3>2, <3>4, <3>5 DEF Grouping
    <3> QED
      BY <1>1, <3>3, <3>6
  <2>6. CASE At(S, n) # {}
    <3>1. PICK r \in S : r = (CHOOSE x \in At(S, n) : TRUE) /\ r.text = n
      BY <2>6 DEF At
    <3>2. g[n] = AddChange(g[n - 1], r)
      BY <2>4, <2>6, <3>1 DEF Turn
    <3>3. g[n] = [done |-> Done(g[n - 1].done, g[n - 1].active, r),
                  active |-> WithRow(Rest(g[n - 1].active, r), r)]
      BY <3>2, Adding
    <3>4. PICK done, active : done = g[n - 1].done /\ active = g[n - 1].active
      OBVIOUS
    <3>5. PICK m \in Nat : m = n - 1 /\ r.text = m + 1 /\ m + 1 = n
      BY <2>1, <3>1
    <3>6. Grouping(S, m + 1, Done(done, active, r), WithRow(Rest(active, r), r))
      BY <2>3, <3>4, <3>5, AddStep
    <3>7. g[n].done = Done(done, active, r) /\ g[n].active = WithRow(Rest(active, r), r)
      BY <3>3, <3>4
    <3> QED
      BY <1>1, <3>5, <3>6, <3>7
  <2> QED
    BY <2>5, <2>6
<1> QED
  BY <1>4, <1>5

(* Whatever rows a commit takes, its groups hold only these, and of two     *)
(* groups with changes of one unit the one with the older comes first.      *)
THEOREM GroupsRight ==
    ASSUME NEW S \in SUBSET Rows, \A r \in S : 0 < r.text
    PROVE  Groups(S) \in Seq(SUBSET S) /\ Ordered(Groups(S))
<1>1. PICK g : IsFold(S, g, MaxTexts) /\ Groups(S) = g[MaxTexts].done \o g[MaxTexts].active
  BY GroupsFold
<1>2. PICK a, b : a = g[MaxTexts].done /\ b = g[MaxTexts].active
  OBVIOUS
<1>3. Grouping(S, MaxTexts, a, b)
  BY <1>1, <1>2, FoldGroups, Bounds DEF Texts
<1>4. a \in Seq(SUBSET S) /\ b \in Seq(SUBSET S)
  BY <1>3 DEF Grouping
<1>5. PICK l \in Nat, k \in Nat : l = Len(a) /\ k = Len(b) /\ DOMAIN a = 1 .. l /\ DOMAIN b = 1 .. k
  BY <1>4, LenProperties
<1>6. PICK ab \in Seq(SUBSET S) : ab = a \o b /\ Groups(S) = ab
  BY <1>1, <1>2, <1>4, ConcatProperties
<1>7. /\ Len(ab) = l + k
      /\ \A i \in 1 .. l + k : ab[i] = IF i <= l THEN a[i] ELSE b[i - l]
  BY <1>4, <1>5, <1>6, ConcatProperties
<1>8. DOMAIN ab = 1 .. l + k
  BY <1>7, LenProperties
<1>9. ASSUME NEW i \in 1 .. l + k, NEW j \in 1 .. l + k, i < j, NEW q \in ab[i], NEW p \in ab[j]
      PROVE  Before(q, p)
  <2>1. CASE j <= l
    <3>1. i \in 1 .. l /\ j \in 1 .. l /\ q \in a[i] /\ p \in a[j]
      BY <1>7, <1>9, <2>1
    <3> QED
      BY <1>3, <1>5, <1>9, <3>1 DEF Grouping, Ordered
  <2>2. CASE i <= l /\ ~(j <= l)
    <3>1. i \in 1 .. l /\ j - l \in 1 .. k /\ q \in a[i] /\ p \in b[j - l]
      BY <1>7, <1>9, <2>2
    <3> QED
      BY <1>3, <1>5, <3>1 DEF Grouping
  <2>3. CASE ~(i <= l)
    <3>1. /\ i - l \in 1 .. k /\ j - l \in 1 .. k /\ i - l # j - l
          /\ q \in b[i - l] /\ p \in b[j - l]
      BY <1>7, <1>9, <2>3
    <3>2. Separate(b)
      BY <1>3 DEF Grouping
    <3>3. PICK c \in DOMAIN b, d \in DOMAIN b : c = i - l /\ d = j - l
      BY <1>5, <3>1
    <3>4. q.unit # p.unit
      BY <3>1, <3>2, <3>3 DEF Separate
    <3> QED
      BY <3>4 DEF Before
  <2> QED
    BY <2>1, <2>2, <2>3
<1> QED
  BY <1>6, <1>8, <1>9 DEF Ordered

-----------------------------------------------------------------------------
(* Types.                                                                   *)

(* The text 0 is what the file held at first.                               *)
Saved == {r \in Rows : 0 < r.text}

Commits == [pc : {"idle", "open", "merge"}, updating : BOOLEAN, groups : Seq(SUBSET Saved),
            ok : SUBSET Saved, failed : SUBSET Saved, locked : SUBSET Units,
            revision : [Units -> Contents] \cup {None}, unread : SUBSET Units]

(* A unit that a request has read exists: no text is saved over a deletion. *)
TypeInv ==
    /\ pending \in SUBSET Saved
    /\ unit \in [Units -> [target : Contents \cup {Held}, disk : Texts \cup {Held, None}]]
    /\ revision \in [Units -> Contents] /\ file \in [Units -> Contents]
    /\ commit \in Commits
    /\ commit.pc = "open" => commit.revision \in [Units -> Contents]
    /\ load \in BOOLEAN
    /\ editor \in [Editors -> [unit : Units \cup {None}, marked : BOOLEAN]]
    /\ \A e \in Editors : editor[e].unit # None => unit[editor[e].unit].target # Gone
    /\ clock \in Texts
    /\ passing \in SUBSET Contents
    /\ shown \in [Units -> Texts]
    /\ missed \in SUBSET Units
    /\ disturbances \in 0 .. MaxDisturbances

LEMMA Distinct ==
    /\ Gone # Held /\ Gone # None /\ Held # None /\ None \notin Units
    /\ Gone \notin Nat /\ Held \notin Nat /\ None \notin Nat
    /\ None \notin [Units -> Contents]
BY PendingAssumption

LEMMA NoCommitTyped == NoCommit \in Commits /\ NoCommit.pc = "idle"
BY DEF NoCommit, Commits

LEMMA NewestTaken ==
    ASSUME NEW S \in SUBSET Rows, NEW u \in UnitsOf(S)
    PROVE  /\ Newest(OfUnit(S, u)) \in Texts
           /\ \E r \in OfUnit(S, u) : r.text = Newest(OfUnit(S, u))
           /\ \A r \in OfUnit(S, u) : r.text <= Newest(OfUnit(S, u))
<1> DEFINE T == {r.text : r \in OfUnit(S, u)}
<1>1. T \in SUBSET Texts /\ T # {}
  BY DEF OfUnit, UnitsOf, Rows
<1>2. T \in SUBSET Nat /\ \A x \in T : x <= MaxTexts
  BY <1>1, Bounds DEF Texts
<1> HIDE DEF T
<1>3. Max(T) \in T /\ \A x \in T : x <= Max(T)
  BY <1>1, <1>2, Bounds, MaxTaken
<1>4. Newest(OfUnit(S, u)) = Max(T)
  BY DEF Newest, T
<1> QED
  BY <1>1, <1>3, <1>4 DEF T

LEMMA MaxOfTwo ==
    ASSUME NEW a \in Nat, NEW b \in Nat
    PROVE  Max({a, b}) = IF a < b THEN b ELSE a
<1>1. PICK S \in SUBSET Nat : S = {a, b}
  OBVIOUS
<1>2. \A x \in S : x <= a + b
  BY <1>1
<1>3. Max(S) \in S /\ \A x \in S : x <= Max(S)
  BY <1>1, <1>2, MaxTaken
<1> QED
  BY <1>1, <1>3

LEMMA FlushTyped ==
    ASSUME TypeInv, NEW ok \in SUBSET Rows
    PROVE  Flush(ok) \in [Units -> Contents]
<1>1. \A u \in Units : (IF u \in UnitsOf(ok) THEN Newest(OfUnit(ok, u)) ELSE file[u]) \in Contents
  BY NewestTaken DEF TypeInv, Contents
<1> QED
  BY <1>1 DEF Flush

LEMMA TypeInit == Init => TypeInv
<1> SUFFICES ASSUME Init PROVE TypeInv
  OBVIOUS
<1>1. 0 \in Texts /\ 0 \in 0 .. MaxDisturbances
  BY Bounds DEF Texts
<1>2. unit \in [Units -> [target : Contents \cup {Held}, disk : Texts \cup {Held, None}]]
  BY <1>1 DEF Init, Contents
<1>3. revision \in [Units -> Contents] /\ file \in [Units -> Contents] /\ shown \in [Units -> Texts]
  BY <1>1 DEF Init, Contents
<1>4. editor \in [Editors -> [unit : Units \cup {None}, marked : BOOLEAN]]
      /\ \A e \in Editors : editor[e].unit = None
  BY DEF Init, Closed
<1> QED
  BY <1>1, <1>2, <1>3, <1>4, NoCommitTyped DEF Init, TypeInv, Contents

LEMMA SelectedTyped == TypeInv => Selected \in SUBSET Saved
BY DEF TypeInv, Selected

LEMMA OpenTyped ==
    ASSUME TypeInv, NEW e \in Editors, NEW u \in Units, Open(e, u)
    PROVE  TypeInv'
<1>1. editor' = [editor EXCEPT ![e] = [unit |-> u, marked |-> unit[u].disk # None]]
  BY DEF Open
<1>2. editor \in [Editors -> [unit : Units \cup {None}, marked : BOOLEAN]]
  BY DEF TypeInv
<1>3. editor' \in [Editors -> [unit : Units \cup {None}, marked : BOOLEAN]]
  BY <1>1, <1>2
<1>4. \A f \in Editors : editor'[f].unit # None => unit[editor'[f].unit].target # Gone
  BY <1>1, <1>2 DEF Open, TypeInv
<1> QED
  BY <1>3, <1>4 DEF TypeInv, Open, db, history

LEMMA SaveTyped ==
    ASSUME TypeInv, NEW e \in Editors, NEW good \in BOOLEAN, Save(e, good)
    PROVE  TypeInv'
<1>1. PICK u \in Units : u = editor[e].unit
  BY DEF Save, TypeInv
<1>2. clock' = clock + 1 /\ clock' \in Texts /\ 0 < clock' /\ clock' # Gone
  BY Bounds, Distinct DEF Save, TypeInv, Texts
<1>3. PICK r : r = [text |-> clock', unit |-> u, author |-> e, good |-> good,
                    blocking |-> FALSE, at |-> None]
  OBVIOUS
<1>4. r \in Saved
  BY <1>2, <1>3 DEF Saved, Rows
<1>5. pending' \in SUBSET Saved
  BY <1>1, <1>3, <1>4 DEF Save, TypeInv
<1>6. Snapshot(e, u) \in Texts \cup {Held, None}
  BY <1>1, Distinct DEF TypeInv, Snapshot, Save, Contents
<1>7. unit' = [unit EXCEPT ![u] = [target |-> clock', disk |-> Snapshot(e, u)]]
  BY <1>1 DEF Save
<1>8. /\ unit' \in [Units -> [target : Contents \cup {Held}, disk : Texts \cup {Held, None}]]
      /\ \A v \in Units : unit'[v].target = Gone => v # u /\ unit[v].target = Gone
  BY <1>2, <1>6, <1>7 DEF TypeInv, Contents
<1>9. editor \in [Editors -> [unit : Units \cup {None}, marked : BOOLEAN]]
  BY DEF TypeInv
<1>10. /\ editor' \in [Editors -> [unit : Units \cup {None}, marked : BOOLEAN]]
       /\ \A f \in Editors : editor'[f].unit # None => editor'[f].unit = editor[f].unit
  BY <1>9 DEF Save, Closed
<1>11. \A f \in Editors : editor'[f].unit # None => unit'[editor'[f].unit].target # Gone
  BY <1>8, <1>10 DEF TypeInv
<1>12. passing' \in SUBSET Contents /\ missed' \in SUBSET Units
  BY <1>1, <1>2 DEF Save, TypeInv, Contents
<1> QED
  BY <1>2, <1>5, <1>8, <1>10, <1>11, <1>12 DEF TypeInv, Save

LEMMA BeginTyped ==
    ASSUME TypeInv, NEW updating \in BOOLEAN, Begin(updating)
    PROVE  TypeInv'
<1>1. \A r \in Selected : r \in Saved /\ r \in Rows /\ 0 < r.text
  BY SelectedTyped DEF Saved
<1>2. PICK S \in SUBSET Rows : S = Selected /\ S \in SUBSET Saved /\ \A r \in S : 0 < r.text
  BY <1>1
<1>3. Groups(S) \in Seq(SUBSET S)
  BY <1>2, GroupsRight
<1>4. Groups(Selected) \in Seq(SUBSET Saved)
  BY <1>2, <1>3, LenProperties, ElementOfSeq, SeqDef
<1>5. NoCommit = [pc |-> "idle", updating |-> FALSE, groups |-> <<>>, ok |-> {},
                  failed |-> {}, locked |-> {}, revision |-> None, unread |-> {}]
  BY DEF NoCommit
<1>6. commit' = [pc |-> "open", updating |-> updating, groups |-> Groups(Selected), ok |-> {},
                 failed |-> {}, locked |-> {}, revision |-> revision,
                 unread |-> {u \in Units : file[u] # revision[u]}]
  BY <1>5 DEF Begin
<1>7. commit' \in Commits /\ commit'.revision = revision
  BY <1>4, <1>6 DEF Commits, TypeInv
<1> QED
  BY <1>7 DEF TypeInv, Begin, db, history

(* What a step of a commit does, by its parts.                              *)
SameRow(q, r) == q.text = r.text /\ q.unit = r.unit /\ q.good = r.good

WriteParts(group, ok, failed) ==
    /\ commit.pc = "open" /\ 1 \in DOMAIN commit.groups /\ group = commit.groups[1]
    /\ group \in SUBSET Saved /\ ok \subseteq group /\ failed \in SUBSET Saved
    /\ \A f \in failed : \E r \in group : SameRow(f, r)
    /\ file' = Flush(ok)
    /\ commit' = [pc |-> "open", updating |-> commit.updating, groups |-> Tail(commit.groups),
                  ok |-> commit.ok \cup ok, failed |-> commit.failed \cup failed,
                  locked |-> commit.locked \cup UnitsOf(group),
                  revision |-> IF ok = {} THEN commit.revision ELSE file',
                  unread |-> commit.unread]
    /\ shown' = [u \in Units |-> IF u \in UnitsOf(ok) THEN Max({shown[u], file'[u]})
                                                     ELSE shown[u]]

LEMMA WriteGroupParts ==
    ASSUME TypeInv, NEW refused \in SUBSET pending, WriteGroup(refused)
    PROVE  \E group, ok, failed : WriteParts(group, ok, failed)
<1>1. PICK l \in Nat : l = Len(commit.groups) /\ DOMAIN commit.groups = 1 .. l
  BY LenProperties DEF TypeInv, Commits
<1>2. l # 0
  <2> SUFFICES ASSUME l = 0 PROVE FALSE
    OBVIOUS
  <2>1. commit.groups = <<>>
    BY <1>1, EmptySeq DEF TypeInv, Commits
  <2> QED
    BY <2>1 DEF WriteGroup
<1>3. 1 \in DOMAIN commit.groups /\ Head(commit.groups) = commit.groups[1]
  BY <1>1, <1>2 DEF TypeInv, Commits
<1> DEFINE group == commit.groups[1]
           missing == {r \in group : file[r.unit] = Gone}
           ok == group \ (missing \cup refused)
           failed == {[r EXCEPT !.blocking = r \in missing, !.at = commit.revision] :
                        r \in missing \cup refused}
<1>4. group \in SUBSET Saved
  BY <1>1, <1>3, ElementOfSeq DEF TypeInv, Commits
<1>5. commit.pc = "open" /\ commit.revision \in [Units -> Contents]
      /\ refused \subseteq group
  BY <1>3 DEF WriteGroup, TypeInv
<1>6. \A f \in failed : f \in Saved /\ \E r \in group : SameRow(f, r)
  <2> SUFFICES ASSUME NEW r \in missing \cup refused
               PROVE  LET f == [r EXCEPT !.blocking = r \in missing, !.at = commit.revision] IN
                      f \in Saved /\ SameRow(f, r)
    BY <1>5
  <2>1. r \in Rows /\ 0 < r.text
    BY <1>4, <1>5 DEF Saved
  <2>2. PICK v \in [Units -> Contents] : v = commit.revision
    BY <1>5
  <2>3. ASSUME NEW b \in BOOLEAN
        PROVE  [r EXCEPT !.blocking = b, !.at = v] \in Saved
               /\ SameRow([r EXCEPT !.blocking = b, !.at = v], r)
    BY <2>1 DEF Rows, Saved, SameRow
  <2> HIDE DEF missing
  <2>4. CASE r \in missing
    BY <2>2, <2>3, <2>4
  <2>5. CASE r \notin missing
    <3>1. (r \in missing) = FALSE
      BY <2>5
    <3> QED
      BY <2>2, <2>3, <3>1
  <2> QED
    BY <2>4, <2>5
<1>7. file' = Flush(ok)
  BY <1>3 DEF WriteGroup
<1>8. commit' = [commit EXCEPT
        !.groups = Tail(@), !.locked = @ \cup UnitsOf(group), !.ok = @ \cup ok,
        !.failed = @ \cup failed, !.revision = IF ok = {} THEN @ ELSE file']
  BY <1>3 DEF WriteGroup
<1>9. shown' = [u \in Units |-> IF u \in UnitsOf(ok) THEN Max({shown[u], file'[u]})
                                                    ELSE shown[u]]
  BY <1>3 DEF WriteGroup
<1>10. ok \subseteq group
  OBVIOUS
<1> HIDE DEF ok, failed, group
<1>11. commit' = [pc |-> "open", updating |-> commit.updating, groups |-> Tail(commit.groups),
                  ok |-> commit.ok \cup ok, failed |-> commit.failed \cup failed,
                  locked |-> commit.locked \cup UnitsOf(group),
                  revision |-> IF ok = {} THEN commit.revision ELSE file',
                  unread |-> commit.unread]
  BY <1>5, <1>8 DEF TypeInv, Commits
<1>12. WriteParts(group, ok, failed)
  BY <1>3, <1>4, <1>5, <1>6, <1>7, <1>9, <1>10, <1>11 DEF WriteParts, group
<1> QED
  BY <1>12

LEMMA WriteGroupTyped ==
    ASSUME TypeInv, NEW refused \in SUBSET pending, WriteGroup(refused)
    PROVE  TypeInv'
<1>1. PICK group, ok, failed : WriteParts(group, ok, failed)
  BY WriteGroupParts
<1>2. ok \in SUBSET Rows /\ ok \in SUBSET Saved /\ failed \in SUBSET Saved
      /\ UnitsOf(group) \in SUBSET Units
  BY <1>1 DEF WriteParts, Saved, UnitsOf, Rows
<1>3. file' \in [Units -> Contents]
  BY <1>1, <1>2, FlushTyped DEF WriteParts
<1>4. Tail(commit.groups) \in Seq(SUBSET Saved)
  BY <1>1, HeadTailProperties, EmptySeq DEF WriteParts, TypeInv, Commits
<1>5. commit.revision \in [Units -> Contents]
  BY <1>1 DEF WriteParts, TypeInv
<1>6. PICK v \in [Units -> Contents] : v = IF ok = {} THEN commit.revision ELSE file'
  BY <1>3, <1>5
<1>7. commit' \in Commits /\ commit'.revision = v
  BY <1>1, <1>2, <1>4, <1>6 DEF WriteParts, TypeInv, Commits
<1>8. \A u \in Units : (IF u \in UnitsOf(ok) THEN Max({shown[u], file'[u]}) ELSE shown[u]) \in Texts
  <2> SUFFICES ASSUME NEW u \in Units, u \in UnitsOf(ok) PROVE Max({shown[u], file'[u]}) \in Texts
    BY DEF TypeInv
  <2>1. file'[u] \in Texts
    BY <1>1, <1>2, NewestTaken DEF WriteParts, Flush
  <2>2. shown[u] \in Texts
    BY DEF TypeInv
  <2> QED
    BY <2>1, <2>2, MaxOfTwo, Bounds
<1>9. shown' \in [Units -> Texts]
  BY <1>1, <1>8 DEF WriteParts
<1>10. disturbances' \in 0 .. MaxDisturbances
  BY Bounds DEF WriteGroup, Disturb, TypeInv
<1>11. UNCHANGED <<db, load, editor, clock, passing, missed>>
  BY DEF WriteGroup
<1> QED
  BY <1>3, <1>6, <1>7, <1>9, <1>10, <1>11 DEF TypeInv, db

(* The rows that a commit leaves are those that it does not apply.          *)
LEMMA FinishTyped ==
    ASSUME TypeInv, Finish
    PROVE  TypeInv'
<1>1. Remaining \in SUBSET Saved
  BY DEF TypeInv, Commits, Remaining
<1>2. \A u \in Units : DiskAfter(u) \in Texts \cup {Held, None}
  <2> SUFFICES ASSUME NEW u \in Units PROVE DiskAfter(u) \in Texts \cup {Held, None}
    OBVIOUS
  <2>1. commit.ok \in SUBSET Rows
    BY DEF TypeInv, Commits, Saved
  <2>2. u \in UnitsOf(commit.ok) => Newest(OfUnit(commit.ok, u)) \in Texts
    BY <2>1, NewestTaken
  <2>3. unit[u].disk \in Texts \cup {Held, None}
    BY DEF TypeInv
  <2> QED
    BY <2>2, <2>3 DEF DiskAfter
<1>3. \A u \in Units : /\ TargetAfter(u) \in Contents \cup {Held}
                       /\ TargetAfter(u) = Gone => unit[u].target = Gone
  BY Distinct DEF TypeInv, TargetAfter
<1>4. unit' = [u \in Units |-> [target |-> TargetAfter(u), disk |-> DiskAfter(u)]]
  BY DEF Finish
<1>5. /\ unit' \in [Units -> [target : Contents \cup {Held}, disk : Texts \cup {Held, None}]]
      /\ \A u \in Units : unit'[u].target = TargetAfter(u)
  BY <1>2, <1>3, <1>4
<1>6. editor' = editor /\ \A e \in Editors : editor[e].unit # None => editor[e].unit \in Units
  BY DEF Finish, TypeInv
<1>7. \A e \in Editors : editor'[e].unit # None => unit'[editor'[e].unit].target # Gone
  BY <1>3, <1>5, <1>6 DEF TypeInv
<1>8. commit' \in Commits /\ commit'.pc # "open"
  BY NoCommitTyped DEF Finish, Commits, NoCommit
<1>9. missed' \in SUBSET Units
  BY DEF Finish, TypeInv, Commits, UnitsOf, Saved, Rows
<1>10. revision' \in [Units -> Contents] /\ pending' \in SUBSET Saved
  BY <1>1 DEF Finish, TypeInv
<1>11. UNCHANGED <<file, load, editor, clock, passing, shown, disturbances>>
  BY DEF Finish
<1> QED
  BY <1>5, <1>7, <1>8, <1>9, <1>10, <1>11 DEF TypeInv

LEMMA MergeTyped ==
    ASSUME TypeInv, NEW u \in Units, NEW content \in Contents, Merge(u, content)
    PROVE  TypeInv'
<1>1. clock' \in Texts /\ passing' \in SUBSET Contents /\ 0 \in Texts
  BY Bounds DEF Merge, TypeInv, Texts, Contents
<1>2. file' \in [Units -> Contents] /\ shown' \in [Units -> Texts]
  BY <1>1 DEF Merge, TypeInv
<1>3. disturbances' \in 0 .. MaxDisturbances
  BY Bounds DEF Merge, Disturb, TypeInv
<1>4. commit' \in Commits /\ commit'.pc # "open" /\ load' = TRUE
  BY NoCommitTyped DEF Merge
<1>5. UNCHANGED <<db, editor, missed>>
  BY DEF Merge
<1> QED
  BY <1>1, <1>2, <1>3, <1>4, <1>5 DEF TypeInv, db

LEMMA LoadTyped ==
    ASSUME TypeInv, Load
    PROVE  TypeInv'
<1>1. CASE revision = file
  <2>1. UNCHANGED <<db, editor, passing, shown, missed, file, commit, clock, disturbances>>
        /\ load' = FALSE
    BY <1>1 DEF Load
  <2> QED
    BY <2>1 DEF TypeInv, db
<1>2. CASE revision # file
  <2>1. \A u \in Units : file[u] \in Contents
    BY DEF TypeInv
  <2>2. unit' = [u \in Units |-> IF Changed(u) THEN [target |-> file[u], disk |-> None]
                                                ELSE unit[u]]
    BY <1>2 DEF Load
  <2>3. /\ unit' \in [Units -> [target : Contents \cup {Held}, disk : Texts \cup {Held, None}]]
        /\ \A u \in Units : unit'[u].target = IF Changed(u) THEN file[u] ELSE unit[u].target
    BY <2>1, <2>2 DEF TypeInv
  <2>4. editor' = [e \in Editors |-> AfterLoad(e)]
    BY <1>2 DEF Load
  <2>5. editor' \in [Editors -> [unit : Units \cup {None}, marked : BOOLEAN]]
    BY <2>4 DEF AfterLoad, Closed, TypeInv
  <2>6. ASSUME NEW e \in Editors, editor'[e].unit # None
        PROVE  unit'[editor'[e].unit].target # Gone
    <3>1. editor'[e] = editor[e] /\ file[editor[e].unit] # Gone
      BY <2>4, <2>6 DEF AfterLoad, Closed
    <3>2. editor[e].unit \in Units /\ unit[editor[e].unit].target # Gone
      BY <2>6, <3>1 DEF TypeInv
    <3> QED
      BY <2>3, <3>1, <3>2
  <2>7. passing' \in SUBSET Contents
    BY <1>2, <2>1 DEF Load, TypeInv
  <2>8. shown' \in [Units -> Texts]
    <3>1. \A u \in Units : file[u] # Gone => file[u] \in Texts
      BY DEF TypeInv, Contents
    <3> QED
      BY <1>2, <3>1 DEF Load, TypeInv
  <2>9. pending' \in SUBSET Saved /\ missed' \in SUBSET Units /\ revision' = file /\ load' = FALSE
    BY <1>2 DEF Load, TypeInv
  <2>10. UNCHANGED <<file, commit, clock, disturbances>> /\ commit.pc = "idle"
    BY DEF Load
  <2> QED
    BY <2>3, <2>5, <2>6, <2>7, <2>8, <2>9, <2>10 DEF TypeInv
<1> QED
  BY <1>1, <1>2

LEMMA WeekRows ==
    ASSUME TypeInv, WeekPasses
    PROVE  /\ pending' \in SUBSET Saved
           /\ \A q \in pending' : \E r \in pending : SameRow(q, r)
           /\ \A r \in pending : \E q \in pending' : SameRow(q, r)
<1>1. \A r \in pending : [r EXCEPT !.at = None] \in Saved /\ SameRow([r EXCEPT !.at = None], r)
  BY DEF TypeInv, Saved, Rows, SameRow
<1>2. pending' = {[r EXCEPT !.at = None] : r \in pending}
  BY DEF WeekPasses
<1> QED
  BY <1>1, <1>2

LEMMA WeekTyped ==
    ASSUME TypeInv, WeekPasses
    PROVE  TypeInv'
<1>1. disturbances' \in 0 .. MaxDisturbances
  BY Bounds DEF WeekPasses, Disturb, TypeInv
<1> QED
  BY <1>1, WeekRows DEF WeekPasses, TypeInv, history

LEMMA TypeNext == TypeInv /\ [Next]_vars => TypeInv'
<1> SUFFICES ASSUME TypeInv, [Next]_vars PROVE TypeInv'
  OBVIOUS
<1>1. ASSUME NEW e \in Editors, NEW u \in Units, Open(e, u) PROVE TypeInv'
  BY <1>1, OpenTyped
<1>2. ASSUME NEW e \in Editors, NEW good \in BOOLEAN, Save(e, good) PROVE TypeInv'
  BY <1>2, SaveTyped
<1>3. ASSUME NEW updating \in BOOLEAN, Begin(updating) PROVE TypeInv'
  BY <1>3, BeginTyped
<1>4. ASSUME NEW refused \in SUBSET pending, WriteGroup(refused) PROVE TypeInv'
  BY <1>4, WriteGroupTyped
<1>5. CASE Finish
  BY <1>5, FinishTyped
<1>6. CASE Abort
  <2>1. disturbances' \in 0 .. MaxDisturbances
    BY <1>6, Bounds DEF Abort, Disturb, TypeInv
  <2> QED
    BY <1>6, <2>1, NoCommitTyped DEF Abort, TypeInv, db, history
<1>7. ASSUME NEW u \in Units, NEW content \in Contents, Merge(u, content) PROVE TypeInv'
  BY <1>7, MergeTyped
<1>8. CASE MergeNothing
  BY <1>8, NoCommitTyped DEF MergeNothing, TypeInv, db, history
<1>9. CASE Load
  BY <1>9, LoadTyped
<1>10. CASE WeekPasses
  BY <1>10, WeekTyped
<1>11. CASE UNCHANGED vars
  BY <1>11 DEF vars, db, history, TypeInv
<1> QED
  BY <1>1, <1>2, <1>3, <1>4, <1>5, <1>6, <1>7, <1>8, <1>9, <1>10, <1>11 DEF Next

LEMMA TypeAlways == Spec => []TypeInv
BY TypeInit, TypeNext, PTL DEF Spec

(* Every variable keeps its type: among others, no save writes a text over  *)
(* a unit that a load has deleted, and a commit that is open has the hash   *)
(* of a file to store.                                                      *)
THEOREM TypeCorrect == Spec => []TypeOK
<1>1. TypeInv => TypeOK
  <2> SUFFICES ASSUME TypeInv PROVE TypeOK
    OBVIOUS
  <2>1. commit \in Commits /\ Saved \subseteq Rows
    BY DEF TypeInv, Saved
  <2>2. \A i \in DOMAIN commit.groups : commit.groups[i] \subseteq Rows
    BY <2>1, LenProperties, ElementOfSeq DEF Commits
  <2> QED
    BY <2>1, <2>2 DEF TypeInv, TypeOK, Commits
<1> QED
  BY <1>1, TypeAlways, PTL

-----------------------------------------------------------------------------
(* The inductive invariant.                                                 *)

Has(u, text) == \E r \in OfUnit(pending, u) : r.text = text

(* A text is one change of one unit, and good ones were let into the file.  *)
RowsInv ==
    /\ \A q, r \in pending : q.text = r.text => SameRow(q, r)
    /\ \A r \in pending : r.text <= clock /\ (r.good => r.text \in passing)

TextsInv == \A u \in Units : shown[u] <= clock /\ (file[u] # Gone => file[u] <= clock)

(* A unit with pending changes shows the newest of them, or a failure.      *)
TargetInv ==
    \A r \in pending :
        \/ unit[r.unit].target = Held
        \/ /\ unit[r.unit].target \in Nat /\ r.text <= unit[r.unit].target
           /\ Has(r.unit, unit[r.unit].target)

DiskInv == \A r \in pending : r.unit \notin missed => unit[r.unit].disk # None

(* A row that a commit takes has a later one, or is one, that qualifies.    *)
Justified(r) == \E p \in OfUnit(pending, r.unit) : p.good /\ r.text <= p.text

(* What a commit wrote is in the file, which shows the newest of it.        *)
Wrote(q) ==
    /\ file[q.unit] # Gone /\ q.text <= file[q.unit]
    /\ \E p \in OfUnit(commit.ok, q.unit) : p.text = file[q.unit]

CommitInv ==
    commit.pc = "open" =>
        /\ Ordered(commit.groups)
        /\ \A i \in DOMAIN commit.groups : \A r \in commit.groups[i] :
               /\ r \in pending /\ Justified(r)
               /\ \A q \in commit.ok : Before(q, r)
        /\ commit.ok \subseteq pending
        /\ \A q \in commit.ok : Wrote(q)
        /\ \A f \in commit.failed : \E r \in pending : SameRow(f, r)
        /\ commit.revision = IF commit.ok = {} THEN revision ELSE file
        /\ \A u \in Units : u \notin commit.unread /\ u \notin UnitsOf(commit.ok) =>
               file[u] = revision[u]

(* Where the file shows an older text than before, the newer one is         *)
(* pending; where an older one is pending, those that would hide it are.    *)
ShownInv ==
    \A u \in Units :
        /\ file[u] # Gone /\ file[u] < shown[u] => Has(u, shown[u])
        /\ \A r \in OfUnit(pending, u) :
               /\ r.text < shown[u] => Has(u, shown[u])
               /\ file[u] # Gone /\ file[u] < shown[u] /\ r.text < file[u] => Has(u, file[u])

FilterInv ==
    \A u \in Units : file[u] \notin passing =>
        file[u] # Gone /\ \E r \in OfUnit(pending, u) : r.good /\ file[u] < r.text

ChangesInv ==
    /\ RowsInv /\ TextsInv /\ TargetInv /\ DiskInv /\ CommitInv
    /\ ShownInv /\ FilterInv /\ ComparisonIsFile

LEMMA ChangesInit == Init => ChangesInv
<1> SUFFICES ASSUME Init PROVE ChangesInv
  OBVIOUS
<1>1. /\ pending = {} /\ clock = 0 /\ passing = {0} /\ missed = {} /\ commit.pc = "idle"
      /\ \A u \in Units : /\ file[u] = 0 /\ revision[u] = 0 /\ shown[u] = 0
                          /\ unit[u].target = 0 /\ unit[u].disk = None
  BY DEF Init, NoCommit
<1>2. \A u \in Units : OfUnit(pending, u) = {}
  BY <1>1 DEF OfUnit
<1> QED
  BY <1>1, <1>2 DEF ChangesInv, RowsInv, TextsInv, TargetInv, DiskInv, CommitInv, ShownInv,
                    FilterInv, ComparisonIsFile, Comparison

(* A step that moves only the load, the editors or the bounds.              *)
LEMMA ChangesStutter ==
    ASSUME ChangesInv, UNCHANGED <<db, file, clock, passing, shown, missed>>,
           commit' = commit \/ commit'.pc # "open"
    PROVE  ChangesInv'
<1>1. CASE commit' = commit
  BY <1>1 DEF db, ChangesInv, RowsInv, TextsInv, TargetInv, DiskInv, CommitInv, ShownInv,
              FilterInv, ComparisonIsFile, Comparison, Has, OfUnit, Justified, Wrote, UnitsOf
<1>2. CASE commit'.pc # "open"
  BY <1>2 DEF db, ChangesInv, RowsInv, TextsInv, TargetInv, DiskInv, CommitInv, ShownInv,
              FilterInv, ComparisonIsFile, Comparison, Has, OfUnit
<1> QED
  BY <1>1, <1>2

(* A save adds the newest text of all.                                      *)
LEMMA SaveParts ==
    ASSUME TypeInv, NEW e \in Editors, NEW good \in BOOLEAN, Save(e, good)
    PROVE  \E n \in Rows :
               /\ n.unit = editor[e].unit /\ n.unit \in Units
               /\ n.text = clock + 1 /\ n.good = good
               /\ pending' = pending \cup {n}
<1>1. editor[e].unit \in Units
  BY DEF Save, TypeInv
<1>2. clock + 1 \in Texts
  BY Bounds DEF Save, TypeInv, Texts
<1>3. PICK n : n = [text |-> clock + 1, unit |-> editor[e].unit, author |-> e, good |-> good,
                    blocking |-> FALSE, at |-> None]
  OBVIOUS
<1>4. n \in Rows /\ n.unit = editor[e].unit /\ n.text = clock + 1 /\ n.good = good
  BY <1>1, <1>2, <1>3 DEF Rows
<1>5. pending' = pending \cup {n}
  BY <1>3 DEF Save
<1> QED
  BY <1>1, <1>4, <1>5

LEMMA ChangesSave ==
    ASSUME TypeInv, ChangesInv, NEW e \in Editors, NEW good \in BOOLEAN, Save(e, good)
    PROVE  ChangesInv'
<1>1. PICK n \in Rows : /\ n.unit = editor[e].unit /\ n.unit \in Units
                        /\ n.text = clock + 1 /\ n.good = good
                        /\ pending' = pending \cup {n}
  BY SaveParts
<1>2. PICK u \in Units : u = n.unit /\ u = editor[e].unit
  BY <1>1
<1>3. /\ clock \in Nat /\ clock' = clock + 1
      /\ passing' = (IF good THEN passing \cup {clock'} ELSE passing)
      /\ UNCHANGED <<revision, file, commit, shown>>
  BY Bounds DEF Save, TypeInv
<1>4. \A r \in pending : r.text \in Nat /\ r.text <= clock /\ r \in Rows /\ r.unit \in Units
  BY Bounds DEF TypeInv, Saved, Rows, ChangesInv, RowsInv
<1>5. /\ \A v \in Units : v # u => unit'[v] = unit[v]
      /\ unit'[u].target = clock' /\ unit'[u].disk = Snapshot(e, u)
  BY <1>2 DEF Save, TypeInv
<1>6. missed' = IF editor[e].marked = (unit[u].disk # None) THEN missed ELSE missed \cup {u}
  BY <1>2 DEF Save
<1>7. \A v, text : Has(v, text) => Has(v, text)'
  BY <1>1 DEF Has, OfUnit
<1>8. \A v \in Units : /\ shown[v] \in Nat /\ shown[v] <= clock
                       /\ file[v] # Gone => file[v] \in Nat /\ file[v] <= clock
  BY Bounds DEF TypeInv, ChangesInv, TextsInv, Contents
<1>9. editor[e].marked \in BOOLEAN
  BY DEF TypeInv
<1>10. u \notin missed' => /\ u \notin missed /\ unit'[u].disk # None
                           /\ unit'[u].disk = Comparison(u)
  <2> SUFFICES ASSUME u \notin missed'
               PROVE  /\ u \notin missed /\ unit'[u].disk # None
                      /\ unit'[u].disk = Comparison(u)
    OBVIOUS
  <2>1. editor[e].marked = (unit[u].disk # None) /\ u \notin missed
    BY <1>6
  <2>2. unit[u].target \in Contents \cup {Held}
    BY DEF TypeInv
  <2>3. unit[u].target # None
    BY <2>2, Distinct, Bounds DEF Contents
  <2>4. CASE unit[u].disk # None
    <3>1. Snapshot(e, u) = unit[u].disk
      BY <2>1, <2>4 DEF Snapshot
    <3> QED
      BY <1>5, <2>1, <2>4, <3>1 DEF Comparison
  <2>5. CASE unit[u].disk = None
    <3>1. ~editor[e].marked
      BY <2>1, <2>5
    <3>2. Snapshot(e, u) = unit[u].target
      BY <3>1 DEF Snapshot
    <3> QED
      BY <1>5, <2>1, <2>3, <2>5, <3>2 DEF Comparison
  <2> QED
    BY <2>4, <2>5
<1>11. RowsInv'
  <2>1. \A q, r \in pending' : q.text = r.text => SameRow(q, r)
    BY <1>1, <1>3, <1>4 DEF ChangesInv, RowsInv, SameRow
  <2>2. \A r \in pending' : r.text <= clock' /\ (r.good => r.text \in passing')
    BY <1>1, <1>3, <1>4 DEF ChangesInv, RowsInv
  <2> QED
    BY <2>1, <2>2 DEF RowsInv
<1>12. TextsInv'
  BY <1>3, <1>8 DEF TextsInv
<1>13. TargetInv'
  <2> SUFFICES ASSUME NEW r \in pending'
               PROVE  \/ unit'[r.unit].target = Held
                      \/ /\ unit'[r.unit].target \in Nat /\ r.text <= unit'[r.unit].target
                         /\ Has(r.unit, unit[r.unit].target)'
    BY DEF TargetInv
  <2>1. CASE r.unit = u
    <3>1. unit'[r.unit].target = clock' /\ clock' \in Nat /\ r.text <= clock'
      BY <1>1, <1>3, <1>4, <1>5, <2>1
    <3>2. Has(u, clock)'
      BY <1>1, <1>2, <1>3 DEF Has, OfUnit
    <3> QED
      BY <2>1, <3>1, <3>2 DEF Has
  <2>2. CASE r.unit # u
    <3>1. r \in pending /\ r.unit \in Units /\ unit'[r.unit] = unit[r.unit]
      BY <1>1, <1>2, <1>4, <1>5, <2>2
    <3>2. PICK t : t = unit[r.unit].target
      OBVIOUS
    <3>3. t = Held \/ (t \in Nat /\ r.text <= t /\ Has(r.unit, t))
      BY <3>1, <3>2 DEF ChangesInv, TargetInv
    <3>4. Has(r.unit, t) => Has(r.unit, t)'
      BY <1>7
    <3> QED
      BY <3>1, <3>2, <3>3, <3>4 DEF Has
  <2> QED
    BY <2>1, <2>2
<1>14. DiskInv'
  <2> SUFFICES ASSUME NEW r \in pending', r.unit \notin missed' PROVE unit'[r.unit].disk # None
    BY DEF DiskInv
  <2>1. CASE r.unit = u
    BY <1>10, <2>1
  <2>2. CASE r.unit # u
    BY <1>1, <1>2, <1>4, <1>5, <1>6, <2>2 DEF ChangesInv, DiskInv
  <2> QED
    BY <2>1, <2>2
<1>15. CommitInv'
  <2>1. \A r : Justified(r) => Justified(r)'
    BY <1>1 DEF Justified, OfUnit
  <2>2. \A q : Wrote(q) => Wrote(q)'
    BY <1>3 DEF Wrote, OfUnit
  <2>3. pending \subseteq pending'
    BY <1>1
  <2> QED
    BY <1>3, <2>1, <2>2, <2>3 DEF ChangesInv, CommitInv, UnitsOf
<1>16. ShownInv'
  <2> SUFFICES ASSUME NEW v \in Units
               PROVE  /\ file[v] # Gone /\ file[v] < shown[v] => Has(v, shown[v])'
                      /\ \A r \in OfUnit(pending', v) :
                           /\ r.text < shown[v] => Has(v, shown[v])'
                           /\ file[v] # Gone /\ file[v] < shown[v] /\ r.text < file[v]
                                 => Has(v, file[v])'
    BY <1>3 DEF ShownInv, Has, OfUnit
  <2>2. \A r \in OfUnit(pending', v) : r \in OfUnit(pending, v) \/ r = n
    BY <1>1 DEF OfUnit
  <2>3. ~(n.text < shown[v]) /\ (file[v] # Gone => ~(n.text < file[v]))
    BY <1>1, <1>3, <1>8
  <2>4. shown' = shown /\ file' = file
    BY <1>3
  <2>5. (Has(v, shown[v]) => Has(v, shown[v])') /\ (Has(v, file[v]) => Has(v, file[v])')
    BY <1>1, <2>4 DEF Has, OfUnit
  <2> QED
    BY <2>2, <2>3, <2>5 DEF ChangesInv, ShownInv
<1>17. FilterInv'
  BY <1>1, <1>3 DEF ChangesInv, FilterInv, OfUnit
<1>18. ComparisonIsFile'
  <2> SUFFICES ASSUME NEW v \in Units, v \notin missed' PROVE Comparison(v)' = revision'[v]
    BY DEF ComparisonIsFile
  <2>1. CASE v = u
    BY <1>3, <1>10, <2>1 DEF ChangesInv, ComparisonIsFile, Comparison
  <2>2. CASE v # u
    BY <1>3, <1>5, <1>6, <2>2 DEF ChangesInv, ComparisonIsFile, Comparison
  <2> QED
    BY <2>1, <2>2
<1> QED
  BY <1>11, <1>12, <1>13, <1>14, <1>15, <1>16, <1>17, <1>18 DEF ChangesInv

LEMMA ChangesBegin ==
    ASSUME TypeInv, ChangesInv, NEW updating \in BOOLEAN, Begin(updating)
    PROVE  ChangesInv'
<1>1. PICK S \in SUBSET Rows : S = Selected /\ S \subseteq pending /\ \A r \in S : 0 < r.text
  BY SelectedTyped DEF Saved, Selected
<1>2. PICK groups \in Seq(SUBSET S) : groups = Groups(Selected) /\ Ordered(groups)
  BY <1>1, GroupsRight
<1>3. commit' = [pc |-> "open", updating |-> updating, groups |-> groups, ok |-> {},
                 failed |-> {}, locked |-> {}, revision |-> revision,
                 unread |-> {u \in Units : file[u] # revision[u]}]
  BY <1>2 DEF Begin, NoCommit
<1>4. UNCHANGED <<db, file, clock, passing, shown, missed>>
  BY DEF Begin, history
<1>5. \A i \in DOMAIN groups : groups[i] \in SUBSET S
  BY <1>2, LenProperties, ElementOfSeq
<1>6. \A r \in S : Justified(r)
  BY <1>1 DEF Selected, Passes, Justified
<1>7. CommitInv'
  <2>1. UnitsOf({}) = {}
    BY DEF UnitsOf
  <2>2. \A r : Justified(r) => Justified(r)'
    BY <1>4 DEF db, Justified, OfUnit
  <2> QED
    BY <1>1, <1>2, <1>3, <1>4, <1>5, <1>6, <2>1, <2>2 DEF CommitInv, db
<1> QED
  BY <1>4, <1>7 DEF db, ChangesInv, RowsInv, TextsInv, TargetInv, DiskInv, ShownInv,
                    FilterInv, ComparisonIsFile, Comparison, Has, OfUnit

(* What one author's write leaves in the file.                              *)
LEMMA Flushed ==
    ASSUME TypeInv, NEW group, NEW ok, NEW failed, WriteParts(group, ok, failed),
           NEW u \in Units
    PROVE  /\ u \notin UnitsOf(ok) => file'[u] = file[u] /\ shown'[u] = shown[u]
           /\ u \in UnitsOf(ok) =>
                /\ file'[u] \in Nat /\ file'[u] # Gone
                /\ \E p \in OfUnit(ok, u) : p.text = file'[u]
                /\ \A q \in OfUnit(ok, u) : q.text <= file'[u]
                /\ shown'[u] = IF shown[u] < file'[u] THEN file'[u] ELSE shown[u]
<1>1. ok \in SUBSET Rows
  BY DEF WriteParts, Saved
<1>2. CASE u \notin UnitsOf(ok)
  BY <1>2 DEF WriteParts, Flush
<1>3. CASE u \in UnitsOf(ok)
  <2>1. file'[u] = Newest(OfUnit(ok, u))
    BY <1>3 DEF WriteParts, Flush
  <2>2. /\ file'[u] \in Nat
        /\ \E p \in OfUnit(ok, u) : p.text = file'[u]
        /\ \A q \in OfUnit(ok, u) : q.text <= file'[u]
    BY <1>1, <1>3, <2>1, NewestTaken, Bounds
  <2>3. shown[u] \in Nat
    BY Bounds DEF TypeInv
  <2>4. shown'[u] = Max({shown[u], file'[u]})
    BY <1>3 DEF WriteParts
  <2>5. shown'[u] = IF shown[u] < file'[u] THEN file'[u] ELSE shown[u]
    BY <2>2, <2>3, <2>4, MaxOfTwo
  <2> QED
    BY <1>3, <2>2, <2>5, Distinct
<1> QED
  BY <1>2, <1>3

LEMMA TailOf ==
    ASSUME NEW S, NEW s \in Seq(S), 1 \in DOMAIN s
    PROVE  \A i \in DOMAIN Tail(s) : i + 1 \in DOMAIN s /\ i + 1 # 1 /\ 1 < i + 1 /\ i \in Nat
                                     /\ Tail(s)[i] = s[i + 1]
<1>1. PICK l \in Nat : l = Len(s) /\ DOMAIN s = 1 .. l
  BY LenProperties
<1>2. s # <<>> /\ Tail(s) \in Seq(S) /\ Len(Tail(s)) = l - 1
      /\ \A i \in 1 .. l - 1 : Tail(s)[i] = s[i + 1]
  BY <1>1, HeadTailProperties, EmptySeq
<1>3. DOMAIN Tail(s) = 1 .. l - 1
  BY <1>1, <1>2, LenProperties
<1> QED
  BY <1>1, <1>2, <1>3

LEMMA PendingTyped ==
    ASSUME TypeInv
    PROVE  \A r \in pending : r \in Rows /\ r.unit \in Units /\ r.text \in Nat
BY Bounds DEF TypeInv, Saved, Rows

LEMMA ChangesWrite ==
    ASSUME TypeInv, ChangesInv, NEW refused \in SUBSET pending, WriteGroup(refused)
    PROVE  ChangesInv'
<1>1. PICK group, ok, failed : WriteParts(group, ok, failed)
  BY WriteGroupParts
<1>2. UNCHANGED <<db, clock, passing, missed>>
  BY DEF WriteGroup
<1>3. /\ commit.pc = "open" /\ commit'.pc = "open" /\ 1 \in DOMAIN commit.groups
      /\ group = commit.groups[1] /\ ok \subseteq group
      /\ \A f \in failed : \E r \in group : SameRow(f, r)
      /\ commit'.groups = Tail(commit.groups) /\ commit'.ok = commit.ok \cup ok
      /\ commit'.failed = commit.failed \cup failed /\ commit'.unread = commit.unread
      /\ commit'.revision = IF ok = {} THEN commit.revision ELSE file'
  BY <1>1 DEF WriteParts
<1>4. /\ \A r \in group : /\ r \in pending /\ Justified(r) /\ r.unit \in Units
                          /\ r.text \in Nat /\ r \in Rows
      /\ \A q \in commit.ok : q \in pending /\ Wrote(q) /\ q.unit \in Units /\ q.text \in Nat
  <2>1. \A r \in group : r \in pending /\ Justified(r)
    BY <1>3 DEF ChangesInv, CommitInv
  <2>2. \A q \in commit.ok : q \in pending /\ Wrote(q)
    BY <1>3 DEF ChangesInv, CommitInv
  <2> QED
    BY <2>1, <2>2, PendingTyped
<1>5. PICK groups \in Seq(SUBSET Saved) : groups = commit.groups
  BY DEF TypeInv, Commits
<1>6. \A i \in DOMAIN Tail(groups) : /\ i + 1 \in DOMAIN groups /\ 1 < i + 1
                                     /\ Tail(groups)[i] = groups[i + 1] /\ i \in Nat
  BY <1>3, <1>5, TailOf
<1>7. \A r : Justified(r)' <=> Justified(r)
  BY <1>2 DEF db, Justified, OfUnit
<1>8. \A q \in group : \A i \in DOMAIN Tail(groups) : \A r \in Tail(groups)[i] : Before(q, r)
  BY <1>3, <1>5, <1>6 DEF ChangesInv, CommitInv, Ordered
<1>9. \A q \in ok : q \in group
  BY <1>3
<1>10. \A u \in Units : u \in UnitsOf(ok) <=> \E q \in ok : q.unit = u
  BY DEF UnitsOf
<1>11. ASSUME NEW q \in commit.ok \cup ok
       PROVE  Wrote(q)'
  <2>1. q.unit \in Units
    BY <1>4, <1>9
  <2>2. PICK u \in Units : u = q.unit
    BY <2>1
  <2>3. CASE u \in UnitsOf(ok)
    <3>1. PICK p \in OfUnit(ok, u) : p.text = file'[u]
      BY <1>1, <2>3, Flushed
    <3>2. file'[u] # Gone /\ \A r \in OfUnit(ok, u) : r.text <= file'[u]
      BY <1>1, <2>3, Flushed
    <3>3. q.text <= file'[u]
      <4>1. CASE q \in ok
        BY <2>2, <3>2, <4>1 DEF OfUnit
      <4>2. CASE q \in commit.ok
        <5>1. p \in group /\ p.unit = q.unit /\ p.text \in Nat
          BY <1>4, <1>9, <2>2, <3>1 DEF OfUnit
        <5>2. q.text < p.text
          BY <1>3, <4>2, <5>1 DEF ChangesInv, CommitInv, Before
        <5> QED
          BY <1>4, <3>1, <4>2, <5>1, <5>2
      <4> QED
        BY <4>1, <4>2
    <3> QED
      BY <1>3, <2>2, <3>1, <3>2, <3>3 DEF Wrote, OfUnit
  <2>4. CASE u \notin UnitsOf(ok)
    <3>1. file'[u] = file[u]
      BY <1>1, <2>4, Flushed
    <3>2. q \in commit.ok
      BY <1>10, <2>2, <2>4
    <3> QED
      BY <1>3, <1>4, <2>2, <3>1, <3>2 DEF Wrote, OfUnit
  <2> QED
    BY <2>3, <2>4
<1>12. commit'.revision = IF commit'.ok = {} THEN revision ELSE file'
  <2>1. CASE ok = {}
    <3>1. \A u \in Units : file'[u] = file[u]
      BY <1>1, <1>10, <2>1, Flushed
    <3>2. file' \in [Units -> Contents] /\ file \in [Units -> Contents]
      BY <1>1, FlushTyped DEF WriteParts, TypeInv, Saved
    <3>3. file' = file
      BY <3>1, <3>2
    <3> QED
      BY <1>3, <2>1, <3>3 DEF ChangesInv, CommitInv
  <2> QED
    BY <1>3, <2>1
<1>13. \A u \in Units : u \notin commit'.unread /\ u \notin UnitsOf(commit'.ok) =>
           file'[u] = revision'[u]
  <2> SUFFICES ASSUME NEW u \in Units, u \notin commit.unread, u \notin UnitsOf(commit.ok \cup ok)
               PROVE  file'[u] = revision'[u]
    BY <1>3
  <2>1. u \notin UnitsOf(commit.ok) /\ u \notin UnitsOf(ok)
    BY DEF UnitsOf
  <2>2. file'[u] = file[u] /\ revision' = revision
    BY <1>1, <1>2, <2>1, Flushed DEF db
  <2> QED
    BY <1>3, <2>1, <2>2 DEF ChangesInv, CommitInv
<1>14. CommitInv'
  <2>1. Ordered(commit'.groups)
    <3>1. Ordered(groups)
      BY <1>3, <1>5 DEF ChangesInv, CommitInv
    <3>2. \A i, j \in DOMAIN Tail(groups) : i < j => i + 1 < j + 1
      BY <1>6
    <3>3. Ordered(Tail(groups))
      BY <1>6, <3>1, <3>2 DEF Ordered
    <3> QED
      BY <1>3, <1>5, <3>3
  <2>2. \A i \in DOMAIN commit'.groups : \A r \in commit'.groups[i] :
            /\ r \in pending' /\ Justified(r)'
            /\ \A q \in commit'.ok : Before(q, r)
    BY <1>2, <1>3, <1>5, <1>6, <1>7, <1>8, <1>9 DEF ChangesInv, CommitInv, db
  <2>3. commit'.ok \subseteq pending'
    BY <1>2, <1>3, <1>4 DEF db
  <2>4. \A f \in commit'.failed : \E r \in pending' : SameRow(f, r)
    BY <1>2, <1>3, <1>4 DEF ChangesInv, CommitInv, db
  <2>5. \A q \in commit'.ok : Wrote(q)'
    BY <1>3, <1>11
  <2> QED
    BY <1>2, <1>12, <1>13, <2>1, <2>2, <2>3, <2>4, <2>5 DEF CommitInv, db
<1>15. \A u, text : Has(u, text)' <=> Has(u, text)
  BY <1>2 DEF db, Has, OfUnit
<1>16. \A u \in Units : /\ clock \in Nat /\ shown[u] \in Nat /\ shown[u] <= clock
                        /\ file[u] # Gone => file[u] \in Nat /\ file[u] <= clock
  BY Bounds DEF TypeInv, ChangesInv, TextsInv, Contents
<1>17. ASSUME NEW u \in Units, u \in UnitsOf(ok)
       PROVE  \E p \in OfUnit(pending, u) : p.text = file'[u] /\ p \in group
  BY <1>1, <1>4, <1>9, <1>17, Flushed DEF OfUnit
<1>18. TextsInv'
  <2> SUFFICES ASSUME NEW u \in Units
               PROVE  shown'[u] <= clock /\ (file'[u] # Gone => file'[u] <= clock)
    BY <1>2 DEF TextsInv
  <2>1. CASE u \notin UnitsOf(ok)
    BY <1>1, <1>16, <2>1, Flushed
  <2>2. CASE u \in UnitsOf(ok)
    <3>1. file'[u] <= clock
      BY <1>17, <2>2 DEF ChangesInv, RowsInv, OfUnit
    <3>2. shown'[u] = IF shown[u] < file'[u] THEN file'[u] ELSE shown[u]
      BY <1>1, <2>2, Flushed
    <3> QED
      BY <1>16, <3>1, <3>2
  <2> QED
    BY <2>1, <2>2
<1>19. ShownInv'
  <2> SUFFICES ASSUME NEW u \in Units
               PROVE  /\ file'[u] # Gone /\ file'[u] < shown'[u] => Has(u, shown[u])'
                      /\ \A r \in OfUnit(pending', u) :
                           /\ r.text < shown'[u] => Has(u, shown[u])'
                           /\ file'[u] # Gone /\ file'[u] < shown'[u] /\ r.text < file'[u]
                                 => Has(u, file[u])'
    BY DEF ShownInv
  <2>1. PICK s, f : s = shown'[u] /\ f = file'[u]
    OBVIOUS
  <2>2. (Has(u, s) => Has(u, shown[u])') /\ (Has(u, f) => Has(u, file[u])')
    BY <1>2, <2>1 DEF Has, OfUnit, db
  <2>3. /\ f # Gone /\ f < s => Has(u, s)
        /\ \A r \in OfUnit(pending, u) :
             /\ r.text < s => Has(u, s)
             /\ f # Gone /\ f < s /\ r.text < f => Has(u, f)
    <3>1. CASE u \notin UnitsOf(ok)
      <4>1. s = shown[u] /\ f = file[u]
        BY <1>1, <2>1, <3>1, Flushed
      <4> QED
        BY <4>1 DEF ChangesInv, ShownInv
    <3>2. CASE u \in UnitsOf(ok)
      <4>1. PICK p \in OfUnit(pending, u) : p.text = f
        BY <1>17, <2>1, <3>2
      <4>2. f \in Nat /\ s = IF shown[u] < f THEN f ELSE shown[u]
        BY <1>1, <2>1, <3>2, Flushed
      <4>3. Has(u, f)
        BY <4>1 DEF Has
      <4>4. CASE shown[u] < f
        BY <4>2, <4>3, <4>4
      <4>5. CASE ~(shown[u] < f)
        <5>1. s = shown[u]
          BY <4>2, <4>5
        <5>2. \A r \in OfUnit(pending, u) : r.text < s => Has(u, s)
          BY <5>1 DEF ChangesInv, ShownInv
        <5> QED
          BY <4>1, <4>3, <5>2
      <4> QED
        BY <4>4, <4>5
    <3> QED
      BY <3>1, <3>2
  <2> QED
    BY <1>2, <2>1, <2>2, <2>3 DEF db
<1>20. FilterInv'
  <2> SUFFICES ASSUME NEW u \in Units, file'[u] \notin passing
               PROVE  file'[u] # Gone /\ \E r \in OfUnit(pending, u) : r.good /\ file'[u] < r.text
    BY <1>2 DEF FilterInv, db, OfUnit
  <2>1. CASE u \notin UnitsOf(ok)
    <3>1. file'[u] = file[u]
      BY <1>1, <2>1, Flushed
    <3> QED
      BY <3>1 DEF ChangesInv, FilterInv
  <2>2. CASE u \in UnitsOf(ok)
    <3>1. PICK p \in OfUnit(pending, u) : p.text = file'[u] /\ p \in group
      BY <1>17, <2>2
    <3>2. PICK r \in OfUnit(pending, u) : r.good /\ p.text <= r.text
      BY <1>4, <3>1 DEF Justified, OfUnit
    <3>3. r.text \in passing /\ r.text \in Nat
      BY <3>2, Bounds DEF ChangesInv, RowsInv, OfUnit, TypeInv, Saved, Rows
    <3>4. p.text < r.text
      BY <1>4, <3>1, <3>2, <3>3
    <3>5. file'[u] # Gone
      BY <1>1, <2>2, Flushed
    <3> QED
      BY <3>1, <3>2, <3>4, <3>5
  <2> QED
    BY <2>1, <2>2
<1>21. RowsInv' /\ TargetInv' /\ DiskInv' /\ ComparisonIsFile'
  BY <1>2 DEF db, ChangesInv, RowsInv, TargetInv, DiskInv, ComparisonIsFile, Comparison, Has, OfUnit
<1> QED
  BY <1>14, <1>18, <1>19, <1>20, <1>21 DEF ChangesInv

(* A finished commit drops the rows that it applied and keeps the others.   *)
FinishParts ==
    /\ \A r \in pending' : \E q \in pending : SameRow(r, q) /\ ~Applied(q)
    /\ \A q \in pending : Applied(q) \/ \E r \in pending' : SameRow(r, q)
    /\ \A q \in pending : Applied(q) <=>
           q.unit \in UnitsOf(commit.ok) /\ q.text <= file[q.unit]
    /\ \A u \in UnitsOf(commit.ok) :
           /\ u \in Units /\ file[u] \in Nat /\ file[u] # Gone
           /\ Newest(OfUnit(commit.ok, u)) = file[u]
           /\ \E p \in pending : p.unit = u /\ p.text = file[u]
    /\ \A u \in UnitsOf(commit.failed) : \E q \in pending : q.unit = u

LEMMA FinishRows ==
    ASSUME TypeInv, ChangesInv, Finish
    PROVE  FinishParts
<1>1. /\ commit.ok \subseteq pending /\ \A q \in commit.ok : Wrote(q)
      /\ \A f \in commit.failed : \E r \in pending : SameRow(f, r)
  BY DEF Finish, ChangesInv, CommitInv
<1>2. pending' = Remaining
  BY DEF Finish
<1>3. \A q, r \in pending : q.text = r.text => SameRow(q, r)
  BY DEF ChangesInv, RowsInv
<1>4. \A q, r : SameRow(q, r) => (Applied(q) <=> Applied(r))
  BY DEF SameRow, Applied
<1>5. ASSUME NEW r \in Remaining
      PROVE  \E q \in pending : SameRow(r, q) /\ ~Applied(q)
  <2>1. CASE r \in pending /\ ~Applied(r)
    BY <2>1 DEF SameRow
  <2>2. CASE r \in commit.failed /\ ~Applied(r)
    BY <1>1, <1>4, <2>2
  <2> QED
    BY <2>1, <2>2 DEF Remaining
<1>6. ASSUME NEW q \in pending, ~Applied(q)
      PROVE  \E r \in Remaining : SameRow(r, q)
  <2>1. CASE \A f \in commit.failed : f.text # q.text
    BY <1>6, <2>1 DEF Remaining, SameRow
  <2>2. CASE \E f \in commit.failed : f.text = q.text
    <3>1. PICK f \in commit.failed : f.text = q.text
      BY <2>2
    <3>2. PICK r \in pending : SameRow(f, r)
      BY <1>1
    <3>3. SameRow(f, q)
      BY <1>3, <3>1, <3>2 DEF SameRow
    <3>4. f \in Remaining
      BY <1>4, <1>6, <3>3 DEF Remaining
    <3> QED
      BY <3>3, <3>4
  <2> QED
    BY <2>1, <2>2
<1>7. ASSUME NEW u \in UnitsOf(commit.ok)
      PROVE  /\ u \in Units /\ file[u] \in Nat /\ file[u] # Gone
             /\ Newest(OfUnit(commit.ok, u)) = file[u]
             /\ \E p \in commit.ok : p.unit = u /\ p.text = file[u] /\ p \in pending
             /\ \A q \in commit.ok : q.unit = u => q.text <= file[u]
  <2>1. PICK q \in commit.ok : q.unit = u
    BY DEF UnitsOf
  <2>2. file[u] # Gone /\ \E p \in OfUnit(commit.ok, u) : p.text = file[u]
    BY <1>1, <2>1 DEF Wrote
  <2>3. PICK p \in commit.ok : p.unit = u /\ p.text = file[u] /\ p \in pending
    BY <1>1, <2>2 DEF OfUnit
  <2>4. \A r \in commit.ok : r.unit = u => r.text <= file[u]
    BY <1>1 DEF Wrote
  <2>5. u \in Units /\ file[u] \in Nat
    BY <2>3, PendingTyped
  <2>6. commit.ok \in SUBSET Rows
    BY DEF TypeInv, Commits, Saved
  <2>7. PICK n : n = Newest(OfUnit(commit.ok, u))
    OBVIOUS
  <2>8. /\ n \in Nat /\ \E r \in OfUnit(commit.ok, u) : r.text = n
        /\ \A r \in OfUnit(commit.ok, u) : r.text <= n
    BY <2>6, <2>7, NewestTaken, Bounds
  <2>9. n = file[u]
    BY <2>3, <2>4, <2>5, <2>8 DEF OfUnit
  <2> QED
    BY <2>2, <2>3, <2>4, <2>5, <2>7, <2>9
<1>8. ASSUME NEW q \in pending
      PROVE  Applied(q) <=> q.unit \in UnitsOf(commit.ok) /\ q.text <= file[q.unit]
  <2>1. q.unit \in Units /\ q.text \in Nat
    BY PendingTyped
  <2>2. CASE q.unit \in UnitsOf(commit.ok)
    <3>1. PICK p \in commit.ok : p.unit = q.unit /\ p.text = file[q.unit]
      BY <1>7, <2>2
    <3>2. \A r \in OfUnit(commit.ok, q.unit) : r.text \in Nat /\ r.text <= file[q.unit]
      BY <1>1, <1>7, <2>2, PendingTyped DEF OfUnit
    <3>3. file[q.unit] \in Nat
      BY <1>7, <2>2
    <3>4. Applied(q) => q.text <= file[q.unit]
      BY <2>1, <3>2, <3>3 DEF Applied
    <3>5. q.text <= file[q.unit] => Applied(q)
      BY <3>1 DEF Applied, OfUnit
    <3> QED
      BY <2>2, <3>4, <3>5
  <2>3. CASE q.unit \notin UnitsOf(commit.ok)
    BY <2>3 DEF Applied, OfUnit, UnitsOf
  <2> QED
    BY <2>2, <2>3
<1>9. \A u \in UnitsOf(commit.failed) : \E q \in pending : q.unit = u
  BY <1>1 DEF UnitsOf, SameRow
<1>10. \A u \in UnitsOf(commit.ok) :
         /\ u \in Units /\ file[u] \in Nat /\ file[u] # Gone
         /\ Newest(OfUnit(commit.ok, u)) = file[u]
         /\ \E p \in pending : p.unit = u /\ p.text = file[u]
  BY <1>7
<1> QED
  BY <1>2, <1>5, <1>6, <1>8, <1>9, <1>10 DEF FinishParts

LEMMA FinishComparison ==
    ASSUME TypeInv, ChangesInv, Finish
    PROVE  ComparisonIsFile'
<1> SUFFICES ASSUME NEW u \in Units, u \notin missed'
             PROVE  (IF unit'[u].disk # None THEN unit'[u].disk ELSE unit'[u].target) = revision'[u]
  BY DEF ComparisonIsFile, Comparison
<1>1. FinishParts
  BY FinishRows
<1>2. /\ unit'[u].target = TargetAfter(u) /\ unit'[u].disk = DiskAfter(u)
      /\ revision' = commit.revision /\ pending' = Remaining
  BY DEF Finish
<1>3. /\ u \notin missed \ UnitsOf(commit.ok)
      /\ ~(u \in UnitsOf(commit.ok) /\ TargetAfter(u) = Held /\ DiskAfter(u) = None)
      /\ UnitsOf(commit.ok) # {} => u \notin commit.unread \ UnitsOf(commit.ok)
  BY DEF Finish
<1>4. /\ commit.revision = IF commit.ok = {} THEN revision ELSE file
      /\ u \notin commit.unread /\ u \notin UnitsOf(commit.ok) => file[u] = revision[u]
  BY DEF Finish, ChangesInv, CommitInv
<1>5. UnitsOf(commit.ok) = {} <=> commit.ok = {}
  BY DEF UnitsOf
<1>6. CASE u \in UnitsOf(commit.ok)
  <2>1. revision'[u] = file[u] /\ file[u] \in Nat /\ file[u] # None
        /\ Newest(OfUnit(commit.ok, u)) = file[u]
    BY <1>1, <1>2, <1>4, <1>5, <1>6, Distinct DEF FinishParts
  <2>2. CASE u \in UnitsOf(Remaining)
    BY <1>2, <1>6, <2>1, <2>2 DEF DiskAfter
  <2>3. CASE u \notin UnitsOf(Remaining)
    <3>1. DiskAfter(u) = None /\ TargetAfter(u) # Held
      BY <1>3, <1>6, <2>3 DEF DiskAfter
    <3>2. TargetAfter(u) = unit[u].target /\ unit[u].target # Held
      BY <3>1 DEF TargetAfter
    <3>3. PICK p \in pending : p.unit = u /\ p.text = file[u]
      BY <1>1, <1>6 DEF FinishParts
    <3>4. /\ unit[u].target \in Nat /\ file[u] <= unit[u].target
          /\ Has(u, unit[u].target)
      BY <3>2, <3>3 DEF ChangesInv, TargetInv
    <3>5. PICK q \in pending : q.unit = u /\ q.text = unit[u].target
      BY <3>4 DEF Has, OfUnit
    <3>6. Applied(q)
      BY <1>1, <1>2, <2>3, <3>5 DEF FinishParts, UnitsOf, SameRow
    <3>7. q.text <= file[u]
      BY <1>1, <3>5, <3>6 DEF FinishParts
    <3>8. unit[u].target = file[u]
      BY <2>1, <3>4, <3>5, <3>7
    <3> QED
      BY <1>2, <2>1, <3>1, <3>2, <3>8
  <2> QED
    BY <2>2, <2>3
<1>7. CASE u \notin UnitsOf(commit.ok)
  <2>1. u \notin missed /\ unit'[u].disk = unit[u].disk
    BY <1>2, <1>3, <1>7 DEF DiskAfter
  <2>2. (IF unit[u].disk # None THEN unit[u].disk ELSE unit[u].target) = revision[u]
    BY <2>1 DEF ChangesInv, ComparisonIsFile, Comparison
  <2>3. revision'[u] = revision[u]
    BY <1>2, <1>3, <1>4, <1>5, <1>7
  <2>4. CASE u \in UnitsOf(commit.failed)
    <3>1. unit[u].disk # None
      BY <1>1, <2>1, <2>4 DEF FinishParts, ChangesInv, DiskInv
    <3> QED
      BY <2>1, <2>2, <2>3, <3>1
  <2>5. CASE u \notin UnitsOf(commit.failed)
    BY <1>2, <2>1, <2>2, <2>3, <2>5 DEF TargetAfter
  <2> QED
    BY <2>4, <2>5
<1> QED
  BY <1>6, <1>7

LEMMA ChangesFinish ==
    ASSUME TypeInv, ChangesInv, Finish
    PROVE  ChangesInv'
<1>1. FinishParts
  BY FinishRows
<1>2. UNCHANGED <<file, clock, passing, shown>> /\ commit'.pc # "open" /\ pending' = Remaining
      /\ \A u \in Units : unit'[u].target = TargetAfter(u) /\ unit'[u].disk = DiskAfter(u)
  BY DEF Finish, NoCommit
<1>3. ASSUME NEW r \in pending'
      PROVE  \E q \in pending : /\ SameRow(r, q) /\ ~Applied(q)
                                /\ q.unit \in Units /\ q.text \in Nat
  BY <1>1, PendingTyped DEF FinishParts
<1>4. ASSUME NEW q \in pending, ~Applied(q), NEW p \in pending, p.unit = q.unit, q.text <= p.text
      PROVE  \E r \in pending' : SameRow(r, p)
  <2>1. q.text \in Nat /\ p.text \in Nat
    BY PendingTyped
  <2>2. ~Applied(p)
    BY <1>1, <1>4, <2>1 DEF FinishParts
  <2> QED
    BY <1>1, <2>2 DEF FinishParts
<1>5. ASSUME NEW u \in Units, NEW text \in Nat, NEW q \in pending, q.unit = u, ~Applied(q),
             q.text <= text, Has(u, text)
      PROVE  \E r \in OfUnit(pending', u) : r.text = text
  <2>1. PICK p \in pending : p.unit = u /\ p.text = text
    BY <1>5 DEF Has, OfUnit
  <2>2. PICK r \in pending' : SameRow(r, p)
    BY <1>4, <1>5, <2>1
  <2> QED
    BY <2>1, <2>2 DEF SameRow, OfUnit
<1>6. RowsInv'
  <2>1. \A q, r \in pending' : q.text = r.text => SameRow(q, r)
    BY <1>3 DEF ChangesInv, RowsInv, SameRow
  <2>2. \A r \in pending' : r.text <= clock /\ (r.good => r.text \in passing)
    BY <1>3 DEF ChangesInv, RowsInv, SameRow
  <2> QED
    BY <1>2, <2>1, <2>2 DEF RowsInv
<1>7. TextsInv'
  BY <1>2 DEF ChangesInv, TextsInv
<1>8. TargetInv'
  <2> SUFFICES ASSUME NEW r \in pending'
               PROVE  \/ unit'[r.unit].target = Held
                      \/ /\ unit'[r.unit].target \in Nat /\ r.text <= unit'[r.unit].target
                         /\ \E p \in OfUnit(pending', r.unit) : p.text = unit'[r.unit].target
    BY DEF TargetInv, Has, OfUnit
  <2>1. PICK q \in pending : SameRow(r, q) /\ ~Applied(q) /\ q.unit \in Units /\ q.text \in Nat
    BY <1>3
  <2>2. PICK u \in Units : u = r.unit /\ u = q.unit /\ r.text = q.text
    BY <2>1 DEF SameRow
  <2>3. PICK t : t = unit[u].target
    OBVIOUS
  <2>4. unit'[u].target = IF u \in UnitsOf(commit.failed) THEN Held ELSE t
    BY <1>2, <2>3 DEF TargetAfter
  <2>5. t = Held \/ (t \in Nat /\ q.text <= t /\ Has(u, t))
    BY <2>2, <2>3 DEF ChangesInv, TargetInv
  <2>6. t \in Nat /\ q.text <= t /\ Has(u, t) => \E p \in OfUnit(pending', u) : p.text = t
    BY <1>5, <2>1, <2>2
  <2> QED
    BY <2>2, <2>4, <2>5, <2>6
<1>9. DiskInv'
  <2> SUFFICES ASSUME NEW r \in pending', r.unit \notin missed'
               PROVE  unit'[r.unit].disk # None
    BY DEF DiskInv
  <2>1. PICK q \in pending : SameRow(r, q) /\ ~Applied(q) /\ q.unit \in Units /\ q.text \in Nat
    BY <1>3
  <2>2. PICK u \in Units : u = r.unit /\ u = q.unit
    BY <2>1 DEF SameRow
  <2>3. CASE u \in UnitsOf(commit.ok)
    <3>1. u \in UnitsOf(Remaining)
      BY <1>2, <2>2 DEF UnitsOf
    <3>2. unit'[u].disk = file[u] /\ file[u] \in Nat
      BY <1>1, <1>2, <2>3, <3>1 DEF FinishParts, DiskAfter
    <3> QED
      BY <2>2, <3>2, Distinct
  <2>4. CASE u \notin UnitsOf(commit.ok)
    <3>1. u \notin missed
      BY <2>2, <2>4 DEF Finish
    <3>2. unit'[u].disk = unit[u].disk
      BY <1>2, <2>4 DEF DiskAfter
    <3> QED
      BY <2>2, <3>1, <3>2 DEF ChangesInv, DiskInv
  <2> QED
    BY <2>3, <2>4
<1>10. CommitInv'
  BY <1>2 DEF CommitInv
<1>11. ShownInv'
  <2> SUFFICES ASSUME NEW u \in Units
               PROVE  /\ file[u] # Gone /\ file[u] < shown[u] =>
                           \E p \in OfUnit(pending', u) : p.text = shown[u]
                      /\ \A r \in OfUnit(pending', u) :
                           /\ r.text < shown[u] => \E p \in OfUnit(pending', u) : p.text = shown[u]
                           /\ file[u] # Gone /\ file[u] < shown[u] /\ r.text < file[u]
                                 => \E p \in OfUnit(pending', u) : p.text = file[u]
    BY <1>2 DEF ShownInv, Has, OfUnit
  <2>1. shown[u] \in Nat /\ (file[u] # Gone => file[u] \in Nat)
    BY Bounds DEF TypeInv, Contents
  <2>2. ASSUME file[u] # Gone, file[u] < shown[u]
        PROVE  \E p \in OfUnit(pending', u) : p.text = shown[u]
    <3>1. Has(u, shown[u])
      BY <2>2 DEF ChangesInv, ShownInv
    <3>2. PICK q \in pending : q.unit = u /\ q.text = shown[u]
      BY <3>1 DEF Has, OfUnit
    <3>3. ~Applied(q)
      BY <1>1, <2>1, <2>2, <3>2 DEF FinishParts
    <3> QED
      BY <1>5, <2>1, <3>1, <3>2, <3>3
  <2>3. ASSUME NEW r \in OfUnit(pending', u)
        PROVE  \E q \in OfUnit(pending, u) : q \in pending /\ q.unit = u /\ q.text = r.text
                                             /\ ~Applied(q) /\ q.text \in Nat
    BY <1>3 DEF OfUnit, SameRow
  <2>4. ASSUME NEW r \in OfUnit(pending', u), r.text < shown[u]
        PROVE  \E p \in OfUnit(pending', u) : p.text = shown[u]
    <3>1. PICK q \in OfUnit(pending, u) : q \in pending /\ q.unit = u /\ q.text = r.text
                                          /\ ~Applied(q) /\ q.text \in Nat
      BY <2>3
    <3>2. Has(u, shown[u])
      BY <2>4, <3>1 DEF ChangesInv, ShownInv
    <3>3. q.text <= shown[u]
      BY <2>1, <2>4, <3>1
    <3> QED
      BY <1>5, <2>1, <3>1, <3>2, <3>3
  <2>5. ASSUME NEW r \in OfUnit(pending', u), file[u] # Gone, file[u] < shown[u], r.text < file[u]
        PROVE  \E p \in OfUnit(pending', u) : p.text = file[u]
    <3>1. PICK q \in OfUnit(pending, u) : q \in pending /\ q.unit = u /\ q.text = r.text
                                          /\ ~Applied(q) /\ q.text \in Nat
      BY <2>3
    <3>2. Has(u, file[u])
      BY <2>5, <3>1 DEF ChangesInv, ShownInv
    <3>3. q.text <= file[u] /\ file[u] \in Nat
      BY <2>1, <2>5, <3>1
    <3> QED
      BY <1>5, <3>1, <3>2, <3>3
  <2> QED
    BY <2>2, <2>4, <2>5
<1>12. FilterInv'
  <2> SUFFICES ASSUME NEW u \in Units, file[u] \notin passing
               PROVE  file[u] # Gone /\ \E r \in OfUnit(pending', u) : r.good /\ file[u] < r.text
    BY <1>2 DEF FilterInv, OfUnit
  <2>1. PICK q \in OfUnit(pending, u) : q.good /\ file[u] < q.text /\ file[u] # Gone
    BY DEF ChangesInv, FilterInv
  <2>2. q \in pending /\ q.unit = u /\ q.text \in Nat /\ file[u] \in Nat
    BY <2>1, PendingTyped, Bounds DEF OfUnit, TypeInv, Contents
  <2>3. ~Applied(q)
    BY <1>1, <2>1, <2>2 DEF FinishParts
  <2>4. PICK r \in pending' : SameRow(r, q)
    BY <1>1, <2>2, <2>3 DEF FinishParts
  <2> QED
    BY <2>1, <2>2, <2>4 DEF SameRow, OfUnit
<1>13. ComparisonIsFile'
  BY FinishComparison
<1> QED
  BY <1>6, <1>7, <1>8, <1>9, <1>10, <1>11, <1>12, <1>13 DEF ChangesInv

LEMMA ChangesMerge ==
    ASSUME TypeInv, ChangesInv, NEW u \in Units, NEW content \in Contents, Merge(u, content)
    PROVE  ChangesInv'
<1>1. /\ clock \in Nat /\ clock' \in Nat /\ clock <= clock'
      /\ content # Gone => content = clock'
      /\ passing' = passing \cup {content}
      /\ commit'.pc # "open"
      /\ UNCHANGED <<pending, unit, revision, missed>>
  BY Bounds DEF Merge, TypeInv, NoCommit, db
<1>2. \A v \in Units : /\ file'[v] = IF v = u THEN content ELSE file[v]
                       /\ shown'[v] = IF v = u THEN 0 ELSE shown[v]
  BY DEF Merge, TypeInv
<1>3. \A v \in Units : /\ shown[v] \in Nat
                       /\ file[v] # Gone => file[v] \in Nat
  BY Bounds DEF TypeInv, Contents
<1>4. RowsInv'
  <2>1. \A r \in pending : r.text <= clock'
    BY <1>1, PendingTyped DEF ChangesInv, RowsInv
  <2> QED
    BY <1>1, <2>1 DEF ChangesInv, RowsInv
<1>5. TextsInv'
  <2> SUFFICES ASSUME NEW v \in Units
               PROVE  shown'[v] <= clock' /\ (file'[v] # Gone => file'[v] <= clock')
    BY DEF TextsInv
  <2>1. shown[v] <= clock /\ (file[v] # Gone => file[v] <= clock)
    BY DEF ChangesInv, TextsInv
  <2> QED
    BY <1>1, <1>2, <1>3, <2>1
<1>6. ShownInv'
  <2> SUFFICES ASSUME NEW v \in Units
               PROVE  /\ file'[v] # Gone /\ file'[v] < shown'[v] =>
                           \E p \in OfUnit(pending, v) : p.text = shown'[v]
                      /\ \A r \in OfUnit(pending, v) :
                           /\ r.text < shown'[v] =>
                                 \E p \in OfUnit(pending, v) : p.text = shown'[v]
                           /\ file'[v] # Gone /\ file'[v] < shown'[v] /\ r.text < file'[v]
                                 => \E p \in OfUnit(pending, v) : p.text = file'[v]
    BY <1>1 DEF ShownInv, Has, OfUnit
  <2>1. CASE v = u
    <3>1. shown'[v] = 0 /\ (file'[v] # Gone => file'[v] \in Nat)
      BY <1>1, <1>2, <2>1
    <3>2. \A r \in OfUnit(pending, v) : r.text \in Nat
      BY PendingTyped DEF OfUnit
    <3> QED
      BY <3>1, <3>2
  <2>2. CASE v # u
    <3>1. shown'[v] = shown[v] /\ file'[v] = file[v]
      BY <1>2, <2>2
    <3> QED
      BY <3>1 DEF ChangesInv, ShownInv, Has
  <2> QED
    BY <2>1, <2>2
<1>7. FilterInv'
  <2> SUFFICES ASSUME NEW v \in Units, file'[v] \notin passing'
               PROVE  file'[v] # Gone /\ \E r \in OfUnit(pending, v) : r.good /\ file'[v] < r.text
    BY <1>1 DEF FilterInv, OfUnit
  <2>1. v # u /\ file'[v] = file[v] /\ file[v] \notin passing
    BY <1>1, <1>2
  <2> QED
    BY <2>1 DEF ChangesInv, FilterInv
<1>8. TargetInv' /\ DiskInv' /\ CommitInv' /\ ComparisonIsFile'
  BY <1>1 DEF ChangesInv, TargetInv, DiskInv, CommitInv, ComparisonIsFile, Comparison, Has, OfUnit
<1> QED
  BY <1>4, <1>5, <1>6, <1>7, <1>8 DEF ChangesInv

(* A load keeps or drops all the changes of a unit.                         *)
LEMMA LoadParts ==
    ASSUME TypeInv, Load, revision # file
    PROVE  /\ \A u \in Units : ~Changed(u) => unit'[u] = unit[u]
           /\ \A u \in Units : Changed(u) => unit'[u].target = file[u] /\ unit'[u].disk = None
           /\ \A u \in Units : ~Changed(u) => OfUnit(pending', u) = OfUnit(pending, u)
           /\ \A u \in Units : Changed(u) => OfUnit(pending', u) = {}
           /\ \A r \in pending' : r \in pending /\ ~Changed(r.unit) /\ r.unit \in Units
           /\ revision' = file /\ UNCHANGED <<file, commit, clock>> /\ commit.pc = "idle"
           /\ \A u \in Units : u \in missed /\ ~Changed(u) /\ OfUnit(pending, u) # {}
                                  <=> u \in missed'
           /\ passing' = passing \cup {file[u] : u \in Units}
           /\ \A u \in Units : shown'[u] = IF file[u] # Gone /\ file[u] < shown[u] THEN file[u]
                                                                                  ELSE shown[u]
<1>1. \A r \in pending : r.unit \in Units
  BY PendingTyped
<1> QED
  BY <1>1 DEF Load, OfUnit, TypeInv

LEMMA ChangesLoad ==
    ASSUME TypeInv, ChangesInv, Load
    PROVE  ChangesInv'
<1>1. CASE revision = file
  <2>1. UNCHANGED <<db, file, clock, passing, shown, missed>> /\ commit' = commit
    BY <1>1 DEF Load
  <2> QED
    BY <2>1, ChangesStutter
<1>2. CASE revision # file
  <2>1. /\ \A u \in Units : ~Changed(u) => unit'[u] = unit[u]
        /\ \A u \in Units : Changed(u) => unit'[u].target = file[u] /\ unit'[u].disk = None
        /\ \A u \in Units : ~Changed(u) => OfUnit(pending', u) = OfUnit(pending, u)
        /\ \A u \in Units : Changed(u) => OfUnit(pending', u) = {}
        /\ \A r \in pending' : r \in pending /\ ~Changed(r.unit) /\ r.unit \in Units
        /\ revision' = file /\ UNCHANGED <<file, commit, clock>> /\ commit.pc = "idle"
    BY <1>2, LoadParts
  <2>2. /\ \A u \in Units : u \in missed /\ ~Changed(u) /\ OfUnit(pending, u) # {} <=> u \in missed'
        /\ passing' = passing \cup {file[u] : u \in Units}
        /\ \A u \in Units : shown'[u] = IF file[u] # Gone /\ file[u] < shown[u] THEN file[u]
                                                                               ELSE shown[u]
    BY <1>2, LoadParts
  <2>3. \A u \in Units : /\ clock \in Nat /\ shown[u] \in Nat
                         /\ file[u] # Gone => file[u] \in Nat
    BY Bounds DEF TypeInv, Contents
  <2>4. RowsInv'
    BY <2>1, <2>2 DEF ChangesInv, RowsInv
  <2>5. TextsInv'
    BY <2>1, <2>2, <2>3 DEF ChangesInv, TextsInv
  <2>6. TargetInv'
    <3> SUFFICES ASSUME NEW r \in pending'
                 PROVE  \/ unit'[r.unit].target = Held
                        \/ /\ unit'[r.unit].target \in Nat /\ r.text <= unit'[r.unit].target
                           /\ \E p \in OfUnit(pending', r.unit) : p.text = unit'[r.unit].target
      BY DEF TargetInv, Has, OfUnit
    <3>1. /\ r \in pending /\ unit'[r.unit] = unit[r.unit]
          /\ OfUnit(pending', r.unit) = OfUnit(pending, r.unit)
      BY <2>1
    <3> QED
      BY <3>1 DEF ChangesInv, TargetInv, Has
  <2>7. DiskInv'
    <3> SUFFICES ASSUME NEW r \in pending', r.unit \notin missed'
                 PROVE  unit'[r.unit].disk # None
      BY DEF DiskInv
    <3>1. r \in pending /\ r.unit \in Units /\ ~Changed(r.unit) /\ unit'[r.unit] = unit[r.unit]
          /\ OfUnit(pending, r.unit) # {}
      BY <2>1 DEF OfUnit
    <3>2. r.unit \notin missed
      BY <2>2, <3>1
    <3> QED
      BY <3>1, <3>2 DEF ChangesInv, DiskInv
  <2>8. CommitInv'
    BY <2>1 DEF CommitInv
  <2>9. ShownInv'
    <3> SUFFICES ASSUME NEW u \in Units
                 PROVE  /\ file[u] # Gone /\ file[u] < shown'[u] =>
                             \E p \in OfUnit(pending', u) : p.text = shown'[u]
                        /\ \A r \in OfUnit(pending', u) :
                             /\ r.text < shown'[u] =>
                                   \E p \in OfUnit(pending', u) : p.text = shown'[u]
                             /\ file[u] # Gone /\ file[u] < shown'[u] /\ r.text < file[u]
                                   => \E p \in OfUnit(pending', u) : p.text = file[u]
      BY <2>1 DEF ShownInv, Has, OfUnit
    <3>1. ~(file[u] # Gone /\ file[u] < shown'[u])
      BY <2>2, <2>3
    <3>2. ASSUME NEW r \in OfUnit(pending', u), r.text < shown'[u]
          PROVE  \E p \in OfUnit(pending', u) : p.text = shown'[u]
      <4>1. ~Changed(u) /\ r \in OfUnit(pending, u) /\ OfUnit(pending', u) = OfUnit(pending, u)
        BY <2>1
      <4>2. CASE file[u] # Gone /\ file[u] < shown[u]
        BY <2>2, <3>2, <4>1, <4>2 DEF ChangesInv, ShownInv, Has
      <4>3. CASE ~(file[u] # Gone /\ file[u] < shown[u])
        BY <2>2, <3>2, <4>1, <4>3 DEF ChangesInv, ShownInv, Has
      <4> QED
        BY <4>2, <4>3
    <3> QED
      BY <3>1, <3>2
  <2>10. FilterInv'
    BY <2>1, <2>2 DEF FilterInv
  <2>11. ComparisonIsFile'
    <3> SUFFICES ASSUME NEW u \in Units
                 PROVE  (IF unit'[u].disk # None THEN unit'[u].disk ELSE unit'[u].target)
                          = revision'[u]
      BY DEF ComparisonIsFile, Comparison
    <3> QED
      BY <2>1 DEF Changed, Comparison
  <2> QED
    BY <2>4, <2>5, <2>6, <2>7, <2>8, <2>9, <2>10, <2>11 DEF ChangesInv
<1> QED
  BY <1>1, <1>2

LEMMA ChangesWeek ==
    ASSUME TypeInv, ChangesInv, WeekPasses
    PROVE  ChangesInv'
<1>1. /\ \A q \in pending' : \E r \in pending : SameRow(q, r)
      /\ \A r \in pending : \E q \in pending' : SameRow(q, r)
  BY WeekRows
<1>2. UNCHANGED <<unit, revision, file, commit, clock, passing, shown, missed>>
      /\ commit.pc = "idle"
  BY DEF WeekPasses, history
<1>3. ASSUME NEW u, NEW text, Has(u, text)
      PROVE  \E p \in OfUnit(pending', u) : p.text = text
  BY <1>1, <1>3 DEF Has, OfUnit, SameRow
<1>4. ASSUME NEW u, NEW q \in OfUnit(pending', u)
      PROVE  \E r \in OfUnit(pending, u) : SameRow(q, r) /\ r \in pending
  BY <1>1 DEF OfUnit, SameRow
<1>5. RowsInv'
  <2>1. \A q, r \in pending' : q.text = r.text => SameRow(q, r)
    BY <1>1 DEF ChangesInv, RowsInv, SameRow
  <2>2. \A r \in pending' : r.text <= clock /\ (r.good => r.text \in passing)
    BY <1>1 DEF ChangesInv, RowsInv, SameRow
  <2> QED
    BY <1>2, <2>1, <2>2 DEF RowsInv
<1>6. TargetInv'
  <2> SUFFICES ASSUME NEW q \in pending'
               PROVE  \/ unit[q.unit].target = Held
                      \/ /\ unit[q.unit].target \in Nat /\ q.text <= unit[q.unit].target
                         /\ \E p \in OfUnit(pending', q.unit) : p.text = unit[q.unit].target
    BY <1>2 DEF TargetInv, Has, OfUnit
  <2>1. PICK r \in pending : SameRow(q, r)
    BY <1>1
  <2> QED
    BY <1>3, <2>1 DEF ChangesInv, TargetInv, SameRow
<1>7. DiskInv'
  BY <1>1, <1>2 DEF ChangesInv, DiskInv, SameRow
<1>8. ShownInv'
  <2> SUFFICES ASSUME NEW u \in Units
               PROVE  /\ file[u] # Gone /\ file[u] < shown[u] =>
                           \E p \in OfUnit(pending', u) : p.text = shown[u]
                      /\ \A r \in OfUnit(pending', u) :
                           /\ r.text < shown[u] => \E p \in OfUnit(pending', u) : p.text = shown[u]
                           /\ file[u] # Gone /\ file[u] < shown[u] /\ r.text < file[u]
                                 => \E p \in OfUnit(pending', u) : p.text = file[u]
    BY <1>2 DEF ShownInv, Has, OfUnit
  <2>1. file[u] # Gone /\ file[u] < shown[u] => Has(u, shown[u])
    BY DEF ChangesInv, ShownInv
  <2>2. ASSUME NEW q \in OfUnit(pending', u)
        PROVE  /\ q.text < shown[u] => Has(u, shown[u])
               /\ file[u] # Gone /\ file[u] < shown[u] /\ q.text < file[u] => Has(u, file[u])
    BY <1>4 DEF ChangesInv, ShownInv, SameRow
  <2> QED
    BY <1>3, <2>1, <2>2
<1>9. FilterInv'
  <2> SUFFICES ASSUME NEW u \in Units, file[u] \notin passing
               PROVE  file[u] # Gone /\ \E r \in OfUnit(pending', u) : r.good /\ file[u] < r.text
    BY <1>2 DEF FilterInv, OfUnit
  <2>1. PICK q \in OfUnit(pending, u) : q.good /\ file[u] < q.text /\ file[u] # Gone
    BY DEF ChangesInv, FilterInv
  <2> QED
    BY <1>1, <2>1 DEF OfUnit, SameRow
<1>10. TextsInv' /\ CommitInv' /\ ComparisonIsFile'
  BY <1>2 DEF ChangesInv, TextsInv, CommitInv, ComparisonIsFile, Comparison
<1> QED
  BY <1>5, <1>6, <1>7, <1>8, <1>9, <1>10 DEF ChangesInv

LEMMA ChangesNext == TypeInv /\ ChangesInv /\ [Next]_vars => ChangesInv'
<1> SUFFICES ASSUME TypeInv, ChangesInv, [Next]_vars PROVE ChangesInv'
  OBVIOUS
<1>1. ASSUME NEW e \in Editors, NEW u \in Units, Open(e, u) PROVE ChangesInv'
  BY <1>1, ChangesStutter DEF Open, history
<1>2. ASSUME NEW e \in Editors, NEW good \in BOOLEAN, Save(e, good) PROVE ChangesInv'
  BY <1>2, ChangesSave
<1>3. ASSUME NEW updating \in BOOLEAN, Begin(updating) PROVE ChangesInv'
  BY <1>3, ChangesBegin
<1>4. ASSUME NEW refused \in SUBSET pending, WriteGroup(refused) PROVE ChangesInv'
  BY <1>4, ChangesWrite
<1>5. CASE Finish
  BY <1>5, ChangesFinish
<1>6. CASE Abort
  BY <1>6, ChangesStutter DEF Abort, NoCommit, history
<1>7. ASSUME NEW u \in Units, NEW content \in Contents, Merge(u, content) PROVE ChangesInv'
  BY <1>7, ChangesMerge
<1>8. CASE MergeNothing
  BY <1>8, ChangesStutter DEF MergeNothing, NoCommit, history
<1>9. CASE Load
  BY <1>9, ChangesLoad
<1>10. CASE WeekPasses
  BY <1>10, ChangesWeek
<1>11. CASE UNCHANGED vars
  BY <1>11, ChangesStutter DEF vars, history
<1> QED
  BY <1>1, <1>2, <1>3, <1>4, <1>5, <1>6, <1>7, <1>8, <1>9, <1>10, <1>11 DEF Next

LEMMA ChangesAlways == Spec => [](TypeInv /\ ChangesInv)
<1>1. Init => TypeInv /\ ChangesInv
  BY TypeInit, ChangesInit
<1>2. TypeInv /\ ChangesInv /\ [Next]_vars => (TypeInv /\ ChangesInv)'
  BY TypeNext, ChangesNext
<1> QED
  BY <1>1, <1>2, PTL DEF Spec

-----------------------------------------------------------------------------
(* What holds of the queue and of the file.                                 *)

(* A load compares the file with what it had when its hash was stored: the  *)
(* comparison state of a unit is that text, however saves, commits that     *)
(* fail, updates and loads follow each other, except for the units that one *)
(* of the named gaps has left behind.                                       *)
THEOREM ComparisonHolds == Spec => []ComparisonIsFile
<1>1. TypeInv /\ ChangesInv => ComparisonIsFile
  BY DEF ChangesInv
<1> QED
  BY <1>1, ChangesAlways, PTL

(* The file does not fall back to an older text of a unit while the newer   *)
(* one is no longer pending: groups, failures and rollbacks keep the order. *)
THEOREM OrderHolds == Spec => []OrderKept
<1>1. TypeInv /\ ChangesInv => OrderKept
  BY DEF ChangesInv, ShownInv, OrderKept, Has
<1> QED
  BY <1>1, ChangesAlways, PTL

(* A text that does not qualify is in the file between commits only while a *)
(* newer one that qualifies is pending.                                     *)
THEOREM FilterHolds == Spec => []FileIsFiltered
<1>1. TypeInv /\ ChangesInv => FileIsFiltered
  BY DEF ChangesInv, FilterInv, FileIsFiltered
<1> QED
  BY <1>1, ChangesAlways, PTL

(* A change leaves the queue only when the file has it or a newer one of    *)
(* the unit, or by a load of a unit whose text has changed in the file or   *)
(* whose comparison state was wrong.                                        *)
THEOREM ChangesSurvive == Spec => PendingSurvives
<1> DEFINE Survives == \A r \in pending :
              \/ Kept(r)
              \/ InFile(r) /\ ~Loaded
              \/ Loaded /\ (file[r.unit] # revision[r.unit] \/ r.unit \in missed)
<1>1. ASSUME TypeInv, ChangesInv, [Next]_vars PROVE [Survives]_vars
  <2> SUFFICES ASSUME NEW r \in pending
               PROVE  \/ Kept(r)
                      \/ InFile(r) /\ ~Loaded
                      \/ Loaded /\ (file[r.unit] # revision[r.unit] \/ r.unit \in missed)
    OBVIOUS
  <2>1. ASSUME pending \subseteq pending' PROVE Kept(r)
    BY <2>1 DEF Kept
  <2>2. CASE Finish
    <3>1. FinishParts
      BY <1>1, <2>2, FinishRows
    <3>2. CASE Applied(r)
      <4>1. r.unit \in UnitsOf(commit.ok) /\ r.text <= file[r.unit] /\ file[r.unit] # Gone
        BY <3>1, <3>2 DEF FinishParts
      <4>2. file' = file /\ load' = load
        BY <2>2 DEF Finish
      <4> QED
        BY <4>1, <4>2 DEF InFile, Loaded
    <3>3. CASE ~Applied(r)
      BY <3>1, <3>3 DEF FinishParts, Kept, SameRow
    <3> QED
      BY <3>2, <3>3
  <2>3. CASE Load
    <3>1. CASE revision = file
      BY <2>1, <2>3, <3>1 DEF Load, db
    <3>2. CASE revision # file
      <4>1. Loaded /\ pending' = {q \in pending : ~Changed(q.unit)}
        BY <2>3, <3>2 DEF Load, Loaded
      <4>2. CASE Changed(r.unit)
        <5>1. r.unit \in Units
          BY <1>1, PendingTyped
        <5> QED
          BY <1>1, <4>1, <4>2, <5>1 DEF Changed, ChangesInv, ComparisonIsFile
      <4>3. CASE ~Changed(r.unit)
        BY <4>1, <4>3 DEF Kept
      <4> QED
        BY <4>2, <4>3
    <3> QED
      BY <3>1, <3>2
  <2>4. CASE WeekPasses
    BY <1>1, <2>4, WeekRows DEF Kept, SameRow
  <2>5. CASE ~(Finish \/ Load \/ WeekPasses)
    <3>1. pending \subseteq pending'
      BY <1>1, <2>5 DEF Next, vars, db, Open, Save, Begin, WriteGroup, Abort, Merge, MergeNothing
    <3> QED
      BY <2>1, <3>1
  <2> QED
    BY <2>2, <2>3, <2>4, <2>5
<1>2. TypeInv /\ ChangesInv /\ [Next]_vars => [Survives]_vars
  BY <1>1
<1>3. Spec => [][Survives]_vars
  BY <1>2, ChangesAlways, PTL DEF Spec
<1> QED
  BY <1>3 DEF PendingSurvives
==============================================================================
