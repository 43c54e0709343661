--------------------------- MODULE LiveLectureProofs ---------------------------
(***************************************************************************)
(* The server's side of a live lecture: what becomes of what is said       *)
(* (ZoomTranscript), and how it reaches the members (EventStream).         *)
(*                                                                         *)
(* The timeline. In memory all handlers edit one list: a step removes one  *)
(* chunk of an id that the handler knows, and a later one appends a newer, *)
(* so whatever was streamed of an id is there, or about to be, as new      *)
(* (ThereInv). An utterance that was not looked up in between is in the    *)
(* list once because only the pump brings it, and what a walk along the    *)
(* list has not found is not there (SharedInv). With MongoDB each          *)
(* handler edits a copy, of which it knows every revision (CopiesInv), and *)
(* the one handler under way has a copy that is the document but for what  *)
(* it took of the batch (AloneInv): to write it is the abstract step.      *)
(*                                                                         *)
(* The event stream. A buffer overshoots its depth by less than the number *)
(* of threads. A thread that found room has not put its envelope yet; it   *)
(* counts as if it had (Room). Whoever finds room finds less than the      *)
(* depth buffered, and no more threads than there are are on their way.    *)
(***************************************************************************)
EXTENDS ZoomTranscript, EventStream, SequenceTheorems, FiniteSetTheorems, WellFoundedInduction, TLAPS

(* What a stored chunk is: a chunk without text never gets there.          *)
Kept == [id : Ids, revision : 1..MaxRevision]

(* Where an id is in a list, and what the list holds of it.                *)
Places(list, i) == {n \in 1..Len(list) : list[n].id = i}
Holds(list, i, r) == \E n \in Places(list, i) : r <= list[n].revision
Absent(list, i) == Places(list, i) = {}
Single(list, i) == \A m, n \in Places(list, i) : m = n

-----------------------------------------------------------------------------
(* Numbers: a set of them has a least one and, when bounded, a largest.    *)
LEMMA LeastNatural ==
    ASSUME NEW S \in SUBSET Nat, S # {}
    PROVE  \E m \in S : \A n \in S : m <= n
<1>1. PICK R : R = {pair \in Nat \X Nat : pair[1] < pair[2]}
  OBVIOUS
<1>2. IsWellFoundedOn(R, Nat)
  BY <1>1, NatLessThanWellFounded DEF OpToRel
<1>3. PICK m \in S : \A n \in S : <<n, m>> \notin R
  BY <1>2, WFMin
<1>4. ASSUME NEW n \in S, n < m PROVE FALSE
  <2>1. <<n, m>> \in Nat \X Nat /\ <<n, m>>[1] = n /\ <<n, m>>[2] = m
    OBVIOUS
  <2>2. <<n, m>> \in R
    BY <1>1, <1>4, <2>1
  <2> QED BY <1>3, <2>2
<1> QED BY <1>4

LEMMA MaxIsReached ==
    ASSUME NEW S \in SUBSET Nat, S # {}, NEW b \in Nat, \A n \in S : n <= b
    PROVE  Max(S) \in S /\ \A n \in S : n <= Max(S)
<1> DEFINE U == {m \in Nat : \A n \in S : n <= m}
<1>1. PICK m \in U : \A u \in U : m <= u
  BY LeastNatural
<1>2. m \in S
  <2> SUFFICES ASSUME m \notin S PROVE FALSE
    OBVIOUS
  <2>1. \A n \in S : n \in Nat /\ n < m
    BY <1>1
  <2>2. m - 1 \in Nat /\ \A n \in S : n <= m - 1
    <3>1. PICK x \in S : x \in Nat /\ x < m
      BY <2>1
    <3>2. m \in Nat /\ m - 1 \in Nat
      BY <3>1
    <3> QED BY <2>1, <3>2
  <2>3. m - 1 \in U
    BY <2>2
  <2> QED BY <1>1, <2>3
<1>3. \E x \in S : \A y \in S : x >= y
  BY <1>1, <1>2
<1> QED BY <1>3 DEF Max

-----------------------------------------------------------------------------
(* What the two look-ups of a list return.                                 *)
LEMMA KeptAt ==
    ASSUME NEW list \in Seq(Kept), NEW i
    PROVE  /\ Len(list) \in Nat /\ DOMAIN list = 1..Len(list)
           /\ \A n \in 1..Len(list) :
                 list[n] \in Kept /\ list[n].id \in Ids /\ list[n].revision \in 1..MaxRevision
           /\ Places(list, i) \subseteq 1..Len(list)
           /\ \A n \in Places(list, i) : list[n].revision \in 1..MaxRevision
<1>1. \A n \in 1..Len(list) : list[n] \in Kept
  BY ElementOfSeq
<1> QED BY <1>1, LenProperties DEF Places, Kept

LEMMA LastRevisionFound ==
    ASSUME NEW list \in Seq(Kept), NEW i
    PROVE  /\ LastRevision(list, i) \in 0..MaxRevision
           /\ LastRevision(list, i) = 0 <=> Absent(list, i)
           /\ \A n \in Places(list, i) :
                 Single(list, i) => LastRevision(list, i) = list[n].revision
<1> DEFINE at == {n \in 1..Len(list) : list[n].id = i}
<1>0. MaxRevision \in Nat
  BY ConstantsAssumption
<1>1. at = Places(list, i) /\ LastRevision(list, i) = IF at = {} THEN 0 ELSE list[Max(at)].revision
  BY DEF LastRevision, Places
<1>2. CASE at = {}
  BY <1>0, <1>1, <1>2 DEF Absent
<1>3. CASE at # {}
  <2>1. at \in SUBSET Nat /\ Len(list) \in Nat /\ \A n \in at : n <= Len(list)
    BY KeptAt
  <2>2. PICK m : m = Max(at)
    OBVIOUS
  <2>3. m \in Places(list, i)
    BY <1>1, <1>3, <2>1, <2>2, MaxIsReached
  <2>4. LastRevision(list, i) = list[m].revision /\ list[m].revision \in 1..MaxRevision
    BY <1>1, <1>3, <2>2, <2>3, KeptAt
  <2>5. LastRevision(list, i) \in 0..MaxRevision /\ LastRevision(list, i) # 0
    BY <1>0, <2>4
  <2> QED BY <2>3, <2>4, <2>5 DEF Absent, Single
<1> QED BY <1>2, <1>3

LEMMA NewestFound ==
    ASSUME NEW list \in Seq(Kept), NEW i
    PROVE  /\ Newest(list, i) \in 0..MaxRevision
           /\ Absent(list, i) => Newest(list, i) = 0
           /\ \A n \in Places(list, i) :
                 /\ list[n].revision <= Newest(list, i)
                 /\ Single(list, i) => Newest(list, i) = list[n].revision
<1> DEFINE R == {0} \cup {list[n].revision : n \in Places(list, i)}
<1>0. MaxRevision \in Nat
  BY ConstantsAssumption
<1>1. Newest(list, i) = Max(R)
  BY DEF Newest, Places
<1>2. R \in SUBSET Nat /\ \A r \in R : r <= MaxRevision
  BY <1>0, KeptAt
<1>3. Max(R) \in R /\ \A r \in R : r <= Max(R)
  BY <1>0, <1>2, MaxIsReached
<1>4. \A n \in Places(list, i) : list[n].revision \in R /\ list[n].revision \in 1..MaxRevision
  BY KeptAt
<1>5. PICK r : r = Max(R) /\ r \in Nat /\ r <= MaxRevision
  BY <1>2, <1>3
<1>6. ASSUME NEW n \in Places(list, i), Single(list, i) PROVE r = list[n].revision
  <2>1. R = {0, list[n].revision}
    BY <1>6 DEF Single
  <2>2. list[n].revision <= r /\ r \in {0, list[n].revision}
    BY <1>3, <1>5, <2>1
  <2> QED BY <1>0, <1>4, <2>2
<1>7. Absent(list, i) => r = 0
  BY <1>3, <1>5 DEF Absent
<1>8. \A n \in Places(list, i) : list[n].revision <= r
  BY <1>3, <1>4, <1>5
<1> HIDE DEF R
<1> QED BY <1>0, <1>1, <1>5, <1>6, <1>7, <1>8

-----------------------------------------------------------------------------
(* What the handler's edit of a list does: one chunk of the id, if it is   *)
(* known, goes, and the new one is appended.                               *)
LEMMA FirstRemoved ==
    ASSUME NEW list \in Seq(Kept), NEW e, Contains(list, e)
    PROVE  \E k \in 1..Len(list) :
              /\ list[k] = e /\ RemoveFirst(list, e) \in Seq(Kept)
              /\ Len(RemoveFirst(list, e)) = Len(list) - 1
              /\ \A n \in 1..(Len(list) - 1) :
                    RemoveFirst(list, e)[n] = list[IF n < k THEN n ELSE n + 1]
<1> DEFINE I == {n \in 1..Len(list) : list[n] = e}
           k == Min(I)
<1>1. I \in SUBSET Nat /\ I # {} /\ Len(list) \in Nat
  BY KeptAt DEF Contains
<1>2. k \in I
  <2>1. \E x \in I : \A y \in I : x <= y
    BY <1>1, LeastNatural
  <2> QED BY <2>1 DEF Min
<1>3. RemoveFirst(list, e) = RemoveAt(list, k)
  BY <1>1 DEF RemoveFirst, SelectInSeq, Contains
<1>4. k \in 1..Len(list) /\ list[k] = e
  BY <1>2
<1> HIDE DEF k, I
<1>5. /\ SubSeq(list, 1, k - 1) \in Seq(Kept) /\ Len(SubSeq(list, 1, k - 1)) = k - 1
      /\ \A n \in 1..(k - 1) : SubSeq(list, 1, k - 1)[n] = list[n]
  <2>1. \A n \in 1..(k - 1) : list[n] \in Kept
    BY <1>1, <1>4, KeptAt
  <2>2. k - 1 \in Int /\ 1 \in Int
    BY <1>1, <1>4
  <2>3. /\ SubSeq(list, 1, k - 1) \in Seq(Kept)
        /\ Len(SubSeq(list, 1, k - 1)) = IF 1 <= k - 1 THEN k - 1 - 1 + 1 ELSE 0
        /\ \A n \in 1..(k - 1 - 1 + 1) : SubSeq(list, 1, k - 1)[n] = list[1 + n - 1]
    BY <2>1, <2>2, SubSeqProperties
  <2> QED BY <1>1, <1>4, <2>3
<1>6. /\ SubSeq(list, k + 1, Len(list)) \in Seq(Kept)
      /\ Len(SubSeq(list, k + 1, Len(list))) = Len(list) - k
      /\ \A n \in 1..(Len(list) - k) : SubSeq(list, k + 1, Len(list))[n] = list[k + n]
  <2>1. \A n \in (k + 1)..Len(list) : list[n] \in Kept
    BY <1>1, <1>4, KeptAt
  <2>2. k + 1 \in Int /\ Len(list) \in Int
    BY <1>1, <1>4
  <2>3. /\ SubSeq(list, k + 1, Len(list)) \in Seq(Kept)
        /\ Len(SubSeq(list, k + 1, Len(list))) =
             IF k + 1 <= Len(list) THEN Len(list) - (k + 1) + 1 ELSE 0
        /\ \A n \in 1..(Len(list) - (k + 1) + 1) :
              SubSeq(list, k + 1, Len(list))[n] = list[(k + 1) + n - 1]
    BY <2>1, <2>2, SubSeqProperties
  <2> QED BY <1>1, <1>4, <2>3
<1>7. /\ RemoveAt(list, k) \in Seq(Kept)
      /\ Len(RemoveAt(list, k)) = (k - 1) + (Len(list) - k)
      /\ \A n \in 1..((k - 1) + (Len(list) - k)) :
            RemoveAt(list, k)[n] = IF n <= k - 1 THEN SubSeq(list, 1, k - 1)[n]
                                   ELSE SubSeq(list, k + 1, Len(list))[n - (k - 1)]
  BY <1>5, <1>6, ConcatProperties DEF RemoveAt
<1>8. ASSUME NEW n \in 1..(Len(list) - 1)
      PROVE  RemoveAt(list, k)[n] = list[IF n < k THEN n ELSE n + 1]
  <2>1. CASE n < k
    BY <1>1, <1>4, <1>5, <1>7, <2>1
  <2>2. CASE ~(n < k)
    <3>1. n - (k - 1) \in 1..(Len(list) - k) /\ k + (n - (k - 1)) = n + 1
      BY <1>1, <1>4, <2>2
    <3> QED BY <1>1, <1>4, <1>6, <1>7, <2>2, <3>1
  <2> QED BY <2>1, <2>2
<1>9. Len(RemoveAt(list, k)) = Len(list) - 1
  BY <1>1, <1>4, <1>7
<1>10. \E x \in 1..Len(list) :
         /\ list[x] = e /\ RemoveAt(list, k) \in Seq(Kept)
         /\ Len(RemoveAt(list, k)) = Len(list) - 1
         /\ \A n \in 1..(Len(list) - 1) :
               RemoveAt(list, k)[n] = list[IF n < x THEN n ELSE n + 1]
  BY <1>4, <1>7, <1>8, <1>9
<1> QED BY <1>3, <1>10

(* The list that the new chunk is appended to, and where its chunks were.  *)
Base(list, i, prior) ==
    IF prior = 0 THEN list ELSE RemoveFirst(list, [id |-> i, revision |-> prior])

PartOf(base, list, i, prior) ==
    \E h \in [1..Len(base) -> 1..Len(list)] :
        /\ \A n \in DOMAIN h : base[n] = list[h[n]]
        /\ \A m, n \in DOMAIN h : h[m] = h[n] => m = n
        /\ \A m \in 1..Len(list) :
              \/ \E n \in DOMAIN h : h[n] = m
              \/ /\ prior # 0 /\ list[m] = [id |-> i, revision |-> prior]
                 /\ \A n \in DOMAIN h : h[n] # m
        /\ prior # 0 => \E m \in Places(list, i) : \A n \in DOMAIN h : h[n] # m

LEMMA BaseIsPart ==
    ASSUME NEW list \in Seq(Kept), NEW i, NEW prior,
           prior # 0 => Contains(list, [id |-> i, revision |-> prior])
    PROVE  /\ Base(list, i, prior) \in Seq(Kept)
           /\ PartOf(Base(list, i, prior), list, i, prior)
<1>0. Len(list) \in Nat
  BY KeptAt
<1>1. CASE prior = 0
  <2> DEFINE h == [n \in 1..Len(list) |-> n]
  <2>1. Base(list, i, prior) = list
    BY <1>1 DEF Base
  <2>2. /\ h \in [1..Len(list) -> 1..Len(list)]
        /\ \A n \in DOMAIN h : list[n] = list[h[n]]
        /\ \A m, n \in DOMAIN h : h[m] = h[n] => m = n
        /\ \A m \in 1..Len(list) : \E n \in DOMAIN h : h[n] = m
    OBVIOUS
  <2> HIDE DEF h
  <2>3. PartOf(list, list, i, prior)
    BY <1>1, <2>2 DEF PartOf
  <2> QED BY <2>1, <2>3
<1>2. CASE prior # 0
  <2> DEFINE e == [id |-> i, revision |-> prior]
             base == RemoveFirst(list, e)
  <2>1. PICK k \in 1..Len(list) :
           /\ list[k] = e /\ base \in Seq(Kept) /\ Len(base) = Len(list) - 1
           /\ \A n \in 1..(Len(list) - 1) : base[n] = list[IF n < k THEN n ELSE n + 1]
    BY <1>2, FirstRemoved
  <2> DEFINE h == [n \in 1..(Len(list) - 1) |-> IF n < k THEN n ELSE n + 1]
  <2>2. Base(list, i, prior) = base
    BY <1>2 DEF Base
  <2>3. k \in Places(list, i)
    BY <2>1 DEF Places
  <2>4. /\ h \in [1..Len(base) -> 1..Len(list)] /\ DOMAIN h = 1..(Len(list) - 1)
        /\ \A n \in DOMAIN h : base[n] = list[h[n]]
    BY <1>0, <2>1
  <2>5. /\ \A m, n \in DOMAIN h : h[m] = h[n] => m = n
        /\ \A n \in DOMAIN h : h[n] # k
    BY <1>0, <2>1
  <2>6. ASSUME NEW m \in 1..Len(list), m # k PROVE \E n \in DOMAIN h : h[n] = m
    <3>1. CASE m < k
      <4>1. m \in 1..(Len(list) - 1) /\ h[m] = m
        BY <1>0, <3>1
      <4> QED BY <4>1
    <3>2. CASE k < m
      <4>1. m - 1 \in 1..(Len(list) - 1) /\ ~(m - 1 < k) /\ (m - 1) + 1 = m
        BY <1>0, <3>2
      <4> QED BY <4>1
    <3> QED BY <1>0, <2>6, <3>1, <3>2
  <2> HIDE DEF h
  <2>7. \A m \in 1..Len(list) :
           \/ \E n \in DOMAIN h : h[n] = m
           \/ prior # 0 /\ list[m] = e /\ \A n \in DOMAIN h : h[n] # m
    BY <1>2, <2>1, <2>5, <2>6
  <2> HIDE DEF base
  <2>8. prior # 0 => \E m \in Places(list, i) : \A n \in DOMAIN h : h[n] # m
    BY <2>3, <2>5
  <2>9. PartOf(base, list, i, prior)
    BY <2>4, <2>5, <2>7, <2>8 DEF PartOf
  <2> QED BY <2>1, <2>2, <2>9
<1> QED BY <1>1, <1>2

(* Every chunk of another id stays, one of the same id gives way to a      *)
(* newer one, and an id that was there once is there once.                 *)
Replaced(list, new, c, i, prior) ==
    /\ new \in Seq(Kept)
    /\ Len(new) \in Places(new, i) /\ new[Len(new)] = c
    /\ \A j : \A r \in Nat : Holds(list, j, r) => Holds(new, j, r)
    /\ \A j : j # i =>
         /\ Absent(list, j) <=> Absent(new, j)
         /\ Single(list, j) => Single(new, j)
         /\ \A n \in Places(list, j) : \E m \in Places(new, j) : new[m] = list[n]
    /\ Single(list, i) /\ (prior = 0 => Absent(list, i)) => Single(new, i)

LEMMA ListEdited ==
    ASSUME NEW list \in Seq(Kept), NEW c \in Kept, NEW prior \in 0..MaxRevision,
           prior < c.revision,
           prior # 0 => Contains(list, [id |-> c.id, revision |-> prior]),
           NEW new, new = Append(Base(list, c.id, prior), c)
    PROVE  Replaced(list, new, c, c.id, prior)
<1>0. Len(list) \in Nat /\ c.revision \in Nat /\ c.id \in Ids /\ MaxRevision \in Nat
  BY ConstantsAssumption, KeptAt DEF Kept
<1>1. PICK i : i = c.id
  OBVIOUS
<1> DEFINE base == Base(list, i, prior)
<1>2. prior # 0 => Contains(list, [id |-> i, revision |-> prior])
  BY <1>1
<1>3. base \in Seq(Kept) /\ PartOf(base, list, i, prior)
  BY <1>2, BaseIsPart
<1> HIDE DEF base
<1>4. Len(base) \in Nat
  BY <1>3, LenProperties
<1>5. PICK h \in [1..Len(base) -> 1..Len(list)] :
         /\ \A n \in DOMAIN h : base[n] = list[h[n]]
         /\ \A m, n \in DOMAIN h : h[m] = h[n] => m = n
         /\ \A m \in 1..Len(list) :
               \/ \E n \in DOMAIN h : h[n] = m
               \/ /\ prior # 0 /\ list[m] = [id |-> i, revision |-> prior]
                  /\ \A n \in DOMAIN h : h[n] # m
         /\ prior # 0 => \E m \in Places(list, i) : \A n \in DOMAIN h : h[n] # m
  BY <1>3 DEF PartOf
<1>6. /\ new \in Seq(Kept) /\ Len(new) = Len(base) + 1 /\ new[Len(base) + 1] = c
      /\ \A n \in 1..Len(base) : new[n] = base[n]
  BY <1>1, <1>3, AppendProperties DEF base
<1>7. Len(new) \in Places(new, c.id) /\ new[Len(new)] = c
  BY <1>3, <1>6 DEF Places
<1>8. \A n \in 1..Len(base) : new[n] = list[h[n]] /\ h[n] \in 1..Len(list)
  BY <1>5, <1>6
<1>9. \A j, n : n \in Places(new, j) =>
         \/ n \in 1..Len(base) /\ h[n] \in Places(list, j) /\ new[n] = list[h[n]]
         \/ n = Len(new) /\ j = c.id
  BY <1>3, <1>6, <1>8 DEF Places
<1>10. ASSUME NEW j, NEW n \in Places(list, j)
      PROVE  \/ \E m \in Places(new, j) : new[m] = list[n]
             \/ j = c.id /\ list[n].revision = prior
  <2>1. n \in 1..Len(list) /\ list[n].id = j
    BY DEF Places
  <2>2. CASE \E m \in DOMAIN h : h[m] = n
    <3>1. PICK m \in 1..Len(base) : h[m] = n
      BY <2>2
    <3>2. m \in Places(new, j) /\ new[m] = list[n]
      BY <1>3, <1>6, <1>8, <2>1, <3>1 DEF Places
    <3> QED BY <3>2
  <2>3. CASE list[n] = [id |-> c.id, revision |-> prior]
    BY <2>1, <2>3
  <2> QED BY <1>1, <1>5, <2>1, <2>2, <2>3
<1>11. ASSUME NEW j, NEW r \in Nat, Holds(list, j, r) PROVE Holds(new, j, r)
  <2>1. PICK n \in Places(list, j) : r <= list[n].revision
    BY <1>11 DEF Holds
  <2>2. CASE \E m \in Places(new, j) : new[m] = list[n]
    BY <2>1, <2>2 DEF Holds
  <2>3. CASE j = c.id /\ list[n].revision = prior
    <3>1. r <= c.revision
      BY <1>0, <2>1, <2>3
    <3> QED BY <1>7, <2>3, <3>1 DEF Holds
  <2> QED BY <1>10, <2>2, <2>3
<1>12. ASSUME NEW j, j # c.id
       PROVE  /\ Absent(list, j) <=> Absent(new, j)
              /\ Single(list, j) => Single(new, j)
              /\ \A n \in Places(list, j) : \E m \in Places(new, j) : new[m] = list[n]
  <2>1. \A n \in Places(list, j) : \E m \in Places(new, j) : new[m] = list[n]
    BY <1>10, <1>12
  <2>2. \A n \in Places(new, j) : n \in 1..Len(base) /\ h[n] \in Places(list, j)
    BY <1>9, <1>12
  <2>3. Absent(list, j) <=> Absent(new, j)
    BY <2>1, <2>2 DEF Absent
  <2>4. Single(list, j) => Single(new, j)
    BY <1>5, <2>2 DEF Single
  <2> QED BY <2>1, <2>3, <2>4
<1>13. ASSUME Single(list, c.id), prior = 0 => Absent(list, c.id) PROVE Single(new, c.id)
  <2>1. ASSUME NEW n \in Places(new, c.id), n # Len(new) PROVE FALSE
    <3>1. n \in 1..Len(base) /\ h[n] \in Places(list, c.id)
      BY <1>9, <2>1
    <3>2. prior # 0
      BY <1>13, <3>1 DEF Absent
    <3>3. PICK m \in Places(list, c.id) : h[n] # m
      BY <1>1, <1>5, <3>1, <3>2
    <3> QED BY <1>13, <3>1, <3>3 DEF Single
  <2> QED BY <2>1 DEF Single
<1> QED BY <1>6, <1>7, <1>11, <1>12, <1>13 DEF Replaced

-----------------------------------------------------------------------------
(* The requests. What of a batch is taken has text and no id twice.        *)
Handling == [at : {"idle", "looking", "loop", "adding", "answered"}, batch : Seq(Chunk),
             next : Nat \ {0}, known : [Ids -> 0..MaxRevision], copy : Seq(Kept)]

TypeInv ==
    /\ mongo \in BOOLEAN
    /\ chunks \in Seq(Kept) /\ streamed \subseteq Kept
    /\ proc \in [Requests -> Handling]

Underway(p) == proc[p].at \in {"loop", "adding"}
Took(p) == 1..(proc[p].next - 1)
Part(p, n) == proc[p].batch[n]

TakesInv ==
    \A p \in Requests :
        /\ Busy(p) => proc[p].batch # <<>>
        /\ mongo => proc[p].at \notin {"looking", "adding"}
        /\ Underway(p) =>
              /\ Took(p) \subseteq DOMAIN proc[p].batch
              /\ \A n \in Took(p) : Part(p, n).revision # 0
              /\ \A m, n \in Took(p) : Part(p, m).id = Part(p, n).id => m = n
        /\ proc[p].at = "adding" =>
              /\ proc[p].next \in DOMAIN proc[p].batch /\ Part(p, proc[p].next).revision # 0
              /\ \A n \in Took(p) : Part(p, n).id # Part(p, proc[p].next).id

(* Handlers between the removal of a chunk and the addition of its         *)
(* successor, and what is in the list or about to be in it again.          *)
Adds(p, i) == proc[p].at = "adding" /\ Part(p, proc[p].next).id = i
There(i, r) ==
    \/ Holds(chunks, i, r)
    \/ \E q \in Requests : Adds(q, i) /\ r <= Part(q, proc[q].next).revision

(* In memory the list holds whatever was announced or taken. Of what is    *)
(* said in the meeting, and looked up in peace, only the pump brings the   *)
(* first text; what it does not know of that is neither there nor about to *)
(* be, however many corrections of it are under way; and a text that is    *)
(* about to be there has one handler and no other copy. A walk along the   *)
(* list in which nothing was removed has found what it has passed.         *)
ThereInv ==
    ~mongo =>
        /\ \A chunk \in streamed : There(chunk.id, chunk.revision)
        /\ \A p \in Requests : Underway(p) =>
              \A n \in Took(p) : There(Part(p, n).id, Part(p, n).revision)

OnceInv ==
    ~mongo => \A i \in FromZoom \ torn :
        /\ Single(chunks, i)
        /\ \A p \in Requests : Adds(p, i) =>
              Absent(chunks, i) /\ \A q \in Requests : Adds(q, i) => q = p

PumpInv ==
    ~mongo => \A i \in (FromZoom \cap Named(proc[Pump].batch)) \ torn :
        Underway(Pump) /\ proc[Pump].known[i] = 0 =>
            Absent(chunks, i) /\ \A q \in Requests : ~Adds(q, i)

UploadInv ==
    ~mongo => \A p \in Requests \ {Pump} : \A i \in FromZoom \cap Named(proc[p].batch) :
        /\ proc[p].at = "looking" => \E chunk \in streamed : chunk.id = i
        /\ Underway(p) /\ i \notin torn => proc[p].known[i] # 0

WalkInv ==
    \A p \in Requests : proc[p].at = "looking" => \A i \in Named(proc[p].batch) \ torn :
        /\ \A q \in Requests : proc[q].at # "adding"
        /\ proc[p].next <= Len(chunks) + 1
        /\ proc[p].known[i] = 0 => \A n \in Places(chunks, i) : proc[p].next <= n

SharedInv == ThereInv /\ OnceInv /\ PumpInv /\ UploadInv /\ WalkInv

(* With MongoDB each handler knows its own copy, which has no id twice.    *)
Knows(known, list) ==
    \A i \in Ids :
        /\ Single(list, i)
        /\ known[i] = 0 <=> Absent(list, i)
        /\ \A n \in Places(list, i) : list[n].revision = known[i]

CopiesInv ==
    mongo =>
        /\ \A i \in Ids : Single(chunks, i)
        /\ \A p \in Requests : Busy(p) => Knows(proc[p].known, proc[p].copy)

(* The only handler under way has a copy that is the document with what it *)
(* took of the batch, all of it newer.                                     *)
AloneInv ==
    mongo /\ ~overlapped =>
        /\ \A p, q \in Requests : Busy(p) /\ Busy(q) => p = q
        /\ \A p \in Requests : Busy(p) =>
              /\ \A n \in Took(p) :
                    /\ proc[p].known[Part(p, n).id] = Part(p, n).revision
                    /\ Newest(chunks, Part(p, n).id) < Part(p, n).revision
              /\ \A i \in Ids :
                    \/ proc[p].known[i] = Newest(chunks, i)
                    \/ \E n \in Took(p) : Part(p, n).id = i

TranscriptInv == TypeInv /\ TakesInv /\ SharedInv /\ CopiesInv /\ AloneInv

-----------------------------------------------------------------------------
(* What a request that appends a chunk does, in either store: with MongoDB  *)
(* the chunk it knows has gone from its copy, in memory it knew none or    *)
(* has removed it before.                                                  *)
Moved(job, after, i, r) ==
    /\ after \in Handling /\ after.at = "loop" /\ after.batch = job.batch
    /\ after.next = job.next + 1 /\ after.known = [job.known EXCEPT ![i] = r]
    /\ after.copy = job.copy

Takes(p, c, prior, list, new) ==
    /\ Underway(p) /\ proc[p].next \in DOMAIN proc[p].batch /\ c = Part(p, proc[p].next)
    /\ c \in Kept /\ prior = (IF mongo THEN proc[p].known[c.id] ELSE 0)
    /\ prior \in 0..MaxRevision /\ prior < c.revision
    /\ ~mongo => proc[p].at = "adding" \/ proc[p].known[c.id] = 0
    /\ prior # 0 => Contains(list, [id |-> c.id, revision |-> prior])
    /\ \A n \in Took(p) : Part(p, n).id # c.id
    /\ list = Editing(p) /\ list \in Seq(Kept) /\ new = Append(Base(list, c.id, prior), c)
    /\ new \in Seq(Kept)
    /\ chunks' = (IF mongo THEN chunks ELSE new)
    /\ proc' \in [Requests -> Handling] /\ \A q \in Requests \ {p} : proc'[q] = proc[q]
    /\ \E job \in Handling :
          /\ job.batch = proc[p].batch /\ job.next = proc[p].next /\ job.known = proc[p].known
          /\ job.copy = (IF mongo THEN new ELSE proc[p].copy)
          /\ Moved(job, proc'[p], c.id, c.revision)

LEMMA JobMoved ==
    ASSUME NEW f \in [Requests -> Handling], NEW p \in Requests, NEW i \in Ids,
           NEW r \in 0..MaxRevision, NEW j \in Handling, NEW g,
           g = [f EXCEPT ![p] = [j EXCEPT !.at = "loop", !.next = @ + 1, !.known[i] = r]]
    PROVE  /\ g \in [Requests -> Handling] /\ \A q \in Requests \ {p} : g[q] = f[q]
           /\ Moved(j, g[p], i, r)
<1>1. PICK n, k : n = j.next /\ k = j.known /\ k \in [Ids -> 0..MaxRevision] /\ n \in Nat
  BY DEF Handling
<1>2. PICK known : known = [k EXCEPT ![i] = r]
  OBVIOUS
<1>3. known \in [Ids -> 0..MaxRevision]
  BY <1>1, <1>2
<1>4. PICK job : job = [j EXCEPT !.at = "loop", !.next = @ + 1, !.known[i] = r]
  OBVIOUS
<1>5. job = [at |-> "loop", batch |-> j.batch, next |-> n + 1, known |-> known, copy |-> j.copy]
  BY <1>1, <1>2, <1>4 DEF Handling
<1>6. job \in Handling
  BY <1>1, <1>3, <1>5 DEF Handling
<1>7. g \in [Requests -> Handling] /\ g[p] = job /\ \A q \in Requests \ {p} : g[q] = f[q]
  BY <1>4, <1>6
<1>8. Moved(j, job, i, r)
  BY <1>1, <1>2, <1>5, <1>6 DEF Moved
<1> QED BY <1>7, <1>8

LEMMA Requesting ==
    ASSUME TypeInv, NEW p \in Requests
    PROVE  /\ proc[p] \in Handling /\ proc[p].batch \in Seq(Chunk)
           /\ proc[p].next \in Nat \ {0} /\ proc[p].known \in [Ids -> 0..MaxRevision]
           /\ proc[p].copy \in Seq(Kept)
           /\ DOMAIN proc[p].batch = 1..Len(proc[p].batch) /\ Len(proc[p].batch) \in Nat
           /\ \A n \in DOMAIN proc[p].batch :
                 /\ Part(p, n) \in Chunk /\ Part(p, n).id \in Ids
                 /\ Part(p, n).revision \in 0..MaxRevision
                 /\ Part(p, n).revision # 0 => Part(p, n) \in Kept
<1>1. proc[p] \in Handling
  BY DEF TypeInv
<1>2. /\ proc[p].batch \in Seq(Chunk) /\ proc[p].next \in Nat \ {0}
      /\ proc[p].known \in [Ids -> 0..MaxRevision] /\ proc[p].copy \in Seq(Kept)
  BY <1>1 DEF Handling
<1>3. DOMAIN proc[p].batch = 1..Len(proc[p].batch) /\ Len(proc[p].batch) \in Nat
  BY <1>2, LenProperties
<1>4. ASSUME NEW n \in DOMAIN proc[p].batch
      PROVE  /\ Part(p, n) \in Chunk /\ Part(p, n).id \in Ids
             /\ Part(p, n).revision \in 0..MaxRevision
             /\ Part(p, n).revision # 0 => Part(p, n) \in Kept
  <2>1. Part(p, n) \in Chunk
    BY <1>2, <1>3, ElementOfSeq DEF Part
  <2>2. Part(p, n) = [id |-> Part(p, n).id, revision |-> Part(p, n).revision]
    BY <2>1 DEF Chunk
  <2> QED BY <2>1, <2>2, ConstantsAssumption DEF Chunk, Kept
<1> QED BY <1>1, <1>2, <1>3, <1>4

LEMMA TakeFacts ==
    ASSUME TypeInv, TakesInv, NEW p \in Requests, TakeChunk(p) \/ AppendChunk(p)
    PROVE  /\ \E c, prior, list, new : Takes(p, c, prior, list, new)
           /\ UNCHANGED <<overlapped, streamed, torn>>
<1>1. PICK n, c, known, list, prior :
         /\ n = proc[p].next /\ c = Current(p) /\ known = proc[p].known /\ list = Editing(p)
         /\ prior = IF mongo THEN known[c.id] ELSE 0
  OBVIOUS
<1>2. PICK job : job = IF mongo THEN [proc[p] EXCEPT !.copy = Edited(p)] ELSE proc[p]
  OBVIOUS
<1>3. /\ Underway(p) /\ n \in DOMAIN proc[p].batch /\ c = Part(p, n) /\ c.revision # 0
      /\ \A m \in Took(p) : Part(p, m).id # c.id
      /\ mongo => /\ known[c.id] = 0 \/ Contains(list, [id |-> c.id, revision |-> known[c.id]])
                  /\ ~(known[c.id] > 0 /\ c.revision <= known[c.id])
      /\ ~mongo => proc[p].at = "adding" \/ known[c.id] = 0
      /\ proc' = Taking(p, job) /\ UNCHANGED <<overlapped, streamed, torn>>
      /\ mongo => chunks' = chunks
      /\ ~mongo => chunks' = Append(list, c)
  <2>1. CASE TakeChunk(p)
    <3>1. /\ proc[p].at = "loop" /\ n <= Len(proc[p].batch) /\ c = Part(p, n)
          /\ c.revision # 0 /\ ~Repeated(p) /\ ~Stale(p)
          /\ known[c.id] = 0 \/ (mongo /\ Contains(list, [id |-> c.id, revision |-> known[c.id]]))
      BY <1>1, <2>1 DEF TakeChunk, Remaining, Refused, Current, Part, Prior, Superseding
    <3>2. n \in DOMAIN proc[p].batch
      BY <1>1, <3>1, Requesting
    <3>3. \A m \in Took(p) : Part(p, m).id # c.id
      BY <1>1, <3>1 DEF Repeated, Took, Part
    <3>4. ~(known[c.id] > 0 /\ c.revision <= known[c.id])
      BY <1>1, <3>1 DEF Stale, Prior
    <3>5. /\ proc' = Taking(p, job) /\ UNCHANGED <<overlapped, streamed, torn>>
          /\ mongo => chunks' = chunks
          /\ ~mongo => chunks' = Edited(p)
      BY <1>2, <2>1 DEF TakeChunk
    <3>6. ~mongo => Edited(p) = Append(list, c)
      BY <1>1, <3>1 DEF Edited, Prior
    <3> QED BY <3>1, <3>2, <3>3, <3>4, <3>5, <3>6 DEF Underway
  <2>2. CASE AppendChunk(p)
    <3>1. /\ proc[p].at = "adding" /\ ~mongo /\ n \in DOMAIN proc[p].batch
          /\ Part(p, n).revision # 0 /\ \A m \in Took(p) : Part(p, m).id # Part(p, n).id
      BY <1>1, <2>2 DEF AppendChunk, TakesInv
    <3>2. c = Part(p, n) /\ list = chunks /\ job = proc[p]
      BY <1>1, <1>2, <3>1 DEF Current, Part, Editing
    <3>3. /\ proc' = Taking(p, job) /\ UNCHANGED <<overlapped, streamed, torn>>
          /\ chunks' = Append(list, c)
      BY <1>1, <2>2, <3>2 DEF AppendChunk
    <3> QED BY <3>1, <3>2, <3>3 DEF Underway
  <2> QED BY <2>1, <2>2
<1>4. /\ c \in Kept /\ c.id \in Ids /\ c.revision \in 1..MaxRevision /\ MaxRevision \in Nat
      /\ n \in Nat \ {0}
  BY <1>1, <1>3, ConstantsAssumption, Requesting DEF Kept
<1>5. prior \in 0..MaxRevision /\ prior < c.revision
  <2>1. known[c.id] \in 0..MaxRevision
    BY <1>1, <1>4, Requesting
  <2> QED BY <1>1, <1>3, <1>4, <2>1
<1>6. list \in Seq(Kept) /\ (prior # 0 => Contains(list, [id |-> c.id, revision |-> prior]))
  BY <1>1, <1>3, Requesting DEF Editing, TypeInv
<1>7. PICK new : new = Append(Base(list, c.id, prior), c)
  OBVIOUS
<1>8. new \in Seq(Kept)
  <2>1. Base(list, c.id, prior) \in Seq(Kept)
    BY <1>6, BaseIsPart
  <2> QED BY <1>4, <1>7, <2>1, AppendProperties
<1>9. chunks' = IF mongo THEN chunks ELSE new
  BY <1>1, <1>3, <1>7 DEF Base
<1>10. /\ job \in Handling
       /\ job.batch = proc[p].batch /\ job.next = n /\ job.known = known
       /\ job.copy = IF mongo THEN new ELSE proc[p].copy
  <2>1. mongo => Edited(p) = new
    BY <1>1, <1>7 DEF Edited, Base, Prior, Superseding
  <2>2. proc[p] \in Handling
    BY Requesting
  <2>3. PICK j : j = proc[p]
    OBVIOUS
  <2>4. mongo => job = [j EXCEPT !.copy = new]
    BY <1>2, <2>1, <2>3
  <2> QED BY <1>1, <1>2, <1>8, <2>2, <2>3, <2>4 DEF Handling
<1>11. /\ proc' \in [Requests -> Handling] /\ \A q \in Requests \ {p} : proc'[q] = proc[q]
       /\ Moved(job, proc'[p], c.id, c.revision)
  <2>1. proc' = [proc EXCEPT ![p] = [job EXCEPT !.at = "loop", !.next = @ + 1, !.known[c.id] = c.revision]]
    BY <1>1, <1>3 DEF Taking
  <2>2. proc \in [Requests -> Handling] /\ c.revision \in 0..MaxRevision
    BY <1>4 DEF TypeInv
  <2>3. PICK f, g, i, r : f = proc /\ g = proc' /\ i = c.id /\ r = c.revision
    OBVIOUS
  <2>4. g = [f EXCEPT ![p] = [job EXCEPT !.at = "loop", !.next = @ + 1, !.known[i] = r]]
    BY <2>1, <2>3
  <2>5. f \in [Requests -> Handling] /\ i \in Ids /\ r \in 0..MaxRevision /\ job \in Handling
    BY <1>4, <1>10, <2>2, <2>3
  <2>6. g \in [Requests -> Handling] /\ (\A q \in Requests \ {p} : g[q] = f[q])
        /\ Moved(job, g[p], i, r)
    BY <2>4, <2>5, JobMoved
  <2> QED BY <2>3, <2>6
<1>12. Takes(p, c, prior, list, new)
  BY <1>1, <1>3, <1>4, <1>5, <1>6, <1>7, <1>8, <1>9, <1>10, <1>11 DEF Takes
<1> QED BY <1>3, <1>12

-----------------------------------------------------------------------------
(* What a chunk at the end of the shared list keeps. An utterance that was *)
(* looked up in peace is added by the pump, which did not know it, or by   *)
(* the one handler that had removed it: it was not there.                  *)
LEMMA Appended ==
    ASSUME NEW list \in Seq(Kept), NEW c \in Kept, NEW i, i = c.id
    PROVE  /\ Append(list, c) \in Seq(Kept) /\ Len(list) \in Nat
           /\ Len(Append(list, c)) = Len(list) + 1
           /\ \A n \in 1..Len(list) : Append(list, c)[n] = list[n]
           /\ Append(list, c)[Len(list) + 1] = c
           /\ \A j : j # i => Places(Append(list, c), j) = Places(list, j)
           /\ Places(Append(list, c), i) = Places(list, i) \cup {Len(list) + 1}
<1>1. /\ Append(list, c) \in Seq(Kept) /\ Len(list) \in Nat
      /\ Len(Append(list, c)) = Len(list) + 1
      /\ \A n \in 1..Len(list) : Append(list, c)[n] = list[n]
      /\ Append(list, c)[Len(list) + 1] = c
  BY AppendProperties, LenProperties
<1>2. PICK L, new : L = Len(list) /\ new = Append(list, c)
  OBVIOUS
<1>3. /\ L \in Nat /\ Len(new) = L + 1 /\ new[L + 1] = c
      /\ \A n \in 1..L : new[n] = list[n]
  BY <1>1, <1>2
<1>4. 1..(L + 1) = (1..L) \cup {L + 1}
  BY <1>3
<1>5. \A j : j # i => Places(new, j) = Places(list, j)
  BY <1>2, <1>3, <1>4 DEF Places
<1>6. Places(new, i) = Places(list, i) \cup {L + 1}
  BY <1>2, <1>3, <1>4 DEF Places
<1> QED BY <1>1, <1>2, <1>5, <1>6

LEMMA AppendedToShared ==
    ASSUME TranscriptInv, ~mongo, UNCHANGED <<mongo, streamed, torn>>,
           NEW p \in Requests, NEW c, NEW prior, NEW list, NEW new,
           Takes(p, c, prior, list, new)
    PROVE  SharedInv'
<1> USE DEF TranscriptInv, SharedInv
<1>1. PICK i, pos :
         /\ i = c.id /\ pos = proc[p].next /\ pos \in DOMAIN proc[p].batch /\ pos \in Nat \ {0}
         /\ c = Part(p, pos) /\ c \in Kept /\ i \in Ids /\ c.revision \in Nat \ {0}
         /\ proc[p].at = "adding" \/ proc[p].known[i] = 0
         /\ Underway(p) /\ i \in Named(proc[p].batch)
  <2>1. PICK i, pos : i = c.id /\ pos = proc[p].next
    OBVIOUS
  <2>2. /\ pos \in DOMAIN proc[p].batch /\ c = Part(p, pos) /\ c \in Kept /\ Underway(p)
        /\ proc[p].at = "adding" \/ proc[p].known[i] = 0
    BY <2>1 DEF Takes
  <2>3. i \in Ids /\ c.revision \in Nat \ {0} /\ pos \in Nat \ {0}
    BY <2>1, <2>2, Requesting, ConstantsAssumption DEF Kept
  <2>4. i \in Named(proc[p].batch)
    BY <2>1, <2>2 DEF Named, Part
  <2> QED BY <2>1, <2>2, <2>3, <2>4
<1>2. PICK L : L = Len(chunks)
  OBVIOUS
<1>3. /\ chunks \in Seq(Kept) /\ L \in Nat /\ Len(chunks') = L + 1
      /\ \A n \in 1..L : chunks'[n] = chunks[n]
      /\ chunks'[L + 1] = c
      /\ \A j : j # i => Places(chunks', j) = Places(chunks, j)
      /\ Places(chunks', i) = Places(chunks, i) \cup {L + 1}
  <2>1. chunks \in Seq(Kept) /\ chunks' = Append(chunks, c)
    BY DEF TypeInv, Takes, Base, Editing
  <2> QED BY <1>1, <1>2, <2>1, Appended
<1>4. \A j : Places(chunks, j) \subseteq 1..L
  BY <1>2 DEF Places
<1>5. /\ \A q \in Requests : proc'[q].batch = proc[q].batch
      /\ \A q \in Requests : q # p => proc'[q] = proc[q]
      /\ proc'[p].at = "loop" /\ proc'[p].next = pos + 1
      /\ proc'[p].known = [proc[p].known EXCEPT ![i] = c.revision]
  BY <1>1 DEF Takes, Moved
<1>6. /\ \A q \in Requests : /\ Underway(q)' = Underway(q) /\ \A n : Part(q, n)' = Part(q, n)
                             /\ Named(proc'[q].batch) = Named(proc[q].batch)
      /\ \A q \in Requests : q # p => Took(q)' = Took(q) /\ \A j : Adds(q, j)' = Adds(q, j)
      /\ Took(p)' = Took(p) \cup {pos} /\ \A j : ~Adds(p, j)'
  <2>1. Took(p)' = 1..pos /\ Took(p) = 1..(pos - 1)
    BY <1>1, <1>5 DEF Took
  <2>2. Underway(p)' /\ \A j : ~Adds(p, j)'
    BY <1>5 DEF Underway, Adds
  <2> QED BY <1>1, <1>5, <2>1, <2>2 DEF Underway, Part, Took, Adds
<1>7. /\ proc'[p].known[i] # 0
      /\ \A j \in Ids : j # i => proc'[p].known[j] = proc[p].known[j]
  BY <1>1, <1>5, Requesting
<1>8. Adds(p, i) \/ (proc[p].at = "loop" /\ proc[p].known[i] = 0)
  BY <1>1 DEF Adds, Underway
<1>9. ASSUME NEW j, NEW r \in Nat, There(j, r) PROVE There(j, r)'
  <2>1. Holds(chunks, j, r) => Holds(chunks', j, r)
    BY <1>3, <1>4 DEF Holds
  <2>2. ASSUME NEW q \in Requests, Adds(q, j), r <= Part(q, proc[q].next).revision
        PROVE  There(j, r)'
    <3>1. CASE q # p
      BY <1>5, <1>6, <2>2, <3>1 DEF There
    <3>2. CASE q = p
      <4>1. j = i /\ r <= c.revision
        BY <1>1, <2>2, <3>2 DEF Adds
      <4>2. Holds(chunks', i, r)
        BY <1>3, <4>1 DEF Holds
      <4> QED BY <4>1, <4>2 DEF There, Holds, Places
    <3> QED BY <3>1, <3>2
  <2> QED BY <1>9, <2>1, <2>2 DEF There, Holds, Places
<1>10. ThereInv'
  <2>1. \A chunk \in streamed' : There(chunk.id, chunk.revision)'
    <3>1. \A chunk \in streamed : chunk.revision \in Nat
      BY ConstantsAssumption DEF TypeInv, Kept
    <3> QED BY <1>9, <3>1 DEF ThereInv
  <2>2. ASSUME NEW q \in Requests, Underway(q), NEW n \in Took(q)'
        PROVE  There(Part(q, n).id, Part(q, n).revision)'
    <3>1. CASE n \in Took(q)
      <4>1. n \in DOMAIN proc[q].batch
        BY <2>2, <3>1 DEF TakesInv
      <4>2. Part(q, n).revision \in Nat
        BY <4>1, Requesting, ConstantsAssumption
      <4>3. There(Part(q, n).id, Part(q, n).revision)
        BY <2>2, <3>1 DEF ThereInv
      <4>4. PICK j, r : j = Part(q, n).id /\ r = Part(q, n).revision
        OBVIOUS
      <4>5. There(j, r)'
        BY <1>9, <4>2, <4>3, <4>4
      <4>6. Part(q, n)' = Part(q, n)
        BY <1>6
      <4> QED BY <4>4, <4>5, <4>6
    <3>2. CASE n \notin Took(q)
      <4>1. q = p /\ n = pos
        BY <1>6, <2>2, <3>2
      <4>2. Holds(chunks', i, c.revision)
        BY <1>1, <1>3 DEF Holds
      <4> QED BY <1>1, <1>6, <4>1, <4>2 DEF There, Holds, Places
    <3> QED BY <3>1, <3>2
  <2> QED BY <1>6, <2>1, <2>2 DEF ThereInv
<1>11. ASSUME i \in FromZoom \ torn
       PROVE  Absent(chunks, i) /\ \A q \in Requests : Adds(q, i) => q = p
  <2>1. CASE Adds(p, i)
    BY <1>11, <2>1 DEF OnceInv
  <2>2. CASE proc[p].at = "loop" /\ proc[p].known[i] = 0
    <3>1. p = Pump
      BY <1>1, <1>11, <2>2 DEF UploadInv
    <3> QED BY <1>1, <1>11, <2>2, <3>1 DEF PumpInv
  <2> QED BY <1>8, <2>1, <2>2
<1>12. OnceInv'
  <2> SUFFICES ASSUME NEW j \in FromZoom \ torn
               PROVE  /\ Single(chunks', j)
                      /\ \A q \in Requests : Adds(q, j)' =>
                            Absent(chunks', j) /\ \A q1 \in Requests : Adds(q1, j)' => q1 = q
    BY DEF OnceInv, Absent, Single, Places
  <2>1. CASE j = i
    <3>1. Single(chunks', i)
      BY <1>3, <1>11, <2>1 DEF Single, Absent
    <3>2. \A q \in Requests : ~Adds(q, i)'
      BY <1>6, <1>11, <2>1
    <3> QED BY <2>1, <3>1, <3>2
  <2>2. CASE j # i
    <3>1. Places(chunks', j) = Places(chunks, j)
      BY <1>3, <2>2
    <3>2. \A q \in Requests : Adds(q, j)' => Adds(q, j)
      BY <1>6
    <3> QED BY <3>1, <3>2 DEF OnceInv, Single, Absent
  <2> QED BY <2>1, <2>2
<1>13. PumpInv'
  <2>0. Pump \in Requests
    BY IngestAssumption
  <2> SUFFICES ASSUME NEW j \in (FromZoom \cap Named(proc[Pump].batch)) \ torn,
                      Underway(Pump), proc'[Pump].known[j] = 0
               PROVE  Absent(chunks', j) /\ \A q \in Requests : ~Adds(q, j)'
    BY <1>6, <2>0 DEF PumpInv, Absent, Places
  <2>1. j \in Ids
    BY <2>0, Requesting DEF Named, Part
  <2>2. CASE j = i
    <3>1. Pump # p
      BY <1>7, <2>2
    <3>2. proc[Pump].known[i] = 0
      BY <1>5, <2>0, <2>2, <3>1
    <3>3. ~Adds(p, i)
      BY <2>2, <3>2 DEF PumpInv
    <3>4. proc[p].known[i] # 0
      BY <1>1, <2>2, <3>1 DEF UploadInv
    <3> QED BY <1>8, <3>3, <3>4
  <2>3. CASE j # i
    <3>1. proc[Pump].known[j] = 0
      BY <1>5, <1>7, <2>0, <2>1, <2>3
    <3>2. Absent(chunks, j) /\ \A q \in Requests : ~Adds(q, j)
      BY <3>1 DEF PumpInv
    <3> QED BY <1>3, <1>6, <2>3, <3>2 DEF Absent
  <2> QED BY <2>2, <2>3
<1>14. UploadInv'
  <2> SUFFICES ASSUME NEW q \in Requests \ {Pump}, NEW j \in FromZoom \cap Named(proc[q].batch)
               PROVE  /\ proc'[q].at = "looking" => \E chunk \in streamed : chunk.id = j
                      /\ Underway(q) /\ j \notin torn => proc'[q].known[j] # 0
    BY <1>6 DEF UploadInv
  <2>1. j \in Ids
    BY Requesting DEF Named, Part
  <2>2. CASE q # p
    BY <1>5, <2>2 DEF UploadInv
  <2>3. CASE q = p
    <3>1. proc'[q].at = "loop" /\ (j \notin torn => proc[q].known[j] # 0)
      BY <1>1, <1>5, <2>3 DEF UploadInv
    <3> QED BY <1>7, <2>1, <2>3, <3>1
  <2> QED BY <2>2, <2>3
<1>15. WalkInv'
  <2> SUFFICES ASSUME NEW q \in Requests, proc'[q].at = "looking",
                      NEW j \in Named(proc[q].batch) \ torn
               PROVE  /\ \A q1 \in Requests : proc'[q1].at # "adding"
                      /\ proc'[q].next <= Len(chunks') + 1
                      /\ proc'[q].known[j] = 0 => \A n \in Places(chunks', j) : proc'[q].next <= n
    BY <1>6 DEF WalkInv, Places
  <2>1. q # p /\ proc'[q] = proc[q] /\ proc[q].at = "looking" /\ proc[q].next \in Nat
    BY <1>5, Requesting
  <2>2. \A q1 \in Requests : proc'[q1].at # "adding"
    BY <1>5, <2>1 DEF WalkInv
  <2>3. proc[q].next <= L + 1
    BY <1>2, <2>1 DEF WalkInv
  <2>4. proc[q].known[j] = 0 => \A n \in Places(chunks', j) : proc[q].next <= n
    BY <1>3, <2>1, <2>3 DEF WalkInv
  <2> QED BY <1>3, <2>1, <2>2, <2>3, <2>4
<1> QED BY <1>10, <1>12, <1>13, <1>14, <1>15

(* What the addition of a chunk keeps, in either store.                    *)
LEMMA TakeKeeps ==
    ASSUME TranscriptInv, mongo' = mongo, NEW p \in Requests, TakeChunk(p) \/ AppendChunk(p)
    PROVE  TranscriptInv'
<1> USE DEF TranscriptInv
<1>1. PICK c, prior, list, new : Takes(p, c, prior, list, new)
  BY TakeFacts
<1>2. UNCHANGED <<overlapped, streamed, torn>>
  BY TakeFacts
<1>3. PICK i, pos :
         /\ i = c.id /\ pos = proc[p].next /\ pos \in DOMAIN proc[p].batch /\ pos \in Nat \ {0}
         /\ c = Part(p, pos) /\ i \in Ids /\ c.revision \in 1..MaxRevision
         /\ prior = (IF mongo THEN proc[p].known[i] ELSE 0)
         /\ prior < c.revision /\ prior \in 0..MaxRevision
         /\ ~mongo => proc[p].at = "adding" \/ proc[p].known[i] = 0
         /\ \A n \in Took(p) : Part(p, n).id # i
         /\ Underway(p) /\ Busy(p)
  BY <1>1, Requesting DEF Takes, Kept, Part, Underway, Busy
<1>4. /\ new \in Seq(Kept) /\ list \in Seq(Kept) /\ MaxRevision \in Nat
      /\ Len(new) \in Places(new, i) /\ new[Len(new)] = c
      /\ \A j : \A r \in Nat : Holds(list, j, r) => Holds(new, j, r)
      /\ \A j : j # i =>
           /\ Absent(list, j) <=> Absent(new, j)
           /\ Single(list, j) => Single(new, j)
           /\ \A n \in Places(list, j) : \E m \in Places(new, j) : new[m] = list[n]
      /\ Single(list, i) /\ (prior = 0 => Absent(list, i)) => Single(new, i)
  <2>1. /\ list \in Seq(Kept) /\ c \in Kept /\ prior \in 0..MaxRevision /\ prior < c.revision
        /\ prior # 0 => Contains(list, [id |-> c.id, revision |-> prior])
        /\ new = Append(Base(list, c.id, prior), c)
    BY <1>1 DEF Takes
  <2>2. Replaced(list, new, c, c.id, prior)
    BY <2>1, ListEdited
  <2>3. Replaced(list, new, c, i, prior)
    BY <1>3, <2>2
  <2> QED BY <2>1, <2>3, ConstantsAssumption DEF Replaced
<1>5. /\ \A q \in Requests : proc'[q].batch = proc[q].batch
      /\ \A q \in Requests : q # p => proc'[q] = proc[q]
      /\ proc'[p].at = "loop" /\ proc'[p].next = pos + 1 /\ proc' \in [Requests -> Handling]
      /\ proc'[p].known = [proc[p].known EXCEPT ![i] = c.revision]
  BY <1>1, <1>3 DEF Takes, Moved
<1>6. /\ \A q \in Requests : /\ Busy(q)' = Busy(q) /\ Underway(q)' = Underway(q)
                             /\ \A n : Part(q, n)' = Part(q, n)
                             /\ Named(proc'[q].batch) = Named(proc[q].batch)
      /\ \A q \in Requests : q # p => Took(q)' = Took(q) /\ \A j : Adds(q, j)' = Adds(q, j)
      /\ Took(p)' = Took(p) \cup {pos} /\ \A j : ~Adds(p, j)'
  <2>1. Took(p)' = 1..pos /\ Took(p) = 1..(pos - 1)
    BY <1>3, <1>5 DEF Took
  <2>2. Underway(p)' /\ Busy(p)' /\ \A j : ~Adds(p, j)'
    BY <1>3, <1>5 DEF Underway, Busy, Adds
  <2> QED BY <1>3, <1>5, <2>1, <2>2 DEF Busy, Underway, Part, Took, Adds
<1>7. /\ proc'[p].known[i] = c.revision /\ c.revision # 0
      /\ \A j \in Ids : j # i => proc'[p].known[j] = proc[p].known[j]
  BY <1>3, <1>5, Requesting
<1>8. TypeInv'
  BY <1>1, <1>2, <1>4, <1>5 DEF TypeInv, Takes
<1>9. TakesInv'
  <2>1. ASSUME NEW q \in Requests, q # p
        PROVE  /\ Busy(q)' => proc'[q].batch # <<>>
               /\ mongo' => proc'[q].at \notin {"looking", "adding"}
               /\ Underway(q)' =>
                     /\ Took(q)' \subseteq DOMAIN proc'[q].batch
                     /\ \A n \in Took(q)' : Part(q, n)'.revision # 0
                     /\ \A m, n \in Took(q)' : Part(q, m)'.id = Part(q, n)'.id => m = n
               /\ proc'[q].at = "adding" =>
                     /\ proc'[q].next \in DOMAIN proc'[q].batch /\ Part(q, proc[q].next)'.revision # 0
                     /\ \A n \in Took(q)' : Part(q, n)'.id # Part(q, proc[q].next)'.id
    BY <1>5, <1>6, <2>1 DEF TakesInv
  <2>2. /\ proc'[p].batch # <<>> /\ proc'[p].at = "loop"
        /\ Took(p)' \subseteq DOMAIN proc'[p].batch
        /\ \A n \in Took(p)' : Part(p, n)'.revision # 0
        /\ \A m, n \in Took(p)' : Part(p, m)'.id = Part(p, n)'.id => m = n
    <3>1. /\ Took(p) \subseteq DOMAIN proc[p].batch
          /\ \A n \in Took(p) : Part(p, n).revision # 0
          /\ \A m, n \in Took(p) : Part(p, m).id = Part(p, n).id => m = n
      BY <1>3 DEF TakesInv
    <3>2. proc[p].batch # <<>>
      BY <1>3 DEF TakesInv, Busy, Underway
    <3> QED BY <1>3, <1>5, <1>6, <1>7, <3>1, <3>2
  <2> QED BY <2>1, <2>2 DEF TakesInv
<1>10. SharedInv'
  <2>1. CASE mongo
    BY <1>9, <2>1, IngestAssumption DEF TakesInv, SharedInv, ThereInv, OnceInv, PumpInv, UploadInv, WalkInv
  <2>2. CASE ~mongo
    BY <1>1, <1>2, <2>2, AppendedToShared
  <2> QED BY <2>1, <2>2
<1>11. CopiesInv'
  <2> SUFFICES ASSUME mongo PROVE CopiesInv'
    BY DEF CopiesInv
  <2>1. /\ list = proc[p].copy /\ chunks' = chunks /\ CopiesInv /\ proc'[p].copy = new
        /\ Knows(proc[p].known, list)
    BY <1>1, <1>3 DEF Takes, Moved, Editing, CopiesInv
  <2>2. Knows(proc'[p].known, new)
    <3>1. ASSUME NEW j \in Ids, j # i
          PROVE  /\ Single(new, j) /\ (proc'[p].known[j] = 0 <=> Absent(new, j))
                 /\ \A n \in Places(new, j) : new[n].revision = proc'[p].known[j]
      <4>1. /\ Single(list, j) /\ (proc[p].known[j] = 0 <=> Absent(list, j))
            /\ \A n \in Places(list, j) : list[n].revision = proc[p].known[j]
        BY <2>1 DEF Knows
      <4>2. Single(new, j) /\ (Absent(list, j) <=> Absent(new, j))
        BY <1>4, <3>1, <4>1
      <4>3. ASSUME NEW n \in Places(new, j) PROVE new[n].revision = proc[p].known[j]
        <5>1. PICK l \in Places(list, j) : TRUE
          BY <4>2, <4>3 DEF Absent
        <5>2. PICK m \in Places(new, j) : new[m] = list[l]
          BY <1>4, <3>1
        <5> QED BY <4>1, <4>2, <4>3, <5>1, <5>2 DEF Single
      <4> QED BY <1>7, <3>1, <4>1, <4>2, <4>3
    <3>2. /\ Single(new, i) /\ ~Absent(new, i)
          /\ \A n \in Places(new, i) : new[n].revision = c.revision
      <4>1. Single(new, i)
        BY <1>3, <1>4, <2>1 DEF Knows
      <4> QED BY <1>4, <4>1 DEF Single, Absent
    <3> QED BY <1>7, <3>1, <3>2 DEF Knows
  <2>3. \A q \in Requests : Busy(q)' => Knows(proc'[q].known, proc'[q].copy)
    <3> SUFFICES ASSUME NEW q \in Requests, Busy(q) PROVE Knows(proc'[q].known, proc'[q].copy)
      BY <1>6
    <3>1. CASE q = p
      BY <2>1, <2>2, <3>1
    <3>2. CASE q # p
      BY <1>5, <2>1, <3>2 DEF CopiesInv
    <3> QED BY <3>1, <3>2
  <2>4. \A j \in Ids : Single(chunks', j)
    BY <2>1 DEF CopiesInv
  <2> QED BY <2>3, <2>4 DEF CopiesInv, Knows, Single, Absent, Places
<1>12. AloneInv'
  <2> SUFFICES ASSUME mongo, ~overlapped PROVE AloneInv'
    BY <1>2 DEF AloneInv
  <2>1. chunks' = chunks /\ AloneInv
    BY <1>1 DEF Takes
  <2>2. \A q \in Requests : Busy(q) => q = p
    BY <1>3, <2>1 DEF AloneInv
  <2>3. \A j : Newest(chunks, j)' = Newest(chunks, j)
    BY <2>1 DEF Newest
  <2>4. ASSUME NEW n \in Took(p)'
        PROVE  /\ proc'[p].known[Part(p, n).id] = Part(p, n).revision
               /\ Newest(chunks, Part(p, n).id) < Part(p, n).revision
    <3>1. CASE n \in Took(p)
      <4>1. n \in DOMAIN proc[p].batch /\ Part(p, n).id # i
        BY <1>3, <3>1 DEF TakesInv
      <4>2. Part(p, n).id \in Ids
        BY <4>1, Requesting
      <4> QED BY <1>3, <1>7, <2>1, <3>1, <4>1, <4>2 DEF AloneInv
    <3>2. CASE n = pos
      <4>1. prior = Newest(chunks, i)
        BY <1>3, <2>1 DEF AloneInv
      <4> QED BY <1>3, <1>7, <3>2, <4>1
    <3> QED BY <1>6, <3>1, <3>2
  <2>5. \A j \in Ids :
           proc'[p].known[j] = Newest(chunks, j) \/ \E n \in Took(p)' : Part(p, n).id = j
    <3> SUFFICES ASSUME NEW j \in Ids
                 PROVE  proc'[p].known[j] = Newest(chunks, j) \/ \E n \in Took(p)' : Part(p, n).id = j
      OBVIOUS
    <3>1. CASE j = i
      BY <1>3, <1>6, <3>1
    <3>2. CASE j # i
      BY <1>3, <1>6, <1>7, <2>1, <3>2 DEF AloneInv
    <3> QED BY <3>1, <3>2
  <2> QED BY <1>6, <2>2, <2>3, <2>4, <2>5 DEF AloneInv
<1> QED BY <1>8, <1>9, <1>10, <1>11, <1>12

-----------------------------------------------------------------------------
(* What the two look-ups and the removal in memory do to the requests.     *)
LEMMA SharedStep ==
    ASSUME TypeInv, TakesInv, NEW p \in Requests, LookUp(p) \/ RemovePrior(p)
    PROVE  /\ ~mongo /\ proc' \in [Requests -> Handling]
           /\ \A q \in Requests : q # p => proc'[q] = proc[q]
           /\ proc'[p].batch = proc[p].batch /\ UNCHANGED <<overlapped, streamed>>
<1>1. proc[p] \in Handling /\ proc \in [Requests -> Handling]
  BY DEF TypeInv
<1>2. PICK j, n, known :
         j = proc[p] /\ n = j.next /\ known = j.known /\ n \in Nat \ {0} /\ known \in [Ids -> 0..MaxRevision]
  BY <1>1 DEF Handling
<1>0. j \in Handling
  BY <1>1, <1>2
<1>3. CASE LookUp(p) /\ n <= Len(chunks)
  <2>1. PICK chunk : chunk = chunks[n]
    OBVIOUS
  <2>2. chunk.id \in Ids /\ chunk.revision \in 0..MaxRevision
    <3>1. n \in 1..Len(chunks) /\ chunks \in Seq(Kept)
      BY <1>2, <1>3, LenProperties DEF TypeInv
    <3> QED BY <2>1, <3>1, KeptAt
  <2>3. proc' = [proc EXCEPT ![p].known[chunk.id] = chunk.revision, ![p].next = @ + 1]
    BY <1>2, <1>3, <2>1 DEF LookUp
  <2>4. proc' = [proc EXCEPT ![p] = [j EXCEPT !.known = [known EXCEPT ![chunk.id] = chunk.revision],
                                              !.next = n + 1]]
    BY <1>1, <1>2, <2>3 DEF Handling
  <2>5. [known EXCEPT ![chunk.id] = chunk.revision] \in [Ids -> 0..MaxRevision]
    BY <1>2, <2>2
  <2>6. [j EXCEPT !.known = [known EXCEPT ![chunk.id] = chunk.revision], !.next = n + 1] \in Handling
    <3>1. PICK k : k = [known EXCEPT ![chunk.id] = chunk.revision] /\ k \in [Ids -> 0..MaxRevision]
      BY <2>5
    <3>2. PICK job : job = [j EXCEPT !.known = k, !.next = n + 1]
      OBVIOUS
    <3>3. job = [at |-> j.at, batch |-> j.batch, next |-> n + 1, known |-> k, copy |-> j.copy]
      BY <1>0, <3>2 DEF Handling
    <3>4. j.at \in {"idle", "looking", "loop", "adding", "answered"} /\ n + 1 \in Nat \ {0}
          /\ j.batch \in Seq(Chunk) /\ j.copy \in Seq(Kept)
      BY <1>1, <1>2 DEF Handling
    <3> QED BY <3>1, <3>2, <3>3, <3>4 DEF Handling
  <2>7. /\ proc' \in [Requests -> Handling] /\ \A q \in Requests : q # p => proc'[q] = proc[q]
        /\ proc'[p].batch = proc[p].batch
    BY <1>1, <1>2, <2>4, <2>6 DEF Handling
  <2> QED BY <1>3, <2>7 DEF LookUp, TakesInv
<1>4. CASE LookUp(p) /\ ~(n <= Len(chunks))
  <2>1. proc' = [proc EXCEPT ![p].at = "loop", ![p].next = 1]
    BY <1>2, <1>4 DEF LookUp
  <2>2. proc' = [proc EXCEPT ![p] = [j EXCEPT !.at = "loop", !.next = 1]]
    BY <1>1, <1>2, <2>1 DEF Handling
  <2>3. [j EXCEPT !.at = "loop", !.next = 1] \in Handling
    <3>1. PICK job : job = [j EXCEPT !.at = "loop", !.next = 1]
      OBVIOUS
    <3>2. job = [at |-> "loop", batch |-> j.batch, next |-> 1, known |-> j.known, copy |-> j.copy]
      BY <1>0, <3>1 DEF Handling
    <3>3. 1 \in Nat \ {0} /\ j.batch \in Seq(Chunk) /\ j.copy \in Seq(Kept)
      BY <1>1, <1>2 DEF Handling
    <3> QED BY <1>2, <3>1, <3>2, <3>3 DEF Handling
  <2>4. /\ proc' \in [Requests -> Handling] /\ \A q \in Requests : q # p => proc'[q] = proc[q]
        /\ proc'[p].batch = proc[p].batch
    BY <1>1, <1>2, <2>2, <2>3 DEF Handling
  <2> QED BY <1>4, <2>4 DEF LookUp, TakesInv
<1>5. CASE RemovePrior(p)
  <2>1. proc' = [proc EXCEPT ![p] = [j EXCEPT !.at = "adding"]]
    BY <1>1, <1>2, <1>5 DEF RemovePrior
  <2>2. [j EXCEPT !.at = "adding"] \in Handling
    BY <1>1, <1>2 DEF Handling
  <2>3. /\ proc' \in [Requests -> Handling] /\ \A q \in Requests : q # p => proc'[q] = proc[q]
        /\ proc'[p].batch = proc[p].batch
    BY <1>1, <1>2, <2>1, <2>2 DEF Handling
  <2> QED BY <1>5, <2>3 DEF RemovePrior
<1> QED BY <1>3, <1>4, <1>5

LEMMA LookFacts ==
    ASSUME TypeInv, NEW p \in Requests, LookUp(p)
    PROVE  /\ proc[p].at = "looking" /\ UNCHANGED <<overlapped, chunks, streamed, torn>>
           /\ \/ /\ proc[p].next <= Len(chunks) /\ proc'[p].at = "looking"
                 /\ proc'[p].next = proc[p].next + 1
                 /\ \A i \in Ids : proc'[p].known[i] =
                       IF i = chunks[proc[p].next].id THEN chunks[proc[p].next].revision
                       ELSE proc[p].known[i]
              \/ /\ ~(proc[p].next <= Len(chunks)) /\ proc'[p].at = "loop"
                 /\ proc'[p].next = 1 /\ proc'[p].known = proc[p].known
<1>1. proc[p] \in Handling /\ proc \in [Requests -> Handling]
  BY DEF TypeInv
<1>2. PICK j, n, known :
         j = proc[p] /\ n = j.next /\ known = j.known /\ known \in [Ids -> 0..MaxRevision]
  BY <1>1 DEF Handling
<1>3. CASE n <= Len(chunks)
  <2>1. PICK chunk : chunk = chunks[n]
    OBVIOUS
  <2>2. proc' = [proc EXCEPT ![p].known[chunk.id] = chunk.revision, ![p].next = @ + 1]
    BY <1>2, <1>3, <2>1 DEF LookUp
  <2>3. proc' = [proc EXCEPT ![p] = [j EXCEPT !.known = [known EXCEPT ![chunk.id] = chunk.revision],
                                              !.next = n + 1]]
    BY <1>1, <1>2, <2>2 DEF Handling
  <2>4. /\ proc'[p].at = j.at /\ proc'[p].next = n + 1
        /\ proc'[p].known = [known EXCEPT ![chunk.id] = chunk.revision]
    BY <1>1, <1>2, <2>3 DEF Handling
  <2>5. \A i \in Ids : proc'[p].known[i] = IF i = chunk.id THEN chunk.revision ELSE known[i]
    BY <1>2, <2>4
  <2>6. proc[p].at = "looking" /\ UNCHANGED <<overlapped, chunks, streamed, torn>>
    BY DEF LookUp
  <2> QED BY <1>2, <1>3, <2>1, <2>4, <2>5, <2>6
<1>4. CASE ~(n <= Len(chunks))
  <2>1. proc' = [proc EXCEPT ![p].at = "loop", ![p].next = 1]
    BY <1>2, <1>4 DEF LookUp
  <2>2. proc'[p].at = "loop" /\ proc'[p].next = 1 /\ proc'[p].known = known
    BY <1>1, <1>2, <2>1 DEF Handling
  <2> QED BY <1>2, <1>4, <2>2 DEF LookUp
<1> QED BY <1>3, <1>4

(* A walk that passes a chunk knows it; one that has come to the end, and  *)
(* in which nothing was removed, has passed every chunk: what it does not  *)
(* know of an utterance is neither there nor about to be.                  *)
LEMMA LookKeeps ==
    ASSUME TranscriptInv, mongo' = mongo, NEW p \in Requests, LookUp(p)
    PROVE  TranscriptInv'
<1> USE DEF TranscriptInv, SharedInv
<1>1. /\ ~mongo /\ proc' \in [Requests -> Handling]
      /\ \A q \in Requests : q # p => proc'[q] = proc[q]
      /\ proc'[p].batch = proc[p].batch
  BY SharedStep
<1>2. /\ proc[p].at = "looking" /\ UNCHANGED <<overlapped, chunks, streamed, torn>>
      /\ \/ /\ proc[p].next <= Len(chunks) /\ proc'[p].at = "looking"
            /\ proc'[p].next = proc[p].next + 1
            /\ \A i \in Ids : proc'[p].known[i] =
                  IF i = chunks[proc[p].next].id THEN chunks[proc[p].next].revision
                  ELSE proc[p].known[i]
         \/ /\ ~(proc[p].next <= Len(chunks)) /\ proc'[p].at = "loop"
            /\ proc'[p].next = 1 /\ proc'[p].known = proc[p].known
  BY LookFacts
<1>3. /\ \A q \in Requests : /\ Busy(q)' = Busy(q) /\ \A n : Part(q, n)' = Part(q, n)
                             /\ Named(proc'[q].batch) = Named(proc[q].batch)
                             /\ \A j : Adds(q, j)' = Adds(q, j)
      /\ \A q \in Requests : q # p => Took(q)' = Took(q) /\ Underway(q)' = Underway(q)
      /\ Underway(p)' => Took(p)' = {} /\ proc'[p].at = "loop"
  BY <1>1, <1>2 DEF Busy, Underway, Part, Took, Adds
<1>4. \A j, r : There(j, r)' = There(j, r)
  <2>1. ASSUME NEW q \in Requests, NEW j, Adds(q, j)
        PROVE  proc'[q] = proc[q]
    BY <1>1, <1>2, <2>1 DEF Adds
  <2> QED BY <1>2, <1>3, <2>1 DEF There, Holds, Places
<1>5. \A i : Single(chunks, i)' = Single(chunks, i) /\ Absent(chunks, i)' = Absent(chunks, i)
  BY <1>2 DEF Single, Absent, Places
<1>6. TypeInv'
  BY <1>1, <1>2 DEF TypeInv
<1>7. TakesInv'
  <2>1. ASSUME NEW q \in Requests, q # p
        PROVE  /\ Busy(q)' => proc'[q].batch # <<>>
               /\ mongo' => proc'[q].at \notin {"looking", "adding"}
               /\ Underway(q)' =>
                     /\ Took(q)' \subseteq DOMAIN proc'[q].batch
                     /\ \A n \in Took(q)' : Part(q, n)'.revision # 0
                     /\ \A m, n \in Took(q)' : Part(q, m)'.id = Part(q, n)'.id => m = n
               /\ proc'[q].at = "adding" =>
                     /\ proc'[q].next \in DOMAIN proc'[q].batch /\ Part(q, proc[q].next)'.revision # 0
                     /\ \A n \in Took(q)' : Part(q, n)'.id # Part(q, proc[q].next)'.id
    BY <1>1, <1>3, <2>1 DEF TakesInv
  <2>2. /\ proc'[p].batch # <<>> /\ proc'[p].at # "adding" /\ ~mongo'
        /\ Underway(p)' => Took(p)' = {}
    BY <1>1, <1>2, <1>3 DEF TakesInv, Busy
  <2> QED BY <1>1, <2>1, <2>2 DEF TakesInv
<1>8. ThereInv' /\ OnceInv'
  BY <1>1, <1>2, <1>3, <1>4, <1>5 DEF ThereInv, OnceInv
<1>9. ASSUME proc'[p].at = "loop", NEW i \in Named(proc[p].batch) \ torn, proc'[p].known[i] = 0
      PROVE  Absent(chunks, i) /\ \A q \in Requests : ~Adds(q, i)
  <2>1. \A n \in Places(chunks, i) : n <= Len(chunks) /\ proc[p].next <= n
    BY <1>2, <1>9, LenProperties DEF WalkInv, Places, TypeInv
  <2>2. \A q \in Requests : ~Adds(q, i)
    BY <1>2 DEF WalkInv, Adds
  <2>3. Absent(chunks, i)
    <3>1. Len(chunks) \in Nat /\ proc[p].next \in Nat /\ Places(chunks, i) \subseteq Nat
      BY Requesting, KeptAt DEF TypeInv
    <3> QED BY <1>2, <1>9, <2>1, <3>1 DEF Absent
  <2> QED BY <2>2, <2>3
<1>10. PumpInv'
  <2>0. Pump \in Requests
    BY IngestAssumption
  <2>1. CASE p # Pump
    BY <1>1, <1>2, <1>3, <1>5, <2>0, <2>1 DEF PumpInv
  <2>2. CASE p = Pump
    BY <1>1, <1>2, <1>3, <1>5, <1>9, <2>0, <2>2 DEF PumpInv
  <2> QED BY <2>1, <2>2
<1>11. UploadInv'
  <2> SUFFICES ASSUME NEW q \in Requests \ {Pump}, NEW j \in FromZoom \cap Named(proc[q].batch)
               PROVE  /\ proc'[q].at = "looking" => \E chunk \in streamed : chunk.id = j
                      /\ Underway(q)' /\ j \notin torn => proc'[q].known[j] # 0
    BY <1>1, <1>2, <1>3 DEF UploadInv
  <2>1. CASE q # p
    BY <1>1, <1>3, <2>1 DEF UploadInv
  <2>2. CASE q = p
    <3>1. PICK chunk \in streamed : chunk.id = j
      BY <1>1, <1>2, <2>2 DEF UploadInv
    <3>2. There(j, chunk.revision)
      BY <1>1, <3>1 DEF ThereInv
    <3>3. ~Absent(chunks, j) \/ \E x \in Requests : Adds(x, j)
      BY <3>2 DEF There, Holds, Absent
    <3> QED BY <1>3, <1>9, <2>2, <3>1, <3>3
  <2> QED BY <2>1, <2>2
<1>12. WalkInv'
  <2> SUFFICES ASSUME NEW q \in Requests, proc'[q].at = "looking",
                      NEW j \in Named(proc[q].batch) \ torn
               PROVE  /\ \A x \in Requests : proc'[x].at # "adding"
                      /\ proc'[q].next <= Len(chunks) + 1
                      /\ proc'[q].known[j] = 0 => \A n \in Places(chunks, j) : proc'[q].next <= n
    BY <1>2, <1>3 DEF WalkInv, Places
  <2>1. /\ proc[q].at = "looking" /\ \A x \in Requests : proc'[x].at # "adding"
        /\ proc[q].next <= Len(chunks) + 1
        /\ proc[q].known[j] = 0 => \A n \in Places(chunks, j) : proc[q].next <= n
    BY <1>1, <1>2 DEF WalkInv
  <2>2. CASE q # p
    BY <1>1, <2>1, <2>2
  <2>3. CASE q = p
    <3>1. PICK at, len : at = proc[p].next /\ len = Len(chunks) /\ at \in Nat \ {0} /\ len \in Nat
      BY Requesting, KeptAt DEF TypeInv
    <3>2. at <= len /\ proc'[p].next = at + 1 /\ j \in Ids
      BY <1>2, <2>3, <3>1, Requesting DEF Named, Part
    <3>3. at \in 1..len /\ chunks[at].revision # 0
      <4>1. at \in 1..len
        BY <3>1, <3>2
      <4>2. chunks[at].revision \in 1..MaxRevision
        BY <3>1, <4>1, KeptAt DEF TypeInv
      <4> QED BY <4>1, <4>2, ConstantsAssumption
    <3>4. ASSUME proc'[p].known[j] = 0, NEW n \in Places(chunks, j) PROVE at + 1 <= n
      <4>1. j # chunks[at].id /\ proc[p].known[j] = 0
        BY <1>2, <2>3, <3>1, <3>2, <3>3, <3>4
      <4>2. at <= n /\ n # at /\ n \in Nat
        BY <2>1, <2>3, <3>1, <4>1, KeptAt DEF Places, TypeInv
      <4> QED BY <3>1, <4>2
    <3> QED BY <2>1, <2>3, <3>1, <3>2, <3>4
  <2> QED BY <2>2, <2>3
<1>13. CopiesInv' /\ AloneInv'
  BY <1>1 DEF CopiesInv, AloneInv
<1> QED BY <1>6, <1>7, <1>8, <1>10, <1>11, <1>12, <1>13

(* The removal of a chunk: what the list held is about to be there again,  *)
(* or newer, and every other text has stayed. Whoever walks the list now   *)
(* may miss some of it, and is excused.                                    *)
LEMMA Removed ==
    ASSUME NEW list \in Seq(Kept), NEW i, NEW prior, NEW new,
           Contains(list, [id |-> i, revision |-> prior]),
           new = RemoveFirst(list, [id |-> i, revision |-> prior])
    PROVE  /\ new \in Seq(Kept) /\ ~Absent(list, i)
           /\ \A j : \A r \in Nat : Holds(list, j, r) =>
                 Holds(new, j, r) \/ (j = i /\ r <= prior)
           /\ \A j : Single(list, j) => Single(new, j)
           /\ \A j : Absent(list, j) => Absent(new, j)
           /\ Single(list, i) => Absent(new, i)
<1>1. PICK k \in 1..Len(list) :
         /\ list[k] = [id |-> i, revision |-> prior] /\ new \in Seq(Kept)
         /\ Len(new) = Len(list) - 1
         /\ \A n \in 1..(Len(list) - 1) : new[n] = list[IF n < k THEN n ELSE n + 1]
  BY FirstRemoved
<1>2. PICK len : len = Len(list) /\ len \in Nat /\ k \in 1..len
  BY <1>1, LenProperties
<1>3. \A j : \A n \in Places(new, j) :
         /\ n \in 1..(len - 1)
         /\ (n < k /\ n \in Places(list, j)) \/ (~(n < k) /\ n + 1 \in Places(list, j))
  BY <1>1, <1>2 DEF Places
<1>4. ASSUME NEW j, NEW m \in Places(list, j), m # k
      PROVE  \E n \in Places(new, j) : new[n] = list[m]
  <2>1. m \in 1..len /\ list[m].id = j
    BY <1>2 DEF Places
  <2>2. CASE m < k
    <3>1. m \in 1..(len - 1)
      BY <1>2, <2>1, <2>2
    <3>2. new[m] = list[m]
      BY <1>1, <1>2, <2>2, <3>1
    <3> QED BY <1>1, <1>2, <2>1, <3>1, <3>2 DEF Places
  <2>3. CASE k < m
    <3>1. m - 1 \in 1..(len - 1) /\ ~(m - 1 < k) /\ (m - 1) + 1 = m
      BY <1>2, <2>1, <2>3
    <3>2. new[m - 1] = list[m]
      BY <1>1, <1>2, <3>1
    <3> QED BY <1>1, <1>2, <2>1, <3>1, <3>2 DEF Places
  <2> QED BY <1>2, <1>4, <2>1, <2>2, <2>3
<1>5. k \in Places(list, i) /\ list[k].revision = prior /\ list[k].id = i
  BY <1>1 DEF Places
<1>6. ASSUME NEW j, NEW r \in Nat, Holds(list, j, r) PROVE Holds(new, j, r) \/ (j = i /\ r <= prior)
  <2>1. PICK m \in Places(list, j) : r <= list[m].revision
    BY <1>6 DEF Holds
  <2>2. CASE m = k
    BY <1>5, <2>1, <2>2 DEF Places
  <2>3. CASE m # k
    BY <1>4, <2>1, <2>3 DEF Holds
  <2> QED BY <2>2, <2>3
<1>7. ASSUME NEW j, Single(list, j) PROVE Single(new, j)
  <2> SUFFICES ASSUME NEW m \in Places(new, j), NEW n \in Places(new, j) PROVE m = n
    BY DEF Single
  <2> QED BY <1>2, <1>3, <1>7 DEF Single
<1>8. ASSUME NEW j, Absent(list, j) PROVE Absent(new, j)
  BY <1>3, <1>8 DEF Absent
<1>9. ASSUME Single(list, i), NEW n \in Places(new, i) PROVE FALSE
  <2>1. CASE n < k
    BY <1>2, <1>3, <1>5, <1>9, <2>1 DEF Single
  <2>2. CASE ~(n < k)
    <3>1. n + 1 = k
      BY <1>3, <1>5, <1>9, <2>2 DEF Single
    <3> QED BY <1>2, <1>3, <2>2, <3>1
  <2> QED BY <2>1, <2>2
<1>10. ~Absent(list, i)
  BY <1>5 DEF Absent
<1>11. Single(list, i) => Absent(new, i)
  BY <1>9 DEF Absent
<1> QED BY <1>1, <1>6, <1>7, <1>8, <1>10, <1>11

LEMMA RemoveFacts ==
    ASSUME TypeInv, NEW p \in Requests, RemovePrior(p)
    PROVE  /\ proc[p].at = "loop" /\ proc'[p] = [proc[p] EXCEPT !.at = "adding"]
           /\ proc[p].next \in DOMAIN proc[p].batch /\ Part(p, proc[p].next).revision # 0
           /\ \A n \in Took(p) : Part(p, n).id # Part(p, proc[p].next).id
           /\ \E i, prior :
                 /\ i = Part(p, proc[p].next).id /\ prior = proc[p].known[i] /\ prior \in Nat
                 /\ prior < Part(p, proc[p].next).revision
                 /\ Contains(chunks, [id |-> i, revision |-> prior])
                 /\ chunks' = RemoveFirst(chunks, [id |-> i, revision |-> prior])
           /\ torn' = torn \cup UNION {Named(proc[q].batch) :
                                         q \in {r \in Requests : proc[r].at = "looking"}}
<1>1. PICK n, c, i, prior :
         n = proc[p].next /\ c = Part(p, n) /\ i = c.id /\ prior = proc[p].known[i]
  OBVIOUS
<1>2. /\ proc[p].at = "loop" /\ n <= Len(proc[p].batch) /\ c.revision # 0
      /\ ~Repeated(p) /\ ~Stale(p) /\ prior > 0
      /\ Contains(chunks, [id |-> i, revision |-> prior])
      /\ chunks' = RemoveFirst(chunks, [id |-> i, revision |-> prior])
      /\ proc' = [proc EXCEPT ![p].at = "adding"]
      /\ torn' = torn \cup UNION {Named(proc[q].batch) :
                                    q \in {r \in Requests : proc[r].at = "looking"}}
  BY <1>1 DEF RemovePrior, Remaining, Refused, Current, Part, Prior, Superseding
<1>3. n \in DOMAIN proc[p].batch
  BY <1>1, <1>2, Requesting
<1>4. \A m \in Took(p) : Part(p, m).id # i
  BY <1>1, <1>2 DEF Repeated, Took, Part, Current
<1>5. prior \in Nat /\ prior < c.revision
  <2>1. prior \in 0..MaxRevision /\ c.revision \in 0..MaxRevision
    BY <1>1, <1>3, Requesting
  <2>2. ~(prior > 0 /\ c.revision <= prior)
    BY <1>1, <1>2 DEF Stale, Prior, Current, Part
  <2> QED BY <1>2, <2>1, <2>2, ConstantsAssumption
<1>6. proc'[p] = [proc[p] EXCEPT !.at = "adding"]
  BY <1>2 DEF TypeInv
<1> QED BY <1>1, <1>2, <1>3, <1>4, <1>5, <1>6

LEMMA RemoveKeeps ==
    ASSUME TranscriptInv, mongo' = mongo, NEW p \in Requests, RemovePrior(p)
    PROVE  TranscriptInv'
<1> USE DEF TranscriptInv, SharedInv
<1>1. /\ ~mongo /\ proc' \in [Requests -> Handling]
      /\ \A q \in Requests : q # p => proc'[q] = proc[q]
      /\ proc'[p].batch = proc[p].batch /\ UNCHANGED <<overlapped, streamed>>
  BY SharedStep
<1>2. PICK pos, i, prior :
         /\ pos = proc[p].next /\ i = Part(p, pos).id /\ prior = proc[p].known[i] /\ prior \in Nat
         /\ proc[p].at = "loop" /\ proc'[p] = [proc[p] EXCEPT !.at = "adding"]
         /\ pos \in DOMAIN proc[p].batch /\ Part(p, pos).revision # 0
         /\ \A n \in Took(p) : Part(p, n).id # i
         /\ prior < Part(p, pos).revision
         /\ Contains(chunks, [id |-> i, revision |-> prior])
         /\ chunks' = RemoveFirst(chunks, [id |-> i, revision |-> prior])
         /\ torn' = torn \cup UNION {Named(proc[q].batch) :
                                       q \in {r \in Requests : proc[r].at = "looking"}}
  <2>1. PICK i, prior :
           /\ i = Part(p, proc[p].next).id /\ prior = proc[p].known[i] /\ prior \in Nat
           /\ prior < Part(p, proc[p].next).revision
           /\ Contains(chunks, [id |-> i, revision |-> prior])
           /\ chunks' = RemoveFirst(chunks, [id |-> i, revision |-> prior])
    BY RemoveFacts
  <2>2. PICK pos : pos = proc[p].next
    OBVIOUS
  <2>3. /\ proc[p].at = "loop" /\ proc'[p] = [proc[p] EXCEPT !.at = "adding"]
        /\ pos \in DOMAIN proc[p].batch /\ Part(p, pos).revision # 0
        /\ \A n \in Took(p) : Part(p, n).id # i
        /\ torn' = torn \cup UNION {Named(proc[q].batch) :
                                      q \in {r \in Requests : proc[r].at = "looking"}}
    BY <2>1, <2>2, RemoveFacts
  <2> QED BY <2>1, <2>2, <2>3
<1>3. /\ proc'[p].at = "adding" /\ proc'[p].next = pos /\ proc'[p].known = proc[p].known
  <2>1. proc[p] \in Handling
    BY DEF TypeInv
  <2> QED BY <1>2, <2>1 DEF Handling
<1>4. /\ chunks \in Seq(Kept) /\ chunks' \in Seq(Kept) /\ ~Absent(chunks, i)
      /\ \A j : \A r \in Nat : Holds(chunks, j, r) =>
            Holds(chunks', j, r) \/ (j = i /\ r <= prior)
      /\ \A j : Single(chunks, j) => Single(chunks', j)
      /\ \A j : Absent(chunks, j) => Absent(chunks', j)
      /\ Single(chunks, i) => Absent(chunks', i)
  <2>1. chunks \in Seq(Kept)
    BY DEF TypeInv
  <2>2. PICK new : new = RemoveFirst(chunks, [id |-> i, revision |-> prior])
    OBVIOUS
  <2> QED BY <1>2, <2>1, <2>2, Removed
<1>5. /\ \A q \in Requests : /\ Busy(q)' = Busy(q) /\ Underway(q)' = Underway(q)
                             /\ Took(q)' = Took(q) /\ \A n : Part(q, n)' = Part(q, n)
                             /\ Named(proc'[q].batch) = Named(proc[q].batch)
                             /\ proc'[q].known = proc[q].known
      /\ \A q \in Requests : q # p => \A j : Adds(q, j)' = Adds(q, j)
      /\ \A j : Adds(p, j)' <=> j = i
      /\ \A j : ~Adds(p, j)
      /\ Underway(p) /\ i \in Named(proc[p].batch)
  <2>1. \A n : Part(p, n)' = Part(p, n)
    BY <1>1 DEF Part
  <2>2. \A j : Adds(p, j)' <=> j = i
    BY <1>2, <1>3, <2>1 DEF Adds
  <2>3. Took(p)' = Took(p)
    BY <1>2, <1>3 DEF Took
  <2>4. /\ Busy(p)' = Busy(p) /\ Underway(p)' = Underway(p) /\ Underway(p)
        /\ \A j : ~Adds(p, j)
    BY <1>2, <1>3 DEF Busy, Underway, Adds
  <2>5. i \in Named(proc[p].batch)
    BY <1>2 DEF Named, Part
  <2> QED BY <1>1, <1>3, <2>1, <2>2, <2>3, <2>4, <2>5 DEF Busy, Underway, Part, Took, Adds
<1>6. /\ torn \subseteq torn'
      /\ \A q \in Requests : proc[q].at = "looking" => Named(proc[q].batch) \subseteq torn'
  BY <1>2
<1>7. TypeInv'
  BY <1>1, <1>4 DEF TypeInv
<1>8. TakesInv'
  <2>1. ASSUME NEW q \in Requests, q # p
        PROVE  /\ Busy(q)' => proc'[q].batch # <<>>
               /\ mongo' => proc'[q].at \notin {"looking", "adding"}
               /\ Underway(q)' =>
                     /\ Took(q)' \subseteq DOMAIN proc'[q].batch
                     /\ \A n \in Took(q)' : Part(q, n)'.revision # 0
                     /\ \A m, n \in Took(q)' : Part(q, m)'.id = Part(q, n)'.id => m = n
               /\ proc'[q].at = "adding" =>
                     /\ proc'[q].next \in DOMAIN proc'[q].batch /\ Part(q, proc[q].next)'.revision # 0
                     /\ \A n \in Took(q)' : Part(q, n)'.id # Part(q, proc[q].next)'.id
    BY <1>1, <1>5, <2>1 DEF TakesInv
  <2>2. /\ proc'[p].batch # <<>> /\ ~mongo'
        /\ Took(p)' \subseteq DOMAIN proc'[p].batch
        /\ \A n \in Took(p)' : Part(p, n)'.revision # 0
        /\ \A m, n \in Took(p)' : Part(p, m)'.id = Part(p, n)'.id => m = n
    BY <1>1, <1>2, <1>5 DEF TakesInv, Busy
  <2>3. /\ proc'[p].next \in DOMAIN proc'[p].batch /\ proc'[p].next = pos
        /\ Part(p, pos)'.revision # 0
        /\ \A n \in Took(p)' : Part(p, n)'.id # Part(p, pos)'.id
    BY <1>1, <1>2, <1>3, <1>5
  <2>4. Part(p, proc[p].next)' = Part(p, pos)'
    BY <1>2, <1>3 DEF Part
  <2> QED BY <1>1, <1>2, <2>1, <2>2, <2>3, <2>4 DEF TakesInv
<1>9. ASSUME NEW j, NEW r \in Nat, There(j, r) PROVE There(j, r)'
  <2>1. ASSUME NEW q \in Requests, Adds(q, j), r <= Part(q, proc[q].next).revision
        PROVE  There(j, r)'
    <3>1. q # p
      BY <1>5, <2>1
    <3>2. Adds(q, j)' /\ r <= Part(q, proc[q].next)'.revision
      BY <1>1, <1>5, <2>1, <3>1
    <3>3. Part(q, proc[q].next)' = Part(q, proc'[q].next)
      BY <1>1, <3>1 DEF Part
    <3> QED BY <3>2, <3>3 DEF There
  <2>2. CASE Holds(chunks, j, r)
    <3>1. CASE Holds(chunks', j, r)
      BY <3>1 DEF There, Holds, Places
    <3>2. CASE j = i /\ r <= prior
      <4>1. Part(p, proc[p].next)' = Part(p, pos) /\ Adds(p, j)'
        BY <1>1, <1>3, <1>5, <3>2 DEF Part
      <4>2. r <= Part(p, pos).revision
        <5>1. Part(p, pos).revision \in 0..MaxRevision
          BY <1>2, Requesting
        <5> QED BY <1>2, <3>2, <5>1, ConstantsAssumption
      <4> QED BY <4>1, <4>2 DEF There
    <3> QED BY <1>4, <2>2, <3>1, <3>2
  <2> QED BY <1>9, <2>1, <2>2 DEF There
<1>10. ThereInv'
  <2>1. \A chunk \in streamed' : There(chunk.id, chunk.revision)'
    <3>1. \A chunk \in streamed : chunk.revision \in Nat
      BY ConstantsAssumption DEF TypeInv, Kept
    <3> QED BY <1>1, <1>9, <3>1 DEF ThereInv
  <2>2. ASSUME NEW q \in Requests, Underway(q), NEW n \in Took(q)
        PROVE  There(Part(q, n).id, Part(q, n).revision)'
    <3>1. n \in DOMAIN proc[q].batch
      BY <2>2 DEF TakesInv
    <3>2. Part(q, n).revision \in Nat
      BY <3>1, Requesting, ConstantsAssumption
    <3>3. PICK j, r : j = Part(q, n).id /\ r = Part(q, n).revision
      OBVIOUS
    <3>4. There(j, r)'
      BY <1>1, <1>9, <2>2, <3>2, <3>3 DEF ThereInv
    <3>5. Part(q, n)' = Part(q, n)
      BY <1>5
    <3> QED BY <3>3, <3>4, <3>5
  <2> QED BY <1>5, <2>1, <2>2 DEF ThereInv
<1>11. OnceInv'
  <2> SUFFICES ASSUME NEW j \in FromZoom \ torn
               PROVE  /\ Single(chunks', j)
                      /\ \A q \in Requests : Adds(q, j)' =>
                            Absent(chunks', j) /\ \A x \in Requests : Adds(x, j)' => x = q
    BY <1>6 DEF OnceInv, Absent, Single, Places
  <2>1. Single(chunks, j) /\ \A q \in Requests : Adds(q, j) => Absent(chunks, j)
    BY <1>1 DEF OnceInv
  <2>2. CASE j = i
    <3>1. \A q \in Requests : Adds(q, i)' => q = p
      BY <1>4, <1>5, <2>1, <2>2
    <3> QED BY <1>4, <2>1, <2>2, <3>1
  <2>3. CASE j # i
    <3>1. \A q \in Requests : Adds(q, j)' => Adds(q, j)
      BY <1>5, <2>3
    <3> QED BY <1>1, <1>4, <2>1, <3>1 DEF OnceInv
  <2> QED BY <2>2, <2>3
<1>12. PumpInv'
  <2>0. Pump \in Requests
    BY IngestAssumption
  <2> SUFFICES ASSUME NEW j \in (FromZoom \cap Named(proc[Pump].batch)) \ torn,
                      Underway(Pump), proc[Pump].known[j] = 0
               PROVE  Absent(chunks', j) /\ \A q \in Requests : ~Adds(q, j)'
    BY <1>5, <1>6, <2>0 DEF PumpInv, Absent, Places
  <2>1. Absent(chunks, j) /\ \A q \in Requests : ~Adds(q, j)
    BY <1>1 DEF PumpInv
  <2>2. j # i
    BY <1>4, <2>1
  <2> QED BY <1>4, <1>5, <2>1, <2>2
<1>13. UploadInv'
  <2> SUFFICES ASSUME NEW q \in Requests \ {Pump}, NEW j \in FromZoom \cap Named(proc[q].batch)
               PROVE  /\ proc'[q].at = "looking" => \E chunk \in streamed : chunk.id = j
                      /\ Underway(q) /\ j \notin torn => proc[q].known[j] # 0
    BY <1>1, <1>5, <1>6 DEF UploadInv
  <2> QED BY <1>1, <1>3 DEF UploadInv
<1>14. WalkInv'
  <2>1. \A q \in Requests : proc'[q].at = "looking" => proc[q].at = "looking"
    BY <1>1, <1>3
  <2>2. \A q \in Requests : proc'[q].at = "looking" => Named(proc'[q].batch) \ torn' = {}
    BY <1>5, <1>6, <2>1
  <2> QED BY <2>2 DEF WalkInv
<1>15. CopiesInv' /\ AloneInv'
  BY <1>1 DEF CopiesInv, AloneInv
<1> QED BY <1>7, <1>8, <1>10, <1>11, <1>12, <1>13, <1>14, <1>15

-----------------------------------------------------------------------------
(* A request that is refused, loses a race or has been answered.           *)
LEMMA RestTyped ==
    ASSUME NEW at \in {"idle", "answered"}
    PROVE  [Idle EXCEPT !.at = at] \in Handling /\ [Idle EXCEPT !.at = at].at = at
<1>1. [i \in Ids |-> 0] \in [Ids -> 0..MaxRevision] /\ <<>> \in Seq(Chunk) /\ <<>> \in Seq(Kept)
  BY ConstantsAssumption, EmptySeq
<1>2. [Idle EXCEPT !.at = at] =
         [at |-> at, batch |-> <<>>, next |-> 1, known |-> [i \in Ids |-> 0], copy |-> <<>>]
  BY DEF Idle
<1>3. at \in {"idle", "looking", "loop", "adding", "answered"} /\ 1 \in Nat \ {0}
  OBVIOUS
<1>4. [at |-> at, batch |-> <<>>, next |-> 1, known |-> [i \in Ids |-> 0], copy |-> <<>>] \in Handling
  BY <1>1, <1>3 DEF Handling
<1> QED BY <1>2, <1>4

LEMMA RestKeeps ==
    ASSUME TranscriptInv, NEW p \in Requests, NEW at \in {"idle", "answered"},
           proc[p].at # "adding",
           proc' = [proc EXCEPT ![p] = [Idle EXCEPT !.at = at]],
           UNCHANGED <<mongo, overlapped, chunks, streamed, torn>>
    PROVE  TranscriptInv'
<1> USE DEF TranscriptInv, SharedInv
<1>1. PICK job \in Handling : job.at = at /\ proc' = [proc EXCEPT ![p] = job]
  BY RestTyped
<1>2. /\ proc' \in [Requests -> Handling] /\ proc'[p].at \in {"idle", "answered"}
      /\ \A q \in Requests : q # p => proc'[q] = proc[q]
  BY <1>1 DEF TypeInv
<1>3. /\ \A q \in Requests : Busy(q)' => q # p /\ proc'[q] = proc[q] /\ Busy(q)
      /\ \A q \in Requests : Underway(q)' => q # p /\ proc'[q] = proc[q] /\ Underway(q)
      /\ \A q \in Requests : proc'[q].at \in {"looking", "loop", "adding"} => q # p /\ proc'[q] = proc[q]
  BY <1>2 DEF Busy, Underway
<1>4. /\ \A q \in Requests : q # p =>
            Took(q)' = Took(q) /\ \A n : Part(q, n)' = Part(q, n) /\ Named(proc'[q].batch) = Named(proc[q].batch)
      /\ \A q \in Requests : \A j : Adds(q, j)' = Adds(q, j)
  BY <1>2 DEF Took, Part, Adds
<1>5. \A i : /\ Newest(chunks, i)' = Newest(chunks, i)
             /\ Single(chunks, i)' = Single(chunks, i) /\ Absent(chunks, i)' = Absent(chunks, i)
  BY DEF Newest, Single, Absent, Places
<1>6. \A j, r : There(j, r)' = There(j, r)
  <2>1. ASSUME NEW q \in Requests, NEW j, Adds(q, j) PROVE proc'[q] = proc[q]
    BY <1>2, <2>1 DEF Adds
  <2>2. ASSUME NEW q \in Requests, NEW j, Adds(q, j)
        PROVE  (Part(q, proc[q].next).revision)' = Part(q, proc[q].next).revision
    BY <2>1, <2>2 DEF Part
  <2> QED BY <1>4, <2>2 DEF There, Holds, Places
<1>7. TypeInv'
  BY <1>2 DEF TypeInv
<1>8. TakesInv'
  <2>1. ASSUME NEW q \in Requests, q # p
        PROVE  /\ Busy(q)' => proc'[q].batch # <<>>
               /\ mongo' => proc'[q].at \notin {"looking", "adding"}
               /\ Underway(q)' =>
                     /\ Took(q)' \subseteq DOMAIN proc'[q].batch
                     /\ \A n \in Took(q)' : Part(q, n)'.revision # 0
                     /\ \A m, n \in Took(q)' : Part(q, m)'.id = Part(q, n)'.id => m = n
               /\ proc'[q].at = "adding" =>
                     /\ proc'[q].next \in DOMAIN proc'[q].batch /\ Part(q, proc[q].next)'.revision # 0
                     /\ \A n \in Took(q)' : Part(q, n)'.id # Part(q, proc[q].next)'.id
    BY <1>2, <1>3, <1>4, <2>1 DEF TakesInv
  <2>2. ~Busy(p)' /\ ~Underway(p)'
    BY <1>3
  <2> QED BY <1>2, <2>1, <2>2 DEF TakesInv
<1>9. ThereInv' /\ OnceInv'
  BY <1>3, <1>4, <1>5, <1>6 DEF ThereInv, OnceInv
<1>10. PumpInv'
  BY <1>3, <1>4, <1>5, IngestAssumption DEF PumpInv
<1>11. UploadInv'
  BY <1>3, <1>4 DEF UploadInv
<1>12. WalkInv'
  <2>1. \A q \in Requests : proc'[q].at = "adding" => proc[q].at = "adding"
    BY <1>3
  <2> QED BY <1>2, <1>3, <1>4, <2>1 DEF WalkInv, Places
<1>13. CopiesInv'
  BY <1>3 DEF CopiesInv, Knows, Single, Absent, Places
<1>14. AloneInv'
  BY <1>3, <1>4, <1>5 DEF AloneInv
<1> QED BY <1>7, <1>8, <1>9, <1>10, <1>11, <1>12, <1>13, <1>14

(* A request begins: what it knows of the list is so, and a batch of       *)
(* others speaks only of utterances that are there.                        *)
LEMMA KnowsList ==
    ASSUME NEW list \in Seq(Kept), \A i \in Ids : Single(list, i)
    PROVE  Knows([i \in Ids |-> LastRevision(list, i)], list)
BY LastRevisionFound DEF Knows

LEMMA BeginKeeps ==
    ASSUME TranscriptInv, mongo' = mongo, NEW p \in Requests, NEW batch \in Seq(Chunk),
           batch # <<>>, Begin(p, batch),
           p # Pump => \A n \in DOMAIN batch :
              batch[n].id \in FromZoom => \E chunk \in streamed : chunk.id = batch[n].id
    PROVE  TranscriptInv'
<1> USE DEF TranscriptInv, SharedInv
<1>1. PICK known, copy, job :
         /\ known = [i \in Ids |-> IF mongo THEN LastRevision(chunks, i) ELSE 0]
         /\ copy = IF mongo THEN chunks ELSE <<>>
         /\ job = [at |-> IF mongo THEN "loop" ELSE "looking", batch |-> batch, next |-> 1,
                   copy |-> copy, known |-> known]
  OBVIOUS
<1>2. /\ proc' = [proc EXCEPT ![p] = job] /\ UNCHANGED <<chunks, streamed>>
      /\ overlapped' = (overlapped \/ \E q \in Requests : Busy(q)) /\ proc[p].at = "idle"
      /\ torn' = torn \cup IF \E q \in Requests : proc[q].at = "adding" THEN Named(batch) ELSE {}
  BY <1>1 DEF Begin
<1>3. known \in [Ids -> 0..MaxRevision] /\ chunks \in Seq(Kept) /\ copy \in Seq(Kept)
  BY <1>1, LastRevisionFound, EmptySeq, ConstantsAssumption DEF TypeInv
<1>4. /\ job \in Handling /\ job.at = (IF mongo THEN "loop" ELSE "looking") /\ job.batch = batch
      /\ job.next = 1 /\ job.known = known /\ job.copy = copy
  BY <1>1, <1>3 DEF Handling
<1>5. /\ proc' \in [Requests -> Handling] /\ proc'[p] = job
      /\ \A q \in Requests : q # p => proc'[q] = proc[q]
  BY <1>2, <1>4 DEF TypeInv
<1>6. /\ \A q \in Requests : q # p => /\ Busy(q)' = Busy(q) /\ Took(q)' = Took(q)
                                      /\ Underway(q)' = Underway(q)
                                      /\ \A n : Part(q, n)' = Part(q, n)
                                      /\ Named(proc'[q].batch) = Named(proc[q].batch)
      /\ Busy(p)' /\ Took(p)' = {} /\ \A n : Part(p, n)' = batch[n]
      /\ Underway(p)' = mongo /\ ~Busy(p)
      /\ \A q \in Requests : /\ \A j : Adds(q, j)' = Adds(q, j)
                             /\ proc'[q].at = "adding" <=> proc[q].at = "adding"
  <2>1. /\ Busy(p)' /\ Took(p)' = {} /\ (\A n : Part(p, n)' = batch[n])
        /\ Underway(p)' = mongo /\ ~Busy(p) /\ proc'[p].at # "adding" /\ proc[p].at # "adding"
    <3>1. proc'[p].at \in {"loop", "looking"} /\ proc'[p].next = 1 /\ proc'[p].batch = batch
      BY <1>4, <1>5
    <3>2. Underway(p)' = mongo
      <4>1. mongo \in BOOLEAN /\ proc'[p].at = IF mongo THEN "loop" ELSE "looking"
        BY <1>4, <1>5 DEF TypeInv
      <4> QED BY <4>1 DEF Underway
    <3>3. 1..(1 - 1) = {}
      OBVIOUS
    <3> QED BY <1>2, <3>1, <3>2, <3>3 DEF Busy, Took, Part
  <2> QED BY <1>5, <2>1 DEF Busy, Took, Part, Underway, Adds
<1>7. \A i : /\ Newest(chunks, i)' = Newest(chunks, i)
             /\ Single(chunks, i)' = Single(chunks, i) /\ Absent(chunks, i)' = Absent(chunks, i)
  BY <1>2 DEF Newest, Single, Absent, Places
<1>8. TypeInv'
  BY <1>2, <1>5 DEF TypeInv
<1>9. TakesInv'
  <2>1. ASSUME NEW q \in Requests, q # p
        PROVE  /\ Busy(q)' => proc'[q].batch # <<>>
               /\ mongo' => proc'[q].at \notin {"looking", "adding"}
               /\ Underway(q)' =>
                     /\ Took(q)' \subseteq DOMAIN proc'[q].batch
                     /\ \A n \in Took(q)' : Part(q, n)'.revision # 0
                     /\ \A m, n \in Took(q)' : Part(q, m)'.id = Part(q, n)'.id => m = n
               /\ proc'[q].at = "adding" =>
                     /\ proc'[q].next \in DOMAIN proc'[q].batch /\ Part(q, proc[q].next)'.revision # 0
                     /\ \A n \in Took(q)' : Part(q, n)'.id # Part(q, proc[q].next)'.id
    BY <1>5, <1>6, <2>1 DEF TakesInv
  <2>2. /\ proc'[p].batch # <<>> /\ (mongo' => proc'[p].at = "loop") /\ proc'[p].at # "adding"
        /\ Took(p)' = {}
    BY <1>4, <1>5, <1>6
  <2> QED BY <1>5, <2>1, <2>2 DEF TakesInv
<1>10. \A j, r : There(j, r)' = There(j, r)
  <2>1. ASSUME NEW q \in Requests, NEW j, Adds(q, j) PROVE proc'[q] = proc[q]
    BY <1>2, <1>5, <2>1 DEF Adds
  <2> QED BY <1>2, <1>6, <2>1 DEF There, Holds, Places, Part
<1>11. SharedInv'
  <2>1. CASE mongo
    BY <1>9, <2>1, IngestAssumption DEF TakesInv, ThereInv, OnceInv, PumpInv, UploadInv, WalkInv
  <2>2. CASE ~mongo
    <3>1. ThereInv' /\ OnceInv'
      BY <1>2, <1>5, <1>6, <1>7, <1>10, <2>2 DEF ThereInv, OnceInv
    <3>2. PumpInv'
      <4>1. Pump \in Requests
        BY IngestAssumption
      <4>2. CASE p = Pump
        BY <1>6, <2>2, <4>2 DEF PumpInv
      <4>3. CASE p # Pump
        BY <1>2, <1>5, <1>6, <1>7, <2>2, <4>1, <4>3 DEF PumpInv
      <4> QED BY <4>2, <4>3
    <3>3. UploadInv'
      <4> SUFFICES ASSUME NEW q \in Requests \ {Pump}, NEW j \in FromZoom \cap Named(proc'[q].batch)
                   PROVE  /\ proc'[q].at = "looking" => \E chunk \in streamed : chunk.id = j
                          /\ Underway(q)' /\ j \notin torn' => proc'[q].known[j] # 0
        BY <1>2 DEF UploadInv
      <4>1. CASE q # p
        BY <1>2, <1>5, <1>6, <2>2, <4>1 DEF UploadInv
      <4>2. CASE q = p
        BY <1>4, <1>5, <1>6, <2>2, <4>2 DEF Named
      <4> QED BY <4>1, <4>2
    <3>4. WalkInv'
      <4> SUFFICES ASSUME NEW q \in Requests, proc'[q].at = "looking",
                          NEW j \in Named(proc'[q].batch) \ torn'
                   PROVE  /\ \A x \in Requests : proc'[x].at # "adding"
                          /\ proc'[q].next <= Len(chunks) + 1
                          /\ proc'[q].known[j] = 0 => \A n \in Places(chunks, j) : proc'[q].next <= n
        BY <1>2 DEF WalkInv, Places
      <4>1. CASE q # p
        BY <1>2, <1>5, <1>6, <4>1 DEF WalkInv
      <4>2. CASE q = p
        <5>1. proc'[q].next = 1 /\ j \in Named(batch)
          BY <1>4, <1>5, <4>2
        <5>2. \A x \in Requests : proc'[x].at # "adding"
          BY <1>2, <1>6, <5>1
        <5>3. 1 <= Len(chunks) + 1 /\ \A n \in Places(chunks, j) : 1 <= n
          BY <1>3, LenProperties DEF Places
        <5> QED BY <5>1, <5>2, <5>3
      <4> QED BY <4>1, <4>2
    <3> QED BY <3>1, <3>2, <3>3, <3>4
  <2> QED BY <2>1, <2>2
<1>12. CopiesInv'
  <2> SUFFICES ASSUME mongo PROVE CopiesInv'
    BY DEF CopiesInv
  <2>1. (\A i \in Ids : Single(chunks, i)) /\ copy = chunks
    BY <1>1 DEF CopiesInv
  <2>2. Knows(known, copy)
    <3>1. known = [i \in Ids |-> LastRevision(chunks, i)]
      BY <1>1
    <3> QED BY <1>3, <2>1, <3>1, KnowsList
  <2>3. \A q \in Requests : Busy(q)' => Knows(proc'[q].known, proc'[q].copy)
    BY <1>4, <1>5, <1>6, <2>2 DEF CopiesInv
  <2> QED BY <1>2, <2>1, <2>3 DEF CopiesInv, Knows, Single, Absent, Places
<1>13. AloneInv'
  <2> SUFFICES ASSUME mongo, ~overlapped' PROVE AloneInv'
    BY DEF AloneInv
  <2>1. \A q \in Requests : Busy(q)' => q = p
    BY <1>2, <1>6
  <2>2. \A i \in Ids : known[i] = Newest(chunks, i)
    <3> SUFFICES ASSUME NEW i \in Ids PROVE known[i] = Newest(chunks, i)
      OBVIOUS
    <3>1. Single(chunks, i) /\ known[i] = LastRevision(chunks, i)
      BY <1>1 DEF CopiesInv
    <3>2. CASE Absent(chunks, i)
      BY <1>3, <3>1, <3>2, LastRevisionFound, NewestFound
    <3>3. CASE ~Absent(chunks, i)
      <4>1. PICK n \in Places(chunks, i) : TRUE
        BY <3>3 DEF Absent
      <4> QED BY <1>3, <3>1, <4>1, LastRevisionFound, NewestFound
    <3> QED BY <3>2, <3>3
  <2> QED BY <1>4, <1>5, <1>6, <1>7, <2>1, <2>2 DEF AloneInv
<1> QED BY <1>8, <1>9, <1>11, <1>12, <1>13

(* A batch is accepted: all of it was taken.                               *)
LEMMA AcceptFacts ==
    ASSUME TypeInv, TakesInv, NEW p \in Requests, Accept(p)
    PROVE  /\ Underway(p) /\ Busy(p) /\ proc[p].at = "loop" /\ Took(p) = DOMAIN proc[p].batch
           /\ chunks' = Editing(p) /\ UNCHANGED <<overlapped, torn>>
           /\ streamed' = streamed \cup {Part(p, n) : n \in Took(p)}
           /\ proc' = [proc EXCEPT ![p] = [Idle EXCEPT !.at = "answered"]]
           /\ \A n \in Took(p) : Part(p, n) \in Kept
<1>1. /\ proc[p].at = "loop" /\ ~(proc[p].next <= Len(proc[p].batch))
      /\ chunks' = Editing(p) /\ UNCHANGED <<overlapped, torn>>
      /\ streamed' = streamed \cup ToSet(proc[p].batch)
      /\ proc' = [proc EXCEPT ![p] = [Idle EXCEPT !.at = "answered"]]
  BY DEF Accept, Remaining, Stored, Answered
<1>2. Underway(p) /\ Busy(p)
  BY <1>1 DEF Underway, Busy
<1>3. Took(p) \subseteq DOMAIN proc[p].batch /\ \A n \in Took(p) : Part(p, n).revision # 0
  BY <1>2 DEF TakesInv
<1>4. Took(p) = DOMAIN proc[p].batch
  <2>1. PICK len, pos : len = Len(proc[p].batch) /\ pos = proc[p].next
    OBVIOUS
  <2>2. len \in Nat /\ pos \in Nat /\ len < pos /\ DOMAIN proc[p].batch = 1..len
    BY <1>1, <2>1, Requesting
  <2>3. 1..len \subseteq 1..(pos - 1)
    BY <2>2
  <2> QED BY <1>3, <2>1, <2>2, <2>3 DEF Took
<1>5. ToSet(proc[p].batch) = {Part(p, n) : n \in Took(p)}
  BY <1>4 DEF ToSet, Part
<1> QED BY <1>1, <1>2, <1>3, <1>4, <1>5, Requesting

LEMMA AcceptKeeps ==
    ASSUME TranscriptInv, mongo' = mongo, NEW p \in Requests, Accept(p)
    PROVE  TranscriptInv'
<1> USE DEF TranscriptInv, SharedInv
<1>1. /\ Underway(p) /\ Busy(p) /\ proc[p].at = "loop" /\ Took(p) = DOMAIN proc[p].batch
      /\ chunks' = Editing(p) /\ UNCHANGED <<overlapped, torn>>
      /\ streamed' = streamed \cup {Part(p, n) : n \in Took(p)}
      /\ proc' = [proc EXCEPT ![p] = [Idle EXCEPT !.at = "answered"]]
      /\ \A n \in Took(p) : Part(p, n) \in Kept
  BY AcceptFacts
<1>2. PICK job \in Handling : job.at = "answered" /\ proc' = [proc EXCEPT ![p] = job]
  BY <1>1, RestTyped
<1>3. /\ proc' \in [Requests -> Handling] /\ proc'[p].at = "answered"
      /\ \A q \in Requests : q # p => proc'[q] = proc[q]
  BY <1>2 DEF TypeInv
<1>4. /\ \A q \in Requests : Busy(q)' => q # p /\ proc'[q] = proc[q] /\ Busy(q)
      /\ \A q \in Requests : Underway(q)' => q # p /\ proc'[q] = proc[q] /\ Underway(q)
      /\ \A q \in Requests : proc'[q].at \in {"looking", "loop", "adding"} => q # p /\ proc'[q] = proc[q]
  BY <1>3 DEF Busy, Underway
<1>5. /\ \A q \in Requests : q # p =>
            Took(q)' = Took(q) /\ \A n : Part(q, n)' = Part(q, n) /\ Named(proc'[q].batch) = Named(proc[q].batch)
      /\ \A q \in Requests : \A j : Adds(q, j)' = Adds(q, j)
  BY <1>1, <1>3 DEF Took, Part, Adds
<1>6. TypeInv'
  BY <1>1, <1>3, Requesting DEF TypeInv, Editing
<1>7. TakesInv'
  <2>1. ASSUME NEW q \in Requests, q # p
        PROVE  /\ Busy(q)' => proc'[q].batch # <<>>
               /\ mongo' => proc'[q].at \notin {"looking", "adding"}
               /\ Underway(q)' =>
                     /\ Took(q)' \subseteq DOMAIN proc'[q].batch
                     /\ \A n \in Took(q)' : Part(q, n)'.revision # 0
                     /\ \A m, n \in Took(q)' : Part(q, m)'.id = Part(q, n)'.id => m = n
               /\ proc'[q].at = "adding" =>
                     /\ proc'[q].next \in DOMAIN proc'[q].batch /\ Part(q, proc[q].next)'.revision # 0
                     /\ \A n \in Took(q)' : Part(q, n)'.id # Part(q, proc[q].next)'.id
    BY <1>3, <1>4, <1>5, <2>1 DEF TakesInv
  <2>2. ~Busy(p)' /\ ~Underway(p)'
    BY <1>4
  <2> QED BY <1>3, <2>1, <2>2 DEF TakesInv
<1>8. SharedInv'
  <2>1. CASE mongo
    BY <1>7, <2>1, IngestAssumption DEF TakesInv, ThereInv, OnceInv, PumpInv, UploadInv, WalkInv
  <2>2. CASE ~mongo
    <3>1. chunks' = chunks
      BY <1>1, <2>2 DEF Editing
    <3>2. \A j, r : There(j, r)' = There(j, r)
      <4>1. ASSUME NEW q \in Requests, NEW j, Adds(q, j) PROVE proc'[q] = proc[q]
        BY <1>1, <1>3, <4>1 DEF Adds
      <4>2. ASSUME NEW q \in Requests, NEW j, Adds(q, j)
            PROVE  (Part(q, proc[q].next).revision)' = Part(q, proc[q].next).revision
        BY <4>1, <4>2 DEF Part
      <4> QED BY <1>5, <3>1, <4>2 DEF There, Holds, Places
    <3>3. \A i : Single(chunks, i)' = Single(chunks, i) /\ Absent(chunks, i)' = Absent(chunks, i)
      BY <3>1 DEF Single, Absent, Places
    <3>4. ThereInv'
      <4>1. \A chunk \in streamed' : There(chunk.id, chunk.revision)
        BY <1>1, <2>2 DEF ThereInv
      <4>2. \A q \in Requests : Underway(q)' =>
               \A n \in Took(q)' : There(Part(q, n)'.id, Part(q, n)'.revision)
        BY <1>4, <1>5, <2>2 DEF ThereInv
      <4> QED BY <3>2, <4>1, <4>2 DEF ThereInv
    <3>5. OnceInv'
      BY <1>1, <1>5, <2>2, <3>3 DEF OnceInv
    <3>6. PumpInv'
      BY <1>1, <1>4, <1>5, <2>2, <3>3, IngestAssumption DEF PumpInv
    <3>7. UploadInv'
      BY <1>1, <1>4, <1>5, <2>2 DEF UploadInv
    <3>8. WalkInv'
      <4>1. \A q \in Requests : proc'[q].at = "adding" => proc[q].at = "adding"
        BY <1>4
      <4> QED BY <1>1, <1>3, <1>4, <1>5, <3>1, <4>1 DEF WalkInv, Places
    <3> QED BY <3>4, <3>5, <3>6, <3>7, <3>8
  <2> QED BY <2>1, <2>2
<1>9. CopiesInv'
  <2> SUFFICES ASSUME mongo PROVE CopiesInv'
    BY DEF CopiesInv
  <2>1. chunks' = proc[p].copy /\ Knows(proc[p].known, proc[p].copy)
    BY <1>1 DEF Editing, CopiesInv
  <2>2. \A i \in Ids : Single(chunks', i)
    BY <2>1 DEF Knows
  <2>3. \A q \in Requests : Busy(q)' => Knows(proc'[q].known, proc'[q].copy)
    BY <1>4 DEF CopiesInv
  <2> QED BY <2>2, <2>3 DEF CopiesInv, Knows, Single, Absent, Places
<1>10. AloneInv'
  <2> SUFFICES ASSUME mongo, ~overlapped PROVE AloneInv'
    BY <1>1 DEF AloneInv
  <2>1. \A q \in Requests : ~Busy(q)'
    BY <1>1, <1>4 DEF AloneInv
  <2> QED BY <2>1 DEF AloneInv
<1> QED BY <1>6, <1>7, <1>8, <1>9, <1>10

-----------------------------------------------------------------------------
LEMMA BatchTyped ==
    ASSUME NEW batch \in Batches
    PROVE  batch \in Seq(Chunk) /\ batch # <<>>
BY ConstantsAssumption DEF Chunk

LEMMA HeardTyped ==
    ASSUME NEW message \in Messages, BecomesChunk(message)
    PROVE  <<ChunkOf(message)>> \in Seq(Chunk) /\ <<ChunkOf(message)>> # <<>>
<1>1. ChunkId(message) \in Ids /\ 1 \in 0..MaxRevision
  BY IngestAssumption, ConstantsAssumption
<1>2. ChunkOf(message) \in Chunk
  BY <1>1 DEF ChunkOf, Chunk
<1> QED BY <1>2

LEMMA TranscriptInit == Init => TranscriptInv
<1> SUFFICES ASSUME Init PROVE TranscriptInv
  OBVIOUS
<1>1. /\ mongo \in BOOLEAN /\ chunks = <<>> /\ streamed = {} /\ overlapped = FALSE
      /\ torn = {} /\ proc = [p \in Requests |-> Idle]
  BY DEF Init
<1>2. Idle \in Handling
  <2>1. Idle = [Idle EXCEPT !.at = "idle"]
    BY DEF Idle
  <2> QED BY <2>1, RestTyped
<1>3. \A p \in Requests : ~Busy(p) /\ ~Underway(p) /\ proc[p].at = "idle" /\ \A j : ~Adds(p, j)
  BY <1>1 DEF Busy, Underway, Idle, Adds
<1>4. \A i : Places(chunks, i) = {}
  BY <1>1 DEF Places
<1>5. TypeInv
  BY <1>1, <1>2 DEF TypeInv
<1>6. TakesInv /\ AloneInv
  BY <1>3 DEF TakesInv, AloneInv
<1>7. SharedInv
  BY <1>1, <1>3, <1>4, IngestAssumption
     DEF SharedInv, ThereInv, OnceInv, PumpInv, UploadInv, WalkInv, Single, Absent
<1>8. CopiesInv
  BY <1>3, <1>4 DEF CopiesInv, Single
<1> QED BY <1>5, <1>6, <1>7, <1>8 DEF TranscriptInv

(* A step of the meeting is a step of the ingestion of one request, or     *)
(* changes nothing of the timeline.                                        *)
Ingesting(p) ==
    \/ LookUp(p) \/ TakeChunk(p) \/ RemovePrior(p) \/ AppendChunk(p) \/ Accept(p)
    \/ \E batch \in Seq(Chunk) :
          /\ batch # <<>> /\ Begin(p, batch)
          /\ p # Pump => \A n \in DOMAIN batch :
                batch[n].id \in FromZoom => \E chunk \in streamed : chunk.id = batch[n].id
    \/ \E at \in {"idle", "answered"} :
          /\ proc[p].at # "adding"
          /\ proc' = [proc EXCEPT ![p] = [Idle EXCEPT !.at = at]]
          /\ UNCHANGED <<overlapped, chunks, streamed, torn>>

LEMMA ZoomStep ==
    ASSUME [ZoomNext]_zoomVars
    PROVE  UNCHANGED vars \/ (mongo' = mongo /\ \E p \in Requests : Ingesting(p))
<1>1. Pump \in Requests
  BY IngestAssumption
<1>2. ASSUME NEW p \in Requests, RejectChunk(p) \/ LoseRace(p) PROVE Ingesting(p)
  BY <1>2 DEF RejectChunk, LoseRace, Remaining, Answered, Ingesting
<1>3. ASSUME NEW message \in Messages, Hear(message) PROVE mongo' = mongo /\ Ingesting(Pump)
  <2>1. Begin(Pump, <<ChunkOf(message)>>) /\ BecomesChunk(message) /\ mongo' = mongo
    BY <1>3 DEF Hear
  <2> QED BY <2>1, HeardTyped DEF Ingesting
<1>4. ASSUME Ingest PROVE mongo' = mongo /\ Ingesting(Pump)
  BY <1>1, <1>2, <1>4 DEF Ingest, Ingesting
<1>5. ASSUME Heard PROVE mongo' = mongo /\ Ingesting(Pump)
  <2>1. Idle = [Idle EXCEPT !.at = "idle"]
    BY DEF Idle
  <2> QED BY <1>5, <2>1 DEF Heard, Ingesting
<1>6. ASSUME NEW p \in Requests \ {Pump}, Upload(p) PROVE mongo' = mongo /\ Ingesting(p)
  <2>1. mongo' = mongo
    BY <1>6 DEF Upload
  <2>2. ASSUME NEW batch \in Uploads, Begin(p, batch) PROVE Ingesting(p)
    <3>1. /\ batch \in Batches
          /\ \A n \in DOMAIN batch :
                batch[n].id \in FromZoom => \E chunk \in streamed : chunk.id = batch[n].id
      BY DEF Uploads
    <3> QED BY <2>2, <3>1, BatchTyped DEF Ingesting
  <2> QED BY <1>2, <1>6, <2>1, <2>2 DEF Upload, Handle, Ingesting
<1>7. ASSUME \/ \E offer \in Offers : Started(offer)
             \/ SignalingAccepted \/ MediaAccepted \/ Rejected \/ HandshakeFails
             \/ \E connection \in Connections : Loses(connection)
             \/ StreamOver \/ Stop \/ UNCHANGED zoomVars
      PROVE  UNCHANGED vars
  BY <1>7 DEF Started, SignalingAccepted, MediaAccepted, Rejected, HandshakeFails, Loses,
              StreamOver, Stop, zoomVars
<1> QED BY <1>1, <1>3, <1>4, <1>5, <1>6, <1>7 DEF ZoomNext, Serving

LEMMA TranscriptStep == TranscriptInv /\ [ZoomNext]_zoomVars => TranscriptInv'
<1> SUFFICES ASSUME TranscriptInv, [ZoomNext]_zoomVars PROVE TranscriptInv'
  OBVIOUS
<1>1. CASE UNCHANGED vars
  <2>1. UNCHANGED <<mongo, overlapped, chunks, proc, streamed, torn>>
    BY <1>1 DEF vars
  <2>2. TypeInv' /\ TakesInv'
    BY <2>1 DEF TranscriptInv, TypeInv, TakesInv, Busy, Underway, Took, Part
  <2>3. /\ \A i : Newest(chunks, i)' = Newest(chunks, i)
        /\ \A i : Single(chunks, i)' = Single(chunks, i) /\ Absent(chunks, i)' = Absent(chunks, i)
        /\ \A j, r : There(j, r)' = There(j, r)
        /\ \A p : /\ Busy(p)' = Busy(p) /\ Took(p)' = Took(p) /\ Underway(p)' = Underway(p)
                  /\ \A n : Part(p, n)' = Part(p, n) /\ Adds(p, n)' = Adds(p, n)
    BY <2>1 DEF Newest, Busy, Underway, Took, Part, Adds, There, Holds, Single, Absent, Places
  <2>4. SharedInv'
    BY <2>1, <2>3 DEF TranscriptInv, SharedInv, ThereInv, OnceInv, PumpInv, UploadInv, WalkInv, Places
  <2>5. CopiesInv'
    BY <2>1 DEF TranscriptInv, CopiesInv, Busy, Knows, Single, Absent, Places
  <2>6. AloneInv'
    BY <2>1, <2>3 DEF TranscriptInv, AloneInv
  <2> QED BY <2>2, <2>4, <2>5, <2>6 DEF TranscriptInv
<1>2. ASSUME mongo' = mongo, NEW p \in Requests, Ingesting(p) PROVE TranscriptInv'
  BY <1>2, LookKeeps, TakeKeeps, RemoveKeeps, AcceptKeeps, BeginKeeps, RestKeeps DEF Ingesting
<1> QED BY <1>1, <1>2, ZoomStep

-----------------------------------------------------------------------------
(* With MongoDB, the acceptance of a batch that nobody overlapped is one    *)
(* step of the abstract timeline; all that goes before it changes nothing  *)
(* of that.                                                                *)
LEMMA AcceptIsAtomic ==
    ASSUME TranscriptInv, mongo, ~overlapped', NEW p \in Requests, Accept(p)
    PROVE  Abstract!Next
<1> USE DEF TranscriptInv
<1>1. /\ Busy(p) /\ Took(p) = DOMAIN proc[p].batch
      /\ chunks' = Editing(p) /\ overlapped' = overlapped
      /\ streamed' = streamed \cup {Part(p, n) : n \in Took(p)}
      /\ \A n \in Took(p) : Part(p, n) \in Kept
  BY AcceptFacts
<1>2. PICK known, copy : known = proc[p].known /\ copy = proc[p].copy
  OBVIOUS
<1>3. /\ known \in [Ids -> 0..MaxRevision] /\ copy \in Seq(Kept) /\ chunks' = copy
      /\ Knows(known, copy) /\ MaxRevision \in Nat /\ chunks \in Seq(Kept)
  BY <1>1, <1>2, Requesting, ConstantsAssumption DEF CopiesInv, Editing, TypeInv
<1>4. PICK named : named = {Part(p, n).id : n \in Took(p)}
  OBVIOUS
<1>5. named \subseteq Ids /\ named # {}
  <2>1. proc[p].batch # <<>> /\ proc[p].batch \in Seq(Chunk)
    BY <1>1, Requesting DEF TakesInv
  <2>2. Took(p) # {}
    <3>1. PICK len : len = Len(proc[p].batch) /\ len \in Nat /\ DOMAIN proc[p].batch = 1..len
      BY Requesting
    <3>2. len # 0
      BY <2>1, <3>1, EmptySeq
    <3>3. 1 \in 1..len
      BY <3>1, <3>2
    <3> QED BY <1>1, <3>1, <3>3
  <2> QED BY <1>1, <1>4, <2>2 DEF Kept
<1>6. \A n \in Took(p) : /\ known[Part(p, n).id] = Part(p, n).revision
                         /\ Newest(chunks, Part(p, n).id) < Part(p, n).revision
  BY <1>1, <1>2 DEF AloneInv
<1>7. \A i \in Ids \ named : known[i] = Newest(chunks, i)
  BY <1>1, <1>2, <1>4 DEF AloneInv
<1>8. \A i \in Ids : Newest(chunks, i) \in Nat /\ known[i] \in 0..MaxRevision
  BY <1>3, NewestFound
<1>9. \A i \in named : Newest(chunks, i) < known[i] /\ known[i] > 0
  BY <1>3, <1>4, <1>5, <1>6, <1>8
<1>10. ASSUME NEW i \in Ids PROVE Newest(copy, i) = known[i]
  <2>1. CASE Absent(copy, i)
    BY <1>3, <2>1, NewestFound DEF Knows
  <2>2. CASE ~Absent(copy, i)
    <3>1. PICK n \in Places(copy, i) : copy[n].revision = known[i]
      BY <1>3, <2>2 DEF Knows, Absent
    <3> QED BY <1>3, <3>1, NewestFound DEF Knows
  <2> QED BY <2>1, <2>2
<1>11. PICK b : b = [i \in Ids |-> IF i \in named THEN known[i] ELSE 0]
  OBVIOUS
<1>12. /\ b \in [Ids -> 0..MaxRevision] /\ \A i \in Ids : b[i] > 0 <=> i \in named
       /\ \A i \in named : b[i] = known[i]
  BY <1>3, <1>5, <1>8, <1>9, <1>11
<1>13. b \in Abstract!Assignments
  BY <1>5, <1>12 DEF Abstract!Assignments, Abstract!Revisions
<1>14. Abstract!Newer(b)
  BY <1>9, <1>12 DEF Abstract!Newer, AsFunction
<1>15. AsFunction(chunks)' = Abstract!Merged(b)
  <2>1. AsFunction(chunks)' = [i \in Ids |-> Newest(copy, i)]
    BY <1>3 DEF AsFunction, Newest
  <2>2. AsFunction(chunks)' = [i \in Ids |-> known[i]]
    BY <1>10, <2>1
  <2>3. \A i \in Ids : known[i] = IF b[i] > 0 THEN b[i] ELSE Newest(chunks, i)
    BY <1>7, <1>12
  <2> QED BY <2>2, <2>3 DEF Abstract!Merged, AsFunction
<1>16. {<<chunk.id, chunk.revision>> : chunk \in streamed'} =
         {<<chunk.id, chunk.revision>> : chunk \in streamed}
           \cup {<<i, b[i]>> : i \in {k \in Ids : b[k] > 0}}
  <2>1. {k \in Ids : b[k] > 0} = named
    BY <1>5, <1>12
  <2>2. {<<Part(p, n).id, Part(p, n).revision>> : n \in Took(p)} = {<<i, b[i]>> : i \in named}
    BY <1>4, <1>6, <1>12
  <2>3. {<<chunk.id, chunk.revision>> : chunk \in streamed'} =
          {<<chunk.id, chunk.revision>> : chunk \in streamed}
            \cup {<<Part(p, n).id, Part(p, n).revision>> : n \in Took(p)}
    BY <1>1
  <2> QED BY <2>1, <2>2, <2>3
<1>17. Abstract!Apply(b)
  BY <1>14, <1>15, <1>16 DEF Abstract!Apply
<1> QED BY <1>13, <1>17 DEF Abstract!Next

LEMMA IngestionIsAtomic ==
    TranscriptInv /\ [ZoomNext]_zoomVars
      => [mongo /\ ~overlapped' => [Abstract!Next]_(Abstract!vars)]_vars
<1> SUFFICES ASSUME TranscriptInv, [ZoomNext]_zoomVars, mongo, ~overlapped', ~UNCHANGED vars
             PROVE  [Abstract!Next]_(Abstract!vars)
  OBVIOUS
<1>1. PICK p \in Requests : Ingesting(p)
  BY ZoomStep
<1>2. ASSUME chunks' = chunks, streamed' = streamed PROVE UNCHANGED Abstract!vars
  BY <1>2 DEF Abstract!vars, AsFunction, Newest
<1>3. ASSUME LookUp(p) \/ TakeChunk(p) \/ RemovePrior(p) \/ AppendChunk(p)
      PROVE  chunks' = chunks /\ streamed' = streamed
  <2>1. proc[p].at # "adding"
    BY DEF TranscriptInv, TakesInv
  <2> QED BY <1>3, <2>1 DEF LookUp, TakeChunk, RemovePrior, AppendChunk
<1>4. ASSUME NEW batch, Begin(p, batch) PROVE chunks' = chunks /\ streamed' = streamed
  BY <1>4 DEF Begin
<1>5. CASE Accept(p)
  BY <1>5, AcceptIsAtomic
<1> QED BY <1>1, <1>2, <1>3, <1>4, <1>5 DEF Ingesting

(* With MongoDB a batch is stored as a whole or not at all and only ever    *)
(* replaces older texts, as long as batches come one after the other; for  *)
(* any batches, revisions and requests.                                    *)
THEOREM IngestionImplementsBatches == ZoomSpec => BatchesAreAtomic
<1>1. Init => Abstract!Init
  <2> SUFFICES ASSUME Init PROVE Abstract!Init
    OBVIOUS
  <2>1. chunks = <<>> /\ streamed = {}
    BY DEF Init
  <2>2. chunks \in Seq(Kept) /\ \A i : Absent(chunks, i)
    BY <2>1, EmptySeq DEF Absent, Places
  <2>3. \A i : Newest(chunks, i) = 0
    BY <2>2, NewestFound
  <2> QED BY <2>1, <2>3 DEF Abstract!Init, AsFunction
<1> QED BY <1>1, TranscriptInit, TranscriptStep, IngestionIsAtomic, PTL
        DEF ZoomSpec, ZoomInit, BatchesAreAtomic

(* What is said in the meeting is in the timeline once, and what members   *)
(* were told live stays, for any batches, replays and corrections.         *)
THEOREM UtterancesAreStoredOnce == ZoomSpec => []UtterancesStoredOnce
<1>1. TranscriptInv => UtterancesStoredOnce
  <2> SUFFICES ASSUME TranscriptInv PROVE UtterancesStoredOnce
    OBVIOUS
  <2>0. chunks \in Seq(Kept) /\ MaxRevision \in Nat
    BY ConstantsAssumption DEF TranscriptInv, TypeInv
  <2>1. ASSUME ~mongo, NEW chunk \in streamed
        PROVE  Newest(chunks, chunk.id) >= chunk.revision \/ BeingReplaced(chunk)
    <3>1. chunk.revision \in Nat /\ There(chunk.id, chunk.revision)
      BY <2>0, <2>1 DEF TranscriptInv, TypeInv, SharedInv, ThereInv, Kept
    <3>2. ASSUME NEW q \in Requests, Adds(q, chunk.id),
                 chunk.revision <= Part(q, proc[q].next).revision
          PROVE  BeingReplaced(chunk)
      <4>1. proc[q].next \in DOMAIN proc[q].batch
        BY <3>2 DEF TranscriptInv, TakesInv, Adds
      <4>2. Part(q, proc[q].next).revision \in 0..MaxRevision
        BY <4>1, Requesting DEF TranscriptInv
      <4>3. Part(q, proc[q].next).revision >= chunk.revision
        BY <2>0, <3>1, <3>2, <4>2
      <4> QED BY <3>2, <4>3 DEF BeingReplaced, Adds, Part, Current
    <3>3. ASSUME NEW n \in Places(chunks, chunk.id), chunk.revision <= chunks[n].revision
          PROVE  Newest(chunks, chunk.id) >= chunk.revision
      <4>1. chunks[n].revision <= Newest(chunks, chunk.id) /\ Newest(chunks, chunk.id) \in 0..MaxRevision
        BY <2>0, NewestFound
      <4>2. chunks[n].revision \in 1..MaxRevision
        BY <2>0, KeptAt
      <4> QED BY <2>0, <3>1, <3>3, <4>1, <4>2
    <3> QED BY <3>1, <3>2, <3>3 DEF There, Holds
  <2>2. ASSUME NEW i \in FromZoom \ torn
        PROVE  Cardinality({n \in DOMAIN chunks : chunks[n].id = i}) <= 1
    <3>1. {n \in DOMAIN chunks : chunks[n].id = i} = Places(chunks, i)
      BY <2>0, KeptAt DEF Places
    <3>2. Single(chunks, i)
      <4>1. CASE i \in Ids
        BY <4>1 DEF TranscriptInv, TypeInv, SharedInv, OnceInv, CopiesInv
      <4>2. CASE i \notin Ids
        BY <2>0, <4>2, KeptAt DEF Single, Places
      <4> QED BY <4>1, <4>2
    <3>3. Places(chunks, i) = {} \/ \E n : Places(chunks, i) = {n}
      BY <3>2 DEF Single
    <3>4. PICK S : S = Places(chunks, i)
      OBVIOUS
    <3>5. Cardinality(S) <= 1
      <4>1. CASE S = {}
        BY <4>1, FS_EmptySet
      <4>2. ASSUME NEW n, S = {n} PROVE Cardinality(S) <= 1
        BY <4>2, FS_Singleton
      <4> QED BY <3>3, <3>4, <4>1, <4>2
    <3> QED BY <3>1, <3>4, <3>5
  <2> QED BY <2>1, <2>2 DEF UtterancesStoredOnce, StreamedIsStored
<1> QED BY <1>1, TranscriptInit, TranscriptStep, PTL DEF ZoomSpec, ZoomInit

-----------------------------------------------------------------------------
(* The threads that found room for an envelope in the queue of c.          *)
Putting(c) == {p \in Threads : Trying(p, "put") /\ Target(p) = c}

Room == \A c \in Conns : Len(queue[c]) + Cardinality(Putting(c)) < Depth + Cardinality(Threads)

-----------------------------------------------------------------------------
LEMMA Threading ==
    ASSUME NEW S \in SUBSET Threads
    PROVE  /\ IsFiniteSet(S) /\ Cardinality(S) \in Nat /\ Cardinality(Threads) \in Nat
           /\ Cardinality(S) <= Cardinality(Threads)
BY StreamAssumption, FS_Subset, FS_CardinalityType

LEMMA TailTyped ==
    ASSUME NEW S, NEW s \in Seq(S)
    PROVE  /\ Len(s) \in Nat
           /\ s # <<>> => Tail(s) \in Seq(S) /\ Len(Tail(s)) < Len(s) /\ Head(s) \in S
BY HeadTailProperties, LenProperties

LEMMA UnsubscribedTyped ==
    ASSUME subs \in Seq(Conns), NEW c
    PROVE  Unsubscribed(c) \in Seq(Conns)
<1>1. CASE Contains(subs, c)
  <2> DEFINE i == CHOOSE k \in 1..Len(subs) : subs[k] = c
  <2>1. i \in 1..Len(subs) /\ Len(subs) \in Nat
    BY <1>1, LenProperties DEF Contains
  <2> HIDE DEF i
  <2>2. SubSeq(subs, 1, i - 1) \in Seq(Conns) /\ SubSeq(subs, i + 1, Len(subs)) \in Seq(Conns)
    BY <2>1, SubSeqProperties
  <2>3. RemoveAt(subs, i) \in Seq(Conns)
    BY <2>2, ConcatProperties DEF RemoveAt
  <2> QED BY <1>1, <2>3 DEF Unsubscribed, i
<1>2. CASE ~Contains(subs, c)
  BY <1>2 DEF Unsubscribed
<1> QED BY <1>1, <1>2

-----------------------------------------------------------------------------
LEMMA TypedInit == StreamInit => TypeOK
<1> SUFFICES ASSUME StreamInit PROVE TypeOK
  OBVIOUS
<1>1. NoEnvelope \in Envelope
  BY DEF NoEnvelope, Envelope
<1>2. [at |-> "idle", targets |-> <<>>, env |-> NoEnvelope] \in Calls
  BY <1>1, EmptySeq DEF Calls
<1> QED BY <1>2, EmptySeq DEF StreamInit, TypeOK, Sockets

LEMMA GotoTyped ==
    ASSUME TypeOK, NEW c \in Conns,
           NEW at \in {"none", "accepted", "subscribed", "verify", "draining", "popping",
                       "waiting", "closed"},
           \/ Goto(c, at)
           \/ \E pass \in {"first", "some", "message"} : GotoAfter(c, at, pass)
    PROVE  conn' \in [Conns -> Sockets]
<1>1. \A k \in Sockets, pass \in {"first", "some", "message"} :
         [k EXCEPT !.at = at] \in Sockets /\ [k EXCEPT !.at = at, !.pass = pass] \in Sockets
  BY DEF Sockets
<1>2. PICK k \in Sockets : conn' = [conn EXCEPT ![c] = k]
  BY <1>1 DEF Goto, GotoAfter, TypeOK
<1> QED BY <1>2 DEF TypeOK

LEMMA HandlerTyped ==
    ASSUME TypeOK, NEW c \in Conns, Handler(c) \/ ClientMessage(c)
    PROVE  TypeOK'
<1> USE DEF server
<1>1. conn[c] \in Sockets /\ queue[c] \in Seq(Envelope) /\ subs \in Seq(Conns)
  BY DEF TypeOK
<1>2. Append(subs, c) \in Seq(Conns) /\ Unsubscribed(c) \in Seq(Conns)
  BY <1>1, AppendProperties, UnsubscribedTyped
<1>3. queue[c] # <<>> => [queue EXCEPT ![c] = Tail(@)] \in [Conns -> Seq(Envelope)]
  BY <1>1, TailTyped DEF TypeOK
<1>4. CASE Subscribe(c)
  BY <1>2, <1>4, GotoTyped DEF Subscribe, TypeOK
<1>5. CASE Welcome(c) \/ MissWelcome(c)
  BY <1>5, GotoTyped DEF Welcome, MissWelcome, TypeOK
<1>6. CASE Verify(c)
  BY <1>2, <1>6, GotoTyped DEF Verify, Leave, TypeOK
<1>7. CASE DrainMore(c) \/ DrainDone(c) \/ WaitElapses(c) \/ ClientMessage(c)
  <2>1. conn' \in [Conns -> Sockets]
    BY <1>7, GotoTyped DEF DrainMore, DrainDone, WaitElapses, ClientMessage, AfterWait
  <2> QED BY <1>7, <2>1 DEF DrainMore, DrainDone, WaitElapses, ClientMessage, TypeOK
<1>8. CASE PopAndSend(c)
  <2>1. (IF conn[c].pass = "message" THEN "message" ELSE "some") \in {"first", "some", "message"}
    OBVIOUS
  <2>2. conn' \in [Conns -> Sockets]
    BY <1>8, <2>1, GotoTyped DEF PopAndSend
  <2> QED BY <1>3, <1>8, <2>2 DEF PopAndSend, TypeOK
<1>9. CASE PopAndFail(c)
  <2>1. queue' \in [Conns -> Seq(Envelope)]
    BY <1>1, <1>3, <1>9, TailTyped DEF PopAndFail, TypeOK
  <2> QED BY <1>2, <1>9, <2>1, GotoTyped DEF PopAndFail, Leave, TypeOK
<1>10. CASE SeeDisconnect(c)
  BY <1>2, <1>10, GotoTyped DEF SeeDisconnect, Leave, TypeOK
<1> QED BY <1>4, <1>5, <1>6, <1>7, <1>8, <1>9, <1>10 DEF Handler

LEMMA PeopleTyped ==
    ASSUME TypeOK,
           \/ \E c \in Conns : Disconnect(c) \/ \E u \in Users : Connect(c, u)
           \/ \E u \in Users : Expire(u)
    PROVE  TypeOK'
<1> USE DEF server
<1>1. CASE (\E c \in Conns : Disconnect(c)) \/ (\E u \in Users : Expire(u))
  BY <1>1 DEF Disconnect, Expire, TypeOK
<1>2. ASSUME NEW c \in Conns, NEW u \in Users, Connect(c, u) PROVE TypeOK'
  <2>1. [at |-> "accepted", user |-> u, pass |-> "first"] \in Sockets
    BY DEF Sockets
  <2> QED BY <1>2, <2>1 DEF Connect, TypeOK
<1> QED BY <1>1, <1>2

LEMMA CallTyped ==
    ASSUME TypeOK, NEW p \in Threads
    PROVE  /\ pub[p] \in Calls
           /\ pub[p].targets # <<>> => Tail(pub[p].targets) \in Seq(Conns) /\ Target(p) \in Conns
<1>1. pub[p] \in Calls
  BY DEF TypeOK
<1>2. pub[p].targets \in Seq(Conns)
  BY <1>1 DEF Calls
<1> QED BY <1>1, <1>2, TailTyped DEF Target

LEMMA PubTyped ==
    ASSUME TypeOK, NEW p \in Threads,
           NEW at \in {"idle", "built", "sending", "put", "evict", "pop", "again", "failed"},
           \/ PubGoto(p, at)
           \/ pub[p].targets # <<>> /\ Past(p, at)
           \/ PubTarget(p, at, subs)
    PROVE  pub' \in [Threads -> Calls]
<1>1. \A k \in Calls, targets \in Seq(Conns) :
         [k EXCEPT !.at = at] \in Calls /\ [k EXCEPT !.at = at, !.targets = targets] \in Calls
  BY DEF Calls
<1>2. PICK k \in Calls : pub' = [pub EXCEPT ![p] = k]
  BY <1>1, CallTyped DEF PubGoto, Past, PubTarget, TypeOK
<1> QED BY <1>2 DEF TypeOK

LEMMA BuildTyped ==
    ASSUME TypeOK, NEW p \in Threads, NEW private \in BOOLEAN, NEW u \in Users \cup {Nobody},
           Build(p, private, u)
    PROVE  TypeOK'
<1>1. [at |-> "built", targets |-> <<>>, env |-> [private |-> private, audience |-> u]] \in Calls
  BY EmptySeq DEF Calls, Envelope
<1> QED BY <1>1 DEF Build, TypeOK

LEMMA PublishTyped ==
    ASSUME TypeOK, NEW p \in Threads, Publish(p)
    PROVE  TypeOK'
<1>1. CASE Snapshot(p) \/ Skip(p) \/ Try(p)
  <2>1. pub' \in [Threads -> Calls]
    BY <1>1, PubTyped DEF Snapshot, Skip, Try, Trying
  <2> QED BY <1>1, <2>1 DEF Snapshot, Skip, Try, TypeOK
<1>2. CASE Put(p)
  <2>1. pub[p].env \in Envelope
    BY CallTyped DEF Calls
  <2>2. \A c \in Conns : Append(queue[c], pub[p].env) \in Seq(Envelope)
    BY <2>1, AppendProperties DEF TypeOK
  <2>3. queue' \in [Conns -> Seq(Envelope)]
    BY <1>2, <2>2 DEF Put, TypeOK
  <2>4. pub' \in [Threads -> Calls]
    BY <1>2, PubTyped DEF Put, Trying
  <2> QED BY <1>2, <2>3, <2>4 DEF Put, TypeOK
<1>3. CASE Evict(p) \/ TryAgain(p) \/ PopFails(p)
  <2>1. pub' \in [Threads -> Calls]
    BY <1>3, PubTyped DEF Evict, TryAgain, PopFails, Trying
  <2> QED BY <1>3, <2>1 DEF Evict, TryAgain, PopFails, TypeOK
<1>4. CASE Pop(p)
  <2>1. queue' \in [Conns -> Seq(Envelope)]
    BY <1>4, CallTyped, TailTyped DEF Pop, Trying, TypeOK
  <2>2. pub' \in [Threads -> Calls]
    BY <1>4, PubTyped DEF Pop
  <2> QED BY <1>4, <2>1, <2>2 DEF Pop, TypeOK
<1> QED BY <1>1, <1>2, <1>3, <1>4 DEF Publish

LEMMA TypedNext == TypeOK /\ [StreamNext]_streamVars => TypeOK'
<1> SUFFICES ASSUME TypeOK, [StreamNext]_streamVars PROVE TypeOK'
  OBVIOUS
<1>1. CASE UNCHANGED streamVars
  BY <1>1 DEF streamVars, TypeOK
<1> QED BY <1>1, HandlerTyped, PeopleTyped, BuildTyped, PublishTyped DEF StreamNext

-----------------------------------------------------------------------------
(* Nothing is buffered and nobody finds room.                              *)
LEMMA RoomKept ==
    ASSUME TypeOK, TypeOK', Room,
           \A c \in Conns : Len(queue'[c]) <= Len(queue[c]) /\ Putting(c)' \subseteq Putting(c)
    PROVE  Room'
<1>1. ASSUME NEW c \in Conns
      PROVE  Len(queue'[c]) + Cardinality(Putting(c)') < Depth + Cardinality(Threads)
  <2>1. Putting(c) \subseteq Threads /\ Putting(c)' \subseteq Putting(c)
    BY DEF Putting
  <2>2. Cardinality(Putting(c)') <= Cardinality(Putting(c))
    BY <2>1, Threading, FS_Subset
  <2>3. /\ Cardinality(Putting(c)') \in Nat /\ Cardinality(Putting(c)) \in Nat
        /\ Cardinality(Threads) \in Nat
    BY <2>1, Threading
  <2>4. Len(queue'[c]) \in Nat /\ Len(queue[c]) \in Nat
    BY TailTyped DEF TypeOK
  <2> QED BY <2>2, <2>3, <2>4, StreamAssumption DEF Room
<1> QED BY <1>1 DEF Room

LEMMA PuttingSame ==
    ASSUME UNCHANGED pub, NEW c
    PROVE  Putting(c)' = Putting(c)
BY DEF Putting, Trying, Target

(* A thread that goes on, and is not about to put, leaves the others be.   *)
LEMMA PuttingElse ==
    ASSUME TypeOK, NEW p \in Threads, NEW k, pub' = [pub EXCEPT ![p] = k], k.at # "put", NEW c
    PROVE  Putting(c)' = Putting(c) \ {p}
BY DEF TypeOK, Putting, Trying, Target

LEMMA GoesOn ==
    ASSUME TypeOK, NEW p \in Threads, NEW at, NEW targets,
           PubGoto(p, at) \/ PubTarget(p, at, targets)
    PROVE  \E k : /\ pub' = [pub EXCEPT ![p] = k] /\ k.at = at
                  /\ PubGoto(p, at) => k.targets = pub[p].targets
<1>1. \A k \in Calls : /\ [k EXCEPT !.at = at].at = at
                       /\ [k EXCEPT !.at = at].targets = k.targets
                       /\ [k EXCEPT !.at = at, !.targets = targets].at = at
  BY DEF Calls
<1>2. pub[p] \in Calls
  BY CallTyped
<1> QED BY <1>1, <1>2 DEF PubGoto, PubTarget

LEMMA RoomQuiet ==
    ASSUME TypeOK, TypeOK', Room, NEW p \in Threads, NEW at, NEW targets,
           PubGoto(p, at) \/ PubTarget(p, at, targets), at # "put",
           \A c \in Conns : Len(queue'[c]) <= Len(queue[c])
    PROVE  Room'
<1>1. PICK k : pub' = [pub EXCEPT ![p] = k] /\ k.at = at
  BY GoesOn
<1>2. \A c : Putting(c)' \subseteq Putting(c)
  BY <1>1, PuttingElse
<1> QED BY <1>2, RoomKept

(* Who finds room in a queue finds less than its depth there.              *)
LEMMA RoomFound ==
    ASSUME TypeOK, TypeOK', Room, NEW p \in Threads, PubGoto(p, "put"), UNCHANGED queue,
           pub[p].targets # <<>>, ~Full(Target(p))
    PROVE  Room'
<1>1. PICK k : pub' = [pub EXCEPT ![p] = k] /\ k.at = "put" /\ k.targets = pub[p].targets
  BY GoesOn
<1>2. ASSUME NEW c \in Conns
      PROVE  Len(queue[c]) + Cardinality(Putting(c)') < Depth + Cardinality(Threads)
  <2>0. Len(queue[c]) \in Nat
    BY TailTyped DEF TypeOK
  <2>1. CASE c = Target(p)
    <3>1. Putting(c)' \subseteq Threads /\ Len(queue[c]) < Depth
      BY <2>0, <2>1, StreamAssumption DEF Putting, Full
    <3>2. Cardinality(Putting(c)') <= Cardinality(Threads)
          /\ Cardinality(Putting(c)') \in Nat /\ Cardinality(Threads) \in Nat
      BY <3>1, Threading
    <3> QED BY <2>0, <3>1, <3>2, StreamAssumption
  <2>2. CASE c # Target(p)
    <3>1. Putting(c)' = Putting(c)
      BY <1>1, <2>2 DEF TypeOK, Putting, Trying, Target
    <3> QED BY <3>1 DEF Room
  <2> QED BY <2>1, <2>2
<1> QED BY <1>2 DEF Room

LEMMA RoomUsed ==
    ASSUME TypeOK, TypeOK', Room, NEW p \in Threads, Put(p)
    PROVE  Room'
<1>1. /\ Trying(p, "put") /\ PubTarget(p, "sending", Tail(pub[p].targets))
      /\ queue' = [queue EXCEPT ![Target(p)] = Append(@, pub[p].env)]
  BY DEF Put, Past
<1>2. PICK k : pub' = [pub EXCEPT ![p] = k] /\ k.at = "sending"
  BY <1>1, GoesOn
<1>3. \A c : Putting(c)' = Putting(c) \ {p}
  BY <1>2, PuttingElse
<1>4. pub[p].env \in Envelope /\ Target(p) \in Conns
  BY <1>1, CallTyped DEF Trying, Calls
<1>5. ASSUME NEW c \in Conns
      PROVE  Len(queue'[c]) + Cardinality(Putting(c)') < Depth + Cardinality(Threads)
  <2>1. /\ Putting(c) \subseteq Threads /\ IsFiniteSet(Putting(c))
        /\ Cardinality(Putting(c)) \in Nat /\ Cardinality(Threads) \in Nat
        /\ queue[c] \in Seq(Envelope) /\ Len(queue[c]) \in Nat
    <3>1. Putting(c) \subseteq Threads
      BY DEF Putting
    <3> QED BY <3>1, Threading, TailTyped DEF TypeOK
  <2>2. CASE c = Target(p)
    <3>1. p \in Putting(c)
      BY <1>1, <2>2 DEF Putting
    <3>2. Cardinality(Putting(c)') = Cardinality(Putting(c)) - 1
      BY <1>3, <2>1, <3>1, FS_RemoveElement
    <3>3. Len(queue'[c]) = Len(queue[c]) + 1
      BY <1>1, <1>4, <2>1, <2>2, AppendProperties DEF TypeOK
    <3> QED BY <2>1, <3>2, <3>3, StreamAssumption DEF Room
  <2>3. CASE c # Target(p)
    <3>1. Putting(c)' = Putting(c)
      BY <1>3, <2>3 DEF Putting
    <3>2. queue'[c] = queue[c]
      BY <1>1, <2>3 DEF TypeOK
    <3> QED BY <3>1, <3>2 DEF Room
  <2> QED BY <2>2, <2>3
<1> QED BY <1>5 DEF Room

LEMMA RoomStep == TypeOK /\ Room /\ [StreamNext]_streamVars => Room'
<1> SUFFICES ASSUME TypeOK, Room, [StreamNext]_streamVars PROVE Room'
  OBVIOUS
<1> USE DEF server
<1>1. TypeOK'
  BY TypedNext
<1>2. CASE UNCHANGED <<queue, pub>>
  BY <1>2 DEF Room, Putting, Trying, Target
<1>3. ASSUME NEW c \in Conns, PopAndSend(c) \/ PopAndFail(c) PROVE Room'
  <2>1. UNCHANGED pub /\ \A d \in Conns : Len(queue'[d]) <= Len(queue[d])
    <3>1. queue[c] \in Seq(Envelope) /\ \A d \in Conns : Len(queue[d]) \in Nat
      BY TailTyped DEF TypeOK
    <3>2. queue' = queue \/ (queue[c] # <<>> /\ queue' = [queue EXCEPT ![c] = Tail(@)])
      BY <1>3 DEF PopAndSend, PopAndFail, TypeOK
    <3>3. queue[c] # <<>> => Len(Tail(queue[c])) <= Len(queue[c])
      BY <3>1, TailTyped
    <3>4. \A d \in Conns : queue'[d] = queue[d] \/ (d = c /\ queue[c] # <<>> /\ queue'[d] = Tail(queue[c]))
      BY <3>2 DEF TypeOK
    <3>5. \A d \in Conns : Len(queue'[d]) <= Len(queue[d])
      <4> SUFFICES ASSUME NEW d \in Conns PROVE Len(queue'[d]) <= Len(queue[d])
        OBVIOUS
      <4>1. CASE queue'[d] = queue[d]
        BY <3>1, <4>1
      <4>2. CASE d = c /\ queue[c] # <<>> /\ queue'[d] = Tail(queue[c])
        BY <3>3, <4>2
      <4> QED BY <3>4, <4>1, <4>2
    <3> QED BY <1>3, <3>5 DEF PopAndSend, PopAndFail
  <2> QED BY <1>1, <2>1, PuttingSame, RoomKept
<1>4. ASSUME NEW p \in Threads, NEW private, NEW u, Build(p, private, u) PROVE Room'
  <2>1. UNCHANGED queue /\ \A c : Putting(c)' \subseteq Putting(c)
    <3>1. PICK k : k.at = "built" /\ pub' = [pub EXCEPT ![p] = k]
      <4> DEFINE k == [at |-> "built", targets |-> <<>>,
                       env |-> [private |-> private, audience |-> u]]
      <4>1. k.at = "built" /\ pub' = [pub EXCEPT ![p] = k]
        BY <1>4 DEF Build
      <4> QED BY <4>1
    <3>2. UNCHANGED queue
      BY <1>4 DEF Build
    <3> QED BY <3>1, <3>2, PuttingElse
  <2>2. \A c \in Conns : Len(queue[c]) \in Nat
    BY TailTyped DEF TypeOK
  <2> QED BY <1>1, <2>1, <2>2, RoomKept
<1>5. ASSUME NEW p \in Threads,
             Snapshot(p) \/ Skip(p) \/ Evict(p) \/ Pop(p) \/ PopFails(p)
      PROVE  Room'
  <2>1. \A c \in Conns : Len(queue'[c]) <= Len(queue[c])
    BY <1>5, TailTyped DEF Snapshot, Skip, Evict, Pop, PopFails, Trying, TypeOK
  <2> QED BY <1>1, <1>5, <2>1, RoomQuiet DEF Snapshot, Skip, Evict, Pop, PopFails, Past
<1>6. ASSUME NEW p \in Threads, Try(p) \/ TryAgain(p) PROVE Room'
  <2>1. UNCHANGED queue /\ \A c \in Conns : Len(queue[c]) \in Nat
    BY <1>6, TailTyped DEF Try, TryAgain, TypeOK
  <2>2. pub[p].targets # <<>>
    BY <1>6 DEF Try, TryAgain, Trying
  <2>3. CASE Full(Target(p))
    <3>1. PubGoto(p, "evict") \/ PubTarget(p, "sending", Tail(pub[p].targets))
      BY <1>6, <2>3 DEF Try, TryAgain, Past
    <3>2. \A c \in Conns : Len(queue'[c]) <= Len(queue[c])
      BY <2>1
    <3> QED BY <1>1, <3>1, <3>2, RoomQuiet
  <2>4. CASE ~Full(Target(p))
    BY <1>1, <1>6, <2>1, <2>2, <2>4, RoomFound DEF Try, TryAgain
  <2> QED BY <2>3, <2>4
<1>7. ASSUME NEW p \in Threads, Put(p) PROVE Room'
  BY <1>1, <1>7, RoomUsed
<1>8. ASSUME NEW c \in Conns,
             \/ Handler(c) /\ ~(PopAndSend(c) \/ PopAndFail(c))
             \/ ClientMessage(c) \/ Disconnect(c) \/ \E u \in Users : Connect(c, u)
      PROVE  UNCHANGED <<queue, pub>>
  BY <1>8 DEF Handler, Subscribe, Welcome, MissWelcome, Verify, DrainMore, DrainDone,
     WaitElapses, SeeDisconnect, ClientMessage, Disconnect, Connect
<1>9. ASSUME NEW u \in Users, Expire(u) PROVE UNCHANGED <<queue, pub>>
  BY <1>9 DEF Expire
<1>10. UNCHANGED streamVars => UNCHANGED <<queue, pub>>
  BY DEF streamVars
<1> QED
  BY <1>2, <1>3, <1>4, <1>5, <1>6, <1>7, <1>8, <1>9, <1>10 DEF StreamNext, Publish

-----------------------------------------------------------------------------
(* The variables have their types in every reachable state.                *)
THEOREM StreamTypeCorrect == StreamSpec => []TypeOK
BY TypedInit, TypedNext, PTL DEF StreamSpec

(* However many threads race for the last place of a buffer, it exceeds    *)
(* its depth by less than their number (WebSocketEventPublisher.publish).  *)
THEOREM BuffersAreBounded == StreamSpec => []OvershootBounded
<1>1. StreamInit => Room
  <2> SUFFICES ASSUME StreamInit PROVE Room
    OBVIOUS
  <2>1. \A c \in Conns : queue[c] = <<>> /\ Putting(c) = {}
    BY DEF StreamInit, Putting, Trying
  <2>2. Cardinality(Threads) \in Nat /\ Cardinality({}) = 0
    BY Threading, FS_EmptySet
  <2>3. ASSUME NEW c \in Conns PROVE Len(queue[c]) + Cardinality(Putting(c)) = 0
    <3>1. Len(queue[c]) = 0
      BY <2>1, EmptySeq
    <3>2. Cardinality(Putting(c)) = 0
      BY <2>1, <2>2
    <3> QED BY <3>1, <3>2
  <2> QED BY <2>2, <2>3, StreamAssumption DEF Room
<1>2. TypeOK /\ Room => OvershootBounded
  <2> SUFFICES ASSUME TypeOK, Room, NEW c \in Conns
               PROVE  Len(queue[c]) < Depth + Cardinality(Threads)
    BY DEF OvershootBounded
  <2>1. Putting(c) \subseteq Threads
    BY DEF Putting
  <2>2. Cardinality(Putting(c)) \in Nat /\ Cardinality(Threads) \in Nat
    BY <2>1, Threading
  <2>3. Len(queue[c]) \in Nat
    BY TailTyped DEF TypeOK
  <2> QED BY <2>2, <2>3, StreamAssumption DEF Room
<1> QED BY <1>1, <1>2, RoomStep, StreamTypeCorrect, PTL DEF StreamSpec

=============================================================================
