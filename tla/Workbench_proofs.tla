-------------------------- MODULE Workbench_proofs --------------------------
(***************************************************************************)
(* Proofs about the workbench, for any number of windows, rows, calls and  *)
(* acts, and any rows it begins with.                                      *)
(***************************************************************************)
EXTENDS Workbench, SequenceTheorems, WellFoundedInduction, TLAPS

-----------------------------------------------------------------------------
(* Numbers and sequences.                                                  *)

(* A non-empty set of natural numbers has a least element.                 *)
LEMMA LeastNatural ==
  ASSUME NEW T \in SUBSET Nat, T # {}
  PROVE  \E x \in T : \A y \in T : x <= y
<1> DEFINE R == OpToRel(<, Nat)
<1>1. IsWellFoundedOn(R, Nat)
  BY NatLessThanWellFounded
<1>2. PICK x \in T : \A y \in T : <<y, x>> \notin R
  <2> HIDE DEF R
  <2> QED BY <1>1, WFMin
<1>3. \A y \in T : ~ (y < x)
  BY <1>2 DEF OpToRel
<1> HIDE DEF R
<1> QED
  BY <1>2, <1>3

LEMMA MinIs ==
  ASSUME NEW S \in SUBSET Nat, S # {}
  PROVE  Min(S) \in S
BY LeastNatural DEF Min

LEMMA MaxIs ==
  ASSUME NEW S \in SUBSET Nat, S # {}, NEW b \in Nat, \A y \in S : y <= b
  PROVE  Max(S) \in S /\ \A y \in S : y <= Max(S)
<1> DEFINE T == {d \in Nat : \A y \in S : y <= d}
<1>1. PICK x \in T : \A d \in T : x <= d
  <2>1. T \in SUBSET Nat /\ T # {}
    OBVIOUS
  <2> HIDE DEF T
  <2> QED BY <2>1, LeastNatural
<1>2. x \in S
  <2> SUFFICES ASSUME x \notin S PROVE FALSE
    OBVIOUS
  <2>1. PICK y \in S : TRUE
    OBVIOUS
  <2>2. \A z \in S : z < x
    BY <1>1
  <2>3. x - 1 \in Nat /\ \A z \in S : z <= x - 1
    BY <1>1, <2>1, <2>2
  <2> QED
    BY <1>1, <2>3
<1>3. \A y \in S : x >= y
  BY <1>1
<1>4. \E z \in S : \A y \in S : z >= y
  BY <1>2, <1>3
<1>5. Max(S) \in S /\ \A y \in S : Max(S) >= y
  BY <1>4 DEF Max
<1> QED
  BY <1>5

(* The numbers in a sequence have a bound.                                 *)
LEMMA Bounded ==
  ASSUME NEW n \in Nat, NEW f \in [1 .. n -> Nat]
  PROVE  \E b \in Nat : \A k \in 1 .. n : f[k] <= b
<1> DEFINE Has(m) == \E b \in Nat : \A k \in 1 .. m : f[k] <= b
           T == {m \in 0 .. n : ~Has(m)}
<1> SUFFICES ASSUME T # {} PROVE FALSE
  <2>1. n \in 0 .. n
    OBVIOUS
  <2>2. Has(n)
    BY <2>1
  <2> QED
    BY <2>2
<1>1. PICK m \in T : \A d \in T : m <= d
  <2>1. T \in SUBSET Nat
    OBVIOUS
  <2> HIDE DEF T
  <2> QED BY <2>1, LeastNatural
<1>2. m \in 0 .. n /\ ~Has(m)
  BY <1>1
<1>3. ASSUME NEW d \in 0 .. n, d < m PROVE Has(d)
  <2> HIDE DEF Has
  <2>1. ~(m <= d)
    BY <1>2, <1>3
  <2> QED BY <1>1, <2>1
<1> HIDE DEF T
<1>4. Has(0)
  <2>1. \A k \in 1 .. 0 : f[k] <= 0
    OBVIOUS
  <2> QED
    BY <2>1
<1>5. m \in 1 .. n /\ m - 1 \in 0 .. n
  <2> HIDE DEF Has
  <2> QED BY <1>2, <1>4
<1>6. PICK b \in Nat : \A k \in 1 .. m - 1 : f[k] <= b
  <2>1. Has(m - 1)
    <3> HIDE DEF Has
    <3> QED BY <1>3, <1>5
  <2> QED BY <2>1
<1>7. f[m] \in Nat /\ \A k \in 1 .. m : f[k] \in Nat
  BY <1>5
<1>8. PICK d \in Nat : d >= b /\ d >= f[m]
  <2>1. CASE b >= f[m]
    BY <1>7, <2>1
  <2>2. CASE f[m] >= b
    BY <1>7, <2>2
  <2> QED
    BY <1>7, <2>1, <2>2
<1>9. ASSUME NEW k \in 1 .. m PROVE f[k] <= d
  <2>1. CASE k = m
    BY <1>8, <2>1
  <2>2. CASE k # m
    <3>1. k \in 1 .. m - 1
      BY <1>5, <2>2
    <3> QED
      BY <1>6, <1>7, <1>8, <3>1
  <2> QED
    BY <2>1, <2>2
<1> QED
  BY <1>2, <1>9

LEMMA SeqFacts ==
  ASSUME NEW S, NEW s \in Seq(S)
  PROVE  /\ DOMAIN s = 1 .. Len(s) /\ Len(s) \in Nat
         /\ \A k \in DOMAIN s : s[k] \in S
OBVIOUS

LEMMA SeqBy ==
  ASSUME NEW S, NEW n \in Nat, NEW s, DOMAIN s = 1 .. n,
         s = [k \in 1 .. n |-> s[k]], \A k \in 1 .. n : s[k] \in S
  PROVE  s \in Seq(S) /\ Len(s) = n
<1>1. s \in [1 .. n -> S]
  OBVIOUS
<1> QED
  BY <1>1

LEMMA AppendIs ==
  ASSUME NEW S, NEW s \in Seq(S), NEW e \in S
  PROVE  /\ Append(s, e) \in Seq(S) /\ Len(Append(s, e)) = Len(s) + 1
         /\ DOMAIN Append(s, e) = 1 .. Len(s) + 1
         /\ \A k \in 1 .. Len(s) : Append(s, e)[k] = s[k]
         /\ Append(s, e)[Len(s) + 1] = e
OBVIOUS

LEMMA ExceptIs ==
  ASSUME NEW S, NEW s \in Seq(S), NEW i \in DOMAIN s, NEW e \in S
  PROVE  /\ [s EXCEPT ![i] = e] \in Seq(S)
         /\ Len([s EXCEPT ![i] = e]) = Len(s)
         /\ DOMAIN [s EXCEPT ![i] = e] = DOMAIN s
         /\ \A k \in DOMAIN s : [s EXCEPT ![i] = e][k] = IF k = i THEN e ELSE s[k]
OBVIOUS

LEMMA RemoveIs ==
  ASSUME NEW S, NEW s \in Seq(S), NEW i \in DOMAIN s
  PROVE  /\ RemoveAt(s, i) \in Seq(S) /\ Len(RemoveAt(s, i)) = Len(s) - 1
         /\ DOMAIN RemoveAt(s, i) = 1 .. Len(s) - 1
         /\ \A k \in 1 .. Len(s) - 1 :
              /\ k \in DOMAIN s /\ k + 1 \in DOMAIN s
              /\ RemoveAt(s, i)[k] = IF k < i THEN s[k] ELSE s[k + 1]
<1> DEFINE a == SubSeq(s, 1, i - 1)
           b == SubSeq(s, i + 1, Len(s))
<1>1. i \in 1 .. Len(s) /\ Len(s) \in Nat
  OBVIOUS
<1>2. a \in Seq(S) /\ Len(a) = i - 1 /\ \A k \in 1 .. i - 1 : a[k] = s[k]
  BY <1>1
<1>3. /\ b \in Seq(S) /\ Len(b) = Len(s) - i
      /\ \A k \in 1 .. Len(s) - i : b[k] = s[i + k]
  BY <1>1
<1>4. RemoveAt(s, i) = a \o b
  BY DEF RemoveAt
<1> HIDE DEF a, b
<1>5. /\ a \o b \in Seq(S) /\ Len(a \o b) = Len(s) - 1
      /\ \A k \in 1 .. Len(s) - 1 :
           (a \o b)[k] = IF k <= i - 1 THEN a[k] ELSE b[k - (i - 1)]
  BY SMTT(20), <1>1, <1>2, <1>3
<1>6. ASSUME NEW k \in 1 .. Len(s) - 1
      PROVE  (a \o b)[k] = IF k < i THEN s[k] ELSE s[k + 1]
  <2>1. CASE k <= i - 1
    BY <1>1, <1>2, <1>5, <2>1
  <2>2. CASE ~ (k <= i - 1)
    <3>1. k - (i - 1) \in 1 .. Len(s) - i /\ i + (k - (i - 1)) = k + 1
      BY <1>1, <2>2
    <3>2. (a \o b)[k] = b[k - (i - 1)]
      BY <1>5, <2>2
    <3>3. PICK l : l = k - (i - 1)
      OBVIOUS
    <3>4. l \in 1 .. Len(s) - i /\ i + l = k + 1
      BY <3>1, <3>3
    <3>5. b[l] = s[i + l]
      BY <1>3, <3>4
    <3>6. (a \o b)[k] = s[k + 1]
      BY <3>2, <3>3, <3>4, <3>5
    <3>7. ~ (k < i)
      BY <1>1, <2>2
    <3> QED
      BY <3>6, <3>7
  <2> QED
    BY <2>1, <2>2
<1>7. DOMAIN (a \o b) = 1 .. Len(s) - 1
  BY <1>1, <1>5
<1>8. \A k \in 1 .. Len(s) - 1 : k \in DOMAIN s /\ k + 1 \in DOMAIN s
  BY <1>1
<1> QED
  BY <1>4, <1>5, <1>6, <1>7, <1>8

-----------------------------------------------------------------------------
(* The types of what the state is made of.                                 *)

Places == {"read", "slug", "snapshot", "write", "put", "clear", "post",
           "missing", "answer"}
RowType ==
  [kind : Kinds, name : Nat, text : Nat, live : BOOLEAN, past : SUBSET Nat]
TabType == [n : Nat, kind : Kinds, row : Nat]
WindowType ==
  [open : BOOLEAN, listed : SUBSET Nat, tabs : Seq(TabType), active : Nat,
   loaded : BOOLEAN, shown : SUBSET Nat]
CallType ==
  [op : {"list", "load", "save", "delete", "query"},
   window : Windows \cup {None}, tab : Nat, at : Places, mounted : BOOLEAN,
   kind : Kinds, row : Nat, text : Nat, name : Nat \cup {None}, count : Nat,
   base : Nat, found : SUBSET Nat, watches : BOOLEAN, raced : BOOLEAN]

-----------------------------------------------------------------------------
(* How the calls go on.  Call d is call c a step later, in which c did not *)
(* act: its component may be gone, and another dashboard written.          *)

Still(c, d) ==
  /\ d.op = c.op /\ d.window = c.window /\ d.tab = c.tab /\ d.at = c.at
  /\ d.kind = c.kind /\ d.row = c.row /\ d.text = c.text /\ d.name = c.name
  /\ d.count = c.count /\ d.base = c.base /\ d.found = c.found
  /\ d.watches = c.watches
  /\ d.mounted => c.mounted
  /\ c.raced => d.raced

(* The same, and a call of one of the windows V keeps its component.       *)
Lasts(c, d, V) == Still(c, d) /\ ((c.window \in V /\ c.mounted) => d.mounted)

(* From cs to ds at most call i acts or ends, and what is there is the     *)
(* other calls that were there, at their new places, or new ones.          *)
Goes(cs, ds, i, new, V) ==
  /\ ds \in Seq(CallType)
  /\ \E f \in [DOMAIN ds -> Nat] :
       /\ \A k, l \in DOMAIN ds : f[k] = f[l] /\ f[k] # 0 => k = l
       /\ \A k \in DOMAIN ds :
            \/ f[k] \in {0, i} /\ \E c \in new : Lasts(c, ds[k], V)
            \/ f[k] \in DOMAIN cs \ {0, i} /\ Lasts(cs[f[k]], ds[k], V)
       /\ \A l \in DOMAIN cs \ {0, i} : \E k \in DOMAIN ds : f[k] = l
Moves(cs, ds, i, new) == Goes(cs, ds, i, new, {})

LEMMA StillSame == \A c : Still(c, c)
BY DEF Still

LEMMA StillThen ==
  ASSUME NEW c, NEW d, NEW e, Still(c, d), Still(d, e)
  PROVE  Still(c, e)
BY DEF Still

LEMMA LastsSame == \A c, V : Lasts(c, c, V)
BY StillSame DEF Lasts

LEMMA LastsThen ==
  ASSUME NEW c, NEW d, NEW e, NEW V, Lasts(c, d, V), Lasts(d, e, V)
  PROVE  Lasts(c, e, V)
<1>1. Still(c, e)
  BY StillThen DEF Lasts
<1>2. d.window = c.window
  BY DEF Lasts, Still
<1> QED
  BY <1>1, <1>2 DEF Lasts

LEMMA MovesIs ==
  ASSUME NEW cs, NEW ds, NEW i, NEW new, Moves(cs, ds, i, new)
  PROVE  /\ ds \in Seq(CallType)
         /\ \E f \in [DOMAIN ds -> Nat] :
              /\ \A k, l \in DOMAIN ds : f[k] = f[l] /\ f[k] # 0 => k = l
              /\ \A k \in DOMAIN ds :
                   \/ f[k] \in {0, i} /\ \E c \in new : Still(c, ds[k])
                   \/ f[k] \in DOMAIN cs \ {0, i} /\ Still(cs[f[k]], ds[k])
<1>1. PICK f \in [DOMAIN ds -> Nat] :
        /\ \A k, l \in DOMAIN ds : f[k] = f[l] /\ f[k] # 0 => k = l
        /\ \A k \in DOMAIN ds :
             \/ f[k] \in {0, i} /\ \E c \in new : Lasts(c, ds[k], {})
             \/ f[k] \in DOMAIN cs \ {0, i} /\ Lasts(cs[f[k]], ds[k], {})
  BY DEF Moves, Goes
<1>2. \A k \in DOMAIN ds :
        \/ f[k] \in {0, i} /\ \E c \in new : Still(c, ds[k])
        \/ f[k] \in DOMAIN cs \ {0, i} /\ Still(cs[f[k]], ds[k])
  BY <1>1 DEF Lasts
<1> QED
  BY <1>1, <1>2 DEF Moves, Goes

LEMMA GoesMoves ==
  ASSUME NEW cs, NEW ds, NEW i, NEW new, NEW V, Goes(cs, ds, i, new, V)
  PROVE  Moves(cs, ds, i, new)
<1>1. \A c, d : Lasts(c, d, V) => Lasts(c, d, {})
  BY DEF Lasts
<1>2. PICK f \in [DOMAIN ds -> Nat] :
        /\ \A k, l \in DOMAIN ds : f[k] = f[l] /\ f[k] # 0 => k = l
        /\ \A k \in DOMAIN ds :
             \/ f[k] \in {0, i} /\ \E c \in new : Lasts(c, ds[k], V)
             \/ f[k] \in DOMAIN cs \ {0, i} /\ Lasts(cs[f[k]], ds[k], V)
        /\ \A l \in DOMAIN cs \ {0, i} : \E k \in DOMAIN ds : f[k] = l
  BY DEF Goes
<1>3. \A k \in DOMAIN ds :
        \/ f[k] \in {0, i} /\ \E c \in new : Lasts(c, ds[k], {})
        \/ f[k] \in DOMAIN cs \ {0, i} /\ Lasts(cs[f[k]], ds[k], {})
  BY <1>1, <1>2
<1> QED
  BY <1>2, <1>3 DEF Moves, Goes

LEMMA GoesStay ==
  ASSUME NEW cs \in Seq(CallType), NEW V
  PROVE  Goes(cs, cs, 0, {}, V)
<1> DEFINE f == [k \in DOMAIN cs |-> k]
<1>1. f \in [DOMAIN cs -> Nat] /\ 0 \notin DOMAIN cs
  BY SeqFacts
<1>2. /\ \A k, l \in DOMAIN cs : f[k] = f[l] /\ f[k] # 0 => k = l
      /\ \A k \in DOMAIN cs : f[k] \in DOMAIN cs \ {0, 0} /\ Lasts(cs[f[k]], cs[k], V)
  BY <1>1, LastsSame
<1>3. \A l \in DOMAIN cs \ {0, 0} : \E k \in DOMAIN cs : f[k] = l
  OBVIOUS
<1> HIDE DEF f
<1> QED
  BY <1>1, <1>2, <1>3 DEF Goes

LEMMA MovesStay ==
  ASSUME NEW cs \in Seq(CallType)
  PROVE  Moves(cs, cs, 0, {})
BY GoesStay, GoesMoves

LEMMA GoesAppend ==
  ASSUME NEW cs \in Seq(CallType), NEW c \in CallType, NEW V
  PROVE  Goes(cs, Append(cs, c), 0, {c}, V) /\ Len(Append(cs, c)) = Len(cs) + 1
<1> DEFINE ds == Append(cs, c)
           f == [k \in 1 .. Len(cs) + 1 |-> IF k <= Len(cs) THEN k ELSE 0]
<1>1. /\ ds \in Seq(CallType) /\ Len(ds) = Len(cs) + 1
      /\ DOMAIN ds = 1 .. Len(cs) + 1
      /\ \A k \in 1 .. Len(cs) : ds[k] = cs[k]
      /\ ds[Len(cs) + 1] = c
  BY AppendIs
<1> HIDE DEF ds
<1>2. DOMAIN cs = 1 .. Len(cs) /\ Len(cs) \in Nat
  BY SeqFacts
<1>3. f \in [DOMAIN ds -> Nat]
  BY <1>1, <1>2
<1>4. \A k, l \in DOMAIN ds : f[k] = f[l] /\ f[k] # 0 => k = l
  BY <1>1, <1>2
<1>5. ASSUME NEW k \in DOMAIN ds
      PROVE  \/ f[k] \in {0, 0} /\ \E d \in {c} : Lasts(d, ds[k], V)
             \/ f[k] \in DOMAIN cs \ {0, 0} /\ Lasts(cs[f[k]], ds[k], V)
  <2>1. CASE k <= Len(cs)
    BY <1>1, <1>2, <2>1, LastsSame
  <2>2. CASE ~(k <= Len(cs))
    <3>1. k = Len(cs) + 1
      BY <1>1, <1>2, <2>2
    <3> QED
      BY <1>1, <1>2, <3>1, LastsSame
  <2> QED
    BY <2>1, <2>2
<1>6. ASSUME NEW l \in DOMAIN cs \ {0, 0} PROVE \E k \in DOMAIN ds : f[k] = l
  BY <1>1, <1>2
<1> HIDE DEF f
<1>7. Goes(cs, ds, 0, {c}, V)
  BY <1>1, <1>3, <1>4, <1>5, <1>6 DEF Goes
<1> QED
  BY <1>1, <1>7 DEF ds

LEMMA MovesAppend ==
  ASSUME NEW cs \in Seq(CallType), NEW c \in CallType
  PROVE  Moves(cs, Append(cs, c), 0, {c}) /\ Len(Append(cs, c)) = Len(cs) + 1
BY GoesAppend, GoesMoves

LEMMA GoesAt ==
  ASSUME NEW cs \in Seq(CallType), NEW i \in DOMAIN cs, NEW c \in CallType, NEW V
  PROVE  Goes(cs, [cs EXCEPT ![i] = c], i, {c}, V)
<1> DEFINE ds == [cs EXCEPT ![i] = c]
           f == [k \in DOMAIN cs |-> k]
<1>1. /\ ds \in Seq(CallType) /\ DOMAIN ds = DOMAIN cs
      /\ \A k \in DOMAIN cs : ds[k] = IF k = i THEN c ELSE cs[k]
  BY ExceptIs
<1> HIDE DEF ds
<1>2. DOMAIN cs = 1 .. Len(cs) /\ Len(cs) \in Nat
  BY SeqFacts
<1>3. f \in [DOMAIN ds -> Nat]
  BY <1>1, <1>2
<1>4. \A k, l \in DOMAIN ds : f[k] = f[l] /\ f[k] # 0 => k = l
  BY <1>1
<1>5. ASSUME NEW k \in DOMAIN ds
      PROVE  \/ f[k] \in {0, i} /\ \E d \in {c} : Lasts(d, ds[k], V)
             \/ f[k] \in DOMAIN cs \ {0, i} /\ Lasts(cs[f[k]], ds[k], V)
  BY <1>1, <1>2, LastsSame
<1>6. ASSUME NEW l \in DOMAIN cs \ {0, i} PROVE \E k \in DOMAIN ds : f[k] = l
  BY <1>1, <1>2
<1> HIDE DEF f
<1>7. Goes(cs, ds, i, {c}, V)
  BY <1>1, <1>3, <1>4, <1>5, <1>6 DEF Goes
<1> QED
  BY <1>7 DEF ds

LEMMA MovesAt ==
  ASSUME NEW cs \in Seq(CallType), NEW i \in DOMAIN cs, NEW c \in CallType
  PROVE  Moves(cs, [cs EXCEPT ![i] = c], i, {c})
BY GoesAt, GoesMoves

LEMMA GoesOut ==
  ASSUME NEW cs \in Seq(CallType), NEW i \in DOMAIN cs, NEW V
  PROVE  Goes(cs, RemoveAt(cs, i), i, {}, V) /\ Len(RemoveAt(cs, i)) = Len(cs) - 1
<1> DEFINE ds == RemoveAt(cs, i)
           f == [k \in 1 .. Len(cs) - 1 |-> IF k < i THEN k ELSE k + 1]
<1>1. /\ ds \in Seq(CallType) /\ Len(ds) = Len(cs) - 1
      /\ DOMAIN ds = 1 .. Len(cs) - 1
      /\ \A k \in 1 .. Len(cs) - 1 :
           /\ k \in DOMAIN cs /\ k + 1 \in DOMAIN cs
           /\ ds[k] = IF k < i THEN cs[k] ELSE cs[k + 1]
  BY RemoveIs
<1> HIDE DEF ds
<1>2. DOMAIN cs = 1 .. Len(cs) /\ Len(cs) \in Nat /\ i \in 1 .. Len(cs)
  BY SeqFacts
<1>3. f \in [DOMAIN ds -> Nat]
  BY <1>1, <1>2
<1>4. \A k, l \in DOMAIN ds : f[k] = f[l] /\ f[k] # 0 => k = l
  BY <1>1, <1>2
<1>5. ASSUME NEW k \in DOMAIN ds
      PROVE  f[k] \in DOMAIN cs \ {0, i} /\ Lasts(cs[f[k]], ds[k], V)
  <2>1. CASE k < i
    <3>1. f[k] = k /\ ds[k] = cs[k] /\ k \in DOMAIN cs /\ k # 0
      BY <1>1, <1>2, <2>1
    <3> QED
      BY <1>2, <2>1, <3>1, LastsSame
  <2>2. CASE ~(k < i)
    <3>1. f[k] = k + 1 /\ ds[k] = cs[k + 1] /\ k + 1 \in DOMAIN cs /\ k \in 1 .. Len(cs)
      BY <1>1, <1>2, <2>2
    <3> QED
      BY <1>2, <2>2, <3>1, LastsSame
  <2> QED
    BY <2>1, <2>2
<1>6. ASSUME NEW l \in DOMAIN cs \ {0, i} PROVE \E k \in DOMAIN ds : f[k] = l
  <2>1. CASE l < i
    <3>1. l \in DOMAIN ds /\ f[l] = l
      BY <1>1, <1>2, <2>1
    <3> QED
      BY <3>1
  <2>2. CASE ~(l < i)
    <3>1. l - 1 \in 1 .. Len(cs) - 1 /\ ~(l - 1 < i) /\ l - 1 + 1 = l
      BY <1>2, <2>2
    <3>2. l - 1 \in DOMAIN ds /\ f[l - 1] = l
      BY <1>1, <3>1
    <3> QED
      BY <3>2
  <2> QED
    BY <2>1, <2>2
<1> HIDE DEF f
<1>7. Goes(cs, ds, i, {}, V)
  BY <1>1, <1>3, <1>4, <1>5, <1>6 DEF Goes
<1> QED
  BY <1>1, <1>7 DEF ds

LEMMA MovesOut ==
  ASSUME NEW cs \in Seq(CallType), NEW i \in DOMAIN cs
  PROVE  Moves(cs, RemoveAt(cs, i), i, {}) /\ Len(RemoveAt(cs, i)) = Len(cs) - 1
BY GoesOut, GoesMoves

(* All calls but i notice that a dashboard was written.                    *)
LEMMA RacedGoes ==
  ASSUME NEW cs \in Seq(CallType), NEW i \in DOMAIN cs, NEW c \in CallType, NEW V
  PROVE  LET ds == [Raced(cs, i) EXCEPT ![i] = c] IN
         /\ Goes(cs, ds, i, {c}, V) /\ Len(ds) = Len(cs) /\ DOMAIN ds = DOMAIN cs
         /\ ds[i] = c
         /\ \A k \in DOMAIN cs \ {i} :
              /\ Lasts(cs[k], ds[k], V)
              /\ ds[k].kind = "dashboard" => ds[k].raced
<1> DEFINE es == Raced(cs, i)
           ds == [es EXCEPT ![i] = c]
           f == [k \in DOMAIN cs |-> k]
<1>1. DOMAIN cs = 1 .. Len(cs) /\ Len(cs) \in Nat /\ \A k \in DOMAIN cs : cs[k] \in CallType
  BY SeqFacts
<1>2. DOMAIN es = 1 .. Len(cs) /\ es = [k \in 1 .. Len(cs) |-> es[k]]
  BY <1>1 DEF Raced
<1>3. ASSUME NEW k \in DOMAIN cs
      PROVE  /\ es[k] \in CallType /\ Lasts(cs[k], es[k], V)
             /\ k # i /\ es[k].kind = "dashboard" => es[k].raced
  <2>1. CASE k # i /\ cs[k].kind = "dashboard"
    <3>1. es[k] = [cs[k] EXCEPT !.raced = TRUE]
      BY <2>1 DEF Raced
    <3>2. cs[k] \in CallType
      BY <1>1
    <3> HIDE DEF es
    <3>3. es[k] \in CallType /\ Lasts(cs[k], es[k], V) /\ es[k].raced
      BY <3>1, <3>2 DEF CallType, Still, Lasts
    <3> QED
      BY <3>3
  <2>2. CASE ~(k # i /\ cs[k].kind = "dashboard")
    <3>1. es[k] = cs[k]
      BY <2>2 DEF Raced
    <3> QED
      BY <1>1, <2>2, <3>1, LastsSame
  <2> QED
    BY <2>1, <2>2
<1> HIDE DEF es
<1>4. es \in Seq(CallType) /\ Len(es) = Len(cs)
  BY <1>1, <1>2, <1>3, SeqBy
<1>5. /\ ds \in Seq(CallType) /\ DOMAIN ds = DOMAIN cs /\ Len(ds) = Len(cs)
      /\ \A k \in DOMAIN cs : ds[k] = IF k = i THEN c ELSE es[k]
  BY <1>1, <1>2, <1>4, ExceptIs
<1> HIDE DEF ds
<1>6. f \in [DOMAIN ds -> Nat] /\ \A k, l \in DOMAIN ds : f[k] = f[l] /\ f[k] # 0 => k = l
  BY <1>1, <1>5
<1>7. ASSUME NEW k \in DOMAIN ds
      PROVE  \/ f[k] \in {0, i} /\ \E d \in {c} : Lasts(d, ds[k], V)
             \/ f[k] \in DOMAIN cs \ {0, i} /\ Lasts(cs[f[k]], ds[k], V)
  BY <1>1, <1>3, <1>5, LastsSame
<1>8. \A l \in DOMAIN cs \ {0, i} : \E k \in DOMAIN ds : f[k] = l
  BY <1>5
<1> HIDE DEF f
<1>9. Goes(cs, ds, i, {c}, V)
  BY <1>5, <1>6, <1>7, <1>8 DEF Goes
<1>10. \A k \in DOMAIN cs \ {i} :
        Lasts(cs[k], ds[k], V) /\ (ds[k].kind = "dashboard" => ds[k].raced)
  BY <1>3, <1>5
<1> QED
  BY <1>5, <1>9, <1>10 DEF ds, es

LEMMA RacedIs ==
  ASSUME NEW cs \in Seq(CallType), NEW i \in DOMAIN cs, NEW c \in CallType
  PROVE  LET ds == [Raced(cs, i) EXCEPT ![i] = c] IN
         /\ Moves(cs, ds, i, {c}) /\ Len(ds) = Len(cs) /\ DOMAIN ds = DOMAIN cs
         /\ ds[i] = c
         /\ \A k \in DOMAIN cs \ {i} :
              /\ Still(cs[k], ds[k])
              /\ ds[k].kind = "dashboard" => ds[k].raced
BY RacedGoes, GoesMoves DEF Lasts

(* The calls of window w have lost their component.                        *)
LEMMA UnmountedGoes ==
  ASSUME NEW cs \in Seq(CallType), NEW w, NEW V, w \notin V
  PROVE  /\ Goes(cs, Unmounted(cs, w), 0, {}, V) /\ Len(Unmounted(cs, w)) = Len(cs)
         /\ \A k \in DOMAIN Unmounted(cs, w) :
              Unmounted(cs, w)[k].window = w => ~Unmounted(cs, w)[k].mounted
<1> DEFINE ds == Unmounted(cs, w)
           f == [k \in DOMAIN cs |-> k]
<1>1. DOMAIN cs = 1 .. Len(cs) /\ Len(cs) \in Nat /\ \A k \in DOMAIN cs : cs[k] \in CallType
  BY SeqFacts
<1>2. DOMAIN ds = 1 .. Len(cs) /\ ds = [k \in 1 .. Len(cs) |-> ds[k]]
  BY <1>1 DEF Unmounted
<1>3. ASSUME NEW k \in DOMAIN cs
      PROVE  /\ ds[k] \in CallType /\ Lasts(cs[k], ds[k], V)
             /\ ds[k].window = w => ~ds[k].mounted
  <2>1. CASE cs[k].window = w
    <3>1. ds[k] = [cs[k] EXCEPT !.mounted = FALSE]
      BY <2>1 DEF Unmounted
    <3>2. cs[k] \in CallType
      BY <1>1
    <3> HIDE DEF ds
    <3>3. ds[k] \in CallType /\ Still(cs[k], ds[k]) /\ ~ds[k].mounted
      BY <3>1, <3>2 DEF CallType, Still
    <3> QED
      BY <2>1, <3>3 DEF Lasts
  <2>2. CASE cs[k].window # w
    <3>1. ds[k] = cs[k]
      BY <2>2 DEF Unmounted
    <3> QED
      BY <1>1, <2>2, <3>1, LastsSame
  <2> QED
    BY <2>1, <2>2
<1> HIDE DEF ds
<1>4. ds \in Seq(CallType) /\ Len(ds) = Len(cs)
  BY <1>1, <1>2, <1>3, SeqBy
<1>5. f \in [DOMAIN ds -> Nat] /\ \A k, l \in DOMAIN ds : f[k] = f[l] /\ f[k] # 0 => k = l
  BY <1>1, <1>2
<1>6. \A k \in DOMAIN ds : f[k] \in DOMAIN cs \ {0, 0} /\ Lasts(cs[f[k]], ds[k], V)
  BY <1>1, <1>2, <1>3
<1>7. \A l \in DOMAIN cs \ {0, 0} : \E k \in DOMAIN ds : f[k] = l
  BY <1>1, <1>2
<1> HIDE DEF f
<1>8. Goes(cs, ds, 0, {}, V)
  BY <1>4, <1>5, <1>6, <1>7 DEF Goes
<1> QED
  BY <1>1, <1>2, <1>3, <1>4, <1>8 DEF ds

LEMMA UnmountedIs ==
  ASSUME NEW cs \in Seq(CallType), NEW w
  PROVE  /\ Moves(cs, Unmounted(cs, w), 0, {}) /\ Len(Unmounted(cs, w)) = Len(cs)
         /\ \A k \in DOMAIN Unmounted(cs, w) :
              Unmounted(cs, w)[k].window = w => ~Unmounted(cs, w)[k].mounted
<1>1. w \notin {}
  OBVIOUS
<1> QED
  BY <1>1, UnmountedGoes, GoesMoves

LEMMA GoesThen ==
  ASSUME NEW cs, NEW ds, NEW es, NEW i, NEW M, NEW N, NEW V,
         Goes(cs, ds, i, M, V), Goes(ds, es, 0, N, V)
  PROVE  Goes(cs, es, i, M \cup N, V)
<1>1. PICK f \in [DOMAIN ds -> Nat] :
        /\ \A k, l \in DOMAIN ds : f[k] = f[l] /\ f[k] # 0 => k = l
        /\ \A k \in DOMAIN ds :
             \/ f[k] \in {0, i} /\ \E c \in M : Lasts(c, ds[k], V)
             \/ f[k] \in DOMAIN cs \ {0, i} /\ Lasts(cs[f[k]], ds[k], V)
        /\ \A l \in DOMAIN cs \ {0, i} : \E k \in DOMAIN ds : f[k] = l
  BY DEF Goes
<1>2. PICK g \in [DOMAIN es -> Nat] :
        /\ \A k, l \in DOMAIN es : g[k] = g[l] /\ g[k] # 0 => k = l
        /\ \A k \in DOMAIN es :
             \/ g[k] \in {0, 0} /\ \E c \in N : Lasts(c, es[k], V)
             \/ g[k] \in DOMAIN ds \ {0, 0} /\ Lasts(ds[g[k]], es[k], V)
        /\ \A l \in DOMAIN ds \ {0, 0} : \E k \in DOMAIN es : g[k] = l
  BY DEF Goes
<1> DEFINE h == [k \in DOMAIN es |-> IF g[k] = 0 THEN 0 ELSE f[g[k]]]
<1>3. \A k \in DOMAIN es : g[k] # 0 => g[k] \in DOMAIN ds
  BY <1>2
<1>4. h \in [DOMAIN es -> Nat]
  BY <1>3
<1>5. \A k, l \in DOMAIN es : h[k] = h[l] /\ h[k] # 0 => k = l
  BY <1>1, <1>2, <1>3
<1>6. ASSUME NEW k \in DOMAIN es
      PROVE  \/ h[k] \in {0, i} /\ \E c \in M \cup N : Lasts(c, es[k], V)
             \/ h[k] \in DOMAIN cs \ {0, i} /\ Lasts(cs[h[k]], es[k], V)
  <2>1. CASE g[k] = 0
    <3>1. 0 \notin DOMAIN ds
      BY SeqFacts DEF Goes
    <3> QED
      BY <1>2, <2>1, <3>1
  <2>2. CASE g[k] # 0
    <3>1. g[k] \in DOMAIN ds /\ Lasts(ds[g[k]], es[k], V) /\ h[k] = f[g[k]]
      BY <1>2, <2>2
    <3>2. CASE f[g[k]] \in {0, i} /\ \E c \in M : Lasts(c, ds[g[k]], V)
      <4>1. PICK c \in M : Lasts(c, ds[g[k]], V)
        BY <3>2
      <4> QED
        BY <3>1, <3>2, <4>1, LastsThen
    <3>3. CASE f[g[k]] \in DOMAIN cs \ {0, i} /\ Lasts(cs[f[g[k]]], ds[g[k]], V)
      BY <3>1, <3>3, LastsThen
    <3> QED
      BY <1>1, <3>1, <3>2, <3>3
  <2> QED
    BY <2>1, <2>2
<1>7. ASSUME NEW l \in DOMAIN cs \ {0, i} PROVE \E k \in DOMAIN es : h[k] = l
  <2>1. PICK k \in DOMAIN ds : f[k] = l
    BY <1>1
  <2>2. 0 \notin DOMAIN ds
    BY SeqFacts DEF Goes
  <2>3. PICK m \in DOMAIN es : g[m] = k
    BY <1>2, <2>2
  <2> QED
    BY <2>1, <2>2, <2>3
<1> HIDE DEF h
<1>8. es \in Seq(CallType)
  BY DEF Goes
<1> QED
  BY <1>4, <1>5, <1>6, <1>7, <1>8 DEF Goes

LEMMA MovesThen ==
  ASSUME NEW cs, NEW ds, NEW es, NEW i, NEW M, NEW N,
         Moves(cs, ds, i, M), Moves(ds, es, 0, N)
  PROVE  Moves(cs, es, i, M \cup N)
BY GoesThen DEF Moves

-----------------------------------------------------------------------------
(* What calls and tabs refer to, when rows rs and triggers ts are there:   *)
(* rows are of the kind they are taken for, and a call of each kind has    *)
(* only the places its function has.                                       *)

IsLoad(c) == c.row # 0 /\ c.kind = "transform" /\ c.at \in {"read", "answer"}
IsQuery(c, rs) ==
  /\ c.row = 0 /\ c.kind = "saved" /\ c.at \in {"write", "answer"}
  /\ c.at = "answer" => \E q \in DOMAIN rs : c.found = {q} /\ rs[q].kind = "saved"
IsDelete(c) ==
  /\ c.row # 0 /\ c.name = None
  /\ c.kind \in {"dashboard", "backend", "cred"}
  /\ c.at \in {"read", "snapshot", "write", "answer"}
  /\ c.at \in {"read", "snapshot"} => c.kind = "dashboard"
IsSaveOfTransform(c, ts) ==
  /\ c.at \in {"put", "clear", "post", "answer"}
  /\ c.name = None
  /\ c.found \subseteq DOMAIN ts
  /\ c.at \in {"clear", "post"} => c.row # 0
  /\ c.at = "post" => c.found = {}
IsSaveOfDashboard(c) ==
  /\ c.at \in {"missing", "read", "slug", "snapshot", "write", "answer"}
  /\ c.at = "missing" => c.row = 0
  /\ c.at \in {"read", "snapshot"} => c.row # 0
  /\ c.at = "slug" => c.name \in Nat \ {0}
  /\ c.at \in {"read", "slug"} => c.count < MaxTries

FitsRow(c, rs) ==
  /\ c.row <= Len(rs) /\ c.text <= MaxActs + 1
  /\ (c.row # 0 /\ c.op \in {"load", "save", "delete"}) => rs[c.row].kind = c.kind
FitsKind(c, rs, ts) ==
  /\ c.op \in {"list", "load", "query"} => c.window \in Windows
  /\ c.op = "list" => c.at \in {"read", "answer"} /\ c.found \subseteq DOMAIN rs
  /\ c.op = "load" => IsLoad(c) /\ c.found \subseteq DOMAIN ts
  /\ c.op = "query" => IsQuery(c, rs)
  /\ c.op = "delete" => IsDelete(c)
  /\ (c.op = "save" /\ c.kind = "transform") => IsSaveOfTransform(c, ts)
  /\ (c.op = "save" /\ c.kind = "dashboard") => IsSaveOfDashboard(c)
  /\ (c.op = "save" /\ c.kind \notin {"transform", "dashboard"})
        => c.at \in {"write", "answer"}
Fits(c, rs, ts) ==
  /\ FitsRow(c, rs) /\ FitsKind(c, rs, ts)
  /\ c.found \subseteq DOMAIN rs \cup DOMAIN ts

FitsTab(t, rs) ==
  t.n # 0 /\ t.row <= Len(rs) /\ (t.row # 0 => rs[t.row].kind = t.kind)
FitTabs(tabs, rs) ==
  /\ \A j \in DOMAIN tabs : FitsTab(tabs[j], rs)
  /\ \A j, k \in DOMAIN tabs : tabs[j].n = tabs[k].n => j = k
  /\ \A j, k \in DOMAIN tabs :
       (j # k /\ tabs[j].row = tabs[k].row /\ tabs[j].row # 0)
         => tabs[j].kind = "saved"
HasActive(tabs, active) ==
  IF tabs = <<>> THEN active = 0 ELSE \E j \in DOMAIN tabs : tabs[j].n = active
FitsWindow(v, rs, ts) ==
  /\ v.listed \subseteq DOMAIN rs /\ v.shown \subseteq DOMAIN ts
  /\ FitTabs(v.tabs, rs) /\ HasActive(v.tabs, v.active)

(* The tab from which a query is saved is one for queries.                 *)
FitsQuery(c, tabs) ==
  c.op = "query" => \A j \in DOMAIN tabs : tabs[j].n = c.tab => tabs[j].kind = "saved"

RowsFit ==
  /\ rows \in Seq(RowType) /\ triggers \in Seq(Nat)
  /\ \A r \in DOMAIN rows : rows[r].text \in rows[r].past
  /\ \A g \in DOMAIN triggers : triggers[g] <= Len(rows)
  /\ snapshots \subseteq (DOMAIN rows) \X Nat
  /\ overlapped \subseteq DOMAIN rows
CallsFit ==
  /\ calls \in Seq(CallType) /\ Len(calls) <= MaxCalls
  /\ \A i \in DOMAIN calls : Fits(calls[i], rows, triggers)
WindowsFit ==
  /\ windows \in [Windows -> WindowType]
  /\ \A w \in Windows : FitsWindow(windows[w], rows, triggers)
QueriesFit ==
  \A i \in DOMAIN calls : FitsQuery(calls[i], windows[calls[i].window].tabs)
RestFits ==
  /\ others \subseteq {"agent", "panels"}
  /\ acts \in 0 .. MaxActs /\ events \in 0 .. MaxEvents

Typed == RowsFit /\ CallsFit /\ WindowsFit /\ QueriesFit /\ RestFits

(* Rows and triggers are never removed, and rows keep their kinds.         *)
Grown(rs, rs2, ts, ts2) ==
  /\ rs \in Seq(RowType) /\ rs2 \in Seq(RowType) /\ Len(rs) <= Len(rs2)
  /\ \A r \in DOMAIN rs : rs2[r].kind = rs[r].kind
  /\ ts \in Seq(Nat) /\ ts2 \in Seq(Nat) /\ Len(ts) <= Len(ts2)
Grows == Grown(rows, rows', triggers, triggers')

LEMMA FitsStill ==
  ASSUME NEW c, NEW d, NEW rs, NEW ts, Fits(c, rs, ts), Still(c, d)
  PROVE  Fits(d, rs, ts)
<1>1. FitsRow(d, rs)
  BY DEF Fits, FitsRow, Still
<1>2. FitsKind(d, rs, ts)
  BY DEF Fits, FitsKind, Still, IsLoad, IsQuery, IsDelete, IsSaveOfTransform,
         IsSaveOfDashboard
<1> QED
  BY <1>1, <1>2 DEF Fits, Still

LEMMA FitsGrown ==
  ASSUME NEW c \in CallType, NEW rs, NEW rs2, NEW ts, NEW ts2,
         Grown(rs, rs2, ts, ts2), Fits(c, rs, ts)
  PROVE  Fits(c, rs2, ts2)
<1>1. /\ DOMAIN rs = 1 .. Len(rs) /\ DOMAIN rs2 = 1 .. Len(rs2)
      /\ DOMAIN ts = 1 .. Len(ts) /\ DOMAIN ts2 = 1 .. Len(ts2)
      /\ Len(rs) \in Nat /\ Len(rs2) \in Nat /\ Len(ts) \in Nat /\ Len(ts2) \in Nat
  BY SeqFacts DEF Grown
<1>2. DOMAIN rs \subseteq DOMAIN rs2 /\ DOMAIN ts \subseteq DOMAIN ts2
  BY <1>1 DEF Grown
<1>3. c.row \in Nat /\ c.text \in Nat
  BY DEF CallType
<1>4. FitsRow(c, rs2)
  BY <1>1, <1>3 DEF Grown, Fits, FitsRow
<1>5. IsQuery(c, rs) => IsQuery(c, rs2)
  BY <1>2 DEF IsQuery, Grown
<1>6. FitsKind(c, rs2, ts2)
  BY <1>2, <1>5 DEF Fits, FitsKind, IsSaveOfTransform
<1> QED
  BY <1>2, <1>4, <1>6 DEF Fits

LEMMA FitsWindowGrown ==
  ASSUME NEW v \in WindowType, NEW rs, NEW rs2, NEW ts, NEW ts2,
         Grown(rs, rs2, ts, ts2), FitsWindow(v, rs, ts)
  PROVE  FitsWindow(v, rs2, ts2)
<1>1. /\ DOMAIN rs = 1 .. Len(rs) /\ DOMAIN rs2 = 1 .. Len(rs2)
      /\ DOMAIN ts = 1 .. Len(ts) /\ DOMAIN ts2 = 1 .. Len(ts2)
      /\ Len(rs) \in Nat /\ Len(rs2) \in Nat /\ Len(ts) \in Nat /\ Len(ts2) \in Nat
  BY SeqFacts DEF Grown
<1>2. DOMAIN rs \subseteq DOMAIN rs2 /\ DOMAIN ts \subseteq DOMAIN ts2
  BY <1>1 DEF Grown
<1>3. ASSUME NEW j \in DOMAIN v.tabs
      PROVE  FitsTab(v.tabs[j], rs2)
  <2>1. v.tabs[j] \in TabType
    <3>1. v.tabs \in Seq(TabType)
      BY DEF WindowType
    <3> QED
      BY <3>1
  <2>2. v.tabs[j].row \in Nat /\ FitsTab(v.tabs[j], rs)
    BY <2>1 DEF FitsWindow, FitTabs, TabType
  <2> QED
    BY <1>1, <2>2 DEF FitsTab, Grown
<1> QED
  BY <1>2, <1>3 DEF FitsWindow, FitTabs

(* The calls fit when those that are new do.                               *)
LEMMA MovesFit ==
  ASSUME RowsFit, CallsFit, Grows, NEW i, NEW new, Moves(calls, calls', i, new),
         Len(calls') <= MaxCalls,
         \A c \in new : Fits(c, rows', triggers')
  PROVE  CallsFit'
<1>1. PICK f \in [DOMAIN calls' -> Nat] :
        \A k \in DOMAIN calls' :
          \/ f[k] \in {0, i} /\ \E c \in new : Still(c, calls'[k])
          \/ f[k] \in DOMAIN calls \ {0, i} /\ Still(calls[f[k]], calls'[k])
  BY MovesIs
<1>2. ASSUME NEW k \in DOMAIN calls'
      PROVE  Fits(calls'[k], rows', triggers')
  <2>1. CASE \E c \in new : Still(c, calls'[k])
    BY <2>1, FitsStill
  <2>2. CASE f[k] \in DOMAIN calls /\ Still(calls[f[k]], calls'[k])
    <3>1. calls[f[k]] \in CallType /\ Fits(calls[f[k]], rows, triggers)
      BY <2>2, SeqFacts DEF CallsFit
    <3>2. Fits(calls[f[k]], rows', triggers')
      BY <3>1, FitsGrown DEF Grows
    <3> QED
      BY <2>2, <3>2, FitsStill
  <2> QED
    BY <1>1, <2>1, <2>2
<1>3. calls' \in Seq(CallType)
  BY MovesIs
<1> QED
  BY <1>2, <1>3 DEF CallsFit

(* Each tab of a window was there before, of the same kind, or has a       *)
(* number that no call has.                                                *)
OldOrNew(tabs, tabs2) ==
  \A j \in DOMAIN tabs2 :
    \/ \E k \in DOMAIN tabs : tabs[k].n = tabs2[j].n /\ tabs[k].kind = tabs2[j].kind
    \/ \A k \in DOMAIN calls : calls[k].tab # tabs2[j].n

LEMMA TypedStep ==
  ASSUME Typed, RowsFit', WindowsFit', RestFits', Grows,
         NEW i, NEW new, Moves(calls, calls', i, new), Len(calls') <= MaxCalls,
         \A c \in new : /\ Fits(c, rows', triggers')
                        /\ FitsQuery(c, windows'[c.window].tabs),
         \A w \in Windows : OldOrNew(windows[w].tabs, windows'[w].tabs)
  PROVE  Typed'
<1>1. CallsFit'
  BY MovesFit DEF Typed
<1>2. PICK f \in [DOMAIN calls' -> Nat] :
        \A k \in DOMAIN calls' :
          \/ f[k] \in {0, i} /\ \E c \in new : Still(c, calls'[k])
          \/ f[k] \in DOMAIN calls \ {0, i} /\ Still(calls[f[k]], calls'[k])
  BY MovesIs
<1>3. ASSUME NEW k \in DOMAIN calls'
      PROVE  FitsQuery(calls'[k], windows'[calls'[k].window].tabs)
  <2>1. CASE \E c \in new : Still(c, calls'[k])
    <3>1. PICK c \in new : Still(c, calls'[k])
      BY <2>1
    <3>2. FitsQuery(c, windows'[c.window].tabs)
      BY <3>1
    <3> QED
      BY <3>1, <3>2 DEF Still, FitsQuery
  <2>2. CASE f[k] \in DOMAIN calls /\ Still(calls[f[k]], calls'[k])
    <3> DEFINE c == calls[f[k]]
    <3>1. CASE c.op = "query"
      <4>1. c.window \in Windows
        BY <2>2, <3>1 DEF Typed, CallsFit, Fits, FitsKind
      <4>2. OldOrNew(windows[c.window].tabs, windows'[c.window].tabs)
        BY <4>1
      <4>3. FitsQuery(c, windows[c.window].tabs)
        BY <2>2 DEF Typed, QueriesFit
      <4>4. FitsQuery(c, windows'[c.window].tabs)
        BY <2>2, <4>2, <4>3 DEF FitsQuery, OldOrNew
      <4> QED
        BY <2>2, <4>4 DEF FitsQuery, Still
    <3>2. CASE c.op # "query"
      BY <2>2, <3>2 DEF FitsQuery, Still
    <3> QED
      BY <3>1, <3>2
  <2> QED
    BY <1>2, <2>1, <2>2
<1>4. QueriesFit'
  BY <1>3 DEF QueriesFit
<1> QED
  BY <1>1, <1>4 DEF Typed

(* Rows and triggers stay as they are.                                     *)
LEMMA RowsStay ==
  ASSUME RowsFit, UNCHANGED <<rows, triggers>>,
         snapshots' \subseteq (DOMAIN rows) \X Nat, overlapped' \subseteq DOMAIN rows
  PROVE  RowsFit' /\ Grows
<1>1. Len(rows) \in Nat /\ Len(triggers) \in Nat
  BY DEF RowsFit
<1> QED
  BY <1>1 DEF RowsFit, Grows, Grown

(* The windows keep their tabs, and show nothing that is not there.        *)
LEMMA WindowsStay ==
  ASSUME Typed, Grows, windows' \in [Windows -> WindowType],
         \A w \in Windows :
           /\ windows'[w].tabs = windows[w].tabs
           /\ windows'[w].active = windows[w].active
           /\ windows'[w].listed \subseteq DOMAIN rows
           /\ windows'[w].shown \subseteq DOMAIN triggers'
  PROVE  WindowsFit' /\ \A w \in Windows : OldOrNew(windows[w].tabs, windows'[w].tabs)
<1>1. DOMAIN rows \subseteq DOMAIN rows'
  <2>1. DOMAIN rows = 1 .. Len(rows) /\ DOMAIN rows' = 1 .. Len(rows')
        /\ Len(rows) \in Nat /\ Len(rows') \in Nat
    BY SeqFacts DEF Grows, Grown
  <2> QED
    BY <2>1 DEF Grows, Grown
<1>2. ASSUME NEW w \in Windows PROVE FitsWindow(windows'[w], rows', triggers')
  <2>1. windows[w] \in WindowType /\ FitsWindow(windows[w], rows, triggers)
    BY DEF Typed, WindowsFit
  <2>2. FitsWindow(windows[w], rows', triggers')
    BY <2>1, FitsWindowGrown DEF Grows
  <2> QED
    BY <1>1, <2>2 DEF FitsWindow
<1>3. \A w \in Windows : OldOrNew(windows[w].tabs, windows'[w].tabs)
  BY DEF OldOrNew
<1> QED
  BY <1>2, <1>3 DEF WindowsFit

LEMMA WindowsSame ==
  ASSUME Typed, Grows, UNCHANGED windows
  PROVE  WindowsFit' /\ \A w \in Windows : OldOrNew(windows[w].tabs, windows'[w].tabs)
<1>1. DOMAIN triggers \subseteq DOMAIN triggers'
  <2>1. DOMAIN triggers = 1 .. Len(triggers) /\ DOMAIN triggers' = 1 .. Len(triggers')
        /\ Len(triggers) \in Nat /\ Len(triggers') \in Nat
    BY SeqFacts DEF Grows, Grown
  <2> QED
    BY <2>1 DEF Grows, Grown
<1>2. \A w \in Windows : windows[w].listed \subseteq DOMAIN rows
                         /\ windows[w].shown \subseteq DOMAIN triggers
  BY DEF Typed, WindowsFit, FitsWindow
<1> QED
  BY <1>1, <1>2, WindowsStay DEF Typed, WindowsFit

-----------------------------------------------------------------------------
(* Records of calls.                                                       *)

LEMMA CallIs ==
  ASSUME NEW op \in {"list", "load", "save", "delete", "query"},
         NEW w \in Windows \cup {None}, NEW at \in Places,
         NEW c, c = Call(op, w, at)
  PROVE  /\ c \in CallType
         /\ c.op = op /\ c.window = w /\ c.tab = 0 /\ c.at = at /\ c.mounted
         /\ c.kind = "dashboard" /\ c.row = 0 /\ c.text = 0 /\ c.name = None
         /\ c.count = 0 /\ c.base = 0 /\ c.found = {} /\ ~c.watches
         /\ ~c.raced
<1>1. "dashboard" \in Kinds
  BY DEF Kinds
<1> QED
  BY <1>1, SMTT(30) DEF Call, CallType

LEMMA AnsweredIs ==
  ASSUME NEW c \in CallType, NEW found \in SUBSET Nat, NEW d, d = Answered(c, found)
  PROVE  /\ d \in CallType
         /\ d.op = c.op /\ d.window = c.window /\ d.tab = c.tab /\ d.at = "answer"
         /\ d.mounted = c.mounted /\ d.kind = c.kind /\ d.row = c.row
         /\ d.text = 0 /\ d.name = None /\ d.found = found /\ ~d.watches
<1>1. "answer" \in Places
  BY DEF Places
<1>2. /\ c.op \in {"list", "load", "save", "delete", "query"}
      /\ c.window \in Windows \cup {None} /\ c.tab \in Nat
      /\ c.mounted \in BOOLEAN /\ c.kind \in Kinds /\ c.row \in Nat
  BY DEF CallType
<1>3. d = [op |-> c.op, window |-> c.window, tab |-> c.tab, at |-> "answer",
           mounted |-> c.mounted, kind |-> c.kind, row |-> c.row, text |-> 0,
           name |-> None, count |-> 0, base |-> 0, found |-> found,
           watches |-> FALSE, raced |-> FALSE]
  BY ZenonT(30) DEF Answered, Call
<1> QED
  BY <1>1, <1>2, <1>3, SMTT(30) DEF CallType

LEMMA AnsweredFits ==
  ASSUME NEW c \in CallType, NEW rs \in Seq(RowType), NEW ts \in Seq(Nat),
         Fits(c, rs, ts),
         NEW found, found \subseteq DOMAIN rs \cup DOMAIN ts,
         c.op = "list" => found \subseteq DOMAIN rs,
         (c.op = "load" \/ (c.op = "save" /\ c.kind = "transform"))
           => found \subseteq DOMAIN ts,
         c.op = "query" =>
           \E q \in DOMAIN rs : found = {q} /\ rs[q].kind = "saved"
  PROVE  Answered(c, found) \in CallType /\ Fits(Answered(c, found), rs, ts)
<1>1. found \in SUBSET Nat
  BY SeqFacts
<1> DEFINE d == Answered(c, found)
<1>2. /\ d \in CallType
      /\ d.op = c.op /\ d.window = c.window /\ d.tab = c.tab /\ d.at = "answer"
      /\ d.mounted = c.mounted /\ d.kind = c.kind /\ d.row = c.row
      /\ d.text = 0 /\ d.name = None /\ d.found = found
  <2>1. d = Answered(c, found)
    OBVIOUS
  <2> HIDE DEF d
  <2> QED BY <1>1, <2>1, AnsweredIs
<1> HIDE DEF d
<1>3. FitsRow(d, rs)
  BY <1>2, WorkbenchAssumption DEF Fits, FitsRow
<1>4. FitsKind(d, rs, ts)
  BY <1>2 DEF Fits, FitsKind, IsLoad, IsQuery, IsDelete, IsSaveOfTransform,
              IsSaveOfDashboard
<1> QED
  BY <1>2, <1>3, <1>4 DEF Fits, d

LEMMA TextFits ==
  ASSUME Typed, Act
  PROVE  NewText \in Nat \ {0} /\ NewText <= MaxActs + 1 /\ acts' \in 0 .. MaxActs
BY WorkbenchAssumption DEF Typed, RestFits, Act, NewText

-----------------------------------------------------------------------------
(* Tabs.                                                                   *)

LEMMA PlaceIs ==
  ASSUME NEW tabs, NEW n, \E j \in DOMAIN tabs : tabs[j].n = n
  PROVE  Place(tabs, n) \in DOMAIN tabs /\ tabs[Place(tabs, n)].n = n
BY DEF Place

LEMMA WindowIs ==
  ASSUME Typed, NEW w \in Windows
  PROVE  /\ windows[w] \in WindowType /\ windows[w].tabs \in Seq(TabType)
         /\ FitsWindow(windows[w], rows, triggers)
         /\ windows[w].active \in Nat /\ windows[w].shown \subseteq DOMAIN triggers
         /\ windows[w].listed \subseteq DOMAIN rows
         /\ FitTabs(windows[w].tabs, rows)
         /\ HasActive(windows[w].tabs, windows[w].active)
BY DEF Typed, WindowsFit, WindowType, FitsWindow

LEMMA ActiveIs ==
  ASSUME Typed, NEW w \in Windows, windows[w].active # 0
  PROVE  /\ Active(w) \in TabType /\ FitsTab(Active(w), rows)
         /\ Active(w).n = windows[w].active
         /\ \E j \in DOMAIN windows[w].tabs : windows[w].tabs[j] = Active(w)
         /\ \A j \in DOMAIN windows[w].tabs :
              windows[w].tabs[j].n = windows[w].active => windows[w].tabs[j] = Active(w)
<1> DEFINE tabs == windows[w].tabs
           k == Place(tabs, windows[w].active)
<1>1. /\ tabs \in Seq(TabType) /\ FitTabs(tabs, rows)
      /\ HasActive(tabs, windows[w].active)
  BY WindowIs
<1>2. \E j \in DOMAIN tabs : tabs[j].n = windows[w].active
  BY <1>1 DEF HasActive
<1>3. k \in DOMAIN tabs /\ tabs[k].n = windows[w].active
  BY <1>2, PlaceIs
<1>4. Active(w) = tabs[k]
  BY DEF Active
<1> HIDE DEF k
<1>5. tabs[k] \in TabType
  BY <1>1, <1>3, SeqFacts
<1>6. \A j \in DOMAIN tabs : tabs[j].n = windows[w].active => tabs[j] = tabs[k]
  BY <1>1, <1>3 DEF FitTabs
<1>7. FitsTab(tabs[k], rows)
  BY <1>1, <1>3 DEF FitTabs
<1> QED
  BY <1>3, <1>4, <1>5, <1>6, <1>7

-----------------------------------------------------------------------------
(* A call begins.                                                          *)

LEMMA StartTyped ==
  ASSUME Typed, NEW c \in CallType, Fits(c, rows, triggers),
         FitsQuery(c, windows[c.window].tabs),
         HasRoom(calls), calls' = Append(calls, c), Act,
         UNCHANGED <<rows, snapshots, triggers, windows, overlapped, others, events>>
  PROVE  Typed'
<1>1. RowsFit' /\ Grows
  BY RowsStay DEF Typed, RowsFit
<1>2. WindowsFit' /\ \A w \in Windows : OldOrNew(windows[w].tabs, windows'[w].tabs)
  BY <1>1, WindowsSame
<1>3. RestFits'
  BY TextFits DEF Typed, RestFits
<1>4. calls \in Seq(CallType) /\ Len(calls) \in Nat /\ Len(calls) < MaxCalls
      /\ MaxCalls \in Nat
  BY WorkbenchAssumption DEF Typed, CallsFit, HasRoom
<1>5. Moves(calls, calls', 0, {c}) /\ Len(calls') = Len(calls) + 1
  BY <1>4, MovesAppend
<1>6. Len(calls') <= MaxCalls
  BY <1>4, <1>5
<1>7. \A d \in {c} : Fits(d, rows', triggers') /\ FitsQuery(d, windows'[d.window].tabs)
  OBVIOUS
<1> QED
  BY <1>1, <1>2, <1>3, <1>5, <1>6, <1>7, TypedStep

(* A new call.                                                             *)
NewCall(op, w, t, at, kind, r, x, name, found, watches) ==
  [op |-> op, window |-> w, tab |-> t, at |-> at, mounted |-> TRUE,
   kind |-> kind, row |-> r, text |-> x, name |-> name, count |-> 0,
   base |-> 0, found |-> found, watches |-> watches, raced |-> FALSE]

(* A component saves.                                                      *)
LEMMA SavesIs ==
  ASSUME Typed, NEW w \in Windows, NEW kind \in Kinds, NEW at \in Places,
         NEW name \in Nat \cup {None}, NEW watches \in BOOLEAN,
         Saves(w, kind, at, name, watches)
  PROVE  /\ Act /\ HasRoom(calls) /\ windows[w].active # 0 /\ Active(w).kind = kind
         /\ UNCHANGED <<rows, snapshots, triggers, windows, overlapped, events>>
         /\ ~IsSaving(w)
         /\ FitsTab(Active(w), rows) /\ Active(w).row \in Nat
         /\ windows[w].shown \subseteq DOMAIN triggers
         /\ \E c : /\ c \in CallType /\ calls' = Append(calls, c)
                   /\ c.op = "save" /\ c.window = w /\ c.at = at
                   /\ c.kind = kind /\ c.row = Active(w).row /\ c.text = NewText
                   /\ c.name = name /\ c.found = windows[w].shown /\ c.count = 0
                   /\ c.mounted
<1> DEFINE c == [Call("save", w, at) EXCEPT !.tab = Active(w).n, !.kind = kind,
                   !.row = Active(w).row, !.text = NewText, !.name = name,
                   !.watches = watches, !.found = windows[w].shown]
<1>1. /\ Act /\ HasRoom(calls) /\ windows[w].active # 0 /\ Active(w).kind = kind
      /\ ~IsSaving(w) /\ calls' = Append(calls, c)
      /\ UNCHANGED <<rows, snapshots, triggers, windows, overlapped, events>>
  BY DEF Saves
<1>2. /\ Active(w).n \in Nat /\ Active(w).row \in Nat
      /\ FitsTab(Active(w), rows)
  BY <1>1, ActiveIs DEF TabType
<1>3. NewText \in Nat
  BY <1>1, TextFits
<1>4. windows[w].shown \subseteq DOMAIN triggers /\ windows[w].shown \in SUBSET Nat
  <2>1. windows[w].shown \subseteq DOMAIN triggers
    BY WindowIs
  <2>2. DOMAIN triggers \subseteq Nat
    BY SeqFacts DEF Typed, RowsFit
  <2> QED BY <2>1, <2>2
<1>5. c = [Call("save", w, at) EXCEPT !.tab = Active(w).n, !.kind = kind,
             !.row = Active(w).row, !.text = NewText, !.name = name,
             !.watches = watches, !.found = windows[w].shown]
  OBVIOUS
<1> HIDE DEF c
<1>6. c = NewCall("save", w, Active(w).n, at, kind, Active(w).row, NewText, name,
                  windows[w].shown, watches)
  BY <1>5, ZenonT(30) DEF Call, NewCall
<1>7. c \in CallType
  BY <1>2, <1>3, <1>4, <1>6, SMTT(30) DEF CallType, NewCall
<1>8. /\ c.op = "save" /\ c.window = w /\ c.at = at
      /\ c.kind = kind /\ c.row = Active(w).row /\ c.text = NewText
      /\ c.name = name /\ c.found = windows[w].shown /\ c.count = 0
  BY <1>6, ZenonT(30) DEF NewCall
<1>9. c.mounted
  BY <1>6, SMTT(30) DEF NewCall
<1> QED
  BY <1>1, <1>2, <1>4, <1>7, <1>8, <1>9

LEMMA SavesTyped ==
  ASSUME Typed, NEW w \in Windows, NEW kind \in Kinds, NEW at \in Places,
         NEW name \in Nat \cup {None}, NEW watches \in BOOLEAN,
         Saves(w, kind, at, name, watches), UNCHANGED others,
         kind = "transform" => at = "put" /\ name = None,
         kind = "dashboard" => at = IF Active(w).row = 0 THEN "missing" ELSE "read",
         kind \notin {"transform", "dashboard"} => at = "write"
  PROVE  Typed'
<1>1. /\ Act /\ HasRoom(calls) /\ windows[w].active # 0 /\ Active(w).kind = kind
      /\ UNCHANGED <<rows, snapshots, triggers, windows, overlapped, events>>
      /\ FitsTab(Active(w), rows) /\ Active(w).row \in Nat
      /\ windows[w].shown \subseteq DOMAIN triggers
  BY SavesIs
<1>2. PICK c : /\ c \in CallType /\ calls' = Append(calls, c)
               /\ c.op = "save" /\ c.window = w /\ c.at = at
               /\ c.kind = kind /\ c.row = Active(w).row /\ c.text = NewText
               /\ c.name = name /\ c.found = windows[w].shown /\ c.count = 0
  BY SavesIs
<1>3. NewText <= MaxActs + 1
  BY <1>1, TextFits
<1>4. FitsRow(c, rows)
  BY <1>1, <1>2, <1>3 DEF FitsRow, FitsTab
<1>5. FitsKind(c, rows, triggers)
  BY <1>1, <1>2, WorkbenchAssumption DEF FitsKind, IsSaveOfTransform, IsSaveOfDashboard
<1>6. Fits(c, rows, triggers)
  BY <1>1, <1>2, <1>4, <1>5 DEF Fits
<1>7. FitsQuery(c, windows[c.window].tabs)
  BY <1>2 DEF FitsQuery
<1> QED
  BY <1>1, <1>2, <1>6, <1>7, StartTyped

LEMMA DeletesIs ==
  ASSUME Typed, NEW w \in Windows, NEW kind \in {"dashboard", "backend", "cred"},
         NEW at \in {"read", "write"}, Deletes(w, kind, at)
  PROVE  /\ Act /\ HasRoom(calls) /\ windows[w].active # 0 /\ Active(w).kind = kind
         /\ Active(w).row # 0 /\ Active(w).row \in Nat /\ FitsTab(Active(w), rows)
         /\ UNCHANGED <<rows, snapshots, triggers, windows, overlapped, astray, events>>
         /\ \E c : /\ c \in CallType /\ calls' = Append(calls, c)
                   /\ c.op = "delete" /\ c.window = w /\ c.at = at
                   /\ c.kind = kind /\ c.row = Active(w).row /\ c.text = 0
                   /\ c.name = None /\ c.found = {}
<1> DEFINE c == [Call("delete", w, at) EXCEPT !.tab = Active(w).n, !.kind = kind,
                                              !.row = Active(w).row]
<1>1. /\ Act /\ HasRoom(calls) /\ windows[w].active # 0 /\ Active(w).kind = kind
      /\ Active(w).row # 0 /\ calls' = Append(calls, c)
      /\ UNCHANGED <<rows, snapshots, triggers, windows, overlapped, astray, events>>
  BY DEF Deletes
<1>2. /\ Active(w).n \in Nat /\ Active(w).row \in Nat
      /\ FitsTab(Active(w), rows)
  BY <1>1, ActiveIs DEF TabType
<1>3. kind \in Kinds /\ at \in Places
  BY DEF Kinds, Places
<1>4. c = [Call("delete", w, at) EXCEPT !.tab = Active(w).n, !.kind = kind,
                                        !.row = Active(w).row]
  OBVIOUS
<1> HIDE DEF c
<1>5. c = NewCall("delete", w, Active(w).n, at, kind, Active(w).row, 0, None, {}, FALSE)
  BY <1>4, ZenonT(30) DEF Call, NewCall
<1>6. c \in CallType
  BY <1>2, <1>3, <1>5, SMTT(30) DEF CallType, NewCall
<1>7. /\ c.op = "delete" /\ c.window = w /\ c.at = at
      /\ c.kind = kind /\ c.row = Active(w).row /\ c.text = 0
      /\ c.name = None /\ c.found = {}
  BY <1>5, ZenonT(30) DEF NewCall
<1> QED
  BY <1>1, <1>2, <1>6, <1>7

LEMMA DeletesTyped ==
  ASSUME Typed, NEW w \in Windows, NEW kind \in {"dashboard", "backend", "cred"},
         NEW at \in {"read", "write"}, at = "read" <=> kind = "dashboard",
         Deletes(w, kind, at), UNCHANGED others
  PROVE  Typed'
<1>1. /\ Act /\ HasRoom(calls) /\ Active(w).kind = kind
      /\ Active(w).row # 0 /\ FitsTab(Active(w), rows)
      /\ UNCHANGED <<rows, snapshots, triggers, windows, overlapped, events>>
  BY DeletesIs
<1>2. PICK c : /\ c \in CallType /\ calls' = Append(calls, c)
               /\ c.op = "delete" /\ c.window = w /\ c.at = at
               /\ c.kind = kind /\ c.row = Active(w).row /\ c.text = 0
               /\ c.name = None /\ c.found = {}
  BY DeletesIs
<1>3. FitsRow(c, rows)
  BY <1>1, <1>2, WorkbenchAssumption DEF FitsRow, FitsTab
<1>4. FitsKind(c, rows, triggers)
  BY <1>1, <1>2 DEF FitsKind, IsDelete
<1>5. Fits(c, rows, triggers) /\ FitsQuery(c, windows[c.window].tabs)
  BY <1>2, <1>3, <1>4 DEF Fits, FitsQuery
<1> QED
  BY <1>1, <1>2, <1>5, StartTyped

LEMMA SaveQueryIs ==
  ASSUME Typed, NEW w \in Windows, SaveQuery(w)
  PROVE  /\ Act /\ HasRoom(calls) /\ windows[w].active # 0 /\ Active(w).kind = "saved"
         /\ UNCHANGED <<rows, snapshots, triggers, windows, overlapped, astray, events>>
         /\ \E c : /\ c \in CallType /\ calls' = Append(calls, c)
                   /\ c.op = "query" /\ c.window = w /\ c.at = "write"
                   /\ c.tab = windows[w].active
                   /\ c.kind = "saved" /\ c.row = 0 /\ c.text = NewText /\ c.found = {}
<1> DEFINE c == [Call("query", w, "write") EXCEPT !.tab = Active(w).n,
                   !.kind = "saved", !.text = NewText]
<1>1. /\ Act /\ HasRoom(calls) /\ windows[w].active # 0 /\ Active(w).kind = "saved"
      /\ calls' = Append(calls, c)
      /\ UNCHANGED <<rows, snapshots, triggers, windows, overlapped, astray, events>>
  BY DEF SaveQuery
<1>2. Active(w).n \in Nat /\ Active(w).n = windows[w].active
  BY <1>1, ActiveIs DEF TabType
<1>3. NewText \in Nat /\ "saved" \in Kinds /\ "write" \in Places
  BY <1>1, TextFits DEF Kinds, Places
<1>4. c = [Call("query", w, "write") EXCEPT !.tab = Active(w).n,
             !.kind = "saved", !.text = NewText]
  OBVIOUS
<1> HIDE DEF c
<1>5. c = NewCall("query", w, Active(w).n, "write", "saved", 0, NewText, None, {}, FALSE)
  BY <1>4, ZenonT(30) DEF Call, NewCall
<1>6. c \in CallType
  BY <1>2, <1>3, <1>5, SMTT(30) DEF CallType, NewCall
<1>7. /\ c.op = "query" /\ c.window = w /\ c.at = "write" /\ c.tab = Active(w).n
      /\ c.kind = "saved" /\ c.row = 0 /\ c.text = NewText /\ c.found = {}
  BY <1>5, ZenonT(30) DEF NewCall
<1> QED
  BY <1>1, <1>2, <1>6, <1>7

LEMMA SaveQueryTyped ==
  ASSUME Typed, NEW w \in Windows, SaveQuery(w), UNCHANGED others
  PROVE  Typed'
<1>1. /\ Act /\ HasRoom(calls) /\ windows[w].active # 0 /\ Active(w).kind = "saved"
      /\ UNCHANGED <<rows, snapshots, triggers, windows, overlapped, events>>
  BY SaveQueryIs
<1>2. PICK c : /\ c \in CallType /\ calls' = Append(calls, c)
               /\ c.op = "query" /\ c.window = w /\ c.at = "write"
               /\ c.tab = windows[w].active
               /\ c.kind = "saved" /\ c.row = 0 /\ c.text = NewText /\ c.found = {}
  BY SaveQueryIs
<1>3. \A j \in DOMAIN windows[w].tabs :
        windows[w].tabs[j].n = windows[w].active => windows[w].tabs[j] = Active(w)
  BY <1>1, ActiveIs
<1>4. NewText <= MaxActs + 1 /\ Len(rows) \in Nat
  BY <1>1, TextFits DEF Typed, RowsFit
<1>5. FitsRow(c, rows)
  BY <1>2, <1>4 DEF FitsRow
<1>6. FitsKind(c, rows, triggers)
  BY <1>2 DEF FitsKind, IsQuery
<1>7. Fits(c, rows, triggers) /\ FitsQuery(c, windows[c.window].tabs)
  BY <1>1, <1>2, <1>3, <1>5, <1>6 DEF Fits, FitsQuery
<1> QED
  BY <1>1, <1>2, <1>7, StartTyped

(* An agent or a panel begins a save or a deletion.                        *)
LEMMA SubmitIs ==
  ASSUME Typed, NEW name \in {0, 1}, Submit(name)
  PROVE  /\ Act /\ HasRoom(calls)
         /\ UNCHANGED <<rows, snapshots, triggers, windows, overlapped, astray, events>>
         /\ \E c : /\ c \in CallType /\ calls' = Append(calls, c)
                   /\ c.op = "save" /\ c.at = IF name = 0 THEN "write" ELSE "slug"
                   /\ c.kind = "dashboard" /\ c.row = 0 /\ c.text = NewText
                   /\ c.name = name /\ c.count = 0 /\ c.found = {}
<1> DEFINE at == IF name = 0 THEN "write" ELSE "slug"
           c == [Call("save", None, at) EXCEPT !.text = NewText, !.name = name]
<1>1. /\ Act /\ HasRoom(calls) /\ calls' = Append(calls, c)
      /\ UNCHANGED <<rows, snapshots, triggers, windows, overlapped, astray, events>>
  BY DEF Submit
<1>2. NewText \in Nat
  BY <1>1, TextFits
<1>3. c = [Call("save", None, at) EXCEPT !.text = NewText, !.name = name]
  OBVIOUS
<1>4. at \in Places /\ "dashboard" \in Kinds
  BY DEF Places, Kinds
<1>5. at = IF name = 0 THEN "write" ELSE "slug"
  OBVIOUS
<1> HIDE DEF c, at
<1>6. c = NewCall("save", None, 0, at, "dashboard", 0, NewText, name, {}, FALSE)
  BY <1>3, ZenonT(30) DEF Call, NewCall
<1>7. c \in CallType
  BY <1>2, <1>4, <1>6, SMTT(30) DEF CallType, NewCall
<1>8. /\ c.op = "save" /\ c.at = at /\ c.kind = "dashboard" /\ c.row = 0
      /\ c.text = NewText /\ c.name = name /\ c.count = 0 /\ c.found = {}
  BY <1>6, ZenonT(30) DEF NewCall
<1> QED
  BY <1>1, <1>5, <1>7, <1>8

LEMMA SubmitTyped ==
  ASSUME Typed, NEW name \in {0, 1}, Submit(name), UNCHANGED others
  PROVE  Typed'
<1>1. /\ Act /\ HasRoom(calls)
      /\ UNCHANGED <<rows, snapshots, triggers, windows, overlapped, events>>
  BY SubmitIs
<1>2. PICK c : /\ c \in CallType /\ calls' = Append(calls, c)
               /\ c.op = "save" /\ c.at = IF name = 0 THEN "write" ELSE "slug"
               /\ c.kind = "dashboard" /\ c.row = 0 /\ c.text = NewText
               /\ c.name = name /\ c.count = 0 /\ c.found = {}
  BY SubmitIs
<1>3. NewText \in Nat /\ NewText <= MaxActs + 1 /\ Len(rows) \in Nat
  BY <1>1, TextFits DEF Typed, RowsFit
<1>4. FitsRow(c, rows)
  BY <1>2, <1>3 DEF FitsRow
<1>5. c.at \in {"write", "slug"} /\ (c.at = "slug" => c.name = 1)
  BY <1>2
<1>6. FitsKind(c, rows, triggers)
  BY <1>2, <1>5, WorkbenchAssumption DEF FitsKind, IsSaveOfDashboard
<1>7. Fits(c, rows, triggers) /\ FitsQuery(c, windows[c.window].tabs)
  BY <1>2, <1>4, <1>6 DEF Fits, FitsQuery
<1> QED
  BY <1>1, <1>2, <1>7, StartTyped

(* What update_dashboard asks for: the row is read first.                  *)
IsUpdate(c, r, text) ==
  /\ c \in CallType /\ calls' = Append(calls, c)
  /\ c.op = "save" /\ c.at = "read" /\ c.kind = "dashboard"
  /\ c.row = r /\ c.text = text /\ c.found = {} /\ c.count = 0

LEMMA UpdateIs ==
  ASSUME Typed, NEW r \in DOMAIN rows, NEW text, text \in {0, NewText},
         NEW name \in Nat \cup {None}, Update(r, text, name)
  PROVE  /\ Act /\ HasRoom(calls)
         /\ UNCHANGED <<rows, snapshots, triggers, windows, overlapped, astray, events>>
         /\ \E c : IsUpdate(c, r, text)
<1> DEFINE c == [Call("save", None, "read") EXCEPT !.row = r, !.text = text, !.name = name]
<1>1. /\ Act /\ HasRoom(calls) /\ calls' = Append(calls, c)
      /\ UNCHANGED <<rows, snapshots, triggers, windows, overlapped, astray, events>>
  BY DEF Update
<1>2. text \in Nat
  BY <1>1, TextFits
<1>3. c = [Call("save", None, "read") EXCEPT !.row = r, !.text = text, !.name = name]
  OBVIOUS
<1>4. "read" \in Places /\ "dashboard" \in Kinds
  BY DEF Places, Kinds
<1>5. r \in 1 .. Len(rows) /\ Len(rows) \in Nat
  BY DEF Typed, RowsFit
<1> HIDE DEF c
<1>6. c = NewCall("save", None, 0, "read", "dashboard", r, text, name, {}, FALSE)
  BY <1>3, ZenonT(30) DEF Call, NewCall
<1>7. c \in CallType
  BY <1>2, <1>4, <1>5, <1>6, SMTT(30) DEF CallType, NewCall
<1>8. /\ c.op = "save" /\ c.at = "read" /\ c.kind = "dashboard" /\ c.row = r
      /\ c.text = text /\ c.found = {} /\ c.count = 0
  BY <1>6, ZenonT(30) DEF NewCall
<1>9. IsUpdate(c, r, text)
  BY <1>1, <1>7, <1>8 DEF IsUpdate
<1> QED
  BY <1>1, <1>9

LEMMA UpdateTyped ==
  ASSUME Typed, NEW r \in DOMAIN rows, rows[r].kind = "dashboard",
         NEW text, text \in {0, NewText}, NEW name \in Nat \cup {None},
         Update(r, text, name), UNCHANGED others
  PROVE  Typed'
<1>1. /\ Act /\ HasRoom(calls)
      /\ UNCHANGED <<rows, snapshots, triggers, windows, overlapped, events>>
  BY UpdateIs
<1>2. PICK c : IsUpdate(c, r, text)
  BY UpdateIs
<1>3. /\ c \in CallType /\ calls' = Append(calls, c)
      /\ c.op = "save" /\ c.at = "read" /\ c.kind = "dashboard"
      /\ c.row = r /\ c.text = text /\ c.found = {} /\ c.count = 0
  BY <1>2 DEF IsUpdate
<1>4. text \in Nat /\ text <= MaxActs + 1
  BY <1>1, TextFits, WorkbenchAssumption
<1>5. r \in 1 .. Len(rows) /\ Len(rows) \in Nat
  BY DEF Typed, RowsFit
<1>6. FitsRow(c, rows)
  BY <1>3, <1>4, <1>5 DEF FitsRow
<1>7. FitsKind(c, rows, triggers)
  BY <1>3, <1>5, WorkbenchAssumption DEF FitsKind, IsSaveOfDashboard
<1>8. Fits(c, rows, triggers) /\ FitsQuery(c, windows[c.window].tabs)
  BY <1>3, <1>6, <1>7 DEF Fits, FitsQuery
<1> QED
  BY <1>1, <1>3, <1>8, StartTyped

LEMMA SubmitTransformIs ==
  ASSUME Typed, NEW r \in {0} \cup DOMAIN rows, NEW watches \in BOOLEAN,
         SubmitTransform(r, watches)
  PROVE  /\ Act /\ HasRoom(calls)
         /\ UNCHANGED <<rows, snapshots, triggers, windows, overlapped, astray, events>>
         /\ \E c : /\ c \in CallType /\ calls' = Append(calls, c)
                   /\ c.op = "save" /\ c.window = None /\ c.at = "put"
                   /\ c.kind = "transform" /\ c.row = r /\ c.text = NewText
                   /\ c.name = None /\ c.found = {}
                   /\ c.watches => r = 0
<1> DEFINE b == watches /\ r = 0
           c == [Call("save", None, "put") EXCEPT !.kind = "transform", !.row = r,
                   !.text = NewText, !.watches = b]
<1>1. /\ Act /\ HasRoom(calls) /\ calls' = Append(calls, c)
      /\ UNCHANGED <<rows, snapshots, triggers, windows, overlapped, astray, events>>
  BY DEF SubmitTransform
<1>2. NewText \in Nat /\ b \in BOOLEAN
  BY <1>1, TextFits
<1>3. c = [Call("save", None, "put") EXCEPT !.kind = "transform", !.row = r,
             !.text = NewText, !.watches = b]
  OBVIOUS
<1>4. "put" \in Places /\ "transform" \in Kinds
  BY DEF Places, Kinds
<1>5. r \in 0 .. Len(rows) /\ Len(rows) \in Nat
  BY DEF Typed, RowsFit
<1>6. b => r = 0
  OBVIOUS
<1> HIDE DEF c, b
<1>7. c = NewCall("save", None, 0, "put", "transform", r, NewText, None, {}, b)
  BY <1>3, ZenonT(30) DEF Call, NewCall
<1>8. c \in CallType
  BY <1>2, <1>4, <1>5, <1>7, SMTT(30) DEF CallType, NewCall
<1>9. /\ c.op = "save" /\ c.window = None /\ c.at = "put" /\ c.kind = "transform"
      /\ c.row = r /\ c.text = NewText /\ c.name = None /\ c.found = {}
  BY <1>7, ZenonT(30) DEF NewCall
<1>10. c.watches => r = 0
  BY <1>6, <1>7, ZenonT(30) DEF NewCall
<1> QED
  BY <1>1, <1>8, <1>9, <1>10

LEMMA SubmitTransformTyped ==
  ASSUME Typed, NEW r \in {0} \cup DOMAIN rows, r # 0 => rows[r].kind = "transform",
         NEW watches \in BOOLEAN, SubmitTransform(r, watches), UNCHANGED others
  PROVE  Typed'
<1>1. /\ Act /\ HasRoom(calls)
      /\ UNCHANGED <<rows, snapshots, triggers, windows, overlapped, events>>
  BY SubmitTransformIs
<1>2. PICK c : /\ c \in CallType /\ calls' = Append(calls, c)
               /\ c.op = "save" /\ c.window = None /\ c.at = "put"
               /\ c.kind = "transform" /\ c.row = r /\ c.text = NewText
               /\ c.name = None /\ c.found = {}
  BY SubmitTransformIs
<1>3. NewText \in Nat /\ NewText <= MaxActs + 1
  BY <1>1, TextFits
<1>4. r \in 0 .. Len(rows) /\ Len(rows) \in Nat
  BY DEF Typed, RowsFit
<1>5. FitsRow(c, rows)
  BY <1>2, <1>3, <1>4 DEF FitsRow
<1>6. FitsKind(c, rows, triggers)
  BY <1>2 DEF FitsKind, IsSaveOfTransform
<1>7. Fits(c, rows, triggers) /\ FitsQuery(c, windows[c.window].tabs)
  BY <1>2, <1>5, <1>6 DEF Fits, FitsQuery
<1> QED
  BY <1>1, <1>2, <1>7, StartTyped

LEMMA RemoveDashboardIs ==
  ASSUME Typed, NEW r \in DOMAIN rows, RemoveDashboard(r)
  PROVE  /\ Act /\ HasRoom(calls)
         /\ UNCHANGED <<rows, snapshots, triggers, windows, overlapped, astray, events>>
         /\ \E c : /\ c \in CallType /\ calls' = Append(calls, c)
                   /\ c.op = "delete" /\ c.at = "read" /\ c.kind = "dashboard"
                   /\ c.row = r /\ c.text = 0 /\ c.name = None /\ c.found = {}
<1> DEFINE c == [Call("delete", None, "read") EXCEPT !.row = r]
<1>1. /\ Act /\ HasRoom(calls) /\ calls' = Append(calls, c)
      /\ UNCHANGED <<rows, snapshots, triggers, windows, overlapped, astray, events>>
  BY DEF RemoveDashboard
<1>2. c = [Call("delete", None, "read") EXCEPT !.row = r]
  OBVIOUS
<1>3. "read" \in Places /\ "dashboard" \in Kinds
  BY DEF Places, Kinds
<1>4. r \in 1 .. Len(rows) /\ Len(rows) \in Nat
  BY DEF Typed, RowsFit
<1> HIDE DEF c
<1>5. c = NewCall("delete", None, 0, "read", "dashboard", r, 0, None, {}, FALSE)
  BY <1>2, ZenonT(30) DEF Call, NewCall
<1>6. c \in CallType
  BY <1>3, <1>4, <1>5, SMTT(30) DEF CallType, NewCall
<1>7. /\ c.op = "delete" /\ c.at = "read" /\ c.kind = "dashboard" /\ c.row = r
      /\ c.text = 0 /\ c.name = None /\ c.found = {}
  BY <1>5, ZenonT(30) DEF NewCall
<1> QED
  BY <1>1, <1>6, <1>7

LEMMA RemoveDashboardTyped ==
  ASSUME Typed, NEW r \in DOMAIN rows, rows[r].kind = "dashboard",
         RemoveDashboard(r), UNCHANGED others
  PROVE  Typed'
<1>1. /\ Act /\ HasRoom(calls)
      /\ UNCHANGED <<rows, snapshots, triggers, windows, overlapped, events>>
  BY RemoveDashboardIs
<1>2. PICK c : /\ c \in CallType /\ calls' = Append(calls, c)
               /\ c.op = "delete" /\ c.at = "read" /\ c.kind = "dashboard"
               /\ c.row = r /\ c.text = 0 /\ c.name = None /\ c.found = {}
  BY RemoveDashboardIs
<1>3. r \in 1 .. Len(rows) /\ Len(rows) \in Nat
  BY DEF Typed, RowsFit
<1>4. FitsRow(c, rows)
  BY <1>2, <1>3, WorkbenchAssumption DEF FitsRow
<1>5. FitsKind(c, rows, triggers)
  BY <1>2, <1>3 DEF FitsKind, IsDelete
<1>6. Fits(c, rows, triggers) /\ FitsQuery(c, windows[c.window].tabs)
  BY <1>2, <1>4, <1>5 DEF Fits, FitsQuery
<1> QED
  BY <1>1, <1>2, <1>6, StartTyped

-----------------------------------------------------------------------------
(* One request that changes the rows or the triggers.                      *)

LEMMA RequestTyped ==
  ASSUME Typed, RowsFit', Grows, Act, UNCHANGED <<windows, calls, others, events>>
  PROVE  Typed'
<1>1. WindowsFit' /\ \A w \in Windows : OldOrNew(windows[w].tabs, windows'[w].tabs)
  BY WindowsSame
<1>2. RestFits'
  BY TextFits DEF Typed, RestFits
<1>3. Moves(calls, calls', 0, {}) /\ Len(calls') <= MaxCalls
  BY MovesStay DEF Typed, CallsFit
<1> QED
  BY <1>1, <1>2, <1>3, TypedStep

(* A new row at the end.                                                   *)
LEMMA RowAppended ==
  ASSUME RowsFit, NEW row \in RowType, row.text \in row.past,
         rows' = Append(rows, row), UNCHANGED <<snapshots, triggers, overlapped>>
  PROVE  RowsFit' /\ Grows
<1>1. /\ rows \in Seq(RowType) /\ Len(rows) \in Nat /\ triggers \in Seq(Nat)
      /\ Len(triggers) \in Nat /\ DOMAIN rows = 1 .. Len(rows)
  BY DEF RowsFit
<1>2. /\ rows' \in Seq(RowType) /\ Len(rows') = Len(rows) + 1
      /\ DOMAIN rows' = 1 .. Len(rows) + 1
      /\ \A r \in 1 .. Len(rows) : rows'[r] = rows[r]
      /\ rows'[Len(rows) + 1] = row
  BY <1>1, AppendIs
<1>3. \A r \in DOMAIN rows' : r \in DOMAIN rows \/ r = Len(rows) + 1
  BY <1>1, <1>2
<1>4. Grows
  BY <1>1, <1>2 DEF Grows, Grown
<1>5. \A r \in DOMAIN rows' : rows'[r].text \in rows'[r].past
  BY <1>1, <1>2, <1>3 DEF RowsFit
<1>6. \A g \in DOMAIN triggers : triggers[g] <= Len(rows')
  BY <1>1, <1>2, SeqFacts DEF RowsFit
<1>7. DOMAIN rows \subseteq DOMAIN rows'
  BY <1>1, <1>2
<1> QED
  BY <1>1, <1>2, <1>4, <1>5, <1>6, <1>7 DEF RowsFit

(* A row becomes another one of its kind.                                  *)
LEMMA RowReplaced ==
  ASSUME RowsFit, NEW r \in DOMAIN rows, NEW row \in RowType, row.text \in row.past,
         row.kind = rows[r].kind,
         rows' = [rows EXCEPT ![r] = row],
         UNCHANGED triggers, snapshots' \subseteq (DOMAIN rows) \X Nat,
         UNCHANGED overlapped
  PROVE  RowsFit' /\ Grows
<1>1. /\ rows \in Seq(RowType) /\ Len(rows) \in Nat /\ triggers \in Seq(Nat)
      /\ Len(triggers) \in Nat
  BY DEF RowsFit
<1>2. /\ rows' \in Seq(RowType) /\ Len(rows') = Len(rows) /\ DOMAIN rows' = DOMAIN rows
      /\ \A s \in DOMAIN rows : rows'[s] = IF s = r THEN row ELSE rows[s]
  BY <1>1, ExceptIs
<1>3. Grows
  BY <1>1, <1>2 DEF Grows, Grown
<1>4. \A s \in DOMAIN rows' : rows'[s].text \in rows'[s].past
  BY <1>2 DEF RowsFit
<1> QED
  BY <1>1, <1>2, <1>3, <1>4 DEF RowsFit

LEMMA InsertTyped ==
  ASSUME Typed, NEW kind \in Kinds, NEW name \in Nat, Insert(kind, name),
         UNCHANGED others
  PROVE  Typed'
<1> DEFINE row == Row(kind, name, NewText)
<1>1. /\ Act /\ rows' = Append(rows, row)
      /\ UNCHANGED <<snapshots, triggers, windows, calls, overlapped, events>>
  BY DEF Insert
<1>2. NewText \in Nat
  BY <1>1, TextFits
<1>3. row \in RowType /\ row.text \in row.past
  BY <1>2, SMTT(30) DEF Row, RowType
<1> HIDE DEF row
<1>4. RowsFit' /\ Grows
  BY <1>1, <1>3, RowAppended DEF Typed
<1> QED
  BY <1>1, <1>4, RequestTyped

(* What a row becomes that is gone, and one that is written over.          *)
Gone(row) == [row EXCEPT !.live = FALSE]
Rewritten(row, name, text) ==
  [row EXCEPT !.name = name, !.text = text, !.past = @ \cup {text}]

LEMMA GoneIs ==
  ASSUME NEW row \in RowType
  PROVE  /\ Gone(row) \in RowType
         /\ Gone(row).kind = row.kind /\ Gone(row).name = row.name
         /\ Gone(row).text = row.text /\ Gone(row).past = row.past
         /\ ~Gone(row).live
<1>1. Gone(row) \in RowType
  BY DEF Gone, RowType
<1> QED
  BY <1>1 DEF Gone, RowType

LEMMA RewrittenHas ==
  ASSUME NEW row \in RowType, NEW name \in Nat, NEW text \in Nat
  PROVE  /\ Rewritten(row, name, text) \in RowType
         /\ Rewritten(row, name, text).kind = row.kind
         /\ Rewritten(row, name, text).name = name
         /\ Rewritten(row, name, text).text = text
         /\ Rewritten(row, name, text).past = row.past \cup {text}
         /\ Rewritten(row, name, text).live = row.live
<1> DEFINE a == [row EXCEPT !.name = name]
           b == [a EXCEPT !.text = text]
           c == [b EXCEPT !.past = row.past \cup {text}]
<1>1. /\ a \in RowType /\ a.kind = row.kind /\ a.name = name /\ a.past = row.past
      /\ a.live = row.live
  BY DEF RowType
<1>2. Rewritten(row, name, text) = c
  BY <1>1 DEF Rewritten
<1> HIDE DEF a
<1>3. /\ b \in RowType /\ b.kind = row.kind /\ b.name = name /\ b.past = row.past
      /\ b.live = row.live /\ b.text = text
  BY <1>1 DEF RowType
<1> HIDE DEF b
<1>4. row.past \cup {text} \in SUBSET Nat
  BY DEF RowType
<1>5. /\ c \in RowType /\ c.kind = row.kind /\ c.name = name
      /\ c.past = row.past \cup {text} /\ c.live = row.live /\ c.text = text
  BY <1>3, <1>4 DEF RowType
<1> HIDE DEF c
<1> QED
  BY <1>2, <1>5

LEMMA RewrittenIs ==
  ASSUME NEW row \in RowType, NEW name \in Nat, NEW text \in Nat,
         NEW row2, row2 = Rewritten(row, name, text)
  PROVE  /\ row2 \in RowType
         /\ row2.kind = row.kind /\ row2.name = name /\ row2.text = text
         /\ row2.past = row.past \cup {text} /\ row2.live = row.live
BY RewrittenHas

LEMMA RowIs ==
  ASSUME RowsFit, NEW r \in DOMAIN rows
  PROVE  /\ rows[r] \in RowType /\ rows[r].text \in rows[r].past
         /\ rows[r].kind \in Kinds /\ rows[r].name \in Nat /\ rows[r].text \in Nat
         /\ r \in 1 .. Len(rows) /\ Len(rows) \in Nat
<1>1. rows[r] \in RowType
  BY SeqFacts DEF RowsFit
<1> QED
  BY <1>1 DEF RowsFit, RowType

LEMMA ChangeTyped ==
  ASSUME Typed, NEW r \in DOMAIN rows, NEW name \in Nat, Change(r, name), UNCHANGED others
  PROVE  Typed'
<1>1. PICK old, x, row : old = rows[r] /\ x = NewText /\ row = Rewritten(old, name, x)
  OBVIOUS
<1>2. /\ Act /\ rows' = [rows EXCEPT ![r] = row]
      /\ UNCHANGED <<snapshots, triggers, windows, calls, overlapped, events>>
  BY <1>1 DEF Change, Rewritten
<1>3. x \in Nat
  BY <1>1, <1>2, TextFits
<1>4. row \in RowType /\ row.kind = rows[r].kind /\ row.text \in row.past
  <2>1. old \in RowType
    BY <1>1, RowIs DEF Typed
  <2>2. row = Rewritten(old, name, x)
    BY <1>1
  <2>3. row \in RowType
    BY <1>3, <2>1, <2>2, RewrittenHas
  <2>4. row.kind = old.kind
    BY <1>3, <2>1, <2>2, RewrittenHas
  <2>5. row.text = x /\ row.past = old.past \cup {x}
    BY <1>3, <2>1, <2>2, RewrittenHas
  <2> QED
    BY <1>1, <2>3, <2>4, <2>5
<1>5. RowsFit' /\ Grows
  BY <1>2, <1>4, RowReplaced DEF Typed, RowsFit
<1> QED
  BY <1>2, <1>5, RequestTyped

LEMMA DropTyped ==
  ASSUME Typed, NEW r \in DOMAIN rows, Drop(r), UNCHANGED others
  PROVE  Typed'
<1> DEFINE row == Gone(rows[r])
<1>1. /\ Act /\ rows' = [rows EXCEPT ![r] = row]
      /\ UNCHANGED <<snapshots, triggers, windows, calls, overlapped, events>>
  BY DEF Drop, Gone
<1>2. row \in RowType /\ row.kind = rows[r].kind /\ row.text \in row.past
  BY RowIs, GoneIs DEF Typed
<1> HIDE DEF row
<1>3. RowsFit' /\ Grows
  BY <1>1, <1>2, RowReplaced DEF Typed, RowsFit
<1> QED
  BY <1>1, <1>3, RequestTyped

(* Triggers are appended, or are deleted where they are.                   *)
LEMMA TriggersChange ==
  ASSUME RowsFit, UNCHANGED <<rows, snapshots, overlapped>>,
         triggers' \in Seq(Nat), Len(triggers) <= Len(triggers'),
         \A g \in DOMAIN triggers' : triggers'[g] <= Len(rows)
  PROVE  RowsFit' /\ Grows
<1>1. Len(rows) \in Nat
  BY DEF RowsFit
<1> QED
  BY <1>1 DEF RowsFit, Grows, Grown

LEMMA TriggerAppended ==
  ASSUME RowsFit, UNCHANGED <<rows, snapshots, overlapped>>,
         NEW r \in DOMAIN rows, triggers' = Append(triggers, r)
  PROVE  /\ RowsFit' /\ Grows /\ Len(triggers') = Len(triggers) + 1
         /\ DOMAIN triggers' = 1 .. Len(triggers) + 1
         /\ \A g \in DOMAIN triggers : triggers'[g] = triggers[g]
         /\ triggers'[Len(triggers) + 1] = r
<1>1. /\ triggers \in Seq(Nat) /\ DOMAIN triggers = 1 .. Len(triggers)
      /\ Len(triggers) \in Nat /\ r \in 1 .. Len(rows) /\ Len(rows) \in Nat
  BY RowIs DEF RowsFit
<1>2. /\ triggers' \in Seq(Nat) /\ Len(triggers') = Len(triggers) + 1
      /\ DOMAIN triggers' = 1 .. Len(triggers) + 1
      /\ \A g \in 1 .. Len(triggers) : triggers'[g] = triggers[g]
      /\ triggers'[Len(triggers) + 1] = r
  BY <1>1, AppendIs
<1>3. \A g \in DOMAIN triggers' : g \in DOMAIN triggers \/ g = Len(triggers) + 1
  BY <1>1, <1>2
<1>4. \A g \in DOMAIN triggers' : triggers'[g] <= Len(rows)
  BY <1>1, <1>2, <1>3 DEF RowsFit
<1>5. Len(triggers) <= Len(triggers')
  BY <1>1, <1>2
<1>6. RowsFit' /\ Grows
  BY <1>2, <1>4, <1>5, TriggersChange
<1> QED
  BY <1>1, <1>2, <1>6

LEMMA TriggersDropped ==
  ASSUME RowsFit, UNCHANGED <<rows, snapshots, overlapped>>,
         triggers' = [g \in DOMAIN triggers |-> triggers'[g]],
         \A g \in DOMAIN triggers : triggers'[g] \in {0, triggers[g]}
  PROVE  RowsFit' /\ Grows /\ DOMAIN triggers' = DOMAIN triggers
<1>1. /\ triggers \in Seq(Nat) /\ DOMAIN triggers = 1 .. Len(triggers)
      /\ Len(triggers) \in Nat /\ Len(rows) \in Nat
      /\ \A g \in DOMAIN triggers : triggers[g] \in Nat
  BY SeqFacts DEF RowsFit
<1>2. DOMAIN triggers' = DOMAIN triggers /\ \A g \in DOMAIN triggers : triggers'[g] \in Nat
  BY <1>1
<1>3. triggers' \in Seq(Nat) /\ Len(triggers') = Len(triggers)
  BY <1>1, <1>2, SeqBy
<1>4. \A g \in DOMAIN triggers' : triggers'[g] <= Len(rows)
  BY <1>1, <1>2 DEF RowsFit
<1>5. RowsFit' /\ Grows
  BY <1>1, <1>3, <1>4, TriggersChange
<1> QED
  BY <1>2, <1>5

LEMMA CreateTriggerTyped ==
  ASSUME Typed, NEW r \in DOMAIN rows, CreateTrigger(r), UNCHANGED others
  PROVE  Typed'
<1>1. /\ Act /\ triggers' = Append(triggers, r)
      /\ UNCHANGED <<rows, snapshots, windows, calls, overlapped, events>>
  BY DEF CreateTrigger
<1>2. RowsFit' /\ Grows
  BY <1>1, TriggerAppended DEF Typed
<1> QED
  BY <1>1, <1>2, RequestTyped

LEMMA DeleteTriggerTyped ==
  ASSUME Typed, NEW g \in DOMAIN triggers, DeleteTrigger(g), UNCHANGED others
  PROVE  Typed'
<1>1. /\ Act /\ triggers' = [triggers EXCEPT ![g] = 0]
      /\ UNCHANGED <<rows, snapshots, windows, calls, overlapped, events>>
  BY DEF DeleteTrigger
<1>2. /\ triggers' = [h \in DOMAIN triggers |-> triggers'[h]]
      /\ \A h \in DOMAIN triggers : triggers'[h] \in {0, triggers[h]}
  BY <1>1
<1>3. RowsFit' /\ Grows
  BY <1>1, <1>2, TriggersDropped DEF Typed
<1> QED
  BY <1>1, <1>3, RequestTyped

LEMMA DeleteJobTyped ==
  ASSUME Typed, NEW r \in DOMAIN rows, DeleteJob(r), UNCHANGED others
  PROVE  Typed'
<1> DEFINE row == Gone(rows[r])
<1>1. /\ Act /\ rows' = [rows EXCEPT ![r] = row]
      /\ triggers' = [g \in DOMAIN triggers |-> IF triggers[g] = r THEN 0 ELSE triggers[g]]
      /\ UNCHANGED <<snapshots, windows, calls, overlapped, events>>
  BY DEF DeleteJob, Gone
<1>2. row \in RowType /\ row.kind = rows[r].kind /\ row.text \in row.past
  BY RowIs, GoneIs DEF Typed
<1> HIDE DEF row
<1>3. /\ rows \in Seq(RowType) /\ Len(rows) \in Nat /\ triggers \in Seq(Nat)
      /\ DOMAIN triggers = 1 .. Len(triggers) /\ Len(triggers) \in Nat
      /\ \A g \in DOMAIN triggers : triggers[g] \in Nat
  BY SeqFacts DEF Typed, RowsFit
<1>4. /\ rows' \in Seq(RowType) /\ Len(rows') = Len(rows) /\ DOMAIN rows' = DOMAIN rows
      /\ \A s \in DOMAIN rows : rows'[s] = IF s = r THEN row ELSE rows[s]
  BY <1>1, <1>2, <1>3, ExceptIs
<1>5. /\ DOMAIN triggers' = DOMAIN triggers
      /\ \A g \in DOMAIN triggers : triggers'[g] \in {0, triggers[g]}
      /\ triggers' = [g \in DOMAIN triggers |-> triggers'[g]]
  BY <1>1
<1>6. triggers' \in Seq(Nat) /\ Len(triggers') = Len(triggers)
  <2>1. \A g \in DOMAIN triggers : triggers'[g] \in Nat
    BY <1>3, <1>5
  <2> HIDE DEF row
  <2> QED
    BY <1>3, <1>5, <2>1, SeqBy
<1>7. Grows
  <2>1. \A s \in DOMAIN rows : rows'[s].kind = rows[s].kind
    BY <1>2, <1>4
  <2> QED
    BY <1>3, <1>4, <1>6, <2>1 DEF Grows, Grown
<1>8. \A g \in DOMAIN triggers' : triggers'[g] <= Len(rows')
  BY <1>3, <1>4, <1>5 DEF Typed, RowsFit
<1>9. \A s \in DOMAIN rows' : rows'[s].text \in rows'[s].past
  BY <1>2, <1>4 DEF Typed, RowsFit
<1>10. RowsFit'
  BY <1>1, <1>4, <1>6, <1>8, <1>9 DEF Typed, RowsFit
<1> QED
  BY <1>1, <1>7, <1>10, RequestTyped

-----------------------------------------------------------------------------
(* A call acts.                                                            *)

LEMMA CallAt ==
  ASSUME CallsFit, NEW i \in DOMAIN calls
  PROVE  /\ calls[i] \in CallType /\ Fits(calls[i], rows, triggers)
         /\ FitsRow(calls[i], rows) /\ FitsKind(calls[i], rows, triggers)
         /\ calls[i].row \in Nat /\ calls[i].text \in Nat /\ calls[i].base \in Nat
         /\ calls[i].kind \in Kinds /\ calls[i].name \in Nat \cup {None}
<1>1. calls[i] \in CallType /\ Fits(calls[i], rows, triggers)
  BY SeqFacts DEF CallsFit
<1> QED
  BY <1>1 DEF CallType, Fits

LEMMA ActTyped ==
  ASSUME Typed, RowsFit', Grows, NEW i \in DOMAIN calls, NEW c \in CallType,
         c.op = calls[i].op, c.window = calls[i].window, c.tab = calls[i].tab,
         Fits(c, rows', triggers'), UNCHANGED windows, RestFits',
         \/ calls' = [calls EXCEPT ![i] = c]
         \/ calls' = [Raced(calls, i) EXCEPT ![i] = c]
  PROVE  Typed'
<1>1. WindowsFit' /\ \A w \in Windows : OldOrNew(windows[w].tabs, windows'[w].tabs)
  BY WindowsSame
<1>2. calls \in Seq(CallType) /\ Len(calls) <= MaxCalls
  BY DEF Typed, CallsFit
<1>3. Moves(calls, calls', i, {c}) /\ Len(calls') = Len(calls)
  <2>1. CASE calls' = [calls EXCEPT ![i] = c]
    BY <1>2, <2>1, MovesAt, ExceptIs
  <2>2. CASE calls' = [Raced(calls, i) EXCEPT ![i] = c]
    BY <1>2, <2>2, RacedIs
  <2> QED
    BY <2>1, <2>2
<1>4. FitsQuery(c, windows'[c.window].tabs)
  BY DEF Typed, QueriesFit, FitsQuery
<1> QED
  BY <1>1, <1>2, <1>3, <1>4, TypedStep

LEMMA EndTyped ==
  ASSUME Typed, RowsFit', Grows, NEW i \in DOMAIN calls, End(i), RestFits',
         WindowsFit', \A w \in Windows : OldOrNew(windows[w].tabs, windows'[w].tabs)
  PROVE  Typed'
<1>1. calls \in Seq(CallType) /\ Len(calls) <= MaxCalls /\ Len(calls) \in Nat
  BY DEF Typed, CallsFit
<1>2. calls' = RemoveAt(calls, i)
  BY DEF End, Without
<1>3. Moves(calls, calls', i, {}) /\ Len(calls') = Len(calls) - 1
  BY <1>1, <1>2, MovesOut
<1>4. Len(calls') <= MaxCalls
  BY <1>1, <1>3, WorkbenchAssumption
<1> QED
  BY <1>3, <1>4, TypedStep

LEMMA RestStays ==
  ASSUME Typed, UNCHANGED <<others, acts, events>>
  PROVE  RestFits'
BY DEF Typed, RestFits

LEMMA AllStays ==
  ASSUME Typed, UNCHANGED <<rows, snapshots, triggers, overlapped>>
  PROVE  RowsFit' /\ Grows
BY RowsStay DEF Typed, RowsFit

(* A call is answered, and nothing but its record changes.                 *)
LEMMA AnswerTyped ==
  ASSUME Typed, NEW i \in DOMAIN calls, NEW found,
         calls' = [calls EXCEPT ![i] = Answered(@, found)],
         found \subseteq DOMAIN rows \cup DOMAIN triggers,
         calls[i].op = "list" => found \subseteq DOMAIN rows,
         (calls[i].op = "load" \/ (calls[i].op = "save" /\ calls[i].kind = "transform"))
           => found \subseteq DOMAIN triggers,
         calls[i].op # "query",
         UNCHANGED <<rows, snapshots, triggers, windows, overlapped, others, acts,
                     events>>
  PROVE  Typed'
<1> DEFINE c == calls[i]
           d == Answered(c, found)
<1>1. RowsFit' /\ Grows /\ RestFits'
  BY AllStays, RestStays
<1>2. c \in CallType /\ Fits(c, rows, triggers) /\ rows \in Seq(RowType)
      /\ triggers \in Seq(Nat)
  BY CallAt DEF Typed, RowsFit
<1>3. d \in CallType /\ Fits(d, rows, triggers)
  BY <1>2, AnsweredFits
<1>4. found \in SUBSET Nat
  BY <1>2, SeqFacts
<1>5. d.op = c.op /\ d.window = c.window /\ d.tab = c.tab
  BY <1>2, <1>4, AnsweredIs
<1>6. calls' = [calls EXCEPT ![i] = d] /\ Fits(d, rows', triggers')
  BY <1>3
<1> HIDE DEF d
<1> QED
  BY <1>1, <1>3, <1>5, <1>6, ActTyped

LEMMA ReadListTyped ==
  ASSUME Typed, NEW i \in DOMAIN calls, ReadList(i), UNCHANGED others
  PROVE  Typed'
<1>1. Live \subseteq DOMAIN rows
  BY DEF Live
<1>2. calls[i].op = "list" /\ calls' = [calls EXCEPT ![i] = Answered(@, Live)]
      /\ UNCHANGED <<rows, snapshots, triggers, windows, overlapped, acts, events>>
  BY DEF ReadList, At
<1> QED
  BY <1>1, <1>2, AnswerTyped

LEMMA TriggersOfIs == \A r : TriggersOf(r) \subseteq DOMAIN triggers
BY DEF TriggersOf

LEMMA LoadTriggersTyped ==
  ASSUME Typed, NEW i \in DOMAIN calls, LoadTriggers(i), UNCHANGED others
  PROVE  Typed'
<1>1. TriggersOf(calls[i].row) \subseteq DOMAIN triggers
  BY TriggersOfIs
<1>2. calls[i].op = "load"
      /\ calls' = [calls EXCEPT ![i] = Answered(@, TriggersOf(calls[i].row))]
      /\ UNCHANGED <<rows, snapshots, triggers, windows, overlapped, acts, events>>
  BY DEF LoadTriggers, At
<1> QED
  BY <1>1, <1>2, AnswerTyped

LEMMA RefuseWriteTyped ==
  ASSUME Typed, NEW i \in DOMAIN calls, RefuseWrite(i), UNCHANGED others
  PROVE  Typed'
<1>1. PICK found : found = {}
  OBVIOUS
<1>2. calls[i].op = "save" /\ calls' = [calls EXCEPT ![i] = Answered(@, found)]
      /\ UNCHANGED <<rows, snapshots, triggers, windows, overlapped, acts, events>>
  BY <1>1 DEF RefuseWrite, At
<1>3. found \subseteq DOMAIN rows \cup DOMAIN triggers /\ found \subseteq DOMAIN triggers
  BY <1>1
<1> QED
  BY <1>2, <1>3, AnswerTyped

(* A dashboard was read.                                                   *)
Based(c, text, at) == [c EXCEPT !.base = text, !.at = at]

LEMMA BasedIs ==
  ASSUME NEW c \in CallType, NEW text \in Nat, NEW at \in Places,
         NEW d, d = Based(c, text, at)
  PROVE  /\ d \in CallType
         /\ d.op = c.op /\ d.window = c.window /\ d.tab = c.tab /\ d.at = at
         /\ d.kind = c.kind /\ d.row = c.row /\ d.text = c.text /\ d.name = c.name
         /\ d.count = c.count /\ d.base = text /\ d.found = c.found
<1> DEFINE a == [c EXCEPT !.base = text]
           b == [a EXCEPT !.at = at]
<1>1. d = b
  BY DEF Based
<1>2. /\ a \in CallType /\ a.op = c.op /\ a.window = c.window /\ a.tab = c.tab
      /\ a.kind = c.kind /\ a.row = c.row /\ a.text = c.text /\ a.name = c.name
      /\ a.count = c.count /\ a.base = text /\ a.found = c.found
  BY SMTT(30) DEF CallType
<1> HIDE DEF a
<1>3. /\ b \in CallType /\ b.op = a.op /\ b.window = a.window /\ b.tab = a.tab
      /\ b.at = at /\ b.kind = a.kind /\ b.row = a.row /\ b.text = a.text
      /\ b.name = a.name /\ b.count = a.count /\ b.base = a.base /\ b.found = a.found
  BY <1>2, SMTT(30) DEF CallType
<1> HIDE DEF b
<1> QED
  BY <1>1, <1>2, <1>3

LEMMA ReadDashboardTyped ==
  ASSUME Typed, NEW i \in DOMAIN calls, ReadDashboard(i), UNCHANGED others
  PROVE  Typed'
<1> DEFINE c == calls[i]
<1>1. /\ c.op \in {"save", "delete"} /\ c.at = "read"
      /\ UNCHANGED <<rows, snapshots, triggers, windows, acts, events>>
  BY DEF ReadDashboard, At
<1>2. /\ c \in CallType /\ Fits(c, rows, triggers) /\ c.row \in Nat
      /\ FitsRow(c, rows) /\ FitsKind(c, rows, triggers)
  BY CallAt DEF Typed
<1>3. c.kind = "dashboard" /\ c.row # 0
  BY <1>1, <1>2 DEF FitsKind, IsDelete, IsSaveOfTransform, IsSaveOfDashboard
<1>4. CASE c.row \in Live
  <2> DEFINE at == IF c.name \in Nat \ {0} THEN "slug" ELSE "snapshot"
             d == Based(c, rows[c.row].text, at)
  <2>1. calls' = [calls EXCEPT ![i] = d]
        /\ overlapped' \in {overlapped, overlapped \cup {c.row}}
    BY <1>4 DEF ReadDashboard, Based
  <2>2. c.row \in DOMAIN rows
    BY <1>4 DEF Live
  <2>3. rows[c.row].text \in Nat /\ at \in Places /\ at \in {"slug", "snapshot"}
    BY <2>2, RowIs DEF Typed, Places
  <2>4. d = Based(c, rows[c.row].text, at) /\ (at = "slug" => c.name \in Nat \ {0})
    OBVIOUS
  <2> HIDE DEF d, at
  <2>5. /\ d \in CallType
        /\ d.op = c.op /\ d.window = c.window /\ d.tab = c.tab /\ d.at = at
        /\ d.kind = c.kind /\ d.row = c.row /\ d.text = c.text /\ d.name = c.name
        /\ d.count = c.count /\ d.found = c.found
    BY <1>2, <2>3, <2>4, BasedIs
  <2>6. FitsKind(d, rows, triggers)
    <3>1. CASE c.op = "delete"
      <4>1. IsDelete(c) /\ None \notin Nat
        BY <1>2, <3>1, WorkbenchAssumption DEF FitsKind
      <4>2. IsDelete(d)
        BY <1>3, <2>3, <2>4, <2>5, <4>1 DEF IsDelete
      <4> QED
        BY <2>5, <3>1, <4>2 DEF FitsKind
    <3>2. CASE c.op = "save"
      <4>1. IsSaveOfDashboard(c)
        BY <1>2, <1>3, <3>2 DEF FitsKind
      <4>2. IsSaveOfDashboard(d)
        BY <1>1, <1>3, <2>3, <2>4, <2>5, <4>1 DEF IsSaveOfDashboard
      <4> QED
        BY <1>3, <2>5, <3>2, <4>2 DEF FitsKind
    <3> QED
      BY <1>1, <3>1, <3>2
  <2>7. Fits(d, rows, triggers)
    BY <1>2, <2>5, <2>6 DEF Fits, FitsRow
  <2>8. RowsFit' /\ Grows
    BY <1>1, <2>1, <2>2, RowsStay DEF Typed, RowsFit
  <2>9. RestFits'
    BY <1>1, RestStays
  <2> QED
    BY <1>1, <2>1, <2>5, <2>7, <2>8, <2>9, ActTyped
<1>5. CASE c.row \notin Live
  <2>1. PICK found : found = {}
    OBVIOUS
  <2>2. calls' = [calls EXCEPT ![i] = Answered(c, found)] /\ UNCHANGED overlapped
    BY <1>5, <2>1 DEF ReadDashboard
  <2>3. found \subseteq DOMAIN rows \cup DOMAIN triggers /\ found \subseteq DOMAIN triggers
    BY <2>1
  <2> QED
    BY <1>1, <2>2, <2>3, AnswerTyped
<1> QED
  BY <1>4, <1>5

(* A random slug is none that there is.                                    *)
LEMMA RandomIs ==
  ASSUME RowsFit
  PROVE  Random \in Nat \ {0} /\ \A r \in DOMAIN rows : rows[r].name # Random
<1> DEFINE f == [r \in 1 .. Len(rows) |-> rows[r].name]
           S == {999} \cup {rows[r].name : r \in DOMAIN rows}
<1>1. /\ DOMAIN rows = 1 .. Len(rows) /\ Len(rows) \in Nat
      /\ \A r \in DOMAIN rows : rows[r].name \in Nat
  BY RowIs DEF RowsFit
<1>2. f \in [1 .. Len(rows) -> Nat]
  BY <1>1
<1>3. PICK b \in Nat : \A r \in 1 .. Len(rows) : f[r] <= b
  <2> HIDE DEF f
  <2> QED BY <1>1, <1>2, Bounded
<1>4. \A r \in DOMAIN rows : rows[r].name <= b
  BY <1>1, <1>3
<1>5. b + 999 \in Nat /\ \A y \in S : y <= b + 999
  BY <1>1, <1>3, <1>4
<1>6. S \in SUBSET Nat /\ S # {}
  BY <1>1
<1>7. Random = 1 + Max(S)
  BY DEF Random
<1>8. \A r \in DOMAIN rows : rows[r].name \in S
  OBVIOUS
<1> HIDE DEF S
<1>9. PICK d \in Nat : \A y \in S : y <= d
  BY <1>5
<1>10. Max(S) \in Nat /\ \A y \in S : y <= Max(S)
  BY <1>6, <1>9, MaxIs
<1> QED
  BY <1>1, <1>7, <1>8, <1>10

Slugged(c, name, at) == [c EXCEPT !.name = name, !.at = at, !.raced = FALSE]
Retried(c) == [c EXCEPT !.count = @ + 1]

LEMMA SluggedIs ==
  ASSUME NEW c \in CallType, NEW name \in Nat, NEW at \in Places,
         NEW d, d = Slugged(c, name, at)
  PROVE  /\ d \in CallType
         /\ d.op = c.op /\ d.window = c.window /\ d.tab = c.tab /\ d.at = at
         /\ d.kind = c.kind /\ d.row = c.row /\ d.text = c.text /\ d.name = name
         /\ d.base = c.base /\ d.found = c.found
<1> DEFINE a == [c EXCEPT !.name = name]
           b == [a EXCEPT !.at = at]
           e == [b EXCEPT !.raced = FALSE]
<1>1. d = e
  BY DEF Slugged
<1>2. /\ a \in CallType /\ a.op = c.op /\ a.window = c.window /\ a.tab = c.tab
      /\ a.kind = c.kind /\ a.row = c.row /\ a.text = c.text /\ a.name = name
      /\ a.base = c.base /\ a.found = c.found
  BY SMTT(30) DEF CallType
<1> HIDE DEF a
<1>3. /\ b \in CallType /\ b.op = a.op /\ b.window = a.window /\ b.tab = a.tab
      /\ b.at = at /\ b.kind = a.kind /\ b.row = a.row /\ b.text = a.text
      /\ b.name = a.name /\ b.base = a.base /\ b.found = a.found
  BY <1>2, SMTT(30) DEF CallType
<1> HIDE DEF b
<1>4. e \in CallType
  BY <1>3, ZenonT(30) DEF CallType
<1>5. /\ e.op = b.op /\ e.window = b.window /\ e.tab = b.tab
      /\ e.at = b.at /\ e.kind = b.kind /\ e.row = b.row /\ e.text = b.text
      /\ e.name = b.name /\ e.base = b.base /\ e.found = b.found
  BY <1>3, ZenonT(30) DEF CallType
<1> HIDE DEF e
<1> QED
  BY <1>1, <1>2, <1>3, <1>4, <1>5

LEMMA RetriedIs ==
  ASSUME NEW c \in CallType, NEW d, d = Retried(c)
  PROVE  /\ d \in CallType
         /\ d.op = c.op /\ d.window = c.window /\ d.tab = c.tab /\ d.at = c.at
         /\ d.kind = c.kind /\ d.row = c.row /\ d.text = c.text /\ d.name = c.name
         /\ d.base = c.base /\ d.found = c.found /\ d.count = c.count + 1
<1>1. c.count + 1 \in Nat
  BY DEF CallType
<1> QED
  BY <1>1, SMTT(30) DEF Retried, CallType

(* What becomes of a call that looked a slug up.                           *)
LEMMA TrySlugIs ==
  ASSUME RowsFit, CallsFit, NEW i \in DOMAIN calls, TrySlug(i)
  PROVE  LET c == calls[i] IN
         /\ c.op = "save" /\ c.at = "slug" /\ c.kind = "dashboard"
         /\ UNCHANGED <<rows, snapshots, triggers, windows, overlapped, astray, acts,
                        events>>
         /\ \/ calls' = [calls EXCEPT ![i] = Retried(c)] /\ c.count + 1 < MaxTries
            \/ \E name \in Nat \ {0} :
                 /\ calls' = [calls EXCEPT ![i] = Slugged(c, name, AfterSlug(c))]
                 /\ ~Conflict(c.row, name, "dashboard")
<1> DEFINE c == calls[i]
<1>1. /\ c.op = "save" /\ c.at = "slug"
      /\ UNCHANGED <<rows, snapshots, triggers, windows, overlapped, astray, acts,
                     events>>
      /\ calls' = [calls EXCEPT ![i] =
           IF ~Taken(c) THEN Slugged(c, Candidate(c), AfterSlug(c))
           ELSE IF c.count + 1 < MaxTries THEN Retried(c)
           ELSE Slugged(c, Random, AfterSlug(c))]
  BY DEF TrySlug, At, Slugged, Retried
<1>2. c \in CallType /\ FitsKind(c, rows, triggers)
  BY CallAt
<1>3. c.kind = "dashboard" /\ c.name \in Nat \ {0} /\ c.count \in Nat
  BY <1>1, <1>2 DEF FitsKind, IsSaveOfTransform, IsSaveOfDashboard, CallType
<1>4. Candidate(c) \in Nat \ {0}
  BY <1>3 DEF Candidate
<1>5. ~Conflict(c.row, Random, "dashboard")
  BY RandomIs DEF Conflict, Live
<1>6. CASE ~Taken(c)
  BY <1>1, <1>3, <1>4, <1>6 DEF Taken
<1>7. CASE Taken(c) /\ c.count + 1 < MaxTries
  BY <1>1, <1>3, <1>7
<1>8. CASE Taken(c) /\ ~(c.count + 1 < MaxTries)
  BY <1>1, <1>3, <1>5, <1>8, RandomIs
<1> QED
  BY <1>6, <1>7, <1>8

LEMMA TrySlugTyped ==
  ASSUME Typed, NEW i \in DOMAIN calls, TrySlug(i), UNCHANGED others
  PROVE  Typed'
<1> DEFINE c == calls[i]
<1>1. /\ c.op = "save" /\ c.at = "slug" /\ c.kind = "dashboard"
      /\ UNCHANGED <<rows, snapshots, triggers, windows, overlapped, astray, acts,
                     events>>
      /\ \/ calls' = [calls EXCEPT ![i] = Retried(c)] /\ c.count + 1 < MaxTries
         \/ \E name \in Nat \ {0} :
              calls' = [calls EXCEPT ![i] = Slugged(c, name, AfterSlug(c))]
  BY TrySlugIs DEF Typed
<1>2. /\ c \in CallType /\ Fits(c, rows, triggers)
      /\ FitsRow(c, rows) /\ FitsKind(c, rows, triggers)
  BY CallAt DEF Typed
<1>3. IsSaveOfDashboard(c)
  BY <1>1, <1>2 DEF FitsKind
<1>4. RowsFit' /\ Grows /\ RestFits'
  BY <1>1, AllStays, RestStays
<1>5. CASE calls' = [calls EXCEPT ![i] = Retried(c)] /\ c.count + 1 < MaxTries
  <2> DEFINE d == Retried(c)
  <2>1. d = Retried(c)
    OBVIOUS
  <2> HIDE DEF d
  <2>2. /\ d \in CallType
        /\ d.op = c.op /\ d.window = c.window /\ d.tab = c.tab /\ d.at = c.at
        /\ d.kind = c.kind /\ d.row = c.row /\ d.text = c.text /\ d.name = c.name
        /\ d.found = c.found /\ d.count = c.count + 1
    BY <1>2, <2>1, RetriedIs
  <2>3. IsSaveOfDashboard(d)
    BY <1>1, <1>3, <1>5, <2>2 DEF IsSaveOfDashboard
  <2>4. Fits(d, rows, triggers)
    BY <1>1, <1>2, <2>2, <2>3 DEF Fits, FitsRow, FitsKind
  <2> QED
    BY <1>1, <1>4, <1>5, <2>1, <2>2, <2>4, ActTyped
<1>6. ASSUME NEW name \in Nat \ {0},
             calls' = [calls EXCEPT ![i] = Slugged(c, name, AfterSlug(c))]
      PROVE  Typed'
  <2> DEFINE d == Slugged(c, name, AfterSlug(c))
  <2>1. d = Slugged(c, name, AfterSlug(c))
    OBVIOUS
  <2> HIDE DEF d
  <2>2. AfterSlug(c) \in Places /\ AfterSlug(c) \in {"write", "snapshot"}
        /\ (AfterSlug(c) = "snapshot" => c.row # 0)
    BY DEF AfterSlug, Places
  <2>3. /\ d \in CallType
        /\ d.op = c.op /\ d.window = c.window /\ d.tab = c.tab /\ d.at = AfterSlug(c)
        /\ d.kind = c.kind /\ d.row = c.row /\ d.text = c.text
        /\ d.found = c.found
    BY <1>2, <2>1, <2>2, SluggedIs
  <2>4. IsSaveOfDashboard(d)
    BY <2>2, <2>3 DEF IsSaveOfDashboard
  <2>5. Fits(d, rows, triggers)
    BY <1>1, <1>2, <2>3, <2>4 DEF Fits, FitsRow, FitsKind
  <2> QED
    BY <1>1, <1>4, <1>6, <2>1, <2>3, <2>5, ActTyped
<1> QED
  BY <1>1, <1>5, <1>6

Placed(c, at) == [c EXCEPT !.at = at]

LEMMA PlacedIs ==
  ASSUME NEW c \in CallType, NEW at \in Places, NEW d, d = Placed(c, at)
  PROVE  /\ d \in CallType
         /\ d.op = c.op /\ d.window = c.window /\ d.tab = c.tab /\ d.at = at
         /\ d.kind = c.kind /\ d.row = c.row /\ d.text = c.text /\ d.name = c.name
         /\ d.base = c.base /\ d.found = c.found /\ d.count = c.count
BY SMTT(30) DEF Placed, CallType

LEMMA TakeSnapshotTyped ==
  ASSUME Typed, NEW i \in DOMAIN calls, TakeSnapshot(i), UNCHANGED others
  PROVE  Typed'
<1> DEFINE c == calls[i]
           d == Placed(c, "write")
<1>1. /\ c.op \in {"save", "delete"} /\ c.at = "snapshot"
      /\ snapshots' = snapshots \cup {<<c.row, c.base>>}
      /\ calls' = [calls EXCEPT ![i] = d]
      /\ UNCHANGED <<rows, triggers, windows, overlapped, acts, events>>
  BY DEF TakeSnapshot, At, To, Placed
<1>2. /\ c \in CallType /\ Fits(c, rows, triggers) /\ c.row \in Nat /\ c.base \in Nat
      /\ FitsRow(c, rows) /\ FitsKind(c, rows, triggers)
  BY CallAt DEF Typed
<1>3. "write" \in Places
  BY DEF Places
<1>4. d = Placed(c, "write")
  OBVIOUS
<1> HIDE DEF d
<1>5. /\ d \in CallType
      /\ d.op = c.op /\ d.window = c.window /\ d.tab = c.tab /\ d.at = "write"
      /\ d.kind = c.kind /\ d.row = c.row /\ d.text = c.text /\ d.name = c.name
      /\ d.found = c.found
  BY <1>2, <1>3, <1>4, PlacedIs
<1>6. c.row # 0
  BY <1>1, <1>2 DEF FitsKind, IsDelete, IsSaveOfTransform, IsSaveOfDashboard
<1>7. c.row \in DOMAIN rows
  <2>1. DOMAIN rows = 1 .. Len(rows) /\ Len(rows) \in Nat
    BY DEF Typed, RowsFit
  <2> QED
    BY <1>2, <1>6, <2>1 DEF FitsRow
<1>8. RowsFit' /\ Grows /\ RestFits'
  BY <1>1, <1>2, <1>7, RowsStay, RestStays DEF Typed, RowsFit
<1>9. FitsKind(d, rows, triggers)
  BY <1>1, <1>2, <1>5 DEF FitsKind, IsDelete, IsSaveOfTransform, IsSaveOfDashboard
<1>10. Fits(d, rows', triggers')
  BY <1>1, <1>2, <1>5, <1>9 DEF Fits, FitsRow
<1> QED
  BY <1>1, <1>5, <1>8, <1>10, ActTyped

(* A new row is written, and its id is the answer.                         *)
LEMMA InsertsTyped ==
  ASSUME Typed, NEW i \in DOMAIN calls, NEW kind \in Kinds, Inserts(i, kind),
         UNCHANGED others, calls[i].op \in {"save", "query"}, calls[i].at = "write",
         calls[i].op = "query" => kind = "saved"
  PROVE  /\ Typed' /\ RowsFit' /\ Len(rows') = Len(rows) + 1
         /\ \A r \in DOMAIN rows : rows'[r] = rows[r]
         /\ rows'[Len(rows) + 1] = Row(kind, NewName(calls[i]), calls[i].text)
<1> DEFINE c == calls[i]
           row == Row(kind, NewName(c), c.text)
           d == Answered(c, {Len(rows) + 1})
<1>1. /\ rows' = Append(rows, row) /\ calls' = [Raced(calls, i) EXCEPT ![i] = d]
      /\ UNCHANGED <<snapshots, triggers, windows, overlapped, acts, events>>
  BY DEF Inserts
<1>2. /\ c \in CallType /\ Fits(c, rows, triggers) /\ FitsKind(c, rows, triggers)
      /\ c.text \in Nat /\ c.name \in Nat \cup {None}
  BY CallAt DEF Typed
<1>3. NewName(c) \in Nat
  BY <1>2 DEF NewName
<1>4. row \in RowType /\ row.text \in row.past
  BY <1>2, <1>3, SMTT(30) DEF Row, RowType
<1>5. row.kind = kind
  BY DEF Row
<1> HIDE DEF row
<1>6. RowsFit' /\ Grows
  BY <1>1, <1>4, RowAppended DEF Typed
<1>7. /\ rows \in Seq(RowType) /\ Len(rows) \in Nat /\ DOMAIN rows = 1 .. Len(rows)
      /\ rows' \in Seq(RowType) /\ triggers' \in Seq(Nat)
  BY <1>6 DEF Typed, RowsFit
<1>8. /\ Len(rows') = Len(rows) + 1 /\ DOMAIN rows' = 1 .. Len(rows) + 1
      /\ \A r \in 1 .. Len(rows) : rows'[r] = rows[r]
      /\ rows'[Len(rows) + 1] = row
  BY <1>1, <1>4, <1>7, AppendIs
<1>9. ~(c.op = "save" /\ c.kind = "transform")
  BY <1>2 DEF FitsKind, IsSaveOfTransform
<1>10. Fits(c, rows', triggers')
  BY <1>2, <1>6, FitsGrown DEF Grows
<1>11. PICK q \in DOMAIN rows' : q = Len(rows) + 1
  BY <1>7, <1>8
<1>12. {q} \subseteq DOMAIN rows' \cup DOMAIN triggers' /\ rows'[q].kind = kind
       /\ {q} \in SUBSET Nat
  BY <1>5, <1>7, <1>8, <1>11
<1>13. d = Answered(c, {q})
  BY <1>11
<1>14. Answered(c, {q}) \in CallType /\ Fits(Answered(c, {q}), rows', triggers')
  BY <1>7, <1>9, <1>10, <1>12, AnsweredFits, <1>2
<1>15. d.op = c.op /\ d.window = c.window /\ d.tab = c.tab
  BY <1>2, <1>12, <1>13, AnsweredIs
<1> HIDE DEF d
<1>16. RestFits'
  BY <1>1, RestStays
<1>17. Typed'
  BY <1>1, <1>6, <1>13, <1>14, <1>15, <1>16, ActTyped
<1> QED
  BY <1>6, <1>7, <1>8, <1>17 DEF row

LEMMA InsertRowTyped ==
  ASSUME Typed, NEW i \in DOMAIN calls, InsertRow(i), UNCHANGED others
  PROVE  Typed'
<1>1. /\ calls[i].op = "save" /\ calls[i].at = "write" /\ Inserts(i, calls[i].kind)
      /\ calls[i].kind \in Kinds
  BY CallAt DEF InsertRow, At, Typed
<1> QED
  BY <1>1, InsertsTyped

LEMMA InsertQueryTyped ==
  ASSUME Typed, NEW i \in DOMAIN calls, InsertQuery(i), UNCHANGED others
  PROVE  Typed'
<1>1. /\ calls[i].op = "query" /\ calls[i].at = "write" /\ Inserts(i, "saved")
      /\ "saved" \in Kinds
  BY DEF InsertQuery, At, Kinds
<1> QED
  BY <1>1, InsertsTyped

LEMMA UpdatedIs ==
  ASSUME NEW row \in RowType, NEW c \in CallType, row.text \in row.past,
         NEW row2, row2 = Updated(row, c)
  PROVE  /\ row2 \in RowType /\ row2.kind = row.kind /\ row2.live = row.live
         /\ row2.name = IF c.name = None THEN row.name ELSE c.name
         /\ row2.text = IF c.text = 0 THEN row.text ELSE c.text
         /\ row2.past = row.past \cup {row2.text}
<1> DEFINE name == IF c.name = None THEN row.name ELSE c.name
           text == IF c.text = 0 THEN row.text ELSE c.text
           past == row.past \cup {text}
<1>1. /\ c.text \in Nat /\ c.name \in Nat \cup {None} /\ row.past \in SUBSET Nat
      /\ row.name \in Nat /\ row.text \in Nat
  BY DEF CallType, RowType
<1>2. past = IF c.text = 0 THEN row.past ELSE row.past \cup {c.text}
  OBVIOUS
<1>3. row2 = [row EXCEPT !.name = name, !.text = text, !.past = past]
  BY <1>2, ZenonT(30) DEF Updated
<1>4. name \in Nat /\ text \in Nat /\ past \in SUBSET Nat
  BY <1>1
<1> HIDE DEF name, text, past
<1> DEFINE a == [row EXCEPT !.name = name]
           b == [a EXCEPT !.text = text]
           e == [b EXCEPT !.past = past]
<1>5. /\ a \in RowType /\ a.kind = row.kind /\ a.name = name /\ a.live = row.live
  BY <1>4 DEF RowType
<1>6. row2 = e
  BY <1>3
<1> HIDE DEF a
<1>7. /\ b \in RowType /\ b.kind = row.kind /\ b.name = name /\ b.text = text
      /\ b.live = row.live
  BY <1>4, <1>5 DEF RowType
<1> HIDE DEF b
<1>8. /\ e \in RowType /\ e.kind = row.kind /\ e.name = name /\ e.text = text
      /\ e.past = past /\ e.live = row.live
  BY <1>4, <1>7 DEF RowType
<1> HIDE DEF e
<1> QED
  BY <1>6, <1>8 DEF name, text, past

LEMMA UpdateRowTyped ==
  ASSUME Typed, NEW i \in DOMAIN calls, UpdateRow(i), UNCHANGED others
  PROVE  Typed'
<1> DEFINE c == calls[i]
<1>1. /\ c.op = "save" /\ c.at = "write" /\ c.row # 0
      /\ rows' = IF c.row \in Live THEN [rows EXCEPT ![c.row] = Updated(@, c)] ELSE rows
      /\ calls' = [Raced(calls, i) EXCEPT ![i] = Answered(c, {})]
      /\ UNCHANGED <<snapshots, triggers, windows, overlapped, acts, events>>
  BY DEF UpdateRow, At
<1>2. c \in CallType /\ Fits(c, rows, triggers) /\ FitsKind(c, rows, triggers)
  BY CallAt DEF Typed
<1>3. RowsFit' /\ Grows
  <2>1. CASE c.row \in Live
    <3> DEFINE row == Updated(rows[c.row], c)
    <3>1. c.row \in DOMAIN rows /\ rows' = [rows EXCEPT ![c.row] = row]
      BY <1>1, <2>1 DEF Live
    <3>2. rows[c.row] \in RowType /\ rows[c.row].text \in rows[c.row].past
      BY <3>1, RowIs DEF Typed
    <3>3. row = Updated(rows[c.row], c)
      OBVIOUS
    <3> HIDE DEF row
    <3>4. row \in RowType /\ row.kind = rows[c.row].kind /\ row.text \in row.past
      BY <1>2, <3>2, <3>3, UpdatedIs
    <3> QED
      BY <1>1, <3>1, <3>4, RowReplaced DEF Typed, RowsFit
  <2>2. CASE c.row \notin Live
    BY <1>1, <2>2, AllStays
  <2> QED
    BY <2>1, <2>2
<1>4. PICK found : found = {}
  OBVIOUS
<1> DEFINE d == Answered(c, found)
<1>5. rows' \in Seq(RowType) /\ triggers' \in Seq(Nat) /\ Fits(c, rows', triggers')
  BY <1>2, <1>3, FitsGrown DEF RowsFit, Grows
<1>6. found \subseteq DOMAIN rows' \cup DOMAIN triggers' /\ found \subseteq DOMAIN rows'
      /\ found \subseteq DOMAIN triggers' /\ found \in SUBSET Nat
  BY <1>4
<1>7. d \in CallType /\ Fits(d, rows', triggers')
  BY <1>1, <1>2, <1>5, <1>6, AnsweredFits
<1>8. d.op = c.op /\ d.window = c.window /\ d.tab = c.tab
  BY <1>2, <1>6, AnsweredIs
<1>9. calls' = [Raced(calls, i) EXCEPT ![i] = d] /\ RestFits'
  BY <1>1, <1>4, RestStays
<1> HIDE DEF d
<1> QED
  BY <1>1, <1>3, <1>7, <1>8, <1>9, ActTyped

LEMMA WriteDeleteTyped ==
  ASSUME Typed, NEW i \in DOMAIN calls, WriteDelete(i), UNCHANGED others
  PROVE  Typed'
<1> DEFINE c == calls[i]
           found == IF c.kind = "dashboard" THEN {c.row} ELSE Live \cap {c.row}
           row == Gone(rows[c.row])
           d == Answered(c, found)
<1>1. /\ c.op = "delete" /\ c.at = "write"
      /\ rows' = [rows EXCEPT ![c.row] = row]
      /\ calls' = [calls EXCEPT ![i] = d]
      /\ UNCHANGED <<snapshots, triggers, windows, overlapped, acts, events>>
  BY DEF WriteDelete, At, Gone
<1>2. c \in CallType /\ Fits(c, rows, triggers) /\ FitsRow(c, rows)
      /\ FitsKind(c, rows, triggers) /\ c.row \in Nat
  BY CallAt DEF Typed
<1>3. DOMAIN rows = 1 .. Len(rows) /\ Len(rows) \in Nat
  BY DEF Typed, RowsFit
<1>4. c.row \in DOMAIN rows
  BY <1>1, <1>2, <1>3 DEF FitsRow, FitsKind, IsDelete
<1>5. row \in RowType /\ row.kind = rows[c.row].kind /\ row.text \in row.past
  BY <1>4, RowIs, GoneIs DEF Typed
<1>6. found \subseteq DOMAIN rows
  BY <1>4
<1> HIDE DEF row, found
<1>7. RowsFit' /\ Grows
  BY <1>1, <1>4, <1>5, RowReplaced DEF Typed, RowsFit
<1>8. rows' \in Seq(RowType) /\ triggers' \in Seq(Nat) /\ Fits(c, rows', triggers')
      /\ DOMAIN rows' = DOMAIN rows
  BY <1>1, <1>2, <1>7, FitsGrown DEF RowsFit, Grows
<1>9. found \subseteq DOMAIN rows' \cup DOMAIN triggers' /\ found \in SUBSET Nat
  BY <1>3, <1>6, <1>8
<1>10. d \in CallType /\ Fits(d, rows', triggers')
  BY <1>1, <1>2, <1>8, <1>9, AnsweredFits
<1>11. d.op = c.op /\ d.window = c.window /\ d.tab = c.tab
  BY <1>2, <1>9, AnsweredIs
<1>12. RestFits'
  BY <1>1, RestStays
<1> HIDE DEF d
<1> QED
  BY <1>1, <1>7, <1>10, <1>11, <1>12, ActTyped

(* What is left of a transform's save.                                     *)
LEMMA AfterPutIs ==
  ASSUME NEW c \in CallType, NEW d, d = AfterPut(c)
  PROVE  /\ d \in CallType
         /\ d.op = c.op /\ d.window = c.window /\ d.tab = c.tab
         /\ d.mounted = c.mounted /\ d.kind = c.kind /\ d.row = c.row
         /\ d.found = c.found
         /\ d.watches => c.watches
         /\ d.at = "post" => d.watches
         /\ \/ c.found # {} /\ d.at = "clear" /\ d.text = c.text /\ d.name = c.name
            \/ c.found = {} /\ d.at = "post" /\ d.text = c.text /\ d.name = c.name
            \/ c.found = {} /\ d.at = "answer" /\ d.text = 0 /\ d.name = None
<1>1. CASE c.found # {}
  <2>1. d = Placed(c, "clear") /\ "clear" \in Places
    BY <1>1 DEF AfterPut, Placed, Places
  <2> QED
    BY <1>1, <2>1, SMTT(30) DEF Placed, CallType
<1>2. CASE c.found = {} /\ c.watches
  <2>1. d = Placed(c, "post") /\ "post" \in Places
    BY <1>2 DEF AfterPut, Placed, Places
  <2> QED
    BY <1>2, <2>1, SMTT(30) DEF Placed, CallType
<1>3. CASE c.found = {} /\ ~c.watches
  <2>1. PICK found \in SUBSET Nat : found = {}
    OBVIOUS
  <2>2. d = Answered(c, found)
    BY <1>3, <2>1 DEF AfterPut
  <2> QED
    BY <1>3, <2>1, <2>2, AnsweredIs
<1> QED
  BY <1>1, <1>2, <1>3

LEMMA AfterPutFits ==
  ASSUME NEW c \in CallType, NEW rs, NEW ts,
         c.op = "save", c.kind = "transform", c.row # 0,
         FitsRow(c, rs), c.name = None, c.found \subseteq DOMAIN ts
  PROVE  Fits(AfterPut(c), rs, ts)
<1> DEFINE d == AfterPut(c)
<1>1. d = AfterPut(c)
  OBVIOUS
<1> HIDE DEF d
<1>2. /\ d.op = c.op /\ d.window = c.window /\ d.tab = c.tab
      /\ d.kind = c.kind /\ d.row = c.row /\ d.found = c.found
      /\ d.at \in {"clear", "post", "answer"} /\ d.name = None
      /\ d.text \in {0, c.text} /\ (d.at = "post" => d.found = {})
  BY <1>1, AfterPutIs
<1>3. FitsRow(d, rs)
  BY <1>2, WorkbenchAssumption DEF FitsRow
<1>4. FitsKind(d, rs, ts)
  BY <1>2 DEF FitsKind, IsSaveOfTransform
<1> QED
  BY <1>1, <1>2, <1>3, <1>4 DEF Fits

ForRow(c, r) == [c EXCEPT !.row = r]
Cleared(c, g) == [c EXCEPT !.found = @ \ {g}, !.count = @ + 1]

LEMMA ForRowIs ==
  ASSUME NEW c \in CallType, NEW r \in Nat, NEW d, d = ForRow(c, r)
  PROVE  /\ d \in CallType
         /\ d.op = c.op /\ d.window = c.window /\ d.tab = c.tab /\ d.at = c.at
         /\ d.mounted = c.mounted /\ d.kind = c.kind /\ d.row = r /\ d.text = c.text
         /\ d.name = c.name /\ d.found = c.found /\ d.watches = c.watches
BY SMTT(30) DEF ForRow, CallType

LEMMA ClearedIs ==
  ASSUME NEW c \in CallType, NEW g, NEW d, d = Cleared(c, g)
  PROVE  /\ d \in CallType
         /\ d.op = c.op /\ d.window = c.window /\ d.tab = c.tab /\ d.at = c.at
         /\ d.mounted = c.mounted /\ d.kind = c.kind /\ d.row = c.row
         /\ d.text = c.text /\ d.name = c.name /\ d.found = c.found \ {g}
         /\ d.watches = c.watches
<1> DEFINE f == c.found \ {g}
           a == [c EXCEPT !.found = f]
           b == [a EXCEPT !.count = c.count + 1]
<1>1. f \in SUBSET Nat /\ c.count + 1 \in Nat
  BY DEF CallType
<1>2. d = b
  BY DEF Cleared, CallType
<1> HIDE DEF f
<1>3. /\ a \in CallType
      /\ a.op = c.op /\ a.window = c.window /\ a.tab = c.tab /\ a.at = c.at
      /\ a.mounted = c.mounted /\ a.kind = c.kind /\ a.row = c.row
      /\ a.text = c.text /\ a.name = c.name /\ a.found = f
      /\ a.watches = c.watches
  BY <1>1, SMTT(30) DEF CallType
<1> HIDE DEF a
<1>4. /\ b \in CallType
      /\ b.op = a.op /\ b.window = a.window /\ b.tab = a.tab /\ b.at = a.at
      /\ b.mounted = a.mounted /\ b.kind = a.kind /\ b.row = a.row
      /\ b.text = a.text /\ b.name = a.name /\ b.found = a.found
      /\ b.watches = a.watches
  BY <1>1, <1>3, SMTT(30) DEF CallType
<1> HIDE DEF b
<1> QED
  BY <1>2, <1>3, <1>4 DEF f

(* A save of a transform, at its first request and at the later ones.      *)
LEMMA SaveOfTransformIs ==
  ASSUME Typed, NEW i \in DOMAIN calls, calls[i].op = "save",
         calls[i].at \in {"put", "clear", "post"}
  PROVE  /\ calls[i].kind = "transform" /\ IsSaveOfTransform(calls[i], triggers)
         /\ calls[i] \in CallType /\ calls[i].row \in 0 .. Len(rows)
         /\ calls[i].row # 0 =>
              calls[i].row \in DOMAIN rows /\ rows[calls[i].row].kind = "transform"
<1> DEFINE c == calls[i]
<1>1. /\ c \in CallType /\ FitsRow(c, rows) /\ FitsKind(c, rows, triggers)
      /\ c.row \in Nat
  BY CallAt DEF Typed
<1>2. c.kind = "transform" /\ IsSaveOfTransform(c, triggers)
  BY <1>1 DEF FitsKind, IsSaveOfDashboard
<1>3. DOMAIN rows = 1 .. Len(rows) /\ Len(rows) \in Nat
  BY DEF Typed, RowsFit
<1>4. c.row \in 0 .. Len(rows) /\ (c.row # 0 => rows[c.row].kind = c.kind)
  BY <1>1, <1>3 DEF FitsRow
<1> QED
  BY <1>1, <1>2, <1>3, <1>4

(* The job is written.                                                     *)
LEMMA PutIs ==
  ASSUME Typed, NEW i \in DOMAIN calls, PutTransform(i),
         ~(calls[i].row # 0 /\ calls[i].row \notin Live)
  PROVE  \E r \in Nat \ {0} :
           /\ r = IF calls[i].row = 0 THEN Len(rows) + 1 ELSE calls[i].row
           /\ calls' = [calls EXCEPT ![i] = AfterPut(ForRow(calls[i], r))]
           /\ RowsFit' /\ Grows /\ r \in DOMAIN rows' /\ rows'[r].kind = "transform"
           /\ rows'[r].live
           /\ \A s \in DOMAIN rows \ {r} : rows'[s] = rows[s]
           /\ Live' = Live \cup {r}
<1> DEFINE c == calls[i]
           r == IF c.row = 0 THEN Len(rows) + 1 ELSE c.row
           new == Row("transform", 0, c.text)
           old == Updated(rows[c.row], c)
<1>1. /\ c.op = "save" /\ c.at = "put" /\ (c.row # 0 => c.row \in Live)
      /\ rows' = IF c.row = 0 THEN Append(rows, new)
                 ELSE [rows EXCEPT ![c.row] = old]
      /\ calls' = [calls EXCEPT ![i] = AfterPut(ForRow(c, r))]
      /\ UNCHANGED <<snapshots, triggers, windows, overlapped, acts, events>>
  BY DEF PutTransform, At, ForRow
<1>2. /\ c.kind = "transform" /\ c \in CallType /\ c.row \in 0 .. Len(rows)
      /\ c.row # 0 => c.row \in DOMAIN rows /\ rows[c.row].kind = "transform"
  BY <1>1, SaveOfTransformIs
<1>3. /\ rows \in Seq(RowType) /\ DOMAIN rows = 1 .. Len(rows) /\ Len(rows) \in Nat
      /\ c.text \in Nat
  BY <1>2 DEF Typed, RowsFit, CallType
<1>4. CASE c.row = 0
  <2>1. "transform" \in Kinds
    BY DEF Kinds
  <2>2. new \in RowType /\ new.text \in new.past /\ new.kind = "transform" /\ new.live
    BY <1>3, <2>1, SMTT(30) DEF Row, RowType
  <2> HIDE DEF new
  <2>3. RowsFit' /\ Grows
    BY <1>1, <1>4, <2>2, RowAppended DEF Typed
  <2>4. /\ DOMAIN rows' = 1 .. Len(rows) + 1
        /\ \A s \in 1 .. Len(rows) : rows'[s] = rows[s]
        /\ rows'[Len(rows) + 1] = new
    BY <1>1, <1>3, <1>4, <2>2, AppendIs
  <2>5. r = Len(rows) + 1
    BY <1>4
  <2> HIDE DEF r
  <2>6. /\ r \in DOMAIN rows' /\ rows'[r].kind = "transform" /\ rows'[r].live
        /\ \A s \in DOMAIN rows \ {r} : rows'[s] = rows[s]
        /\ r \in Nat \ {0}
    BY <1>3, <2>2, <2>4, <2>5
  <2>7. Live' = Live \cup {r}
    BY <1>3, <2>2, <2>4, <2>5 DEF Live
  <2> QED
    BY <1>1, <2>3, <2>6, <2>7 DEF r
<1>5. CASE c.row # 0
  <2>1. rows[c.row] \in RowType /\ rows[c.row].text \in rows[c.row].past
        /\ rows[c.row].live
    BY <1>1, <1>2, <1>5, RowIs DEF Typed, Live
  <2>2. old = Updated(rows[c.row], c)
    OBVIOUS
  <2> HIDE DEF old
  <2>3. /\ old \in RowType /\ old.kind = "transform" /\ old.text \in old.past
        /\ old.live
    BY <1>2, <1>5, <2>1, <2>2, UpdatedIs
  <2>4. RowsFit' /\ Grows
    BY <1>1, <1>2, <1>5, <2>3, RowReplaced DEF Typed, RowsFit
  <2>5. /\ DOMAIN rows' = DOMAIN rows
        /\ \A s \in DOMAIN rows : rows'[s] = IF s = c.row THEN old ELSE rows[s]
    BY <1>1, <1>2, <1>3, <1>5, <2>3, ExceptIs
  <2>6. r = c.row
    BY <1>5
  <2> HIDE DEF r
  <2>7. /\ r \in DOMAIN rows' /\ rows'[r].kind = "transform" /\ rows'[r].live
        /\ \A s \in DOMAIN rows \ {r} : rows'[s] = rows[s]
        /\ r \in Nat \ {0}
    BY <1>2, <1>3, <1>5, <2>3, <2>5, <2>6
  <2>8. Live' = Live \cup {r}
    BY <1>1, <1>2, <1>5, <2>3, <2>5, <2>6 DEF Live
  <2> QED
    BY <1>1, <2>4, <2>7, <2>8 DEF r
<1> QED
  BY <1>4, <1>5

LEMMA JustEndsTyped ==
  ASSUME Typed, NEW i \in DOMAIN calls, End(i), RestFits',
         UNCHANGED <<rows, snapshots, triggers, windows, overlapped>>
  PROVE  Typed'
<1>1. RowsFit' /\ Grows
  BY AllStays
<1>2. WindowsFit' /\ \A w \in Windows : OldOrNew(windows[w].tabs, windows'[w].tabs)
  BY <1>1, WindowsSame
<1> QED
  BY <1>1, <1>2, EndTyped

(* The save of a transform goes on with its next request.                  *)
LEMMA AfterPutTyped ==
  ASSUME Typed, NEW i \in DOMAIN calls, NEW c \in CallType,
         calls' = [calls EXCEPT ![i] = AfterPut(c)],
         RowsFit', Grows, RestFits', UNCHANGED windows,
         c.op = "save", c.kind = "transform", c.row # 0,
         FitsRow(c, rows'), c.name = None, c.found \subseteq DOMAIN triggers',
         calls[i].op = "save", c.window = calls[i].window, c.tab = calls[i].tab
  PROVE  Typed'
<1> DEFINE d == AfterPut(c)
<1>1. Fits(d, rows', triggers')
  BY AfterPutFits
<1>2. d = AfterPut(c)
  OBVIOUS
<1>3. calls' = [calls EXCEPT ![i] = d]
  OBVIOUS
<1> HIDE DEF d
<1>4. d \in CallType /\ d.op = c.op /\ d.window = c.window /\ d.tab = c.tab
  BY <1>2, AfterPutIs
<1> QED
  BY <1>1, <1>3, <1>4, ActTyped

LEMMA PutTransformTyped ==
  ASSUME Typed, NEW i \in DOMAIN calls, PutTransform(i), UNCHANGED others
  PROVE  Typed'
<1> DEFINE c == calls[i]
<1>1. /\ c.op = "save" /\ c.at = "put"
      /\ UNCHANGED <<snapshots, triggers, windows, overlapped, acts, events>>
  BY DEF PutTransform, At
<1>2. /\ c.kind = "transform" /\ c \in CallType /\ IsSaveOfTransform(c, triggers)
      /\ FitsRow(c, rows)
  BY <1>1, SaveOfTransformIs, CallAt DEF Typed
<1>3. RestFits'
  BY <1>1, RestStays
<1>4. CASE c.row # 0 /\ c.row \notin Live
  <2>1. End(i) /\ UNCHANGED rows
    BY <1>4 DEF PutTransform
  <2> QED
    BY <1>1, <1>3, <2>1, JustEndsTyped
<1>5. CASE ~(c.row # 0 /\ c.row \notin Live)
  <2>1. PICK r \in Nat \ {0} :
          /\ calls' = [calls EXCEPT ![i] = AfterPut(ForRow(c, r))]
          /\ RowsFit' /\ Grows /\ r \in DOMAIN rows' /\ rows'[r].kind = "transform"
    BY <1>5, PutIs
  <2> DEFINE d == ForRow(c, r)
  <2>2. d = ForRow(c, r)
    OBVIOUS
  <2> HIDE DEF d
  <2>3. /\ d \in CallType /\ d.op = "save" /\ d.window = c.window /\ d.tab = c.tab
        /\ d.kind = "transform" /\ d.row = r /\ d.text = c.text /\ d.name = None
        /\ d.found = c.found
    BY <1>1, <1>2, <2>2, ForRowIs DEF IsSaveOfTransform
  <2>4. r <= Len(rows')
    BY <2>1, RowIs DEF RowsFit
  <2>5. FitsRow(d, rows')
    BY <1>2, <2>1, <2>3, <2>4 DEF FitsRow
  <2>6. d.found \subseteq DOMAIN triggers'
    BY <1>1, <1>2, <2>3 DEF IsSaveOfTransform
  <2> QED
    BY <1>1, <1>3, <2>1, <2>2, <2>3, <2>5, <2>6, AfterPutTyped
<1> QED
  BY <1>4, <1>5

(* One of the triggers it knows of is done with.                           *)
LEMMA ClearsTyped ==
  ASSUME Typed, NEW i \in DOMAIN calls, NEW g,
         calls[i].op = "save", calls[i].at = "clear",
         calls' = [calls EXCEPT ![i] = AfterPut(Cleared(calls[i], g))],
         RowsFit', Grows, DOMAIN triggers' = DOMAIN triggers, RestFits',
         UNCHANGED <<rows, windows>>
  PROVE  Typed'
<1> DEFINE c == calls[i]
           d == Cleared(c, g)
<1>1. /\ c.kind = "transform" /\ c \in CallType /\ IsSaveOfTransform(c, triggers)
      /\ FitsRow(c, rows)
  BY SaveOfTransformIs, CallAt DEF Typed
<1>2. d = Cleared(c, g)
  OBVIOUS
<1> HIDE DEF d
<1>3. /\ d \in CallType /\ d.op = "save" /\ d.window = c.window /\ d.tab = c.tab
      /\ d.kind = "transform" /\ d.row = c.row /\ d.text = c.text /\ d.name = None
      /\ d.found = c.found \ {g}
  BY <1>1, <1>2, ClearedIs DEF IsSaveOfTransform
<1>4. d.row # 0 /\ d.found \subseteq DOMAIN triggers'
  BY <1>1, <1>3 DEF IsSaveOfTransform
<1>5. FitsRow(d, rows')
  BY <1>1, <1>3 DEF FitsRow
<1> QED
  BY <1>2, <1>3, <1>4, <1>5, AfterPutTyped

LEMMA ClearTriggerTyped ==
  ASSUME Typed, NEW i \in DOMAIN calls, NEW g \in calls[i].found, ClearTrigger(i, g),
         UNCHANGED others
  PROVE  Typed'
<1>1. /\ calls[i].op = "save" /\ calls[i].at = "clear"
      /\ triggers' = [triggers EXCEPT ![g] = 0]
      /\ calls' = [calls EXCEPT ![i] = AfterPut(Cleared(calls[i], g))]
      /\ UNCHANGED <<rows, snapshots, windows, overlapped, acts, events>>
  BY DEF ClearTrigger, At, Cleared
<1>2. /\ triggers' = [h \in DOMAIN triggers |-> triggers'[h]]
      /\ \A h \in DOMAIN triggers : triggers'[h] \in {0, triggers[h]}
  BY <1>1
<1>3. RowsFit' /\ Grows /\ DOMAIN triggers' = DOMAIN triggers
  BY <1>1, <1>2, TriggersDropped DEF Typed
<1>4. RestFits'
  BY <1>1, RestStays
<1> QED
  BY <1>1, <1>3, <1>4, ClearsTyped

LEMMA EventFits ==
  ASSUME Typed, events > 0, events' = events - 1, UNCHANGED <<others, acts>>
  PROVE  RestFits'
BY WorkbenchAssumption DEF Typed, RestFits

LEMMA LoseClearTyped ==
  ASSUME Typed, NEW i \in DOMAIN calls, NEW g \in calls[i].found, LoseClear(i, g),
         UNCHANGED others
  PROVE  Typed'
<1>1. /\ calls[i].op = "save" /\ calls[i].at = "clear"
      /\ calls' = [calls EXCEPT ![i] = AfterPut(Cleared(calls[i], g))]
      /\ events > 0 /\ events' = events - 1
      /\ UNCHANGED <<rows, snapshots, triggers, windows, overlapped, acts>>
  BY DEF LoseClear, At, Cleared
<1>2. RowsFit' /\ Grows /\ RestFits'
  BY <1>1, AllStays, EventFits
<1> QED
  BY <1>1, <1>2, ClearsTyped

LEMMA LoseTyped ==
  ASSUME Typed, NEW i \in DOMAIN calls, Lose(i), UNCHANGED others
  PROVE  Typed'
<1>1. /\ End(i) /\ events > 0 /\ events' = events - 1
      /\ UNCHANGED <<rows, snapshots, triggers, windows, overlapped, acts>>
  BY DEF Lose
<1>2. RestFits'
  BY <1>1, EventFits
<1> QED
  BY <1>1, <1>2, JustEndsTyped

LEMMA NoRouteTyped ==
  ASSUME Typed, NEW i \in DOMAIN calls, NoRoute(i), UNCHANGED others
  PROVE  Typed'
<1>1. End(i) /\ UNCHANGED <<rows, snapshots, triggers, windows, overlapped, acts, events>>
  BY DEF NoRoute
<1>2. RestFits'
  BY <1>1, RestStays
<1> QED
  BY <1>1, <1>2, JustEndsTyped

LEMMA PostTriggerTyped ==
  ASSUME Typed, NEW i \in DOMAIN calls, PostTrigger(i), UNCHANGED others
  PROVE  Typed'
<1> DEFINE c == calls[i]
<1>1. /\ c.op = "save" /\ c.at = "post"
      /\ UNCHANGED <<rows, snapshots, windows, overlapped, acts, events>>
  BY DEF PostTrigger, At
<1>2. c \in CallType /\ Fits(c, rows, triggers) /\ RestFits'
  BY <1>1, CallAt, RestStays DEF Typed
<1>3. CASE c.row \in Live
  <2>1. PICK g : g = Len(triggers) + 1
    OBVIOUS
  <2> DEFINE d == Answered(c, {g})
  <2>2. triggers' = Append(triggers, c.row) /\ calls' = [calls EXCEPT ![i] = d]
    BY <1>3, <2>1 DEF PostTrigger
  <2>3. c.row \in DOMAIN rows
    BY <1>3 DEF Live
  <2>4. RowsFit' /\ Grows /\ DOMAIN triggers' = 1 .. Len(triggers) + 1
    BY <1>1, <2>2, <2>3, TriggerAppended DEF Typed
  <2>5. /\ rows' \in Seq(RowType) /\ triggers' \in Seq(Nat) /\ Fits(c, rows', triggers')
        /\ Len(triggers) \in Nat
    BY <1>2, <2>4, FitsGrown DEF RowsFit, Grows, Typed
  <2>6. {g} \subseteq DOMAIN triggers' /\ {g} \subseteq DOMAIN rows' \cup DOMAIN triggers'
        /\ {g} \in SUBSET Nat
    BY <2>1, <2>4, <2>5
  <2>7. d \in CallType /\ Fits(d, rows', triggers')
    BY <1>1, <1>2, <2>5, <2>6, AnsweredFits
  <2>8. d.op = c.op /\ d.window = c.window /\ d.tab = c.tab
    BY <1>2, <2>6, AnsweredIs
  <2> HIDE DEF d
  <2> QED
    BY <1>1, <1>2, <2>2, <2>4, <2>7, <2>8, ActTyped
<1>4. CASE c.row \notin Live
  <2>1. End(i) /\ UNCHANGED triggers
    BY <1>4 DEF PostTrigger
  <2> QED
    BY <1>1, <1>2, <2>1, JustEndsTyped
<1> QED
  BY <1>3, <1>4

-----------------------------------------------------------------------------
(* An answer is shown.                                                     *)

LEMMA ShownIs ==
  ASSUME windows \in [Windows -> WindowType], NEW w \in Windows,
         NEW found \in SUBSET Nat, windows' = [windows EXCEPT ![w].shown = found]
  PROVE  /\ windows' \in [Windows -> WindowType]
         /\ \A v \in Windows : /\ windows'[v].tabs = windows[v].tabs
                               /\ windows'[v].active = windows[v].active
                               /\ windows'[v].listed = windows[v].listed
         /\ \A v \in Windows : windows'[v].loaded <=> windows[v].loaded
         /\ \A v \in Windows \ {w} : windows'[v] = windows[v]
         /\ windows'[w].shown = found
<1> DEFINE x == [windows[w] EXCEPT !.shown = found]
<1>1. windows[w] \in WindowType
  OBVIOUS
<1>2. /\ x \in WindowType /\ x.tabs = windows[w].tabs /\ x.active = windows[w].active
      /\ x.listed = windows[w].listed /\ x.shown = found
  BY <1>1 DEF WindowType
<1>3. x.loaded <=> windows[w].loaded
  BY <1>1 DEF WindowType
<1>4. windows' = [windows EXCEPT ![w] = x]
  OBVIOUS
<1> HIDE DEF x
<1> QED
  BY <1>2, <1>3, <1>4

LEMMA LoadedIs ==
  ASSUME windows \in [Windows -> WindowType], NEW w \in Windows,
         NEW found \in SUBSET Nat,
         windows' = [windows EXCEPT ![w].shown = found, ![w].loaded = TRUE]
  PROVE  /\ windows' \in [Windows -> WindowType]
         /\ \A v \in Windows : /\ windows'[v].tabs = windows[v].tabs
                               /\ windows'[v].active = windows[v].active
                               /\ windows'[v].listed = windows[v].listed
         /\ \A v \in Windows \ {w} : windows'[v] = windows[v]
         /\ windows'[w].shown = found /\ windows'[w].loaded
<1> DEFINE x == [windows[w] EXCEPT !.shown = found]
           y == [x EXCEPT !.loaded = TRUE]
<1>1. windows[w] \in WindowType
  OBVIOUS
<1>2. windows' = [windows EXCEPT ![w] = y]
  OBVIOUS
<1>3. /\ x \in WindowType /\ x.tabs = windows[w].tabs /\ x.active = windows[w].active
      /\ x.listed = windows[w].listed /\ x.shown = found
  BY <1>1 DEF WindowType
<1> HIDE DEF x
<1>4. /\ y \in WindowType /\ y.tabs = x.tabs /\ y.active = x.active
      /\ y.listed = x.listed /\ y.shown = x.shown
  BY <1>3 DEF WindowType
<1>5. y.loaded
  BY <1>3 DEF WindowType
<1> HIDE DEF y
<1> QED
  BY <1>2, <1>3, <1>4, <1>5

LEMMA ListedIs ==
  ASSUME windows \in [Windows -> WindowType], NEW w \in Windows,
         NEW found \in SUBSET Nat, windows' = [windows EXCEPT ![w].listed = found]
  PROVE  /\ windows' \in [Windows -> WindowType]
         /\ \A v \in Windows : /\ windows'[v].tabs = windows[v].tabs
                               /\ windows'[v].active = windows[v].active
                               /\ windows'[v].shown = windows[v].shown
         /\ \A v \in Windows : windows'[v].loaded <=> windows[v].loaded
         /\ \A v \in Windows \ {w} : windows'[v] = windows[v]
         /\ windows'[w].listed = found
<1> DEFINE x == [windows[w] EXCEPT !.listed = found]
<1>1. windows[w] \in WindowType
  OBVIOUS
<1>2. /\ x \in WindowType /\ x.tabs = windows[w].tabs /\ x.active = windows[w].active
      /\ x.listed = found /\ x.shown = windows[w].shown
  BY <1>1 DEF WindowType
<1>3. x.loaded <=> windows[w].loaded
  BY <1>1 DEF WindowType
<1>4. windows' = [windows EXCEPT ![w] = x]
  OBVIOUS
<1> HIDE DEF x
<1> QED
  BY <1>2, <1>3, <1>4

LEMMA ShowListTyped ==
  ASSUME Typed, NEW i \in DOMAIN calls, ShowList(i), UNCHANGED others
  PROVE  Typed'
<1> DEFINE c == calls[i]
<1>1. /\ c.op = "list" /\ End(i)
      /\ windows' = [windows EXCEPT ![c.window].listed = c.found]
      /\ UNCHANGED <<rows, snapshots, triggers, overlapped, acts, events>>
  BY DEF ShowList, At
<1>2. c.window \in Windows /\ c.found \subseteq DOMAIN rows
  BY <1>1, CallAt DEF Typed, FitsKind
<1>3. c.found \in SUBSET Nat
  BY <1>2, SeqFacts DEF Typed, RowsFit
<1>4. RowsFit' /\ Grows /\ RestFits'
  BY <1>1, AllStays, RestStays
<1>5. /\ windows' \in [Windows -> WindowType]
      /\ \A v \in Windows : /\ windows'[v].tabs = windows[v].tabs
                            /\ windows'[v].active = windows[v].active
                            /\ windows'[v].shown = windows[v].shown
      /\ \A v \in Windows \ {c.window} : windows'[v] = windows[v]
      /\ windows'[c.window].listed = c.found
  <2>1. windows \in [Windows -> WindowType]
    BY DEF Typed, WindowsFit
  <2>2. windows' = [windows EXCEPT ![c.window].listed = c.found]
    BY <1>1
  <2>3. c.window \in Windows
    BY <1>2
  <2>4. PICK w \in Windows, found \in SUBSET Nat : w = c.window /\ found = c.found
    BY <1>3, <2>3
  <2>5. windows' = [windows EXCEPT ![w].listed = found]
    BY <2>2, <2>4
  <2> HIDE DEF c
  <2>6. /\ windows' \in [Windows -> WindowType]
        /\ \A v \in Windows : /\ windows'[v].tabs = windows[v].tabs
                              /\ windows'[v].active = windows[v].active
                              /\ windows'[v].shown = windows[v].shown
        /\ \A v \in Windows \ {w} : windows'[v] = windows[v]
        /\ windows'[w].listed = found
    BY <2>1, <2>5, ListedIs
  <2> QED
    BY <2>4, <2>6
<1>6. \A v \in Windows : windows'[v].listed \subseteq DOMAIN rows
                         /\ windows'[v].shown \subseteq DOMAIN triggers'
  BY <1>1, <1>2, <1>5, WindowIs
<1>7. WindowsFit' /\ \A w \in Windows : OldOrNew(windows[w].tabs, windows'[w].tabs)
  BY <1>4, <1>5, <1>6, WindowsStay
<1> QED
  BY <1>1, <1>4, <1>7, EndTyped

LEMMA ShowTriggersTyped ==
  ASSUME Typed, NEW i \in DOMAIN calls, ShowTriggers(i), UNCHANGED others
  PROVE  Typed'
<1> DEFINE c == calls[i]
<1>1. /\ c.op = "load" /\ End(i)
      /\ windows' = IF c.mounted
                    THEN [windows EXCEPT ![c.window].shown = c.found,
                                         ![c.window].loaded = TRUE]
                    ELSE windows
      /\ UNCHANGED <<rows, snapshots, triggers, overlapped, acts, events>>
  BY DEF ShowTriggers, At
<1>2. c.window \in Windows /\ c.found \subseteq DOMAIN triggers
  BY <1>1, CallAt DEF Typed, FitsKind
<1>3. c.found \in SUBSET Nat
  BY <1>2, SeqFacts DEF Typed, RowsFit
<1>4. RowsFit' /\ Grows /\ RestFits'
  BY <1>1, AllStays, RestStays
<1>5. CASE c.mounted
  <2>1. windows' = [windows EXCEPT ![c.window].shown = c.found,
                                   ![c.window].loaded = TRUE]
    BY <1>1, <1>5
  <2>2. /\ windows' \in [Windows -> WindowType]
        /\ \A v \in Windows : /\ windows'[v].tabs = windows[v].tabs
                              /\ windows'[v].active = windows[v].active
                              /\ windows'[v].listed = windows[v].listed
        /\ \A v \in Windows \ {c.window} : windows'[v] = windows[v]
        /\ windows'[c.window].shown = c.found
    <3>1. PICK z, found : z = c.window /\ found = c.found
      OBVIOUS
    <3>2. z \in Windows /\ found \in SUBSET Nat
      BY <1>2, <1>3, <3>1
    <3>3. windows' = [windows EXCEPT ![z].shown = found, ![z].loaded = TRUE]
      BY <2>1, <3>1
    <3>4. /\ windows' \in [Windows -> WindowType]
          /\ \A v \in Windows : /\ windows'[v].tabs = windows[v].tabs
                                /\ windows'[v].active = windows[v].active
                                /\ windows'[v].listed = windows[v].listed
          /\ \A v \in Windows \ {z} : windows'[v] = windows[v]
          /\ windows'[z].shown = found
      BY <3>2, <3>3, LoadedIs DEF Typed, WindowsFit
    <3> QED
      BY <3>1, <3>4
  <2>3. \A v \in Windows : windows'[v].listed \subseteq DOMAIN rows
                           /\ windows'[v].shown \subseteq DOMAIN triggers'
    BY <1>1, <1>2, <2>2, WindowIs
  <2>4. WindowsFit' /\ \A w \in Windows : OldOrNew(windows[w].tabs, windows'[w].tabs)
    BY <1>4, <2>2, <2>3, WindowsStay
  <2> QED
    BY <1>1, <1>4, <2>4, EndTyped
<1>6. CASE ~c.mounted
  BY <1>1, <1>4, <1>6, JustEndsTyped
<1> QED
  BY <1>5, <1>6

LEMMA ReceiveSavedTyped ==
  ASSUME Typed, NEW i \in DOMAIN calls, ReceiveSaved(i), UNCHANGED others
  PROVE  Typed'
<1> DEFINE c == calls[i]
           b == c.kind = "transform" /\ c.mounted /\ c.window # None
<1>1. /\ c.op = "save" /\ End(i)
      /\ windows' = IF b THEN [windows EXCEPT ![c.window].shown = c.found]
                    ELSE windows
      /\ UNCHANGED <<rows, snapshots, triggers, overlapped, acts, events>>
  BY DEF ReceiveSaved, At
<1>2. RowsFit' /\ Grows /\ RestFits'
  BY <1>1, AllStays, RestStays
<1>3. CASE b
  <2>1. c \in CallType /\ FitsKind(c, rows, triggers)
    BY CallAt DEF Typed
  <2>2. c.window \in Windows /\ c.found \subseteq DOMAIN triggers /\ c.found \in SUBSET Nat
    BY <1>1, <1>3, <2>1 DEF CallType, FitsKind, IsSaveOfTransform
  <2>3. windows' = [windows EXCEPT ![c.window].shown = c.found]
    BY <1>1, <1>3
  <2>4. /\ windows' \in [Windows -> WindowType]
        /\ \A v \in Windows : /\ windows'[v].tabs = windows[v].tabs
                              /\ windows'[v].active = windows[v].active
                              /\ windows'[v].listed = windows[v].listed
        /\ \A v \in Windows \ {c.window} : windows'[v] = windows[v]
        /\ windows'[c.window].shown = c.found
    <3>1. PICK z, found : z = c.window /\ found = c.found
      OBVIOUS
    <3>2. z \in Windows /\ found \in SUBSET Nat
      BY <2>2, <3>1
    <3>3. windows' = [windows EXCEPT ![z].shown = found]
      BY <2>3, <3>1
    <3>4. /\ windows' \in [Windows -> WindowType]
          /\ \A v \in Windows : /\ windows'[v].tabs = windows[v].tabs
                                /\ windows'[v].active = windows[v].active
                                /\ windows'[v].listed = windows[v].listed
          /\ \A v \in Windows \ {z} : windows'[v] = windows[v]
          /\ windows'[z].shown = found
      BY <3>2, <3>3, ShownIs DEF Typed, WindowsFit
    <3> QED
      BY <3>1, <3>4
  <2>5. \A v \in Windows : windows'[v].listed \subseteq DOMAIN rows
                           /\ windows'[v].shown \subseteq DOMAIN triggers'
    BY <1>1, <2>2, <2>4, WindowIs
  <2>6. WindowsFit' /\ \A w \in Windows : OldOrNew(windows[w].tabs, windows'[w].tabs)
    BY <1>2, <2>4, <2>5, WindowsStay
  <2> QED
    BY <1>1, <1>2, <2>6, EndTyped
<1>4. CASE ~b
  BY <1>1, <1>2, <1>4, JustEndsTyped
<1> QED
  BY <1>3, <1>4

(* The tabs with number n become those of row q.                           *)
Renumbered(tabs, n, q) ==
  [k \in DOMAIN tabs |-> IF tabs[k].n = n THEN [tabs[k] EXCEPT !.row = q] ELSE tabs[k]]

LEMMA RenumberedIs ==
  ASSUME NEW tabs \in Seq(TabType), NEW n, NEW q \in Nat,
         NEW tabs2, tabs2 = Renumbered(tabs, n, q)
  PROVE  /\ tabs2 \in Seq(TabType) /\ Len(tabs2) = Len(tabs)
         /\ DOMAIN tabs2 = DOMAIN tabs
         /\ \A k \in DOMAIN tabs :
              /\ tabs2[k].n = tabs[k].n /\ tabs2[k].kind = tabs[k].kind
              /\ tabs2[k].row = IF tabs[k].n = n THEN q ELSE tabs[k].row
<1>1. /\ DOMAIN tabs = 1 .. Len(tabs) /\ Len(tabs) \in Nat
      /\ \A k \in DOMAIN tabs : tabs[k] \in TabType
  BY SeqFacts
<1>2. DOMAIN tabs2 = 1 .. Len(tabs) /\ tabs2 = [k \in 1 .. Len(tabs) |-> tabs2[k]]
  BY <1>1 DEF Renumbered
<1>3. ASSUME NEW k \in DOMAIN tabs
      PROVE  /\ tabs2[k] \in TabType
             /\ tabs2[k].n = tabs[k].n /\ tabs2[k].kind = tabs[k].kind
             /\ tabs2[k].row = IF tabs[k].n = n THEN q ELSE tabs[k].row
  <2>1. CASE tabs[k].n = n
    <3>1. tabs2[k] = [tabs[k] EXCEPT !.row = q]
      BY <2>1 DEF Renumbered
    <3> QED
      BY <1>1, <2>1, <3>1 DEF TabType
  <2>2. CASE tabs[k].n # n
    <3>1. tabs2[k] = tabs[k]
      BY <2>2 DEF Renumbered
    <3> QED
      BY <1>1, <2>2, <3>1
  <2> QED
    BY <2>1, <2>2
<1>4. tabs2 \in Seq(TabType) /\ Len(tabs2) = Len(tabs)
  BY <1>1, <1>2, <1>3, SeqBy
<1> QED
  BY <1>1, <1>2, <1>3, <1>4

LEMMA RenumberedFits ==
  ASSUME NEW rs \in Seq(RowType), NEW tabs \in Seq(TabType), FitTabs(tabs, rs),
         NEW n, NEW q \in DOMAIN rs, rs[q].kind = "saved",
         \A j \in DOMAIN tabs : tabs[j].n = n => tabs[j].kind = "saved",
         NEW tabs2, tabs2 = Renumbered(tabs, n, q)
  PROVE  FitTabs(tabs2, rs)
<1>1. DOMAIN rs = 1 .. Len(rs) /\ Len(rs) \in Nat /\ q \in Nat \ {0} /\ q <= Len(rs)
  OBVIOUS
<1>2. /\ DOMAIN tabs2 = DOMAIN tabs
      /\ \A k \in DOMAIN tabs :
           /\ tabs2[k].n = tabs[k].n /\ tabs2[k].kind = tabs[k].kind
           /\ tabs2[k].row = IF tabs[k].n = n THEN q ELSE tabs[k].row
  BY <1>1, RenumberedIs
<1>3. \A k \in DOMAIN tabs : FitsTab(tabs[k], rs)
  BY DEF FitTabs
<1>4. \A k \in DOMAIN tabs : FitsTab(tabs2[k], rs)
  BY <1>1, <1>2, <1>3 DEF FitsTab
<1>5. \A j, k \in DOMAIN tabs : tabs2[j].n = tabs2[k].n => j = k
  BY <1>2 DEF FitTabs
<1>6. ASSUME NEW j \in DOMAIN tabs, NEW k \in DOMAIN tabs,
             j # k, tabs2[j].row = tabs2[k].row, tabs2[j].row # 0
      PROVE  tabs2[j].kind = "saved"
  <2>1. CASE tabs[j].n = n
    BY <1>2, <2>1
  <2>2. CASE tabs[j].n # n /\ tabs[k].n = n
    <3>1. tabs2[j].row = q
      BY <1>2, <1>6, <2>2
    <3> QED
      BY <1>1, <1>4, <3>1 DEF FitsTab
  <2>3. CASE tabs[j].n # n /\ tabs[k].n # n
    BY <1>2, <1>6, <2>3 DEF FitTabs
  <2> QED
    BY <2>1, <2>2, <2>3
<1> QED
  BY <1>2, <1>4, <1>5, <1>6 DEF FitTabs

LEMMA ReceiveQueryIs ==
  ASSUME Typed, NEW i \in DOMAIN calls, ReceiveQuery(i)
  PROVE  LET w == calls[i].window
             tabs == windows[w].tabs IN
         /\ calls[i].op = "query" /\ End(i)
         /\ UNCHANGED <<rows, snapshots, triggers, overlapped, astray, acts, events>>
         /\ windows' \in [Windows -> WindowType] /\ w \in Windows
         /\ \A u \in Windows \ {w} : windows'[u] = windows[u]
         /\ FitsWindow(windows'[w], rows, triggers)
         /\ windows'[w].active = windows[w].active /\ windows'[w].shown = windows[w].shown
         /\ windows'[w].loaded <=> windows[w].loaded
         /\ DOMAIN windows'[w].tabs = DOMAIN tabs
         /\ \A k \in DOMAIN tabs :
              /\ windows'[w].tabs[k].n = tabs[k].n /\ windows'[w].tabs[k].kind = tabs[k].kind
              /\ tabs[k].kind # "saved" => windows'[w].tabs[k].row = tabs[k].row
<1> DEFINE c == calls[i]
           w == c.window
           tabs == windows[w].tabs
<1>1. /\ c.op = "query" /\ c.at = "answer" /\ End(i)
      /\ windows' = [windows EXCEPT ![w].listed = @ \cup {Max(c.found)},
                       ![w].tabs = Renumbered(tabs, c.tab, Max(c.found))]
      /\ UNCHANGED <<rows, snapshots, triggers, overlapped, astray, acts, events>>
  BY DEF ReceiveQuery, At, Renumbered
<1>2. /\ w \in Windows /\ IsQuery(c, rows)
      /\ FitsQuery(c, tabs)
  BY <1>1, CallAt DEF Typed, FitsKind, QueriesFit
<1>3. PICK q \in DOMAIN rows : c.found = {q} /\ rows[q].kind = "saved"
  BY <1>1, <1>2 DEF IsQuery
<1>4. rows \in Seq(RowType) /\ DOMAIN rows = 1 .. Len(rows) /\ Len(rows) \in Nat
  BY DEF Typed, RowsFit
<1>5. Max(c.found) = q
  <2>1. q \in Nat /\ {q} \in SUBSET Nat /\ {q} # {} /\ \A y \in {q} : y <= q
    BY <1>4
  <2>2. Max({q}) \in {q}
    BY <2>1, MaxIs
  <2> QED
    BY <1>3, <2>2
<1>6. /\ windows[w] \in WindowType /\ tabs \in Seq(TabType) /\ FitTabs(tabs, rows)
      /\ HasActive(tabs, windows[w].active)
      /\ windows[w].listed \subseteq DOMAIN rows /\ windows[w].shown \subseteq DOMAIN triggers
  BY <1>2, WindowIs
<1> DEFINE tabs2 == Renumbered(tabs, c.tab, q)
           listed2 == windows[w].listed \cup {q}
           x == [windows[w] EXCEPT !.listed = listed2]
           v == [x EXCEPT !.tabs = tabs2]
<1>7. windows' = [windows EXCEPT ![w] = v]
  BY <1>1, <1>2, <1>5 DEF Typed, WindowsFit
<1>8. tabs2 = Renumbered(tabs, c.tab, q)
  OBVIOUS
<1> HIDE DEF tabs2
<1>9. \A j \in DOMAIN tabs : tabs[j].n = c.tab => tabs[j].kind = "saved"
  BY <1>1, <1>2 DEF FitsQuery
<1>10. FitTabs(tabs2, rows)
  BY <1>3, <1>4, <1>6, <1>8, <1>9, RenumberedFits
<1>11. /\ tabs2 \in Seq(TabType) /\ Len(tabs2) = Len(tabs) /\ DOMAIN tabs2 = DOMAIN tabs
       /\ \A k \in DOMAIN tabs :
            /\ tabs2[k].n = tabs[k].n /\ tabs2[k].kind = tabs[k].kind
            /\ tabs[k].n # c.tab => tabs2[k].row = tabs[k].row
  BY <1>4, <1>6, <1>8, RenumberedIs
<1>12. HasActive(tabs2, windows[w].active)
  BY <1>6, <1>11 DEF HasActive
<1>13. listed2 \subseteq DOMAIN rows /\ listed2 \in SUBSET Nat
  BY <1>4, <1>6
<1> HIDE DEF listed2
<1>14. /\ x \in WindowType /\ x.active = windows[w].active /\ x.listed = listed2
       /\ x.shown = windows[w].shown
  BY <1>6, <1>13 DEF WindowType
<1>15. x.loaded <=> windows[w].loaded
  BY <1>6, <1>13 DEF WindowType
<1> HIDE DEF x
<1>16. /\ v \in WindowType /\ v.active = windows[w].active /\ v.listed = listed2
       /\ v.shown = windows[w].shown /\ v.tabs = tabs2
  BY <1>11, <1>14 DEF WindowType
<1>17. v.loaded <=> windows[w].loaded
  BY <1>11, <1>14, <1>15 DEF WindowType
<1> HIDE DEF v
<1>18. FitsWindow(v, rows, triggers)
  BY <1>6, <1>10, <1>12, <1>13, <1>16 DEF FitsWindow
<1>19. /\ windows' \in [Windows -> WindowType]
       /\ \A u \in Windows : windows'[u] = IF u = w THEN v ELSE windows[u]
  BY <1>2, <1>7, <1>16 DEF Typed, WindowsFit
<1>20. windows'[w] = v
  BY <1>2, <1>19
<1>21. \A k \in DOMAIN tabs : tabs[k].kind # "saved" => tabs2[k].row = tabs[k].row
  BY <1>9, <1>11
<1> QED
  BY <1>1, <1>2, <1>11, <1>16, <1>17, <1>18, <1>19, <1>20, <1>21

LEMMA ReceiveQueryTyped ==
  ASSUME Typed, NEW i \in DOMAIN calls, ReceiveQuery(i), UNCHANGED others
  PROVE  Typed'
<1>1. PICK w : w = calls[i].window
  OBVIOUS
<1>2. /\ calls[i].op = "query" /\ End(i)
      /\ UNCHANGED <<rows, snapshots, triggers, overlapped, acts, events>>
      /\ windows' \in [Windows -> WindowType] /\ w \in Windows
      /\ \A u \in Windows \ {w} : windows'[u] = windows[u]
      /\ FitsWindow(windows'[w], rows, triggers)
      /\ DOMAIN windows'[w].tabs = DOMAIN windows[w].tabs
      /\ \A k \in DOMAIN windows[w].tabs :
           /\ windows'[w].tabs[k].n = windows[w].tabs[k].n
           /\ windows'[w].tabs[k].kind = windows[w].tabs[k].kind
  BY <1>1, ReceiveQueryIs
<1>3. RowsFit' /\ Grows /\ RestFits'
  BY <1>2, AllStays, RestStays
<1>4. ASSUME NEW u \in Windows
      PROVE  /\ FitsWindow(windows'[u], rows', triggers')
             /\ OldOrNew(windows[u].tabs, windows'[u].tabs)
  <2>1. CASE u = w
    BY <1>2, <2>1 DEF OldOrNew
  <2>2. CASE u # w
    <3>1. windows'[u] = windows[u]
      BY <1>2, <2>2
    <3> QED
      BY <1>2, <3>1, WindowIs DEF OldOrNew
  <2> QED
    BY <2>1, <2>2
<1>5. WindowsFit'
  BY <1>2, <1>4 DEF WindowsFit
<1> QED
  BY <1>2, <1>3, <1>4, <1>5, EndTyped

-----------------------------------------------------------------------------
(* A tab is shown.                                                         *)

(* The job whose editor a window shows, 0 if it shows none.                *)
Job(w) ==
  IF windows[w].active # 0 /\ Active(w).kind = "transform" THEN Active(w).row ELSE 0

(* The call by which an editor asks for the triggers of job r.             *)
StartsToLoad(c, w, r) ==
  /\ c \in CallType /\ c.op = "load" /\ c.window = w /\ c.at = "read" /\ c.mounted
  /\ c.kind = "transform" /\ c.row = r /\ c.text = 0 /\ c.found = {} /\ ~c.watches

LEMMA LoadCallIs ==
  ASSUME NEW w \in Windows, NEW t \in TabType, NEW c, c = LoadCall(w, t)
  PROVE  StartsToLoad(c, w, t.row)
<1>1. c = NewCall("load", w, t.n, "read", "transform", t.row, 0, None, {}, FALSE)
  BY ZenonT(30) DEF LoadCall, Call, NewCall
<1>2. t.n \in Nat /\ t.row \in Nat /\ "transform" \in Kinds /\ "read" \in Places
  BY DEF TabType, Kinds, Places
<1>3. c \in CallType
  BY <1>1, <1>2, SMTT(30) DEF CallType, NewCall
<1>4. /\ c.op = "load" /\ c.window = w /\ c.at = "read"
      /\ c.kind = "transform" /\ c.row = t.row /\ c.text = 0 /\ c.found = {}
  BY <1>1, SMTT(30) DEF NewCall
<1>5. c.mounted /\ ~c.watches
  BY <1>1, SMTT(30) DEF NewCall
<1> QED
  BY <1>3, <1>4, <1>5 DEF StartsToLoad

LEMMA ActiveThen ==
  ASSUME NEW w, NEW tabs, NEW active,
         windows'[w].tabs = tabs, windows'[w].active = active
  PROVE  /\ Active(w)' = tabs[Place(tabs, active)]
         /\ Job(w)' = IF active # 0 /\ tabs[Place(tabs, active)].kind = "transform"
                      THEN tabs[Place(tabs, active)].row ELSE 0
BY DEF Active, Job, Place

LEMMA ShowIs ==
  ASSUME Typed, NEW w \in Windows, NEW tabs \in Seq(TabType), NEW active \in Nat,
         HasActive(tabs, active), NEW cs, Show(w, tabs, active, cs)
  PROVE  /\ windows' \in [Windows -> WindowType]
         /\ \A v \in Windows \ {w} : windows'[v] = windows[v]
         /\ windows'[w].tabs = tabs /\ windows'[w].active = active
         /\ windows'[w].listed = windows[w].listed
         /\ astray \subseteq astray'
         /\ \/ /\ active = windows[w].active
               /\ windows'[w].shown = windows[w].shown
               /\ windows'[w].loaded <=> windows[w].loaded
               /\ calls' = cs /\ UNCHANGED astray
            \/ /\ active # windows[w].active
               /\ windows'[w].shown = {} /\ ~windows'[w].loaded
               /\ \/ Job(w)' = 0 /\ calls' = Unmounted(cs, w)
                  \/ /\ Job(w)' # 0 /\ HasRoom(cs)
                     /\ \E c : /\ StartsToLoad(c, w, Job(w)')
                               /\ calls' = Append(Unmounted(cs, w), c)
                     /\ (\E i \in DOMAIN cs : Touches(cs[i], Job(w)'))
                          => Job(w)' \in astray'
<1> DEFINE shown == tabs[Place(tabs, active)]
           loads == active # 0 /\ Shows(shown)
<1>1. windows \in [Windows -> WindowType] /\ windows[w] \in WindowType
  BY DEF Typed, WindowsFit
<1>2. CASE active = windows[w].active
  <2> DEFINE v == [windows[w] EXCEPT !.tabs = tabs]
  <2>1. windows' = [windows EXCEPT ![w] = v] /\ calls' = cs /\ UNCHANGED astray
    BY <1>2 DEF Show
  <2>2. /\ v \in WindowType /\ v.tabs = tabs /\ v.active = windows[w].active
        /\ v.listed = windows[w].listed /\ v.shown = windows[w].shown
    BY <1>1 DEF WindowType
  <2>3. v.loaded <=> windows[w].loaded
    BY <1>1 DEF WindowType
  <2> HIDE DEF v
  <2> QED
    BY <1>1, <1>2, <2>1, <2>2, <2>3
<1>3. CASE active # windows[w].active
  <2> DEFINE a == [windows[w] EXCEPT !.tabs = tabs]
             b == [a EXCEPT !.active = active]
             d == [b EXCEPT !.loaded = FALSE]
             v == [d EXCEPT !.shown = {}]
  <2>1. /\ windows' = [windows EXCEPT ![w] = v]
        /\ loads => HasRoom(cs)
        /\ calls' = IF loads THEN Append(Unmounted(cs, w), LoadCall(w, shown))
                    ELSE Unmounted(cs, w)
        /\ astray' = IF loads /\ \E i \in DOMAIN cs : Touches(cs[i], shown.row)
                     THEN astray \cup {shown.row} ELSE astray
    BY <1>3 DEF Show
  <2>2. /\ a \in WindowType /\ a.tabs = tabs /\ a.listed = windows[w].listed
    BY <1>1 DEF WindowType
  <2> HIDE DEF a
  <2>3. /\ b \in WindowType /\ b.tabs = tabs /\ b.listed = windows[w].listed
        /\ b.active = active
    BY <2>2 DEF WindowType
  <2> HIDE DEF b
  <2>4. d \in WindowType
    BY <2>3 DEF WindowType
  <2>5. ~d.loaded /\ d.tabs = tabs /\ d.listed = windows[w].listed /\ d.active = active
    BY <2>3 DEF WindowType
  <2> HIDE DEF d
  <2>6. /\ v \in WindowType /\ v.tabs = tabs /\ v.listed = windows[w].listed
        /\ v.active = active /\ v.shown = {}
    BY <2>4, <2>5 DEF WindowType
  <2>7. ~v.loaded
    BY <2>4, <2>5 DEF WindowType
  <2> HIDE DEF v
  <2>8. /\ windows' \in [Windows -> WindowType] /\ windows'[w] = v
        /\ \A u \in Windows \ {w} : windows'[u] = windows[u]
    BY <1>1, <2>1, <2>6
  <2>9. windows'[w].tabs = tabs /\ windows'[w].active = active
    BY <2>6, <2>8
  <2>10. Job(w)' = IF active # 0 /\ shown.kind = "transform" THEN shown.row ELSE 0
    BY <2>9, ActiveThen
  <2>11. loads <=> Job(w)' # 0
    BY <2>10 DEF Shows
  <2>12. CASE loads
    <3>1. active # 0
      BY <2>12
    <3>2. \E j \in DOMAIN tabs : tabs[j].n = active
      BY <3>1 DEF HasActive
    <3>3. Place(tabs, active) \in DOMAIN tabs
      BY <3>2, PlaceIs
    <3>4. shown \in TabType
      BY <3>3, SeqFacts
    <3>5. Job(w)' = shown.row
      BY <2>10, <2>12 DEF Shows
    <3> HIDE DEF shown
    <3>6. \E c : StartsToLoad(c, w, shown.row) /\ c = LoadCall(w, shown)
      BY <3>4, LoadCallIs
    <3>7. /\ calls' = Append(Unmounted(cs, w), LoadCall(w, shown)) /\ HasRoom(cs)
          /\ astray' = IF \E i \in DOMAIN cs : Touches(cs[i], shown.row)
                       THEN astray \cup {shown.row} ELSE astray
      BY <2>1, <2>12
    <3>8. \E c : StartsToLoad(c, w, Job(w)') /\ calls' = Append(Unmounted(cs, w), c)
      BY <3>5, <3>6, <3>7
    <3>9. (\E i \in DOMAIN cs : Touches(cs[i], Job(w)')) => Job(w)' \in astray'
      BY <3>5, <3>7
    <3>10. astray \subseteq astray'
      BY <3>7
    <3> QED
      BY <1>3, <2>6, <2>7, <2>8, <2>9, <2>11, <2>12, <3>7, <3>8, <3>9, <3>10
  <2>13. CASE ~loads
    <3>1. Job(w)' = 0
      BY <2>11, <2>13
    <3>2. calls' = Unmounted(cs, w) /\ UNCHANGED astray
      BY <2>1, <2>13
    <3> QED
      BY <1>3, <2>6, <2>7, <2>8, <2>9, <3>1, <3>2
  <2> QED
    BY <2>12, <2>13
<1> QED
  BY <1>2, <1>3

LEMMA JobThen ==
  ASSUME NEW w, NEW tabs, NEW active, HasActive(tabs, active), FitTabs(tabs, rows),
         windows'[w].tabs = tabs, windows'[w].active = active, Job(w)' # 0
  PROVE  Job(w)' <= Len(rows) /\ rows[Job(w)'].kind = "transform"
<1> DEFINE shown == tabs[Place(tabs, active)]
<1>1. active # 0 /\ shown.kind = "transform" /\ Job(w)' = shown.row
  BY ActiveThen
<1>2. \E j \in DOMAIN tabs : tabs[j].n = active
  BY <1>1 DEF HasActive
<1>3. Place(tabs, active) \in DOMAIN tabs
  BY <1>2, PlaceIs
<1>4. FitsTab(shown, rows)
  BY <1>3 DEF FitTabs
<1> HIDE DEF shown
<1> QED
  BY <1>1, <1>4 DEF FitsTab

LEMMA StartsToLoadFits ==
  ASSUME Typed, NEW w \in Windows, NEW r, r # 0, r <= Len(rows),
         rows[r].kind = "transform", NEW c, StartsToLoad(c, w, r)
  PROVE  Fits(c, rows, triggers)
<1>1. FitsRow(c, rows)
  BY WorkbenchAssumption DEF StartsToLoad, FitsRow
<1>2. FitsKind(c, rows, triggers)
  BY DEF StartsToLoad, FitsKind, IsLoad
<1> QED
  BY <1>1, <1>2 DEF Fits, StartsToLoad

LEMMA ShowMoves ==
  ASSUME Typed, NEW w \in Windows, NEW tabs \in Seq(TabType), NEW active \in Nat,
         FitTabs(tabs, rows), HasActive(tabs, active),
         NEW cs \in Seq(CallType), Len(cs) <= MaxCalls, Show(w, tabs, active, cs)
  PROVE  \E new : /\ Moves(cs, calls', 0, new) /\ Len(calls') <= MaxCalls
                  /\ \A c \in new : Fits(c, rows, triggers) /\ c.op = "load"
<1>1. /\ windows'[w].tabs = tabs /\ windows'[w].active = active
      /\ \/ calls' = cs
         \/ calls' = Unmounted(cs, w)
         \/ /\ HasRoom(cs) /\ Job(w)' # 0
            /\ \E c : /\ StartsToLoad(c, w, Job(w)')
                      /\ calls' = Append(Unmounted(cs, w), c)
  BY ShowIs
<1>2. Moves(cs, Unmounted(cs, w), 0, {}) /\ Len(Unmounted(cs, w)) = Len(cs)
  BY UnmountedIs
<1>3. CASE calls' = cs
  BY <1>3, MovesStay
<1>4. CASE calls' = Unmounted(cs, w)
  BY <1>2, <1>4
<1>5. ASSUME NEW c, HasRoom(cs), Job(w)' # 0, StartsToLoad(c, w, Job(w)'),
             calls' = Append(Unmounted(cs, w), c)
      PROVE  /\ Moves(cs, calls', 0, {} \cup {c}) /\ Len(calls') <= MaxCalls
             /\ Fits(c, rows, triggers) /\ c.op = "load"
  <2>1. c \in CallType /\ c.op = "load"
    BY <1>5 DEF StartsToLoad
  <2>2. Unmounted(cs, w) \in Seq(CallType)
    BY <1>2, MovesIs
  <2>3. /\ Moves(Unmounted(cs, w), calls', 0, {c})
        /\ Len(calls') = Len(Unmounted(cs, w)) + 1
    BY <1>5, <2>1, <2>2, MovesAppend
  <2>4. Moves(cs, calls', 0, {} \cup {c})
    BY <1>2, <2>3, MovesThen
  <2>5. Len(calls') <= MaxCalls
    <3>1. Len(cs) \in Nat /\ MaxCalls \in Nat
      BY WorkbenchAssumption
    <3> QED
      BY <1>2, <1>5, <2>3, <3>1 DEF HasRoom
  <2>6. Job(w)' <= Len(rows) /\ rows[Job(w)'].kind = "transform"
    BY <1>1, <1>5, JobThen
  <2>7. Fits(c, rows, triggers)
    BY <1>5, <2>6, StartsToLoadFits
  <2> QED
    BY <2>1, <2>4, <2>5, <2>7
<1> QED
  <2>1. CASE calls' = cs \/ calls' = Unmounted(cs, w)
    BY <1>2, <1>3, <1>4, <2>1
  <2>2. ASSUME NEW c, HasRoom(cs), Job(w)' # 0, StartsToLoad(c, w, Job(w)'),
               calls' = Append(Unmounted(cs, w), c)
        PROVE  \E new : /\ Moves(cs, calls', 0, new) /\ Len(calls') <= MaxCalls
                        /\ \A d \in new : Fits(d, rows, triggers) /\ d.op = "load"
    <3>1. /\ Moves(cs, calls', 0, {} \cup {c}) /\ Len(calls') <= MaxCalls
          /\ Fits(c, rows, triggers) /\ c.op = "load"
      BY <1>5, <2>2
    <3>2. \A d \in {} \cup {c} : Fits(d, rows, triggers) /\ d.op = "load"
      BY <3>1
    <3> QED
      BY <3>1, <3>2
  <2> QED
    BY <1>1, <2>1, <2>2

LEMMA ShowTyped ==
  ASSUME Typed, NEW w \in Windows, NEW tabs \in Seq(TabType), NEW active \in Nat,
         FitTabs(tabs, rows), HasActive(tabs, active),
         OldOrNew(windows[w].tabs, tabs),
         NEW cs, Show(w, tabs, active, cs), NEW i, NEW first, Moves(calls, cs, i, first),
         Len(cs) <= MaxCalls,
         \A c \in first : Fits(c, rows, triggers) /\ c.op # "query",
         RestFits', UNCHANGED <<rows, snapshots, triggers, overlapped>>
  PROVE  Typed'
<1>1. cs \in Seq(CallType)
  BY MovesIs
<1>2. PICK new : /\ Moves(cs, calls', 0, new) /\ Len(calls') <= MaxCalls
                 /\ \A c \in new : Fits(c, rows, triggers) /\ c.op = "load"
  BY <1>1, ShowMoves
<1>3. Moves(calls, calls', i, first \cup new)
  BY <1>2, MovesThen
<1>4. RowsFit' /\ Grows
  BY AllStays
<1>5. /\ windows' \in [Windows -> WindowType]
      /\ \A v \in Windows \ {w} : windows'[v] = windows[v]
      /\ windows'[w].tabs = tabs /\ windows'[w].active = active
      /\ windows'[w].listed = windows[w].listed
      /\ windows'[w].shown = windows[w].shown \/ windows'[w].shown = {}
  BY ShowIs
<1>6. ASSUME NEW v \in Windows
      PROVE  /\ FitsWindow(windows'[v], rows', triggers')
             /\ OldOrNew(windows[v].tabs, windows'[v].tabs)
  <2>1. CASE v = w
    <3>1. windows[w].listed \subseteq DOMAIN rows /\ windows[w].shown \subseteq DOMAIN triggers
      BY WindowIs
    <3>2. windows'[w].listed \subseteq DOMAIN rows /\ windows'[w].shown \subseteq DOMAIN triggers
      BY <1>5, <3>1
    <3> QED
      BY <1>5, <2>1, <3>2 DEF FitsWindow
  <2>2. CASE v # w
    <3>1. windows'[v] = windows[v]
      BY <1>5, <2>2
    <3> QED
      BY <3>1, WindowIs DEF OldOrNew
  <2> QED
    BY <2>1, <2>2
<1>7. WindowsFit'
  BY <1>5, <1>6 DEF WindowsFit
<1>8. \A c \in first \cup new :
        Fits(c, rows', triggers') /\ FitsQuery(c, windows'[c.window].tabs)
  BY <1>2 DEF FitsQuery
<1> QED
  BY <1>2, <1>3, <1>4, <1>6, <1>7, <1>8, TypedStep

(* Each tab was there before, or has a number that is not in use.          *)
OldOrFresh(w, tabs) ==
  \A j \in DOMAIN tabs :
    \/ \E k \in DOMAIN windows[w].tabs : windows[w].tabs[k] = tabs[j]
    \/ /\ \A k \in DOMAIN windows[w].tabs : windows[w].tabs[k].n # tabs[j].n
       /\ \A k \in DOMAIN calls : calls[k].tab # tabs[j].n
TurnsTo(w, tabs, active, cs) ==
  /\ tabs \in Seq(TabType) /\ active \in Nat
  /\ FitTabs(tabs, rows) /\ HasActive(tabs, active) /\ OldOrFresh(w, tabs)
  /\ Show(w, tabs, active, cs)
Turns(w, cs) == \E tabs, active : TurnsTo(w, tabs, active, cs)

LEMMA TurnsTyped ==
  ASSUME Typed, NEW w \in Windows, NEW cs, Turns(w, cs),
         NEW i, NEW first, Moves(calls, cs, i, first), Len(cs) <= MaxCalls,
         \A c \in first : Fits(c, rows, triggers) /\ c.op # "query",
         RestFits', UNCHANGED <<rows, snapshots, triggers, overlapped>>
  PROVE  Typed'
<1>1. PICK tabs, active : TurnsTo(w, tabs, active, cs)
  BY DEF Turns
<1>2. OldOrNew(windows[w].tabs, tabs)
  BY <1>1 DEF TurnsTo, OldOrFresh, OldOrNew
<1> QED
  BY <1>1, <1>2, ShowTyped DEF TurnsTo

(* The number of a new tab.                                                *)
LEMMA FreshIs ==
  ASSUME Typed, NEW w \in Windows, NEW n,
         n = 1 + Max({0} \cup ({t.n : t \in ToSet(windows[w].tabs)}
                                 \cup {calls[i].tab : i \in DOMAIN calls}))
  PROVE  /\ n \in Nat \ {0}
         /\ \A k \in DOMAIN windows[w].tabs : windows[w].tabs[k].n # n
         /\ \A k \in DOMAIN calls : calls[k].tab # n
<1> DEFINE tabs == windows[w].tabs
           f == [k \in 1 .. Len(tabs) |-> tabs[k].n]
           g == [k \in 1 .. Len(calls) |-> calls[k].tab]
           S == {0} \cup ({t.n : t \in ToSet(windows[w].tabs)}
                            \cup {calls[i].tab : i \in DOMAIN calls})
<1>1. /\ DOMAIN tabs = 1 .. Len(tabs) /\ Len(tabs) \in Nat
      /\ \A k \in DOMAIN tabs : tabs[k].n \in Nat
  <2>1. tabs \in Seq(TabType)
    BY WindowIs
  <2>2. \A k \in DOMAIN tabs : tabs[k] \in TabType
    BY <2>1
  <2> QED
    BY <2>1, <2>2 DEF TabType
<1>2. /\ DOMAIN calls = 1 .. Len(calls) /\ Len(calls) \in Nat
      /\ \A k \in DOMAIN calls : calls[k].tab \in Nat
  BY CallAt DEF Typed, CallsFit, CallType
<1>3. f \in [1 .. Len(tabs) -> Nat] /\ g \in [1 .. Len(calls) -> Nat]
  BY <1>1, <1>2
<1>4. PICK a \in Nat : \A k \in DOMAIN tabs : tabs[k].n <= a
  <2>1. PICK a \in Nat : \A k \in 1 .. Len(tabs) : f[k] <= a
    <3> HIDE DEF f
    <3> QED BY <1>1, <1>3, Bounded
  <2> QED
    BY <1>1, <2>1
<1>5. PICK b \in Nat : \A k \in DOMAIN calls : calls[k].tab <= b
  <2>1. PICK b \in Nat : \A k \in 1 .. Len(calls) : g[k] <= b
    <3> HIDE DEF g
    <3> QED BY <1>2, <1>3, Bounded
  <2> QED
    BY <1>2, <2>1
<1>6. /\ \A k \in DOMAIN tabs : tabs[k].n \in S
      /\ \A k \in DOMAIN calls : calls[k].tab \in S
      /\ \A y \in S : \/ y = 0
                      \/ \E k \in DOMAIN tabs : y = tabs[k].n
                      \/ \E k \in DOMAIN calls : y = calls[k].tab
  BY DEF ToSet
<1>7. S # {}
  OBVIOUS
<1>8. n = 1 + Max(S)
  OBVIOUS
<1> HIDE DEF S, f, g
<1>9. S \in SUBSET Nat
  BY <1>1, <1>2, <1>6
<1>10. PICK d \in Nat : d = a + b
  OBVIOUS
<1>11. \A y \in S : y <= d
  BY <1>1, <1>2, <1>4, <1>5, <1>6, <1>10
<1>12. Max(S) \in S /\ \A y \in S : y <= Max(S)
  BY <1>7, <1>9, <1>11, MaxIs
<1>13. Max(S) \in Nat
  BY <1>9, <1>12
<1>14. \A y \in S : y # n
  BY <1>8, <1>9, <1>12, <1>13
<1> QED
  BY <1>6, <1>8, <1>13, <1>14

LEMMA OpenTabTurns ==
  ASSUME Typed, NEW w \in Windows, NEW kind \in Kinds, NEW row \in Nat,
         row <= Len(rows), row # 0 => rows[row].kind = kind, OpenTab(w, kind, row)
  PROVE  Turns(w, calls)
<1> DEFINE tabs == windows[w].tabs
           n == 1 + Max({0} \cup ({t.n : t \in ToSet(windows[w].tabs)}
                                    \cup {calls[i].tab : i \in DOMAIN calls}))
           open == Opened(w, kind, row)
           t == [n |-> n, kind |-> kind, row |-> row]
           tabs2 == Append(tabs, t)
<1>1. IF open # {} THEN Show(w, tabs, tabs[Min(open)].n, calls)
      ELSE Show(w, tabs2, n, calls)
  BY DEF OpenTab
<1>2. tabs \in Seq(TabType) /\ FitTabs(tabs, rows) /\ DOMAIN tabs = 1 .. Len(tabs)
      /\ Len(tabs) \in Nat
  BY WindowIs
<1>3. CASE open # {}
  <2>1. open \in SUBSET Nat /\ open \subseteq DOMAIN tabs
    BY <1>2 DEF Opened
  <2>2. Min(open) \in DOMAIN tabs
    BY <1>3, <2>1, MinIs
  <2> DEFINE active == tabs[Min(open)].n
  <2>3. active \in Nat
    <3>1. tabs[Min(open)] \in TabType
      BY <1>2, <2>2, SeqFacts
    <3> QED
      BY <3>1 DEF TabType
  <2>4. HasActive(tabs, active)
    BY <1>2, <2>2 DEF HasActive
  <2>5. OldOrFresh(w, tabs)
    BY DEF OldOrFresh
  <2>6. Show(w, tabs, active, calls)
    BY <1>1, <1>3
  <2> HIDE DEF active, tabs
  <2>7. TurnsTo(w, tabs, active, calls)
    BY <1>2, <2>3, <2>4, <2>5, <2>6 DEF TurnsTo
  <2> QED
    BY <2>7 DEF Turns
<1>4. CASE open = {}
  <2>1. /\ n \in Nat \ {0}
        /\ \A k \in DOMAIN tabs : tabs[k].n # n
        /\ \A k \in DOMAIN calls : calls[k].tab # n
    <3>1. n = 1 + Max({0} \cup ({x.n : x \in ToSet(windows[w].tabs)}
                                 \cup {calls[i].tab : i \in DOMAIN calls}))
      OBVIOUS
    <3> HIDE DEF n
    <3> QED BY <3>1, FreshIs
  <2>2. Show(w, tabs2, n, calls)
    BY <1>1, <1>4
  <2>3. \A k \in DOMAIN tabs : row # 0 /\ tabs[k].kind = kind => tabs[k].row # row
    BY <1>4 DEF Opened
  <2> HIDE DEF n, open
  <2>4. t \in TabType /\ t.n = n /\ t.kind = kind /\ t.row = row
    BY <2>1 DEF TabType
  <2> HIDE DEF t
  <2>5. /\ tabs2 \in Seq(TabType) /\ DOMAIN tabs2 = 1 .. Len(tabs) + 1
        /\ \A k \in 1 .. Len(tabs) : tabs2[k] = tabs[k]
        /\ tabs2[Len(tabs) + 1] = t
    BY <1>2, <2>4, AppendIs
  <2> HIDE DEF tabs2
  <2>6. \A k \in DOMAIN tabs2 :
          \/ k \in DOMAIN tabs /\ tabs2[k] = tabs[k]
          \/ k = Len(tabs) + 1 /\ tabs2[k] = t
    BY <1>2, <2>5
  <2>7. FitsTab(t, rows)
    BY <2>1, <2>4 DEF FitsTab
  <2>8. \A k \in DOMAIN tabs : tabs[k].n # t.n /\ FitsTab(tabs[k], rows)
    BY <1>2, <2>1, <2>4 DEF FitTabs
  <2>9. \A k \in DOMAIN tabs2 : FitsTab(tabs2[k], rows)
    BY <2>6, <2>7, <2>8
  <2>10. \A j, k \in DOMAIN tabs2 : tabs2[j].n = tabs2[k].n => j = k
    BY <1>2, <2>6, <2>8 DEF FitTabs
  <2>11. \A k \in DOMAIN tabs : row # 0 => tabs[k].row # row
    BY <2>3, <2>8 DEF FitsTab
  <2>12. \A j, k \in DOMAIN tabs2 :
           (j # k /\ tabs2[j].row = tabs2[k].row /\ tabs2[j].row # 0)
             => tabs2[j].kind = "saved"
    BY <1>2, <2>4, <2>6, <2>11 DEF FitTabs
  <2>13. FitTabs(tabs2, rows)
    BY <2>9, <2>10, <2>12 DEF FitTabs
  <2>14. HasActive(tabs2, n)
    <3>1. Len(tabs) + 1 \in DOMAIN tabs2
      BY <1>2, <2>5
    <3> QED
      BY <2>4, <2>5, <3>1 DEF HasActive
  <2>15. OldOrFresh(w, tabs2)
    BY <2>1, <2>4, <2>6 DEF OldOrFresh
  <2>16. TurnsTo(w, tabs2, n, calls)
    BY <2>1, <2>2, <2>5, <2>13, <2>14, <2>15 DEF TurnsTo
  <2> QED
    BY <2>16 DEF Turns
<1> QED
  BY <1>3, <1>4

LEMMA CloseTabTurns ==
  ASSUME Typed, NEW w \in Windows, NEW n, NEW cs, CloseTab(w, n, cs)
  PROVE  \/ calls' = cs /\ UNCHANGED <<windows, astray>>
         \/ Turns(w, cs)
<1> DEFINE tabs == windows[w].tabs
           p == Place(tabs, n)
           tabs2 == RemoveAt(tabs, p)
           next == NextActive(w, n, tabs2)
<1>1. CASE ~HasTab(w, n)
  BY <1>1 DEF CloseTab
<1>2. CASE HasTab(w, n)
  <2>1. Show(w, tabs2, next, cs)
    BY <1>2 DEF CloseTab
  <2>2. /\ tabs \in Seq(TabType) /\ FitTabs(tabs, rows) /\ DOMAIN tabs = 1 .. Len(tabs)
        /\ Len(tabs) \in Nat /\ HasActive(tabs, windows[w].active)
        /\ \A j \in DOMAIN tabs : tabs[j] \in TabType
    BY WindowIs, SeqFacts
  <2>3. \E j \in DOMAIN tabs : tabs[j].n = n
    BY <1>2 DEF HasTab, ToSet
  <2>4. p \in DOMAIN tabs /\ tabs[p].n = n
    BY <2>3, PlaceIs
  <2>5. next = IF windows[w].active # n THEN windows[w].active
               ELSE IF tabs2 = <<>> THEN 0
               ELSE IF p \in DOMAIN tabs2 THEN tabs2[p].n ELSE tabs2[p - 1].n
    BY DEF NextActive
  <2> HIDE DEF p, next
  <2>6. /\ tabs2 \in Seq(TabType) /\ Len(tabs2) = Len(tabs) - 1
        /\ DOMAIN tabs2 = 1 .. Len(tabs) - 1
        /\ \A k \in 1 .. Len(tabs) - 1 :
             /\ k \in DOMAIN tabs /\ k + 1 \in DOMAIN tabs
             /\ tabs2[k] = IF k < p THEN tabs[k] ELSE tabs[k + 1]
    BY <2>2, <2>4, RemoveIs
  <2> DEFINE f == [k \in DOMAIN tabs2 |-> IF k < p THEN k ELSE k + 1]
  <2> HIDE DEF tabs2
  <2>7. \A k \in DOMAIN tabs2 : f[k] \in DOMAIN tabs /\ tabs2[k] = tabs[f[k]]
    BY <2>2, <2>4, <2>6
  <2>8. \A j, k \in DOMAIN tabs2 : f[j] = f[k] => j = k
    BY <2>2, <2>4, <2>6
  <2>9. ASSUME NEW j \in DOMAIN tabs, j # p
        PROVE  \E k \in DOMAIN tabs2 : tabs2[k] = tabs[j]
    <3>1. CASE j < p
      <4>1. j \in DOMAIN tabs2
        BY <2>2, <2>4, <2>6, <3>1
      <4> QED
        BY <2>6, <3>1, <4>1
    <3>2. CASE ~(j < p)
      <4>1. j - 1 \in 1 .. Len(tabs) - 1 /\ ~(j - 1 < p) /\ (j - 1) + 1 = j
        BY <2>2, <2>4, <2>9, <3>2
      <4> QED
        BY <2>6, <4>1
    <3> QED
      BY <3>1, <3>2
  <2> HIDE DEF f
  <2>10. FitTabs(tabs2, rows)
    <3>1. \A j \in DOMAIN tabs2 : FitsTab(tabs2[j], rows)
      BY <2>2, <2>7 DEF FitTabs
    <3>2. \A j, k \in DOMAIN tabs2 : tabs2[j].n = tabs2[k].n => j = k
      BY <2>2, <2>7, <2>8 DEF FitTabs
    <3>3. \A j, k \in DOMAIN tabs2 :
            (j # k /\ tabs2[j].row = tabs2[k].row /\ tabs2[j].row # 0)
              => tabs2[j].kind = "saved"
      <4>1. TAKE j, k \in DOMAIN tabs2
      <4>2. /\ f[j] \in DOMAIN tabs /\ f[k] \in DOMAIN tabs
            /\ tabs2[j] = tabs[f[j]] /\ tabs2[k] = tabs[f[k]]
        BY <2>7
      <4>3. j # k => f[j] # f[k]
        BY <2>8
      <4> QED
        BY <2>2, <4>2, <4>3 DEF FitTabs
    <3> QED
      BY <3>1, <3>2, <3>3 DEF FitTabs
  <2>11. HasActive(tabs2, next) /\ next \in Nat
    <3>1. CASE windows[w].active # n
      <4>1. PICK j \in DOMAIN tabs : tabs[j].n = windows[w].active
        BY <2>2, <2>4 DEF HasActive
      <4>2. PICK k \in DOMAIN tabs2 : tabs2[k] = tabs[j]
        BY <2>4, <2>9, <3>1, <4>1
      <4>3. tabs2 # <<>>
        BY <4>2
      <4>4. windows[w].active \in Nat
        BY WindowIs
      <4> QED
        BY <2>5, <3>1, <4>1, <4>2, <4>3, <4>4 DEF HasActive
    <3>2. CASE windows[w].active = n /\ tabs2 = <<>>
      BY <2>5, <3>2 DEF HasActive
    <3>3. CASE windows[w].active = n /\ tabs2 # <<>>
      <4>1. \E k \in DOMAIN tabs2 : next = tabs2[k].n
        <5>1. CASE p \in DOMAIN tabs2
          BY <2>5, <3>3, <5>1
        <5>2. CASE p \notin DOMAIN tabs2
          <6>1. p - 1 \in DOMAIN tabs2
            BY <2>2, <2>4, <2>6, <3>3, <5>2
          <6> QED
            BY <2>5, <3>3, <5>2, <6>1
        <5> QED
          BY <5>1, <5>2
      <4>2. \A k \in DOMAIN tabs2 : tabs2[k].n \in Nat
        BY <2>2, <2>7 DEF TabType
      <4> QED
        BY <3>3, <4>1, <4>2 DEF HasActive
    <3> QED
      BY <3>1, <3>2, <3>3
  <2>12. OldOrFresh(w, tabs2)
    BY <2>7 DEF OldOrFresh
  <2>13. TurnsTo(w, tabs2, next, cs)
    BY <2>1, <2>6, <2>10, <2>11, <2>12 DEF TurnsTo
  <2> QED
    BY <2>13 DEF Turns
<1> QED
  BY <1>1, <1>2

LEMMA OpenRowTurns ==
  ASSUME Typed, NEW w \in Windows, NEW r \in DOMAIN rows, OpenRow(w, r)
  PROVE  Turns(w, calls)
<1>1. OpenTab(w, rows[r].kind, r)
  BY DEF OpenRow
<1>2. rows[r].kind \in Kinds /\ r \in Nat /\ r <= Len(rows)
  BY RowIs DEF Typed
<1> QED
  BY <1>1, <1>2, OpenTabTurns

LEMMA OpenNewTurns ==
  ASSUME Typed, NEW w \in Windows, NEW kind \in Kinds, OpenNew(w, kind)
  PROVE  Turns(w, calls)
<1>1. OpenTab(w, kind, 0) /\ 0 <= Len(rows)
  BY DEF OpenNew, Typed, RowsFit
<1> QED
  BY <1>1, OpenTabTurns

LEMMA FocusTurns ==
  ASSUME Typed, NEW w \in Windows, NEW t \in ToSet(windows[w].tabs), Focus(w, t.n)
  PROVE  Turns(w, calls)
<1> DEFINE tabs == windows[w].tabs
<1>1. tabs \in Seq(TabType) /\ FitTabs(tabs, rows)
  BY WindowIs
<1>2. PICK j \in DOMAIN tabs : tabs[j] = t
  BY DEF ToSet
<1>3. t.n \in Nat
  <2>1. t \in TabType
    BY <1>1, <1>2, SeqFacts
  <2> QED
    BY <2>1 DEF TabType
<1>4. HasActive(tabs, t.n)
  BY <1>1, <1>2 DEF HasActive
<1>5. OldOrFresh(w, tabs)
  BY DEF OldOrFresh
<1>6. Show(w, tabs, t.n, calls)
  BY DEF Focus
<1> HIDE DEF tabs
<1>7. TurnsTo(w, tabs, t.n, calls)
  BY <1>1, <1>3, <1>4, <1>5, <1>6 DEF TurnsTo
<1> QED
  BY <1>7 DEF Turns

LEMMA UserTurnsTyped ==
  ASSUME Typed, NEW w \in Windows, Turns(w, calls), Act,
         UNCHANGED <<rows, snapshots, triggers, overlapped, events, others>>
  PROVE  Typed'
<1>1. RestFits'
  BY TextFits DEF Typed, RestFits
<1>2. calls \in Seq(CallType) /\ Len(calls) <= MaxCalls
  BY DEF Typed, CallsFit
<1>3. Moves(calls, calls, 0, {})
  BY <1>2, MovesStay
<1> QED
  BY <1>1, <1>2, <1>3, TurnsTyped

LEMMA CloseTyped ==
  ASSUME Typed, NEW w \in Windows, NEW n, Close(w, n), UNCHANGED others
  PROVE  Typed'
<1>1. /\ Act /\ CloseTab(w, n, calls)
      /\ UNCHANGED <<rows, snapshots, triggers, overlapped, events>>
  BY DEF Close
<1>2. CASE calls' = calls /\ UNCHANGED <<windows, astray>>
  <2>1. RowsFit' /\ Grows
    BY <1>1, AllStays
  <2> QED
    BY <1>1, <1>2, <2>1, RequestTyped
<1>3. CASE Turns(w, calls)
  BY <1>1, <1>3, UserTurnsTyped
<1> QED
  BY <1>1, <1>2, <1>3, CloseTabTurns

(* The call that loads the lists.                                          *)
LEMMA ListCallIs ==
  ASSUME NEW w \in Windows, NEW c, c = Call("list", w, "read"), NEW rs, NEW ts,
         rs \in Seq(RowType)
  PROVE  /\ c \in CallType /\ Fits(c, rs, ts)
         /\ c.op = "list" /\ c.window = w /\ c.at = "read" /\ c.row = 0
         /\ c.kind = "dashboard" /\ c.found = {} /\ ~c.watches
<1>1. "read" \in Places
  BY DEF Places
<1>2. /\ c \in CallType /\ c.op = "list" /\ c.window = w /\ c.at = "read" /\ c.row = 0
      /\ c.kind = "dashboard" /\ c.text = 0 /\ c.found = {} /\ ~c.watches
  BY <1>1, CallIs
<1>3. FitsRow(c, rs)
  BY <1>2, WorkbenchAssumption DEF FitsRow
<1>4. FitsKind(c, rs, ts)
  BY <1>2 DEF FitsKind
<1> QED
  BY <1>2, <1>3, <1>4 DEF Fits

LEMMA MountTyped ==
  ASSUME Typed, NEW w \in Windows, Mount(w), UNCHANGED others
  PROVE  Typed'
<1> DEFINE c == Call("list", w, "read")
           v == [windows[w] EXCEPT !.open = TRUE]
<1>1. /\ Act /\ HasRoom(calls) /\ calls' = Append(calls, c)
      /\ windows' = [windows EXCEPT ![w] = v]
      /\ UNCHANGED <<rows, snapshots, triggers, overlapped, events>>
  BY DEF Mount
<1>2. RowsFit' /\ Grows
  BY <1>1, AllStays
<1>3. RestFits'
  BY <1>1, TextFits DEF Typed, RestFits
<1>4. windows \in [Windows -> WindowType] /\ windows[w] \in WindowType
  BY DEF Typed, WindowsFit
<1>5. /\ v \in WindowType /\ v.tabs = windows[w].tabs /\ v.active = windows[w].active
      /\ v.listed = windows[w].listed /\ v.shown = windows[w].shown
  BY <1>4 DEF WindowType
<1> HIDE DEF v
<1>6. /\ windows' \in [Windows -> WindowType]
      /\ \A u \in Windows : /\ windows'[u].tabs = windows[u].tabs
                            /\ windows'[u].active = windows[u].active
                            /\ windows'[u].listed = windows[u].listed
                            /\ windows'[u].shown = windows[u].shown
  BY <1>1, <1>4, <1>5
<1>7. \A u \in Windows : windows'[u].listed \subseteq DOMAIN rows
                         /\ windows'[u].shown \subseteq DOMAIN triggers'
  BY <1>1, <1>6, WindowIs
<1>8. WindowsFit' /\ \A u \in Windows : OldOrNew(windows[u].tabs, windows'[u].tabs)
  BY <1>2, <1>6, <1>7, WindowsStay
<1>9. c = Call("list", w, "read")
  OBVIOUS
<1> HIDE DEF c
<1>10. c \in CallType /\ Fits(c, rows', triggers') /\ c.op = "list"
  BY <1>2, <1>9, ListCallIs DEF RowsFit
<1>11. FitsQuery(c, windows'[c.window].tabs)
  BY <1>10 DEF FitsQuery
<1>12. calls \in Seq(CallType) /\ Len(calls) \in Nat /\ Len(calls) < MaxCalls
       /\ MaxCalls \in Nat
  BY <1>1, WorkbenchAssumption DEF Typed, CallsFit, HasRoom
<1>13. Moves(calls, calls', 0, {c}) /\ Len(calls') = Len(calls) + 1
  BY <1>1, <1>10, <1>12, MovesAppend
<1>14. Len(calls') <= MaxCalls
  BY <1>12, <1>13
<1>15. \A d \in {c} : Fits(d, rows', triggers') /\ FitsQuery(d, windows'[d.window].tabs)
  BY <1>10, <1>11
<1> QED
  BY <1>2, <1>3, <1>8, <1>13, <1>14, <1>15, TypedStep

(* A deletion has ended: its call is gone, and a new one for the lists may *)
(* be there, when the tab is closed.                                       *)
LEMMA DeletedIs ==
  ASSUME Typed, NEW i \in DOMAIN calls, ReceiveDeleted(i)
  PROVE  /\ calls[i].op = "delete" /\ calls[i].at = "answer"
         /\ UNCHANGED <<rows, snapshots, triggers, overlapped, acts, events>>
         /\ \E cs, new :
              /\ Goes(calls, cs, i, new, Windows) /\ Len(cs) <= MaxCalls
              /\ \A c \in new :
                   /\ Fits(c, rows, triggers) /\ c.op = "list" /\ c.row = 0
                   /\ c.kind = "dashboard" /\ c.found = {} /\ ~c.watches
              /\ \/ calls' = cs /\ UNCHANGED <<windows, astray>>
                 \/ calls[i].window \in Windows /\ Turns(calls[i].window, cs)
<1> DEFINE c == calls[i]
           l == Call("list", c.window, "read")
           out == Without(i)
           cs == IF Refreshes(c) THEN Append(out, l) ELSE out
<1>1. /\ c.op = "delete" /\ c.at = "answer"
      /\ UNCHANGED <<rows, snapshots, triggers, overlapped, acts, events>>
      /\ IF c.found = {} \/ c.window = None
         THEN calls' = out /\ UNCHANGED <<windows, astray>>
         ELSE CloseTab(c.window, c.tab, cs)
  BY DEF ReceiveDeleted, At, End
<1>2. calls \in Seq(CallType) /\ Len(calls) \in Nat /\ Len(calls) <= MaxCalls
      /\ MaxCalls \in Nat /\ c \in CallType
  BY CallAt, WorkbenchAssumption DEF Typed, CallsFit
<1>3. Goes(calls, out, i, {}, Windows) /\ Len(out) = Len(calls) - 1
  BY <1>2, GoesOut DEF Without
<1> HIDE DEF out
<1>4. CASE c.found = {} \/ c.window = None
  <2>1. calls' = out /\ UNCHANGED <<windows, astray>>
    BY <1>1, <1>4
  <2>2. Len(out) <= MaxCalls
    BY <1>2, <1>3
  <2> QED
    BY <1>1, <1>3, <2>1, <2>2
<1>5. CASE ~(c.found = {} \/ c.window = None)
  <2>1. c.window \in Windows
    BY <1>2, <1>5 DEF CallType
  <2>2. CloseTab(c.window, c.tab, cs)
    BY <1>1, <1>5
  <2>3. (calls' = cs /\ UNCHANGED <<windows, astray>>) \/ Turns(c.window, cs)
    <3> HIDE DEF cs
    <3> QED BY <2>1, <2>2, CloseTabTurns
  <2>4. l = Call("list", c.window, "read")
    OBVIOUS
  <2> HIDE DEF l
  <2>5. /\ l \in CallType /\ Fits(l, rows, triggers) /\ l.op = "list" /\ l.row = 0
        /\ l.kind = "dashboard" /\ l.found = {} /\ ~l.watches
    <3>1. rows \in Seq(RowType)
      BY DEF Typed, RowsFit
    <3> QED
      BY <2>1, <2>4, <3>1, ListCallIs
  <2>6. CASE Refreshes(c)
    <3>1. cs = Append(out, l) /\ out \in Seq(CallType)
      BY <1>3, <2>6 DEF Goes
    <3> HIDE DEF cs
    <3>2. Goes(out, cs, 0, {l}, Windows) /\ Len(cs) = Len(out) + 1
      BY <2>5, <3>1, GoesAppend
    <3>3. Goes(calls, cs, i, {} \cup {l}, Windows)
      BY <1>3, <3>2, GoesThen
    <3>4. Len(cs) <= MaxCalls
      BY <1>2, <1>3, <3>2
    <3>5. \A x \in {} \cup {l} :
            /\ Fits(x, rows, triggers) /\ x.op = "list" /\ x.row = 0
            /\ x.kind = "dashboard" /\ x.found = {} /\ ~x.watches
      BY <2>5
    <3> QED
      BY <1>1, <2>1, <2>3, <3>3, <3>4, <3>5
  <2>7. CASE ~Refreshes(c)
    <3>1. cs = out
      BY <2>7
    <3> HIDE DEF cs
    <3>2. Len(cs) <= MaxCalls
      BY <1>2, <1>3, <3>1
    <3> QED
      BY <1>1, <1>3, <2>1, <2>3, <3>1, <3>2
  <2> QED
    BY <2>6, <2>7
<1> QED
  BY <1>4, <1>5

LEMMA ReceiveDeletedTyped ==
  ASSUME Typed, NEW i \in DOMAIN calls, ReceiveDeleted(i), UNCHANGED others
  PROVE  Typed'
<1>1. UNCHANGED <<rows, snapshots, triggers, overlapped, acts, events>>
  BY DeletedIs
<1>2. PICK cs, new :
        /\ Moves(calls, cs, i, new) /\ Len(cs) <= MaxCalls
        /\ \A c \in new : Fits(c, rows, triggers) /\ c.op = "list"
        /\ \/ calls' = cs /\ UNCHANGED <<windows, astray>>
           \/ calls[i].window \in Windows /\ Turns(calls[i].window, cs)
  BY DeletedIs, GoesMoves
<1>3. RowsFit' /\ Grows /\ RestFits'
  BY <1>1, AllStays, RestStays
<1>4. CASE calls' = cs /\ UNCHANGED <<windows, astray>>
  <2>1. WindowsFit' /\ \A w \in Windows : OldOrNew(windows[w].tabs, windows'[w].tabs)
    BY <1>3, <1>4, WindowsSame
  <2>2. Moves(calls, calls', i, new) /\ Len(calls') <= MaxCalls
    BY <1>2, <1>4
  <2>3. \A c \in new : Fits(c, rows', triggers') /\ FitsQuery(c, windows'[c.window].tabs)
    BY <1>1, <1>2 DEF FitsQuery
  <2> QED
    BY <1>3, <2>1, <2>2, <2>3, TypedStep
<1>5. CASE calls[i].window \in Windows /\ Turns(calls[i].window, cs)
  <2>1. \A c \in new : Fits(c, rows, triggers) /\ c.op # "query"
    BY <1>2
  <2> QED
    BY <1>1, <1>2, <1>3, <1>5, <2>1, TurnsTyped
<1> QED
  BY <1>2, <1>4, <1>5

-----------------------------------------------------------------------------
(* How it begins.                                                          *)

LEMMA InitIs ==
  ASSUME Init
  PROVE  /\ rows \in Seq(RowType)
         /\ \A r \in DOMAIN rows : /\ rows[r].text = 1 /\ rows[r].past = {1}
                                   /\ rows[r].live
         /\ triggers \in Seq(Nat) /\ \A g \in DOMAIN triggers : triggers[g] <= Len(rows)
         /\ windows \in [Windows -> WindowType]
         /\ \A w \in Windows : /\ windows[w].listed = {} /\ windows[w].tabs = <<>>
                               /\ windows[w].active = 0 /\ windows[w].shown = {}
                               /\ ~windows[w].loaded
         /\ calls \in Seq(CallType) /\ Len(calls) <= MaxCalls
         /\ \A i \in DOMAIN calls :
              /\ Fits(calls[i], rows, triggers) /\ calls[i].op = "list"
              /\ calls[i].at = "read" /\ calls[i].row = 0 /\ calls[i].found = {}
              /\ calls[i].kind = "dashboard" /\ ~calls[i].watches
         /\ snapshots = {} /\ overlapped = {} /\ astray = {} /\ RestFits
<1>1. PICK start \in Starts :
        /\ rows = [r \in DOMAIN start.kinds |->
                     Row(start.kinds[r],
                         IF start.kinds[r] = "dashboard" THEN FirstSlug(r)
                         ELSE IF start.kinds[r] = "backend" THEN r ELSE 0, 1)]
        /\ triggers = [r \in DOMAIN start.kinds |->
                         IF start.kinds[r] = "transform" THEN r ELSE 0]
        /\ windows = [w \in Windows |->
             [open |-> w \in ToSet(start.windows), listed |-> {}, tabs |-> <<>>,
              active |-> 0, loaded |-> FALSE, shown |-> {}]]
        /\ calls = [i \in DOMAIN start.windows |->
                      Call("list", start.windows[i], "read")]
        /\ others = start.others /\ acts = start.acts /\ events = start.events
  BY DEF Init
<1>2. /\ start.kinds \in Seq(Kinds) /\ start.windows \in Seq(Windows)
      /\ start.others \subseteq {"agent", "panels"} /\ start.acts \in 0 .. MaxActs
      /\ start.events \in 0 .. MaxEvents /\ Len(start.windows) <= MaxCalls
  BY WorkbenchAssumption
<1>3. snapshots = {} /\ overlapped = {} /\ astray = {} /\ RestFits
  BY <1>1, <1>2 DEF Init, RestFits
<1> DEFINE n == Len(start.kinds)
           m == Len(start.windows)
<1>4. /\ DOMAIN start.kinds = 1 .. n /\ n \in Nat
      /\ \A r \in 1 .. n : start.kinds[r] \in Kinds
      /\ DOMAIN start.windows = 1 .. m /\ m \in Nat
      /\ \A i \in 1 .. m : start.windows[i] \in Windows
  BY <1>2
<1> HIDE DEF n, m
<1>5. ASSUME NEW r \in 1 .. n
      PROVE  /\ rows[r] \in RowType /\ rows[r].text = 1 /\ rows[r].past = {1}
             /\ rows[r].live
  <2>1. PICK name \in Nat : rows[r] = Row(start.kinds[r], name, 1)
    BY <1>1, <1>4 DEF FirstSlug
  <2>2. start.kinds[r] \in Kinds
    BY <1>4
  <2> QED
    BY <2>1, <2>2, SMTT(30) DEF Row, RowType
<1>6. DOMAIN rows = 1 .. n /\ rows = [r \in 1 .. n |-> rows[r]]
  BY <1>1, <1>4
<1>7. rows \in Seq(RowType) /\ Len(rows) = n
  BY <1>4, <1>5, <1>6, SeqBy
<1>8. /\ DOMAIN triggers = 1 .. n /\ triggers = [r \in 1 .. n |-> triggers[r]]
      /\ \A r \in 1 .. n : triggers[r] \in Nat /\ triggers[r] <= n
  BY <1>1, <1>4
<1>9. triggers \in Seq(Nat)
  BY <1>4, <1>8, SeqBy
<1>10. ASSUME NEW w \in Windows
       PROVE  /\ windows[w] \in WindowType
              /\ windows[w].listed = {} /\ windows[w].tabs = <<>>
              /\ windows[w].active = 0 /\ windows[w].shown = {}
              /\ ~windows[w].loaded
  <2>1. PICK b \in BOOLEAN : b <=> w \in ToSet(start.windows)
    OBVIOUS
  <2>2. windows[w] = [open |-> b, listed |-> {}, tabs |-> <<>>, active |-> 0,
                      loaded |-> FALSE, shown |-> {}]
    BY <1>1, <2>1
  <2>3. <<>> \in Seq(TabType)
    OBVIOUS
  <2> QED
    BY <2>2, <2>3, SMTT(30) DEF WindowType
<1>11. windows \in [Windows -> WindowType]
  <2>1. windows = [w \in Windows |-> windows[w]]
    BY <1>1
  <2> QED
    BY <1>10, <2>1
<1>12. ASSUME NEW i \in 1 .. m
       PROVE  /\ calls[i] \in CallType
              /\ Fits(calls[i], rows, triggers) /\ calls[i].op = "list"
              /\ calls[i].at = "read" /\ calls[i].row = 0 /\ calls[i].found = {}
              /\ calls[i].kind = "dashboard" /\ ~calls[i].watches
  <2>1. PICK w \in Windows : calls[i] = Call("list", w, "read")
    BY <1>1, <1>4
  <2>2. PICK c : c = calls[i]
    OBVIOUS
  <2>3. rows \in Seq(RowType) /\ c = Call("list", w, "read")
    BY <1>7, <2>1, <2>2
  <2>4. /\ c \in CallType /\ Fits(c, rows, triggers)
        /\ c.op = "list" /\ c.window = w /\ c.at = "read" /\ c.row = 0
        /\ c.kind = "dashboard" /\ c.found = {} /\ ~c.watches
    BY <2>3, ListCallIs
  <2> QED
    BY <2>2, <2>4
<1>13. DOMAIN calls = 1 .. m /\ calls = [i \in 1 .. m |-> calls[i]]
  BY <1>1, <1>4
<1>14. calls \in Seq(CallType) /\ Len(calls) = m
  BY <1>4, <1>12, <1>13, SeqBy
<1> QED
  BY <1>2, <1>3, <1>4, <1>5, <1>6, <1>7, <1>8, <1>9, <1>10, <1>11, <1>12, <1>13, <1>14
     DEF m

LEMMA InitTyped == Init => Typed
<1> SUFFICES ASSUME Init PROVE Typed
  OBVIOUS
<1>1. RowsFit
  BY InitIs DEF RowsFit
<1>2. CallsFit
  BY InitIs DEF CallsFit
<1>3. WindowsFit
  <2>1. windows \in [Windows -> WindowType]
    BY InitIs
  <2>2. ASSUME NEW w \in Windows PROVE FitsWindow(windows[w], rows, triggers)
    <3>1. /\ windows[w].listed = {} /\ windows[w].tabs = <<>>
          /\ windows[w].active = 0 /\ windows[w].shown = {}
      BY InitIs
    <3>2. FitTabs(windows[w].tabs, rows) /\ HasActive(windows[w].tabs, windows[w].active)
      BY <3>1 DEF FitTabs, HasActive
    <3> QED
      BY <3>1, <3>2 DEF FitsWindow
  <2> QED
    BY <2>1, <2>2 DEF WindowsFit
<1>4. QueriesFit
  BY InitIs DEF QueriesFit, FitsQuery
<1> QED
  BY <1>1, <1>2, <1>3, <1>4, InitIs DEF Typed

-----------------------------------------------------------------------------
(* The types hold after each step.                                         *)

LEMMA WorkTyped ==
  ASSUME Typed, Work
  PROVE  Typed'
<1>1. UNCHANGED others
  BY DEF Work
<1>2. PICK i \in DOMAIN calls :
        \/ ReadList(i) \/ ShowList(i)
        \/ ReadDashboard(i) \/ TrySlug(i) \/ TakeSnapshot(i)
        \/ RefuseWrite(i) \/ InsertRow(i) \/ InsertQuery(i) \/ UpdateRow(i)
        \/ WriteDelete(i)
        \/ PutTransform(i) \/ (\E g \in calls[i].found : ClearTrigger(i, g))
        \/ PostTrigger(i) \/ LoadTriggers(i) \/ ShowTriggers(i)
        \/ ReceiveSaved(i) \/ NoRoute(i) \/ ReceiveDeleted(i) \/ ReceiveQuery(i)
  BY DEF Work
<1>3. CASE ReadList(i) \/ ShowList(i)
  BY <1>1, <1>3, ReadListTyped, ShowListTyped
<1>4. CASE ReadDashboard(i) \/ TrySlug(i) \/ TakeSnapshot(i)
  BY <1>1, <1>4, ReadDashboardTyped, TrySlugTyped, TakeSnapshotTyped
<1>5. CASE RefuseWrite(i) \/ InsertRow(i) \/ InsertQuery(i)
  BY <1>1, <1>5, RefuseWriteTyped, InsertRowTyped, InsertQueryTyped
<1>6. CASE UpdateRow(i) \/ WriteDelete(i)
  BY <1>1, <1>6, UpdateRowTyped, WriteDeleteTyped
<1>7. CASE PutTransform(i) \/ \E g \in calls[i].found : ClearTrigger(i, g)
  BY <1>1, <1>7, PutTransformTyped, ClearTriggerTyped
<1>8. CASE PostTrigger(i) \/ LoadTriggers(i) \/ ShowTriggers(i)
  BY <1>1, <1>8, PostTriggerTyped, LoadTriggersTyped, ShowTriggersTyped
<1>9. CASE ReceiveSaved(i) \/ NoRoute(i)
  BY <1>1, <1>9, ReceiveSavedTyped, NoRouteTyped
<1>10. CASE ReceiveDeleted(i) \/ ReceiveQuery(i)
  BY <1>1, <1>10, ReceiveDeletedTyped, ReceiveQueryTyped
<1> QED
  BY <1>2, <1>3, <1>4, <1>5, <1>6, <1>7, <1>8, <1>9, <1>10

LEMMA UserSavesTyped ==
  ASSUME Typed, NEW w \in Windows, UNCHANGED others,
         \/ \E name \in {None, 1, 12} : SaveDashboard(w, name)
         \/ \E watches \in BOOLEAN : SaveTransform(w, watches)
         \/ \E name \in {None, 1, 2} : CreateBackend(w, name) \/ EditBackend(w, name)
         \/ SaveCred(w) \/ SaveJob(w)
  PROVE  Typed'
<1>1. PICK no \in BOOLEAN : no = FALSE
  OBVIOUS
<1>2. {"dashboard", "transform", "backend", "cred", "job"} \subseteq Kinds
      /\ {"missing", "read", "put", "write"} \subseteq Places
  BY DEF Kinds, Places
<1>3. ASSUME NEW name \in {None, 1, 12}, SaveDashboard(w, name)
      PROVE  Typed'
  <2>1. PICK at : at = IF Active(w).row = 0 THEN "missing" ELSE "read"
    OBVIOUS
  <2>2. Saves(w, "dashboard", at, name, no)
    BY <1>1, <1>3, <2>1, Zenon DEF SaveDashboard
  <2>3. at \in Places \ {"post"} /\ name \in Nat \cup {None}
    BY <1>2, <2>1
  <2> QED
    BY <1>2, <2>1, <2>2, <2>3, SavesTyped
<1>4. ASSUME NEW watches \in BOOLEAN, SaveTransform(w, watches)
      PROVE  Typed'
  <2>1. Saves(w, "transform", "put", None, watches)
    BY <1>4 DEF SaveTransform
  <2> QED
    BY <1>2, <2>1, SavesTyped
<1>5. ASSUME NEW name \in {None, 1, 2}, CreateBackend(w, name) \/ EditBackend(w, name)
      PROVE  Typed'
  <2>1. Saves(w, "backend", "write", name, no)
    BY <1>1, <1>5, Zenon DEF CreateBackend, EditBackend
  <2>2. name \in Nat \cup {None}
    OBVIOUS
  <2> QED
    BY <1>2, <2>1, <2>2, SavesTyped
<1>6. CASE SaveCred(w)
  <2>1. Saves(w, "cred", "write", None, no)
    BY <1>1, <1>6 DEF SaveCred
  <2> QED
    BY <1>2, <2>1, SavesTyped
<1>7. CASE SaveJob(w)
  <2>1. Saves(w, "job", "write", None, no)
    BY <1>1, <1>7 DEF SaveJob
  <2> QED
    BY <1>2, <2>1, SavesTyped
<1> QED
  BY <1>3, <1>4, <1>5, <1>6, <1>7

LEMMA UserTyped ==
  ASSUME Typed, User, UNCHANGED others
  PROVE  Typed'
<1>1. PICK w \in Windows :
        \/ Mount(w)
        \/ \E r \in DOMAIN rows : OpenRow(w, r)
        \/ \E kind \in Here : OpenNew(w, kind)
        \/ \E t \in ToSet(windows[w].tabs) : Focus(w, t.n) \/ Close(w, t.n)
        \/ \E name \in {None, 1, 12} : SaveDashboard(w, name)
        \/ \E watches \in BOOLEAN : SaveTransform(w, watches)
        \/ \E name \in {None, 1, 2} : CreateBackend(w, name) \/ EditBackend(w, name)
        \/ SaveCred(w) \/ SaveJob(w) \/ SaveQuery(w)
        \/ DeleteDashboard(w) \/ DeleteBackend(w) \/ DeleteCred(w)
  BY DEF User
<1>2. CASE Mount(w)
  BY <1>2, MountTyped
<1>3. ASSUME NEW r \in DOMAIN rows, OpenRow(w, r)
      PROVE  Typed'
  BY <1>3, OpenRowTurns, UserTurnsTyped DEF OpenRow
<1>4. ASSUME NEW kind \in Here, OpenNew(w, kind)
      PROVE  Typed'
  <2>1. kind \in Kinds
    BY RowIs DEF Here, Typed
  <2> QED
    BY <1>4, <2>1, OpenNewTurns, UserTurnsTyped DEF OpenNew
<1>5. ASSUME NEW t \in ToSet(windows[w].tabs), Focus(w, t.n)
      PROVE  Typed'
  BY <1>5, FocusTurns, UserTurnsTyped DEF Focus
<1>6. ASSUME NEW t \in ToSet(windows[w].tabs), Close(w, t.n)
      PROVE  Typed'
  BY <1>6, CloseTyped
<1>7. CASE \/ \E name \in {None, 1, 12} : SaveDashboard(w, name)
           \/ \E watches \in BOOLEAN : SaveTransform(w, watches)
           \/ \E name \in {None, 1, 2} : CreateBackend(w, name) \/ EditBackend(w, name)
           \/ SaveCred(w) \/ SaveJob(w)
  BY <1>7, UserSavesTyped
<1>8. CASE SaveQuery(w)
  BY <1>8, SaveQueryTyped
<1>9. CASE DeleteDashboard(w)
  BY <1>9, DeletesTyped DEF DeleteDashboard
<1>10. CASE DeleteBackend(w)
  BY <1>10, DeletesTyped DEF DeleteBackend
<1>11. CASE DeleteCred(w)
  BY <1>11, DeletesTyped DEF DeleteCred
<1> QED
  BY <1>1, <1>2, <1>3, <1>4, <1>5, <1>6, <1>7, <1>8, <1>9, <1>10, <1>11

(* What agents and panels do is one of few things.                         *)
LEMMA OthersDo ==
  ASSUME Typed, Agent \/ Panels
  PROVE  \/ \E r \in DOMAIN rows, text \in {0, NewText}, name \in Nat \cup {None} :
              rows[r].kind = "dashboard" /\ Update(r, text, name)
         \/ \E name \in {0, 1} : Submit(name)
         \/ \E r \in Live : rows[r].kind = "transform" /\ (CreateTrigger(r) \/ DeleteJob(r))
         \/ \E g \in DOMAIN triggers : triggers[g] # 0 /\ DeleteTrigger(g)
         \/ \E kind \in Kinds \ {"dashboard"}, name \in Nat : Insert(kind, name)
         \/ \E r \in Live, name \in Nat : rows[r].kind # "dashboard" /\ Change(r, name)
         \/ \E r \in Live : rows[r].kind \notin {"dashboard", "transform"} /\ Drop(r)
         \/ \E r \in {0} \cup Live, watches \in BOOLEAN :
              (r # 0 => rows[r].kind = "transform") /\ SubmitTransform(r, watches)
         \/ \E r \in Live : rows[r].kind = "dashboard" /\ RemoveDashboard(r)
<1>1. CASE Agent
  <2>1. \/ \E r \in DOMAIN rows : rows[r].kind = "dashboard" /\
             \/ \E name \in {None, 1} : Update(r, NewText, name)
             \/ Update(r, 0, 0)
        \/ \E name \in {0, 1} : Submit(name)
        \/ \E r \in Live : rows[r].kind = "transform" /\
             (CreateTrigger(r) \/ DeleteJob(r) \/ Change(r, 0))
        \/ Insert("transform", 0)
        \/ \E g \in DOMAIN triggers : triggers[g] # 0 /\ DeleteTrigger(g)
    BY <1>1 DEF Agent, UpdateTransform, CreateTransform
  <2>2. "transform" \in Kinds \ {"dashboard"} /\ {None, 1} \subseteq Nat \cup {None}
    BY DEF Kinds
  <2>3. CASE \E r \in DOMAIN rows : rows[r].kind = "dashboard" /\
               \/ \E name \in {None, 1} : Update(r, NewText, name)
               \/ Update(r, 0, 0)
    BY <2>2, <2>3
  <2>4. CASE \E r \in Live : rows[r].kind = "transform" /\
               (CreateTrigger(r) \/ DeleteJob(r) \/ Change(r, 0))
    BY <2>4
  <2>5. CASE Insert("transform", 0)
    BY <2>2, <2>5
  <2> QED
    BY <2>1, <2>3, <2>4, <2>5
<1>2. CASE Panels
  <2>1. \/ \E name \in {1, 2} :
             \/ Insert("backend", name)
             \/ \E r \in Live : rows[r].kind = "backend" /\ Change(r, name)
        \/ Insert("cred", 0) \/ Insert("job", 0)
        \/ \E watches \in BOOLEAN : SubmitTransform(0, watches)
        \/ \E r \in Live :
             \/ rows[r].kind \in {"backend", "cred", "job"} /\ Drop(r)
             \/ rows[r].kind = "job" /\ r # 0 /\ Change(r, 0)
             \/ rows[r].kind = "transform" /\
                  ((\E no \in BOOLEAN : SubmitTransform(r, no))
                     \/ DeleteJob(r) \/ CreateTrigger(r))
             \/ rows[r].kind = "dashboard" /\ RemoveDashboard(r)
        \/ \E g \in DOMAIN triggers : triggers[g] # 0 /\ DeleteTrigger(g)
    <3>1. 0 \notin Live
      BY SeqFacts DEF Live, Typed, RowsFit
    <3> QED
      BY <1>2, <3>1 DEF Panels, AddBackend, ChangeBackend, AddCred, SubmitJob,
         RemoveBackend, RemoveCred, RemoveJob, RemoveTransform, AddTrigger, RemoveTrigger
  <2>2. {"backend", "cred", "job"} \subseteq Kinds \ {"dashboard"}
    BY DEF Kinds
  <2>3. CASE \E name \in {1, 2} :
               \/ Insert("backend", name)
               \/ \E r \in Live : rows[r].kind = "backend" /\ Change(r, name)
    BY <2>2, <2>3
  <2>4. CASE Insert("cred", 0) \/ Insert("job", 0)
    BY <2>2, <2>4
  <2>5. CASE \E watches \in BOOLEAN : SubmitTransform(0, watches)
    BY <2>5
  <2>6. ASSUME NEW r \in Live, rows[r].kind \in {"backend", "cred", "job"}, Drop(r)
        PROVE  \E s \in Live : rows[s].kind \notin {"dashboard", "transform"} /\ Drop(s)
    BY <2>6
  <2>7. ASSUME NEW r \in Live, rows[r].kind = "job", Change(r, 0)
        PROVE  \E s \in Live, name \in Nat : rows[s].kind # "dashboard" /\ Change(s, name)
    BY <2>7
  <2>8. ASSUME NEW r \in Live, rows[r].kind = "transform",
               \E no \in BOOLEAN : SubmitTransform(r, no)
        PROVE  \E s \in {0} \cup Live, watches \in BOOLEAN :
                 (s # 0 => rows[s].kind = "transform") /\ SubmitTransform(s, watches)
    BY <2>8
  <2> QED
    BY <2>1, <2>3, <2>4, <2>5, <2>6, <2>7, <2>8
<1> QED
  BY <1>1, <1>2

LEMMA OthersTyped ==
  ASSUME Typed, Agent \/ Panels, UNCHANGED others
  PROVE  Typed'
<1>1. Live \subseteq DOMAIN rows
  BY DEF Live
<1>2. ASSUME NEW r \in DOMAIN rows, NEW text \in {0, NewText}, NEW name \in Nat \cup {None},
             rows[r].kind = "dashboard", Update(r, text, name)
      PROVE  Typed'
  BY <1>2, UpdateTyped
<1>3. ASSUME NEW name \in {0, 1}, Submit(name) PROVE Typed'
  BY <1>3, SubmitTyped
<1>4. ASSUME NEW r \in Live, CreateTrigger(r) \/ DeleteJob(r) PROVE Typed'
  BY <1>1, <1>4, CreateTriggerTyped, DeleteJobTyped
<1>5. ASSUME NEW g \in DOMAIN triggers, DeleteTrigger(g) PROVE Typed'
  BY <1>5, DeleteTriggerTyped
<1>6. ASSUME NEW kind \in Kinds, NEW name \in Nat, Insert(kind, name) PROVE Typed'
  BY <1>6, InsertTyped
<1>7. ASSUME NEW r \in Live, NEW name \in Nat, Change(r, name) PROVE Typed'
  BY <1>1, <1>7, ChangeTyped
<1>8. ASSUME NEW r \in Live, Drop(r) PROVE Typed'
  BY <1>1, <1>8, DropTyped
<1>9. ASSUME NEW r \in {0} \cup Live, NEW watches \in BOOLEAN,
             r # 0 => rows[r].kind = "transform", SubmitTransform(r, watches)
      PROVE  Typed'
  <2>1. r \in {0} \cup DOMAIN rows
    BY <1>1
  <2> QED
    BY <1>9, <2>1, SubmitTransformTyped
<1>10. ASSUME NEW r \in Live, rows[r].kind = "dashboard", RemoveDashboard(r)
       PROVE  Typed'
  BY <1>1, <1>10, RemoveDashboardTyped
<1> QED
  BY <1>2, <1>3, <1>4, <1>5, <1>6, <1>7, <1>8, <1>9, <1>10, OthersDo

LEMMA FailTyped ==
  ASSUME Typed, Fail, UNCHANGED others
  PROVE  Typed'
BY LoseTyped, LoseClearTyped DEF Fail

LEMMA NextTyped ==
  ASSUME Typed, [Next]_vars
  PROVE  Typed'
<1>1. CASE UNCHANGED vars
  <2>1. UNCHANGED <<rows, snapshots, triggers, windows, calls, overlapped, others, acts,
                    events>>
    BY <1>1 DEF vars
  <2>2. RowsFit' /\ Grows /\ RestFits'
    BY <2>1, AllStays, RestStays
  <2>3. WindowsFit' /\ \A w \in Windows : OldOrNew(windows[w].tabs, windows'[w].tabs)
    BY <2>1, <2>2, WindowsSame
  <2>4. Moves(calls, calls', 0, {}) /\ Len(calls') <= MaxCalls
    BY <2>1, MovesStay DEF Typed, CallsFit
  <2> QED
    BY <2>2, <2>3, <2>4, TypedStep
<1>2. CASE Next
  BY <1>2, WorkTyped, UserTyped, OthersTyped, FailTyped DEF Next
<1> QED
  BY <1>1, <1>2

LEMMA TypedIsTypeOK == Typed => TypeOK
<1> SUFFICES ASSUME Typed PROVE TypeOK
  OBVIOUS
<1>1. /\ DOMAIN rows = 1 .. Len(rows) /\ Len(rows) \in Nat
      /\ DOMAIN triggers = 1 .. Len(triggers) /\ Len(triggers) \in Nat
      /\ \A g \in DOMAIN triggers : triggers[g] \in Nat /\ triggers[g] <= Len(rows)
  BY SeqFacts DEF Typed, RowsFit
<1>2. \A r \in DOMAIN rows : rows[r].kind \in Kinds /\ rows[r].name \in Nat
                             /\ rows[r].text \in rows[r].past
  BY RowIs DEF Typed
<1>3. ASSUME NEW i \in DOMAIN calls
      PROVE  IsCall(calls[i])
  <2> DEFINE c == calls[i]
  <2>1. c \in CallType /\ FitsRow(c, rows) /\ FitsKind(c, rows, triggers)
        /\ c.found \subseteq DOMAIN rows \cup DOMAIN triggers
    BY CallAt DEF Typed, Fits
  <2>2. /\ c.op \in {"list", "load", "save", "delete", "query"}
        /\ c.at \in Places /\ c.window \in Windows \cup {None} /\ c.kind \in Kinds
        /\ c.row \in Nat /\ c.text \in Nat /\ c.name \in Nat \cup {None}
    BY <2>1 DEF CallType
  <2>3. {c.mounted, c.watches, c.raced} \subseteq BOOLEAN
    <3>1. c.mounted \in BOOLEAN /\ c.watches \in BOOLEAN /\ c.raced \in BOOLEAN
      BY <2>1 DEF CallType
    <3> QED
      BY <3>1, Zenon
  <2>4. c.row \in 0 .. Len(rows) /\ c.text \in 0 .. MaxActs + 1
    BY <1>1, <2>1, <2>2, WorkbenchAssumption DEF FitsRow
  <2>5. c.at = "slug" => c.count < MaxTries
    BY <2>1, <2>2 DEF FitsKind, IsLoad, IsQuery, IsDelete, IsSaveOfTransform,
                      IsSaveOfDashboard
  <2>6. c.found \subseteq 1 .. Len(rows) + Len(triggers)
    BY <1>1, <2>1
  <2> QED
    BY <2>2, <2>3, <2>4, <2>5, <2>6 DEF IsCall, Places
<1>4. ASSUME NEW w \in Windows
      PROVE  IsWindow(windows[w])
  <2>1. /\ windows[w] \in WindowType /\ windows[w].tabs \in Seq(TabType)
        /\ FitTabs(windows[w].tabs, rows)
        /\ windows[w].listed \subseteq DOMAIN rows /\ windows[w].shown \subseteq DOMAIN triggers
    BY WindowIs
  <2>2. {windows[w].open, windows[w].loaded} \subseteq BOOLEAN
    <3>1. windows[w].open \in BOOLEAN /\ windows[w].loaded \in BOOLEAN
      BY <2>1 DEF WindowType
    <3> QED
      BY <3>1, Zenon
  <2>3. ASSUME NEW t \in ToSet(windows[w].tabs)
        PROVE  t.kind \in Kinds /\ t.row \in 0 .. Len(rows)
    <3>1. PICK j \in DOMAIN windows[w].tabs : windows[w].tabs[j] = t
      BY DEF ToSet
    <3>2. t \in TabType /\ FitsTab(t, rows)
      BY <2>1, <3>1, SeqFacts DEF FitTabs
    <3> QED
      BY <1>1, <3>2 DEF TabType, FitsTab
  <2> QED
    BY <2>1, <2>2, <2>3 DEF IsWindow
<1>5. \A g \in DOMAIN triggers : triggers[g] \in 0 .. Len(rows)
  BY <1>1
<1>6. /\ snapshots \subseteq (DOMAIN rows) \X Nat /\ overlapped \subseteq DOMAIN rows
      /\ Len(calls) <= MaxCalls /\ others \subseteq {"agent", "panels"}
      /\ acts \in 0 .. MaxActs /\ events \in 0 .. MaxEvents
  BY DEF Typed, RowsFit, CallsFit, RestFits
<1> QED
  BY <1>2, <1>3, <1>4, <1>5, <1>6 DEF TypeOK

LEMMA AlwaysTyped == Spec => []Typed
<1>1. Typed /\ [Next]_vars => Typed'
  BY NextTyped
<1> QED
  BY InitTyped, <1>1, PTL DEF Spec

(* Every id that a tab, a call, a trigger or a snapshot holds is one of a  *)
(* row that has existed, there are never more calls than windows and       *)
(* agents may have under way, and resolveUniqueSlug                        *)
(* (src/db/dashboards.ts) looks a slug up at most MaxTries times.          *)
THEOREM TypeCorrect == Spec => []TypeOK
BY AlwaysTyped, TypedIsTypeOK, PTL

(* In every window a row has one tab, unless it is a saved query, and the  *)
(* active tab is an open one, whatever deletions end while the user opens  *)
(* and closes tabs (WorkbenchShell.tsx, openTab and closeTab).             *)
THEOREM TabBarsAreSound == Spec => []TabBarIsSound
<1>1. Typed => TabBarIsSound
  <2> SUFFICES ASSUME Typed PROVE TabBarIsSound
    OBVIOUS
  <2>1. ASSUME NEW w \in Windows
        PROVE  LET tabs == windows[w].tabs IN
               /\ \A j, k \in DOMAIN tabs :
                    (j # k /\ tabs[j].row = tabs[k].row /\ tabs[j].row # 0)
                      => tabs[j].kind = "saved"
               /\ IF tabs = <<>> THEN windows[w].active = 0
                  ELSE HasTab(w, windows[w].active)
    <3>1. FitTabs(windows[w].tabs, rows) /\ HasActive(windows[w].tabs, windows[w].active)
      BY WindowIs
    <3> QED
      BY <3>1 DEF FitTabs, HasActive, HasTab, ToSet
  <2> QED
    BY <2>1 DEF TabBarIsSound
<1> QED
  BY <1>1, AlwaysTyped, PTL

-----------------------------------------------------------------------------
(* Dashboards.  A step is quiet when it writes no dashboard and no         *)
(* snapshot, and when the call it begins or changes has read none.         *)

Harmless(c) ==
  (c.op \in {"save", "delete"} /\ c.kind = "dashboard")
    => \/ c.at \in {"read", "answer"}
       \/ c.row = 0 /\ (c.at \notin {"snapshot", "write"} \/ c.name = 0)
DashboardsKept ==
  \A r \in DOMAIN rows' : rows'[r].kind = "dashboard"
                            => r \in DOMAIN rows /\ rows'[r] = rows[r]
Quiet ==
  /\ DashboardsKept
  /\ UNCHANGED <<snapshots, overlapped>>
  /\ \E i, new : Moves(calls, calls', i, new) /\ \A c \in new : Harmless(c)

LEMMA RowsQuiet ==
  ASSUME UNCHANGED rows
  PROVE  DashboardsKept
BY DEF DashboardsKept

LEMMA QuietStay ==
  ASSUME Typed, DashboardsKept, UNCHANGED <<snapshots, overlapped, calls>>
  PROVE  Quiet
BY MovesStay DEF Quiet, Typed, CallsFit

LEMMA QuietEnd ==
  ASSUME Typed, DashboardsKept, UNCHANGED <<snapshots, overlapped>>,
         NEW i \in DOMAIN calls, End(i)
  PROVE  Quiet
<1>1. Moves(calls, calls', i, {})
  BY MovesOut DEF End, Without, Typed, CallsFit
<1> QED
  BY <1>1 DEF Quiet

LEMMA QuietBegin ==
  ASSUME Typed, DashboardsKept, UNCHANGED <<snapshots, overlapped>>,
         NEW c \in CallType, Harmless(c), calls' = Append(calls, c)
  PROVE  Quiet
<1>1. Moves(calls, calls', 0, {c})
  BY MovesAppend DEF Typed, CallsFit
<1> QED
  BY <1>1 DEF Quiet

LEMMA QuietAct ==
  ASSUME Typed, DashboardsKept, UNCHANGED <<snapshots, overlapped>>,
         NEW i \in DOMAIN calls, NEW c \in CallType, Harmless(c),
         \/ calls' = [calls EXCEPT ![i] = c]
         \/ calls' = [Raced(calls, i) EXCEPT ![i] = c]
  PROVE  Quiet
<1>1. calls \in Seq(CallType)
  BY DEF Typed, CallsFit
<1>2. Moves(calls, calls', i, {c})
  BY <1>1, MovesAt, RacedIs
<1> QED
  BY <1>2 DEF Quiet

LEMMA QuietAnswer ==
  ASSUME Typed, DashboardsKept, UNCHANGED <<snapshots, overlapped>>,
         NEW i \in DOMAIN calls, NEW found \in SUBSET Nat,
         \/ calls' = [calls EXCEPT ![i] = Answered(calls[i], found)]
         \/ calls' = [Raced(calls, i) EXCEPT ![i] = Answered(calls[i], found)]
  PROVE  Quiet
<1>1. PICK c : c = calls[i]
  OBVIOUS
<1>2. c \in CallType
  BY <1>1, CallAt DEF Typed
<1>3. PICK d : d = Answered(c, found)
  OBVIOUS
<1>4. d \in CallType /\ d.at = "answer"
  BY <1>2, <1>3, AnsweredIs
<1>5. Harmless(d)
  BY <1>4 DEF Harmless
<1>6. \/ calls' = [calls EXCEPT ![i] = d]
      \/ calls' = [Raced(calls, i) EXCEPT ![i] = d]
  BY <1>1, <1>3
<1> QED
  BY <1>4, <1>5, <1>6, QuietAct

(* A row of another kind is appended or replaced.                          *)
LEMMA AppendQuiet ==
  ASSUME RowsFit, NEW row \in RowType, row.kind # "dashboard", rows' = Append(rows, row)
  PROVE  DashboardsKept
<1>1. rows \in Seq(RowType) /\ Len(rows) \in Nat /\ DOMAIN rows = 1 .. Len(rows)
  BY DEF RowsFit
<1>2. /\ DOMAIN rows' = 1 .. Len(rows) + 1
      /\ \A r \in 1 .. Len(rows) : rows'[r] = rows[r]
      /\ rows'[Len(rows) + 1] = row
  BY <1>1, AppendIs
<1> QED
  BY <1>1, <1>2 DEF DashboardsKept

LEMMA ReplaceQuiet ==
  ASSUME RowsFit, NEW r \in DOMAIN rows, NEW row \in RowType, row.kind # "dashboard",
         rows' = [rows EXCEPT ![r] = row]
  PROVE  DashboardsKept
<1>1. /\ DOMAIN rows' = DOMAIN rows
      /\ \A s \in DOMAIN rows : rows'[s] = IF s = r THEN row ELSE rows[s]
  BY ExceptIs DEF RowsFit
<1> QED
  BY <1>1 DEF DashboardsKept

(* The steps of calls that are quiet.                                      *)
LEMMA AnswersQuiet ==
  ASSUME Typed, NEW i \in DOMAIN calls,
         ReadList(i) \/ RefuseWrite(i) \/ LoadTriggers(i)
  PROVE  Quiet
<1>1. UNCHANGED <<rows, snapshots, overlapped>>
  BY DEF ReadList, RefuseWrite, LoadTriggers
<1>2. DOMAIN rows \subseteq Nat /\ DOMAIN triggers \subseteq Nat
  BY SeqFacts DEF Typed, RowsFit
<1>3. PICK found : /\ found \subseteq DOMAIN rows \cup DOMAIN triggers
                   /\ calls' = [calls EXCEPT ![i] = Answered(calls[i], found)]
  <2>1. CASE ReadList(i)
    BY <2>1 DEF ReadList, Live
  <2>2. CASE RefuseWrite(i)
    BY <2>2 DEF RefuseWrite
  <2>3. CASE LoadTriggers(i)
    BY <2>3, TriggersOfIs DEF LoadTriggers
  <2> QED
    BY <2>1, <2>2, <2>3
<1>4. found \in SUBSET Nat
  BY <1>2, <1>3
<1> QED
  BY <1>1, <1>3, <1>4, RowsQuiet, QuietAnswer

LEMMA EndsQuiet ==
  ASSUME Typed, NEW i \in DOMAIN calls,
         \/ ShowList(i) \/ ShowTriggers(i) \/ ReceiveSaved(i) \/ NoRoute(i)
         \/ ReceiveQuery(i) \/ Lose(i)
  PROVE  Quiet
<1>1. End(i) /\ UNCHANGED <<rows, snapshots, overlapped>>
  BY DEF ShowList, ShowTriggers, ReceiveSaved, NoRoute, ReceiveQuery, Lose
<1> QED
  BY <1>1, RowsQuiet, QuietEnd

LEMMA InsertQueryQuiet ==
  ASSUME Typed, NEW i \in DOMAIN calls, InsertQuery(i)
  PROVE  Quiet
<1>1. PICK c : c = calls[i]
  OBVIOUS
<1>2. PICK found : found = {Len(rows) + 1}
  OBVIOUS
<1>3. PICK row : row = Row("saved", NewName(c), c.text)
  OBVIOUS
<1>4. /\ rows' = Append(rows, row)
      /\ calls' = [Raced(calls, i) EXCEPT ![i] = Answered(calls[i], found)]
      /\ UNCHANGED <<snapshots, overlapped>>
  BY <1>1, <1>2, <1>3 DEF InsertQuery, Inserts
<1>5. c.text \in Nat /\ c.name \in Nat \cup {None} /\ "saved" \in Kinds
  BY <1>1, CallAt DEF Typed, Kinds
<1>6. NewName(c) \in Nat
  BY <1>5 DEF NewName
<1>7. row \in RowType
  BY <1>3, <1>5, <1>6, SMTT(30) DEF Row, RowType
<1>8. row.kind # "dashboard"
  BY <1>3 DEF Row
<1>9. found \in SUBSET Nat
  BY <1>2 DEF Typed, RowsFit
<1>10. DashboardsKept
  BY <1>4, <1>7, <1>8, AppendQuiet DEF Typed
<1> QED
  BY <1>4, <1>9, <1>10, QuietAnswer

LEMMA AfterPutQuiet ==
  ASSUME Typed, DashboardsKept, UNCHANGED <<snapshots, overlapped>>,
         NEW i \in DOMAIN calls, NEW c \in CallType, c.kind = "transform",
         calls' = [calls EXCEPT ![i] = AfterPut(c)]
  PROVE  Quiet
<1>1. PICK d : d = AfterPut(c)
  OBVIOUS
<1>2. d \in CallType /\ d.kind = c.kind
  BY <1>1, AfterPutIs
<1>3. Harmless(d)
  BY <1>2 DEF Harmless
<1>4. calls' = [calls EXCEPT ![i] = d]
  BY <1>1
<1> QED
  BY <1>2, <1>3, <1>4, QuietAct

LEMMA PutTransformQuiet ==
  ASSUME Typed, NEW i \in DOMAIN calls, PutTransform(i)
  PROVE  Quiet
<1>1. /\ calls[i].op = "save" /\ calls[i].at = "put"
      /\ UNCHANGED <<snapshots, overlapped>>
  BY DEF PutTransform, At
<1>2. PICK c \in CallType : c = calls[i] /\ c.kind = "transform"
                            /\ (c.row # 0 => rows[c.row].kind = "transform")
  BY <1>1, SaveOfTransformIs
<1>3. CASE c.row # 0 /\ c.row \notin Live
  <2>1. End(i) /\ UNCHANGED rows
    BY <1>2, <1>3 DEF PutTransform
  <2> QED
    BY <1>1, <2>1, RowsQuiet, QuietEnd
<1>4. CASE ~(c.row # 0 /\ c.row \notin Live)
  <2>1. PICK r \in Nat \ {0} :
          /\ r = IF calls[i].row = 0 THEN Len(rows) + 1 ELSE calls[i].row
          /\ calls' = [calls EXCEPT ![i] = AfterPut(ForRow(calls[i], r))]
          /\ RowsFit' /\ Grows /\ r \in DOMAIN rows' /\ rows'[r].kind = "transform"
          /\ \A s \in DOMAIN rows \ {r} : rows'[s] = rows[s]
    BY <1>2, <1>4, PutIs
  <2>2. DOMAIN rows' \subseteq DOMAIN rows \cup {r}
    <3>1. /\ DOMAIN rows = 1 .. Len(rows) /\ Len(rows) \in Nat
          /\ DOMAIN rows' = 1 .. Len(rows') /\ Len(rows') \in Nat
      BY <2>1, SeqFacts DEF Typed, RowsFit
    <3>2. CASE c.row # 0
      <4>1. DOMAIN rows' = DOMAIN rows
        BY <1>2, <1>4, <3>2 DEF PutTransform
      <4> QED
        BY <4>1
    <3>3. CASE c.row = 0
      <4>1. r = Len(rows) + 1 /\ rows' = Append(rows, Row("transform", 0, c.text))
        BY <1>2, <1>4, <2>1, <3>3 DEF PutTransform
      <4>2. Len(rows') = Len(rows) + 1
        BY <4>1 DEF Typed, RowsFit
      <4> QED
        BY <3>1, <4>1, <4>2
    <3> QED
      BY <3>2, <3>3
  <2>3. DashboardsKept
    BY <2>1, <2>2 DEF DashboardsKept
  <2>4. PICK d : d = ForRow(c, r)
    OBVIOUS
  <2>5. d \in CallType /\ d.kind = "transform"
    BY <1>2, <2>4, ForRowIs
  <2>6. calls' = [calls EXCEPT ![i] = AfterPut(d)]
    BY <1>2, <2>1, <2>4
  <2> QED
    BY <1>1, <2>3, <2>5, <2>6, AfterPutQuiet
<1> QED
  BY <1>3, <1>4

LEMMA ClearsQuiet ==
  ASSUME Typed, NEW i \in DOMAIN calls, NEW g, ClearTrigger(i, g) \/ LoseClear(i, g)
  PROVE  Quiet
<1>1. /\ calls[i].op = "save" /\ calls[i].at = "clear"
      /\ calls' = [calls EXCEPT ![i] = AfterPut(Cleared(calls[i], g))]
      /\ UNCHANGED <<rows, snapshots, overlapped>>
  BY DEF ClearTrigger, LoseClear, At, Cleared
<1>2. PICK c \in CallType : c = calls[i] /\ c.kind = "transform"
  BY <1>1, SaveOfTransformIs
<1>3. PICK d : d = Cleared(c, g)
  OBVIOUS
<1>4. d \in CallType /\ d.kind = "transform"
  BY <1>2, <1>3, ClearedIs
<1>5. calls' = [calls EXCEPT ![i] = AfterPut(d)]
  BY <1>1, <1>2, <1>3
<1> QED
  BY <1>1, <1>4, <1>5, RowsQuiet, AfterPutQuiet

LEMMA PostTriggerQuiet ==
  ASSUME Typed, NEW i \in DOMAIN calls, PostTrigger(i)
  PROVE  Quiet
<1>1. UNCHANGED <<rows, snapshots, overlapped>>
  BY DEF PostTrigger
<1>2. PICK found : found = {Len(triggers) + 1}
  OBVIOUS
<1>3. found \in SUBSET Nat
  BY <1>2 DEF Typed, RowsFit
<1>4. calls' = [calls EXCEPT ![i] = Answered(calls[i], found)] \/ End(i)
  BY <1>2 DEF PostTrigger
<1> QED
  BY <1>1, <1>3, <1>4, RowsQuiet, QuietAnswer, QuietEnd

(* A tab is shown, after the calls have become cs.                         *)
LEMMA TurnsQuiet ==
  ASSUME Typed, UNCHANGED <<rows, snapshots, overlapped>>,
         NEW w \in Windows, NEW cs, Turns(w, cs),
         NEW i, NEW first, Moves(calls, cs, i, first), Len(cs) <= MaxCalls,
         \A c \in first : c.op = "list"
  PROVE  Quiet
<1>1. PICK tabs, active : TurnsTo(w, tabs, active, cs)
  BY DEF Turns
<1>2. cs \in Seq(CallType)
  BY MovesIs
<1>3. PICK new : Moves(cs, calls', 0, new) /\ \A c \in new : c.op = "load"
  BY <1>1, <1>2, ShowMoves DEF TurnsTo
<1>4. Moves(calls, calls', i, first \cup new)
  BY <1>3, MovesThen
<1>5. \A c \in first \cup new : Harmless(c)
  BY <1>3 DEF Harmless
<1> QED
  BY <1>4, <1>5, RowsQuiet DEF Quiet

LEMMA UserTurnsQuiet ==
  ASSUME Typed, UNCHANGED <<rows, snapshots, overlapped>>, NEW w \in Windows,
         Turns(w, calls)
  PROVE  Quiet
<1>1. Moves(calls, calls, 0, {}) /\ Len(calls) <= MaxCalls
  BY MovesStay DEF Typed, CallsFit
<1> QED
  BY <1>1, TurnsQuiet

LEMMA CloseQuiet ==
  ASSUME Typed, NEW w \in Windows, NEW n, Close(w, n)
  PROVE  Quiet
<1>1. CloseTab(w, n, calls) /\ UNCHANGED <<rows, snapshots, overlapped>>
  BY DEF Close
<1>2. UNCHANGED calls \/ Turns(w, calls)
  BY <1>1, CloseTabTurns
<1> QED
  BY <1>1, <1>2, RowsQuiet, QuietStay, UserTurnsQuiet

LEMMA ReceiveDeletedQuiet ==
  ASSUME Typed, NEW i \in DOMAIN calls, ReceiveDeleted(i)
  PROVE  Quiet
<1>1. UNCHANGED <<rows, snapshots, overlapped>>
  BY DeletedIs
<1>2. PICK cs, new :
        /\ Moves(calls, cs, i, new) /\ Len(cs) <= MaxCalls
        /\ \A c \in new : c.op = "list"
        /\ \/ calls' = cs
           \/ calls[i].window \in Windows /\ Turns(calls[i].window, cs)
  BY DeletedIs, GoesMoves
<1>3. CASE calls' = cs
  <2>1. \A c \in new : Harmless(c)
    BY <1>2 DEF Harmless
  <2> QED
    BY <1>1, <1>2, <1>3, <2>1, RowsQuiet DEF Quiet
<1>4. CASE calls[i].window \in Windows /\ Turns(calls[i].window, cs)
  BY <1>1, <1>2, <1>4, TurnsQuiet
<1> QED
  BY <1>2, <1>3, <1>4

LEMMA MountQuiet ==
  ASSUME Typed, NEW w \in Windows, Mount(w)
  PROVE  Quiet
<1>1. PICK c : c = Call("list", w, "read")
  OBVIOUS
<1>2. calls' = Append(calls, c) /\ UNCHANGED <<rows, snapshots, overlapped>>
  BY <1>1 DEF Mount
<1>3. c \in CallType /\ c.op = "list"
  BY <1>1, ListCallIs DEF Typed, RowsFit
<1>4. Harmless(c)
  BY <1>3 DEF Harmless
<1> QED
  BY <1>2, <1>3, <1>4, RowsQuiet, QuietBegin

(* A window begins a save or a deletion.                                   *)
LEMMA SavesQuiet ==
  ASSUME Typed, NEW w \in Windows, NEW kind \in Kinds, NEW at \in Places,
         NEW name \in Nat \cup {None}, NEW watches \in BOOLEAN,
         Saves(w, kind, at, name, watches),
         kind = "dashboard" => at = IF Active(w).row = 0 THEN "missing" ELSE "read"
  PROVE  Quiet
<1>1. UNCHANGED <<rows, snapshots, overlapped>>
  BY SavesIs
<1>2. PICK c : /\ c \in CallType /\ calls' = Append(calls, c)
               /\ c.op = "save" /\ c.at = at /\ c.kind = kind /\ c.row = Active(w).row
  BY SavesIs
<1>3. Harmless(c)
  BY <1>2 DEF Harmless
<1> QED
  BY <1>1, <1>2, <1>3, RowsQuiet, QuietBegin

LEMMA DeletesQuiet ==
  ASSUME Typed, NEW w \in Windows, NEW kind \in {"dashboard", "backend", "cred"},
         NEW at \in {"read", "write"}, kind = "dashboard" => at = "read",
         Deletes(w, kind, at)
  PROVE  Quiet
<1>1. UNCHANGED <<rows, snapshots, overlapped>>
  BY DeletesIs
<1>2. PICK c : /\ c \in CallType /\ calls' = Append(calls, c)
               /\ c.op = "delete" /\ c.at = at /\ c.kind = kind
  BY DeletesIs
<1>3. Harmless(c)
  BY <1>2 DEF Harmless
<1> QED
  BY <1>1, <1>2, <1>3, RowsQuiet, QuietBegin

LEMMA SaveQueryQuiet ==
  ASSUME Typed, NEW w \in Windows, SaveQuery(w)
  PROVE  Quiet
<1>1. UNCHANGED <<rows, snapshots, overlapped>>
  BY SaveQueryIs
<1>2. PICK c : c \in CallType /\ calls' = Append(calls, c) /\ c.op = "query"
  BY SaveQueryIs
<1>3. Harmless(c)
  BY <1>2 DEF Harmless
<1> QED
  BY <1>1, <1>2, <1>3, RowsQuiet, QuietBegin

(* What a window begins to save is one of few things.                      *)
SavesOfUser(w) ==
  \/ \E name \in {None, 1, 12} : SaveDashboard(w, name)
  \/ \E watches \in BOOLEAN : SaveTransform(w, watches)
  \/ \E name \in {None, 1, 2} : CreateBackend(w, name) \/ EditBackend(w, name)
  \/ SaveCred(w) \/ SaveJob(w)

LEMMA UserSaves ==
  ASSUME NEW w \in Windows, SavesOfUser(w)
  PROVE  \/ /\ \E kind \in Kinds \ {"transform"}, at \in Places \ {"post"},
                  name \in Nat \cup {None}, watches \in BOOLEAN :
                 /\ Saves(w, kind, at, name, watches)
                 /\ kind = "dashboard" =>
                      at = IF Active(w).row = 0 THEN "missing" ELSE "read"
            /\ UNCHANGED astray
         \/ \E watches \in BOOLEAN : SaveTransform(w, watches)
<1>1. PICK no \in BOOLEAN : no = FALSE
  OBVIOUS
<1>2. {"dashboard", "backend", "cred", "job"} \subseteq Kinds \ {"transform"}
      /\ {"missing", "read", "write"} \subseteq Places \ {"post"}
  BY DEF Kinds, Places
<1>3. ASSUME NEW name \in {None, 1, 12}, SaveDashboard(w, name)
      PROVE  /\ \E kind \in Kinds \ {"transform"}, at \in Places \ {"post"},
                   nm \in Nat \cup {None}, watches \in BOOLEAN :
                  /\ Saves(w, kind, at, nm, watches)
                  /\ kind = "dashboard" =>
                       at = IF Active(w).row = 0 THEN "missing" ELSE "read"
             /\ UNCHANGED astray
  <2>1. PICK at : at = IF Active(w).row = 0 THEN "missing" ELSE "read"
    OBVIOUS
  <2>2. Saves(w, "dashboard", at, name, no) /\ UNCHANGED astray
    BY <1>1, <1>3, <2>1, Zenon DEF SaveDashboard
  <2>3. at \in Places \ {"post"} /\ name \in Nat \cup {None}
    BY <1>2, <2>1
  <2> QED
    BY <1>2, <2>1, <2>2, <2>3
<1>4. ASSUME NEW name \in {None, 1, 2}, CreateBackend(w, name) \/ EditBackend(w, name)
      PROVE  /\ \E kind \in Kinds \ {"transform", "dashboard"}, at \in Places \ {"post"},
                   nm \in Nat \cup {None}, watches \in BOOLEAN :
                  Saves(w, kind, at, nm, watches)
             /\ UNCHANGED astray
  <2>1. Saves(w, "backend", "write", name, no) /\ UNCHANGED astray
    BY <1>1, <1>4, Zenon DEF CreateBackend, EditBackend
  <2>2. name \in Nat \cup {None}
    OBVIOUS
  <2> QED
    BY <1>2, <2>1, <2>2
<1>5. CASE SaveCred(w)
  <2>1. Saves(w, "cred", "write", None, no) /\ UNCHANGED astray
    BY <1>1, <1>5 DEF SaveCred
  <2> QED
    BY <1>2, <2>1
<1>6. CASE SaveJob(w)
  <2>1. Saves(w, "job", "write", None, no) /\ UNCHANGED astray
    BY <1>1, <1>6 DEF SaveJob
  <2> QED
    BY <1>2, <2>1
<1> QED
  BY <1>3, <1>4, <1>5, <1>6 DEF SavesOfUser

LEMMA UserSavesQuiet ==
  ASSUME Typed, NEW w \in Windows, SavesOfUser(w)
  PROVE  Quiet
<1>1. ASSUME NEW watches \in BOOLEAN, SaveTransform(w, watches)
      PROVE  Quiet
  <2>1. "transform" \in Kinds /\ "put" \in Places
    BY DEF Kinds, Places
  <2>2. Saves(w, "transform", "put", None, watches)
    BY <1>1 DEF SaveTransform
  <2> QED
    BY <2>1, <2>2, SavesQuiet
<1>2. ASSUME NEW kind \in Kinds, NEW at \in Places, NEW name \in Nat \cup {None},
             NEW watches \in BOOLEAN, Saves(w, kind, at, name, watches),
             kind = "dashboard" => at = IF Active(w).row = 0 THEN "missing" ELSE "read"
      PROVE  Quiet
  BY <1>2, SavesQuiet
<1> QED
  BY <1>1, <1>2, UserSaves

LEMMA UserQuiet ==
  ASSUME Typed, User
  PROVE  Quiet
<1>1. PICK w \in Windows :
        \/ Mount(w)
        \/ \E r \in DOMAIN rows : OpenRow(w, r)
        \/ \E kind \in Here : OpenNew(w, kind)
        \/ \E t \in ToSet(windows[w].tabs) : Focus(w, t.n) \/ Close(w, t.n)
        \/ SavesOfUser(w) \/ SaveQuery(w)
        \/ DeleteDashboard(w) \/ DeleteBackend(w) \/ DeleteCred(w)
  BY DEF User, SavesOfUser
<1>2. ASSUME NEW r \in DOMAIN rows, OpenRow(w, r)
      PROVE  Quiet
  BY <1>2, OpenRowTurns, UserTurnsQuiet DEF OpenRow
<1>3. ASSUME NEW kind \in Here, OpenNew(w, kind)
      PROVE  Quiet
  <2>1. kind \in Kinds
    BY RowIs DEF Here, Typed
  <2> QED
    BY <1>3, <2>1, OpenNewTurns, UserTurnsQuiet DEF OpenNew
<1>4. ASSUME NEW t \in ToSet(windows[w].tabs), Focus(w, t.n)
      PROVE  Quiet
  BY <1>4, FocusTurns, UserTurnsQuiet DEF Focus
<1>5. ASSUME NEW t \in ToSet(windows[w].tabs), Close(w, t.n)
      PROVE  Quiet
  BY <1>5, CloseQuiet
<1>6. CASE DeleteDashboard(w)
  BY <1>6, DeletesQuiet DEF DeleteDashboard
<1>7. CASE DeleteBackend(w)
  BY <1>7, DeletesQuiet DEF DeleteBackend
<1>8. CASE DeleteCred(w)
  BY <1>8, DeletesQuiet DEF DeleteCred
<1> QED
  BY <1>1, <1>2, <1>3, <1>4, <1>5, <1>6, <1>7, <1>8, MountQuiet, UserSavesQuiet,
     SaveQueryQuiet

LEMMA OthersQuiet ==
  ASSUME Typed, Agent \/ Panels
  PROVE  Quiet
<1>1. Live \subseteq DOMAIN rows
  BY DEF Live
<1>2. ASSUME NEW r \in DOMAIN rows, NEW text, text \in {0, NewText},
             NEW name \in Nat \cup {None}, Update(r, text, name)
      PROVE  Quiet
  <2>1. UNCHANGED <<rows, snapshots, overlapped>>
    BY <1>2, UpdateIs
  <2>2. PICK c : IsUpdate(c, r, text)
    BY <1>2, UpdateIs
  <2>3. c \in CallType /\ calls' = Append(calls, c) /\ Harmless(c)
    BY <2>2 DEF IsUpdate, Harmless
  <2> QED
    BY <2>1, <2>3, RowsQuiet, QuietBegin
<1>3. ASSUME NEW name \in {0, 1}, Submit(name)
      PROVE  Quiet
  <2>1. UNCHANGED <<rows, snapshots, overlapped>>
    BY <1>3, SubmitIs
  <2>2. PICK c : /\ c \in CallType /\ calls' = Append(calls, c)
                 /\ c.op = "save" /\ c.at = IF name = 0 THEN "write" ELSE "slug"
                 /\ c.row = 0 /\ c.name = name
    BY <1>3, SubmitIs
  <2>3. Harmless(c)
    BY <2>2 DEF Harmless
  <2> QED
    BY <2>1, <2>2, <2>3, RowsQuiet, QuietBegin
<1>4. ASSUME NEW r \in Live, CreateTrigger(r)
      PROVE  Quiet
  BY <1>4, RowsQuiet, QuietStay DEF CreateTrigger
<1>5. ASSUME NEW g \in DOMAIN triggers, DeleteTrigger(g)
      PROVE  Quiet
  BY <1>5, RowsQuiet, QuietStay DEF DeleteTrigger
<1>6. ASSUME NEW r \in Live, rows[r].kind # "dashboard", DeleteJob(r) \/ Drop(r)
      PROVE  Quiet
  <2>1. /\ rows' = [rows EXCEPT ![r] = Gone(rows[r])]
        /\ UNCHANGED <<snapshots, overlapped, calls>>
    BY <1>6 DEF DeleteJob, Drop, Gone
  <2>2. Gone(rows[r]) \in RowType /\ Gone(rows[r]).kind = rows[r].kind
    BY <1>1, RowIs, GoneIs DEF Typed
  <2> QED
    BY <1>1, <1>6, <2>1, <2>2, ReplaceQuiet, QuietStay DEF Typed
<1>7. ASSUME NEW kind \in Kinds \ {"dashboard"}, NEW name \in Nat, Insert(kind, name)
      PROVE  Quiet
  <2>1. PICK row : row = Row(kind, name, NewText)
    OBVIOUS
  <2>2. /\ rows' = Append(rows, row) /\ UNCHANGED <<snapshots, overlapped, calls>> /\ Act
    BY <1>7, <2>1 DEF Insert
  <2>3. NewText \in Nat
    BY <2>2, TextFits
  <2>4. row \in RowType
    BY <2>1, <2>3, SMTT(30) DEF Row, RowType
  <2>5. row.kind # "dashboard"
    BY <2>1 DEF Row
  <2> QED
    BY <2>2, <2>4, <2>5, AppendQuiet, QuietStay DEF Typed
<1>8. ASSUME NEW r \in Live, rows[r].kind # "dashboard", NEW name \in Nat, Change(r, name)
      PROVE  Quiet
  <2>1. PICK old, x, row : old = rows[r] /\ x = NewText /\ row = Rewritten(old, name, x)
    OBVIOUS
  <2>2. /\ rows' = [rows EXCEPT ![r] = row]
        /\ UNCHANGED <<snapshots, overlapped, calls>> /\ Act
    BY <1>1, <1>8, <2>1 DEF Change, Rewritten
  <2>3. x \in Nat /\ old \in RowType
    BY <1>1, <2>1, <2>2, TextFits, RowIs DEF Typed
  <2>4. row \in RowType /\ row.kind = rows[r].kind
    BY <2>1, <2>3, RewrittenIs
  <2> QED
    BY <1>1, <1>8, <2>2, <2>4, ReplaceQuiet, QuietStay DEF Typed
<1>9. ASSUME NEW r \in {0} \cup Live, NEW watches \in BOOLEAN, SubmitTransform(r, watches)
      PROVE  Quiet
  <2>1. r \in {0} \cup DOMAIN rows
    BY <1>1
  <2>2. UNCHANGED <<rows, snapshots, overlapped>>
    BY <1>9, <2>1, SubmitTransformIs
  <2>3. PICK c : c \in CallType /\ calls' = Append(calls, c) /\ c.kind = "transform"
    BY <1>9, <2>1, SubmitTransformIs
  <2>4. Harmless(c)
    BY <2>3 DEF Harmless
  <2> QED
    BY <2>2, <2>3, <2>4, RowsQuiet, QuietBegin
<1>10. ASSUME NEW r \in Live, RemoveDashboard(r)
       PROVE  Quiet
  <2>1. UNCHANGED <<rows, snapshots, overlapped>>
    BY <1>1, <1>10, RemoveDashboardIs
  <2>2. PICK c : c \in CallType /\ calls' = Append(calls, c) /\ c.at = "read"
    BY <1>1, <1>10, RemoveDashboardIs
  <2>3. Harmless(c)
    BY <2>2 DEF Harmless
  <2> QED
    BY <2>1, <2>2, <2>3, RowsQuiet, QuietBegin
<1> QED
  BY <1>2, <1>3, <1>4, <1>5, <1>6, <1>7, <1>8, <1>9, <1>10, OthersDo

(* The steps that are not quiet.                                           *)
WorksOnDashboards(i) ==
  \/ ReadDashboard(i) \/ TrySlug(i) \/ TakeSnapshot(i)
  \/ InsertRow(i) \/ UpdateRow(i) \/ WriteDelete(i)

LEMMA QuietOrNot ==
  ASSUME Typed, [Next]_vars
  PROVE  Quiet \/ \E i \in DOMAIN calls : WorksOnDashboards(i)
<1>1. CASE UNCHANGED vars
  BY <1>1, RowsQuiet, QuietStay DEF vars
<1>2. CASE Work
  <2>1. PICK i \in DOMAIN calls :
          \/ WorksOnDashboards(i)
          \/ ReadList(i) \/ RefuseWrite(i) \/ LoadTriggers(i)
          \/ ShowList(i) \/ ShowTriggers(i) \/ ReceiveSaved(i) \/ NoRoute(i)
          \/ ReceiveQuery(i) \/ InsertQuery(i) \/ PutTransform(i)
          \/ \E g \in calls[i].found : ClearTrigger(i, g)
          \/ PostTrigger(i) \/ ReceiveDeleted(i)
    BY <1>2 DEF Work, WorksOnDashboards
  <2>2. CASE ReadList(i) \/ RefuseWrite(i) \/ LoadTriggers(i)
    BY <2>2, AnswersQuiet
  <2>3. CASE ShowList(i) \/ ShowTriggers(i) \/ ReceiveSaved(i) \/ NoRoute(i) \/ ReceiveQuery(i)
    BY <2>3, EndsQuiet
  <2>4. CASE InsertQuery(i) \/ PutTransform(i) \/ PostTrigger(i) \/ ReceiveDeleted(i)
    BY <2>4, InsertQueryQuiet, PutTransformQuiet, PostTriggerQuiet, ReceiveDeletedQuiet
  <2>5. CASE \E g \in calls[i].found : ClearTrigger(i, g)
    BY <2>5, ClearsQuiet
  <2> QED
    BY <2>1, <2>2, <2>3, <2>4, <2>5
<1>3. CASE User \/ Agent \/ Panels
  BY <1>3, UserQuiet, OthersQuiet
<1>4. CASE Fail
  BY <1>4, EndsQuiet, ClearsQuiet DEF Fail
<1> QED
  BY <1>1, <1>2, <1>3, <1>4 DEF Next

(* In a step of call i, the others stay.                                   *)
Acted(i) ==
  /\ DOMAIN calls' = DOMAIN calls
  /\ \A k \in DOMAIN calls \ {i} : Still(calls[k], calls'[k])

LEMMA ActedIs ==
  ASSUME Typed, NEW i \in DOMAIN calls, NEW c \in CallType,
         \/ calls' = [calls EXCEPT ![i] = c]
         \/ calls' = [Raced(calls, i) EXCEPT ![i] = c]
  PROVE  Acted(i) /\ calls'[i] = c
<1>1. calls \in Seq(CallType)
  BY DEF Typed, CallsFit
<1>2. CASE calls' = [calls EXCEPT ![i] = c]
  BY <1>1, <1>2, ExceptIs, StillSame DEF Acted
<1>3. CASE calls' = [Raced(calls, i) EXCEPT ![i] = c]
  BY <1>1, <1>3, RacedIs DEF Acted
<1> QED
  BY <1>2, <1>3

(* What the calls do that work on dashboards.                              *)
LEMMA ReadDashboardIs ==
  ASSUME Typed, NEW i \in DOMAIN calls, ReadDashboard(i),
         NEW c, c = calls[i], NEW d, d = calls'[i]
  PROVE  /\ Acted(i) /\ UNCHANGED <<rows, snapshots>> /\ overlapped \subseteq overlapped'
         /\ \/ d.at = "answer"
            \/ /\ d.at \in {"slug", "snapshot"} /\ d.op = c.op /\ d.kind = c.kind
               /\ d.row = c.row /\ d.name = c.name /\ d.base = rows[c.row].text
               /\ d.at = "snapshot" => d.name \in {0, None}
               /\ c.row \in overlapped' \/ WritesTo(c.row) = {}
<1>1. /\ UNCHANGED <<rows, snapshots>>
      /\ IF c.row \in Live
         THEN /\ calls' = [calls EXCEPT ![i] = Based(c, rows[c.row].text,
                             IF c.name \in Nat \ {0} THEN "slug" ELSE "snapshot")]
              /\ overlapped' = IF WritesTo(c.row) # {} THEN overlapped \cup {c.row}
                               ELSE overlapped
         ELSE /\ calls' = [calls EXCEPT ![i] = Answered(c, {})]
              /\ UNCHANGED overlapped
  BY DEF ReadDashboard, Based
<1>2. c \in CallType /\ c.name \in Nat \cup {None}
  BY CallAt DEF Typed
<1>3. CASE c.row \in Live
  <2>1. PICK at \in Places :
          at = IF c.name \in Nat \ {0} THEN "slug" ELSE "snapshot"
    BY DEF Places
  <2>2. PICK text \in Nat : text = rows[c.row].text
    BY <1>3, RowIs DEF Typed, Live
  <2>3. PICK e : e = Based(c, text, at)
    OBVIOUS
  <2>4. /\ e \in CallType /\ e.op = c.op /\ e.at = at /\ e.kind = c.kind
        /\ e.row = c.row /\ e.name = c.name /\ e.base = text
    BY <1>2, <2>3, BasedIs
  <2>5. calls' = [calls EXCEPT ![i] = e]
    BY <1>1, <1>3, <2>1, <2>2, <2>3
  <2>6. Acted(i) /\ d = e
    BY <2>4, <2>5, ActedIs
  <2> QED
    BY <1>1, <1>2, <1>3, <2>1, <2>2, <2>4, <2>6
<1>4. CASE c.row \notin Live
  <2>1. PICK found \in SUBSET Nat : found = {}
    OBVIOUS
  <2>2. PICK e : e = Answered(c, found)
    OBVIOUS
  <2>3. e \in CallType /\ e.at = "answer"
    BY <1>2, <2>2, AnsweredIs
  <2>4. calls' = [calls EXCEPT ![i] = e]
    BY <1>1, <1>4, <2>1, <2>2
  <2>5. Acted(i) /\ d = e
    BY <2>3, <2>4, ActedIs
  <2> QED
    BY <1>1, <1>4, <2>3, <2>5
<1> QED
  BY <1>3, <1>4

LEMMA SlugIs ==
  ASSUME Typed, NEW i \in DOMAIN calls, TrySlug(i),
         NEW c, c = calls[i], NEW d, d = calls'[i]
  PROVE  /\ Acted(i) /\ UNCHANGED <<rows, snapshots, overlapped>>
         /\ c.op = "save" /\ c.at = "slug" /\ c.kind = "dashboard"
         /\ d.op = c.op /\ d.kind = c.kind /\ d.row = c.row /\ d.base = c.base
         /\ \/ d.at = "slug"
            \/ d.at = AfterSlug(c) /\ ~Conflict(d.row, d.name, "dashboard")
<1>1. /\ c.op = "save" /\ c.at = "slug" /\ c.kind = "dashboard"
      /\ UNCHANGED <<rows, snapshots, overlapped>>
      /\ \/ calls' = [calls EXCEPT ![i] = Retried(c)]
         \/ \E name \in Nat \ {0} :
              /\ calls' = [calls EXCEPT ![i] = Slugged(c, name, AfterSlug(c))]
              /\ ~Conflict(c.row, name, "dashboard")
  BY TrySlugIs DEF Typed
<1>2. c \in CallType
  BY CallAt DEF Typed
<1>3. CASE calls' = [calls EXCEPT ![i] = Retried(c)]
  <2>1. PICK e : e = Retried(c)
    OBVIOUS
  <2>2. /\ e \in CallType /\ e.op = c.op /\ e.at = c.at /\ e.kind = c.kind
        /\ e.row = c.row /\ e.base = c.base
    BY <1>2, <2>1, RetriedIs
  <2>3. Acted(i) /\ d = e
    BY <1>3, <2>1, <2>2, ActedIs
  <2> QED
    BY <1>1, <2>2, <2>3
<1>4. ASSUME NEW name \in Nat \ {0}, ~Conflict(c.row, name, "dashboard"),
             calls' = [calls EXCEPT ![i] = Slugged(c, name, AfterSlug(c))]
      PROVE  /\ Acted(i) /\ d.op = c.op /\ d.kind = c.kind /\ d.row = c.row
             /\ d.base = c.base /\ d.at = AfterSlug(c)
             /\ ~Conflict(d.row, d.name, "dashboard")
  <2>1. PICK at \in Places : at = AfterSlug(c)
    BY DEF AfterSlug, Places
  <2>2. PICK e : e = Slugged(c, name, at)
    OBVIOUS
  <2>3. /\ e \in CallType /\ e.op = c.op /\ e.at = at /\ e.kind = c.kind
        /\ e.row = c.row /\ e.name = name /\ e.base = c.base
    BY <1>2, <2>1, <2>2, SluggedIs
  <2>4. calls' = [calls EXCEPT ![i] = e]
    BY <1>4, <2>1, <2>2
  <2>5. Acted(i) /\ d = e
    BY <2>3, <2>4, ActedIs
  <2> QED
    BY <1>4, <2>1, <2>3, <2>5
<1> QED
  BY <1>1, <1>3, <1>4

LEMMA SnapshotIs ==
  ASSUME Typed, NEW i \in DOMAIN calls, TakeSnapshot(i),
         NEW c, c = calls[i], NEW d, d = calls'[i]
  PROVE  /\ Acted(i) /\ UNCHANGED <<rows, overlapped>>
         /\ snapshots' = snapshots \cup {<<c.row, c.base>>}
         /\ c.op \in {"save", "delete"} /\ c.at = "snapshot"
         /\ d.op = c.op /\ d.kind = c.kind /\ d.row = c.row /\ d.base = c.base
         /\ d.at = "write" /\ d.name = c.name
         /\ c.raced => d.raced
<1>1. /\ c.op \in {"save", "delete"} /\ c.at = "snapshot"
      /\ snapshots' = snapshots \cup {<<c.row, c.base>>}
      /\ calls' = [calls EXCEPT ![i] = Placed(c, "write")]
      /\ UNCHANGED <<rows, overlapped>>
  BY DEF TakeSnapshot, At, To, Placed
<1>2. c \in CallType
  BY CallAt DEF Typed
<1>3. PICK at \in Places : at = "write"
  BY DEF Places
<1>4. PICK e : e = Placed(c, at)
  OBVIOUS
<1>5. /\ e \in CallType /\ e.op = c.op /\ e.at = at /\ e.kind = c.kind
      /\ e.row = c.row /\ e.base = c.base /\ e.name = c.name
  BY <1>2, <1>4, PlacedIs
<1>6. c.raced => e.raced
  BY <1>2, <1>4, ZenonT(30) DEF Placed, CallType
<1>7. Acted(i) /\ d = e
  BY <1>1, <1>3, <1>4, <1>5, ActedIs
<1> QED
  BY <1>1, <1>3, <1>5, <1>6, <1>7

LEMMA WrittenIs ==
  ASSUME Typed, NEW i \in DOMAIN calls, NEW found \in SUBSET Nat,
         calls' = [Raced(calls, i) EXCEPT ![i] = Answered(calls[i], found)]
  PROVE  /\ Acted(i) /\ calls'[i].at = "answer"
         /\ \A k \in DOMAIN calls \ {i} : calls'[k].kind = "dashboard" => calls'[k].raced
<1>1. PICK c \in CallType : c = calls[i]
  BY CallAt DEF Typed
<1>2. PICK e : e = Answered(c, found)
  OBVIOUS
<1>3. e \in CallType /\ e.at = "answer"
  BY <1>1, <1>2, AnsweredIs
<1>4. calls' = [Raced(calls, i) EXCEPT ![i] = e] /\ calls \in Seq(CallType)
  BY <1>1, <1>2 DEF Typed, CallsFit
<1>5. Acted(i) /\ calls'[i] = e
  BY <1>3, <1>4, ActedIs
<1>6. \A k \in DOMAIN calls \ {i} : calls'[k].kind = "dashboard" => calls'[k].raced
  BY <1>3, <1>4, RacedIs
<1> QED
  BY <1>3, <1>5, <1>6

LEMMA InsertRowIs ==
  ASSUME Typed, NEW i \in DOMAIN calls, InsertRow(i)
  PROVE  /\ Acted(i) /\ calls'[i].at = "answer"
         /\ \A k \in DOMAIN calls \ {i} : calls'[k].kind = "dashboard" => calls'[k].raced
         /\ UNCHANGED <<snapshots, overlapped>>
         /\ DOMAIN rows' = 1 .. Len(rows) + 1
         /\ \A r \in DOMAIN rows : rows'[r] = rows[r]
         /\ rows'[Len(rows) + 1].live
         /\ rows'[Len(rows) + 1].past = {rows'[Len(rows) + 1].text}
<1>1. PICK c \in CallType : c = calls[i]
  BY CallAt DEF Typed
<1>2. PICK found \in SUBSET Nat : found = {Len(rows) + 1}
  <2>1. Len(rows) + 1 \in Nat
    BY DEF Typed, RowsFit
  <2> QED
    BY <2>1
<1>3. PICK row : row = Row(c.kind, NewName(c), c.text)
  OBVIOUS
<1>4. /\ rows' = Append(rows, row)
      /\ calls' = [Raced(calls, i) EXCEPT ![i] = Answered(calls[i], found)]
      /\ UNCHANGED <<snapshots, overlapped>>
  BY <1>1, <1>2, <1>3 DEF InsertRow, Inserts
<1>5. c.kind \in Kinds /\ c.text \in Nat /\ NewName(c) \in Nat
  BY <1>1 DEF CallType, NewName
<1>6. row \in RowType /\ row.past = {row.text}
  BY <1>3, <1>5, SMTT(30) DEF Row, RowType
<1>7. row.live
  BY <1>3 DEF Row
<1>8. rows \in Seq(RowType) /\ Len(rows) \in Nat /\ DOMAIN rows = 1 .. Len(rows)
  BY DEF Typed, RowsFit
<1>9. /\ DOMAIN rows' = 1 .. Len(rows) + 1
      /\ \A r \in 1 .. Len(rows) : rows'[r] = rows[r]
      /\ rows'[Len(rows) + 1] = row
  BY <1>4, <1>6, <1>8, AppendIs
<1>10. /\ Acted(i) /\ calls'[i].at = "answer"
       /\ \A k \in DOMAIN calls \ {i} : calls'[k].kind = "dashboard" => calls'[k].raced
  BY <1>4, WrittenIs
<1> QED
  BY <1>4, <1>6, <1>7, <1>8, <1>9, <1>10

LEMMA UpdateRowIs ==
  ASSUME Typed, NEW i \in DOMAIN calls, UpdateRow(i), NEW c, c = calls[i]
  PROVE  /\ Acted(i) /\ calls'[i].at = "answer"
         /\ \A k \in DOMAIN calls \ {i} : calls'[k].kind = "dashboard" => calls'[k].raced
         /\ c.op = "save" /\ c.at = "write"
         /\ UNCHANGED <<snapshots, overlapped>> /\ DOMAIN rows' = DOMAIN rows
         /\ \A r \in DOMAIN rows : rows'[r].kind = rows[r].kind
         /\ \A r \in DOMAIN rows :
              \/ rows'[r] = rows[r]
              \/ /\ r = c.row /\ rows[r].live /\ rows'[r].live
                 /\ rows'[r].past = rows[r].past \cup {rows'[r].text}
<1>1. PICK found \in SUBSET Nat : found = {}
  OBVIOUS
<1>2. /\ c.op = "save" /\ c.at = "write" /\ UNCHANGED <<snapshots, overlapped>>
      /\ calls' = [Raced(calls, i) EXCEPT ![i] = Answered(calls[i], found)]
      /\ rows' = IF c.row \in Live THEN [rows EXCEPT ![c.row] = Updated(rows[c.row], c)]
                 ELSE rows
  BY <1>1 DEF UpdateRow, At
<1>3. /\ Acted(i) /\ calls'[i].at = "answer"
      /\ \A k \in DOMAIN calls \ {i} : calls'[k].kind = "dashboard" => calls'[k].raced
  BY <1>2, WrittenIs
<1>4. c \in CallType
  BY CallAt DEF Typed
<1>5. CASE c.row \in Live
  <2>1. PICK row \in RowType : row = rows[c.row] /\ row.text \in row.past
    BY <1>5, RowIs DEF Typed, Live
  <2>2. PICK row2 : row2 = Updated(row, c)
    OBVIOUS
  <2>3. /\ row2 \in RowType /\ row2.kind = row.kind /\ row2.live = row.live
        /\ row2.past = row.past \cup {row2.text}
    BY <1>4, <2>1, <2>2, UpdatedIs
  <2>4. /\ DOMAIN rows' = DOMAIN rows
        /\ \A r \in DOMAIN rows : rows'[r] = IF r = c.row THEN row2 ELSE rows[r]
    <3>1. rows' = [rows EXCEPT ![c.row] = row2] /\ rows \in Seq(RowType)
      BY <1>2, <1>5, <2>1, <2>2 DEF Typed, RowsFit
    <3> QED
      BY <1>5, <2>3, <3>1, ExceptIs DEF Live
  <2>5. rows[c.row].live /\ row2.live
    BY <1>5, <2>1, <2>3 DEF Live
  <2> QED
    BY <1>2, <1>3, <2>1, <2>3, <2>4, <2>5
<1>6. CASE c.row \notin Live
  BY <1>2, <1>3, <1>6
<1> QED
  BY <1>5, <1>6

LEMMA DeleteIs ==
  ASSUME Typed, NEW i \in DOMAIN calls, WriteDelete(i), NEW c, c = calls[i]
  PROVE  /\ Acted(i) /\ calls'[i].at = "answer"
         /\ c.op = "delete" /\ c.at = "write"
         /\ UNCHANGED <<snapshots, overlapped>> /\ DOMAIN rows' = DOMAIN rows
         /\ \A r \in DOMAIN rows :
              \/ rows'[r] = rows[r]
              \/ /\ r = c.row /\ ~rows'[r].live /\ rows'[r].past = rows[r].past
                 /\ rows'[r].kind = rows[r].kind
<1>1. PICK found : found = IF c.kind = "dashboard" THEN {c.row} ELSE Live \cap {c.row}
  OBVIOUS
<1>2. /\ c.op = "delete" /\ c.at = "write" /\ UNCHANGED <<snapshots, overlapped>>
      /\ rows' = [rows EXCEPT ![c.row] = Gone(rows[c.row])]
      /\ calls' = [calls EXCEPT ![i] = Answered(c, found)]
  BY <1>1 DEF WriteDelete, At, Gone
<1>3. c \in CallType /\ FitsRow(c, rows) /\ FitsKind(c, rows, triggers) /\ c.row \in Nat
  BY CallAt DEF Typed
<1>4. found \in SUBSET Nat
  BY <1>1, <1>3
<1>5. PICK e : e = Answered(c, found)
  OBVIOUS
<1>6. e \in CallType /\ e.at = "answer"
  <2>1. c \in CallType
    BY <1>3
  <2> QED
    BY <1>4, <1>5, <2>1, AnsweredIs
<1>7. Acted(i) /\ calls'[i] = e
  <2>1. calls' = [calls EXCEPT ![i] = e]
    BY <1>2, <1>5
  <2> QED
    BY <1>6, <2>1, ActedIs
<1>8. c.row \in DOMAIN rows
  <2>1. DOMAIN rows = 1 .. Len(rows) /\ Len(rows) \in Nat
    BY DEF Typed, RowsFit
  <2> QED
    BY <1>2, <1>3, <2>1 DEF FitsRow, FitsKind, IsDelete
<1>9. PICK row \in RowType : row = rows[c.row]
  BY <1>8, RowIs DEF Typed
<1>10. PICK row2 : row2 = Gone(row)
  OBVIOUS
<1>11. row2 \in RowType /\ row2.kind = row.kind /\ row2.past = row.past /\ ~row2.live
  BY <1>9, <1>10, GoneIs
<1>12. /\ DOMAIN rows' = DOMAIN rows
       /\ \A r \in DOMAIN rows : rows'[r] = IF r = c.row THEN row2 ELSE rows[r]
  <2>1. rows' = [rows EXCEPT ![c.row] = row2] /\ rows \in Seq(RowType)
    BY <1>2, <1>9, <1>10 DEF Typed, RowsFit
  <2> QED
    BY <1>8, <1>11, <2>1, ExceptIs
<1> QED
  BY <1>2, <1>6, <1>7, <1>9, <1>11, <1>12

-----------------------------------------------------------------------------
(* Slugs: a call that will write one that another dashboard has got knows  *)
(* of the race.                                                            *)

SlugTaken(c, rs) ==
  \E s \in DOMAIN rs \ {c.row} :
    rs[s].live /\ rs[s].kind = "dashboard" /\ rs[s].name = c.name
SlugHolds(c, rs) ==
  (/\ c.kind = "dashboard" /\ c.op = "save" /\ c.at \in {"snapshot", "write"}
   /\ c.name \notin {None, 0} /\ SlugTaken(c, rs))
  => c.raced
SlugsHold == \A i \in DOMAIN calls : SlugHolds(calls[i], rows)

(* No dashboard has appeared or got another slug.                          *)
NoNewSlug(rs, rs2) ==
  \A s \in DOMAIN rs2 : (rs2[s].live /\ rs2[s].kind = "dashboard") =>
    /\ s \in DOMAIN rs /\ rs[s].live /\ rs[s].kind = "dashboard"
    /\ rs[s].name = rs2[s].name

LEMMA SlugStill ==
  ASSUME NEW c, NEW d, NEW rs, NEW rs2, SlugHolds(c, rs), Still(c, d), NoNewSlug(rs, rs2)
  PROVE  SlugHolds(d, rs2)
<1>1. SlugTaken(d, rs2) => SlugTaken(c, rs)
  BY DEF SlugTaken, NoNewSlug, Still
<1> QED
  BY <1>1 DEF SlugHolds, Still

LEMMA SlugsActed ==
  ASSUME SlugsHold, NEW i \in DOMAIN calls, Acted(i), NoNewSlug(rows, rows'),
         SlugHolds(calls'[i], rows')
  PROVE  SlugsHold'
<1>1. ASSUME NEW k \in DOMAIN calls'
      PROVE  SlugHolds(calls'[k], rows')
  <2>1. CASE k = i
    BY <2>1
  <2>2. CASE k # i
    BY <2>2, SlugStill DEF SlugsHold, Acted
  <2> QED
    BY <2>1, <2>2
<1> QED
  BY <1>1 DEF SlugsHold

LEMMA SlugsQuiet ==
  ASSUME SlugsHold, Quiet
  PROVE  SlugsHold'
<1>1. NoNewSlug(rows, rows')
  BY DEF Quiet, DashboardsKept, NoNewSlug
<1>2. PICK i, new : Moves(calls, calls', i, new) /\ \A c \in new : Harmless(c)
  BY DEF Quiet
<1>3. PICK f \in [DOMAIN calls' -> Nat] :
        \A k \in DOMAIN calls' :
          \/ f[k] \in {0, i} /\ \E c \in new : Still(c, calls'[k])
          \/ f[k] \in DOMAIN calls \ {0, i} /\ Still(calls[f[k]], calls'[k])
  BY <1>2, MovesIs
<1>4. ASSUME NEW k \in DOMAIN calls'
      PROVE  SlugHolds(calls'[k], rows')
  <2>1. CASE \E c \in new : Still(c, calls'[k])
    <3>1. PICK c \in new : Still(c, calls'[k])
      BY <2>1
    <3>2. Harmless(c)
      BY <1>2
    <3> QED
      BY <3>1, <3>2 DEF SlugHolds, Harmless, Still
  <2>2. CASE f[k] \in DOMAIN calls /\ Still(calls[f[k]], calls'[k])
    BY <1>1, <2>2, SlugStill DEF SlugsHold
  <2> QED
    BY <1>3, <2>1, <2>2
<1> QED
  BY <1>4 DEF SlugsHold

LEMMA SlugsNext ==
  ASSUME Typed, SlugsHold, [Next]_vars
  PROVE  SlugsHold'
<1>1. ASSUME NEW i \in DOMAIN calls, WorksOnDashboards(i)
      PROVE  SlugsHold'
  <2>1. PICK c : c = calls[i]
    OBVIOUS
  <2>2. PICK d : d = calls'[i]
    OBVIOUS
  <2>3. SlugHolds(c, rows) /\ c.name \in Nat \cup {None}
    BY <2>1, CallAt DEF SlugsHold, Typed
  <2>4. d.at = "answer" => SlugHolds(d, rows')
    BY DEF SlugHolds
  <2>5. UNCHANGED rows => NoNewSlug(rows, rows')
    BY DEF NoNewSlug
  <2>6. CASE ReadDashboard(i)
    <3>1. /\ Acted(i) /\ UNCHANGED rows
          /\ d.at = "answer" \/ d.at = "slug"
             \/ (d.at = "snapshot" /\ d.name \in {0, None})
      BY <2>1, <2>2, <2>6, ReadDashboardIs
    <3>2. SlugHolds(d, rows')
      BY <3>1 DEF SlugHolds
    <3> QED
      BY <2>2, <2>5, <3>1, <3>2, SlugsActed
  <2>7. CASE TrySlug(i)
    <3>1. /\ Acted(i) /\ UNCHANGED rows /\ d.kind = "dashboard"
          /\ d.at = "slug" \/ ~Conflict(d.row, d.name, "dashboard")
      BY <2>1, <2>2, <2>7, SlugIs
    <3>2. ~Conflict(d.row, d.name, "dashboard") => d.name = 0 \/ ~SlugTaken(d, rows)
      BY DEF Conflict, SlugTaken, Live
    <3>3. SlugHolds(d, rows')
      BY <3>1, <3>2 DEF SlugHolds
    <3> QED
      BY <2>2, <2>5, <3>1, <3>3, SlugsActed
  <2>8. CASE TakeSnapshot(i)
    <3>1. /\ Acted(i) /\ UNCHANGED rows /\ c.at = "snapshot"
          /\ d.op = c.op /\ d.kind = c.kind /\ d.row = c.row /\ d.name = c.name
          /\ c.raced => d.raced
      BY <2>1, <2>2, <2>8, SnapshotIs
    <3>2. SlugTaken(d, rows) => SlugTaken(c, rows)
      BY <3>1 DEF SlugTaken
    <3>3. SlugHolds(d, rows')
      BY <2>3, <3>1, <3>2 DEF SlugHolds
    <3> QED
      BY <2>2, <2>5, <3>1, <3>3, SlugsActed
  <2>9. CASE InsertRow(i) \/ UpdateRow(i)
    <3>1. /\ Acted(i) /\ calls'[i].at = "answer"
          /\ \A k \in DOMAIN calls \ {i} : calls'[k].kind = "dashboard" => calls'[k].raced
      BY <2>1, <2>9, InsertRowIs, UpdateRowIs
    <3>2. \A k \in DOMAIN calls' : SlugHolds(calls'[k], rows')
      BY <3>1 DEF SlugHolds, Acted
    <3> QED
      BY <3>2 DEF SlugsHold
  <2>10. CASE WriteDelete(i)
    <3>1. /\ Acted(i) /\ d.at = "answer" /\ DOMAIN rows' = DOMAIN rows
          /\ \A r \in DOMAIN rows : rows'[r] = rows[r] \/ ~rows'[r].live
      BY <2>1, <2>2, <2>10, DeleteIs
    <3>2. NoNewSlug(rows, rows')
      BY <3>1 DEF NoNewSlug
    <3> QED
      BY <2>2, <2>4, <3>1, <3>2, SlugsActed
  <2> QED
    BY <1>1, <2>6, <2>7, <2>8, <2>9, <2>10 DEF WorksOnDashboards
<1> QED
  BY <1>1, QuietOrNot, SlugsQuiet

LEMMA SlugsInit == Init => SlugsHold
<1> SUFFICES ASSUME Init PROVE SlugsHold
  OBVIOUS
<1>1. \A i \in DOMAIN calls : calls[i].op = "list"
  BY InitIs
<1> QED
  BY <1>1 DEF SlugsHold, SlugHolds

(* resolveUniqueSlug (src/db/dashboards.ts): a slug that was found free is *)
(* still free when it is written, for any number of windows and agents,    *)
(* unless another dashboard was written since it was looked up.            *)
THEOREM SlugsFailInRaces == Spec => []SlugsFailOnlyInARace
<1>1. Typed /\ SlugsHold /\ [Next]_vars => SlugsHold'
  BY SlugsNext
<1>2. SlugsHold => SlugsFailOnlyInARace
  <2> SUFFICES ASSUME SlugsHold,
                      NEW i \in DOMAIN calls,
                      calls[i].kind = "dashboard", calls[i].op = "save",
                      calls[i].at \in {"snapshot", "write"}, Refused(calls[i])
               PROVE  calls[i].raced
    BY DEF SlugsFailOnlyInARace
  <2>1. PICK c : c = calls[i]
    OBVIOUS
  <2>2. c.name \notin {None, 0} /\ SlugTaken(c, rows)
    BY <2>1 DEF Refused, Conflict, SlugTaken, Live
  <2> QED
    BY <2>1, <2>2 DEF SlugsHold, SlugHolds
<1> QED
  BY AlwaysTyped, SlugsInit, <1>1, <1>2, PTL DEF Spec

-----------------------------------------------------------------------------
(* Versions: of a dashboard whose requests did not overlap every text it   *)
(* has had is kept, and the one call that is about to write it has read    *)
(* its text, and saved it when it is to write next.                        *)

Writes(c, r) ==
  c.row = r /\ c.at \notin {"read", "answer"} /\ c.op \in {"save", "delete"}
HasRead(c, row, r, ss) ==
  /\ row.live => c.base = row.text
  /\ c.at = "write" => <<r, c.base>> \in ss
PastKept(row, r, ss) == \A t \in row.past : <<r, t>> \in ss \/ (row.live /\ t = row.text)
OneWriter(r, cs) ==
  \A i, j \in DOMAIN cs : Writes(cs[i], r) /\ Writes(cs[j], r) => i = j
WriterRead(r, cs, rs, ss) ==
  \A i \in DOMAIN cs : Writes(cs[i], r) => HasRead(cs[i], rs[r], r, ss)
RowKept(r) ==
  /\ PastKept(rows[r], r, snapshots)
  /\ OneWriter(r, calls) /\ WriterRead(r, calls, rows, snapshots)
VersionsKept ==
  \A r \in DOMAIN rows \ overlapped : rows[r].kind = "dashboard" => RowKept(r)

LEMMA WritesStill ==
  ASSUME NEW c, NEW d, NEW r, Still(c, d)
  PROVE  Writes(c, r) <=> Writes(d, r)
BY DEF Still, Writes

LEMMA HasReadStill ==
  ASSUME NEW c, NEW d, NEW row, NEW r, NEW ss, NEW ss2, Still(c, d), ss \subseteq ss2,
         HasRead(c, row, r, ss)
  PROVE  HasRead(d, row, r, ss2)
BY DEF Still, HasRead

(* Call i acts on r when it alone writes r, or when nobody does.           *)
LEMMA RowKeptActed ==
  ASSUME NEW i \in DOMAIN calls, Acted(i), NEW r, OneWriter(r, calls),
         WriterRead(r, calls, rows, snapshots), snapshots \subseteq snapshots',
         PastKept(rows'[r], r, snapshots'),
         Writes(calls'[i], r) =>
           /\ Writes(calls[i], r) \/ \A k \in DOMAIN calls : ~Writes(calls[k], r)
           /\ HasRead(calls'[i], rows'[r], r, snapshots'),
         rows'[r] = rows[r] \/ Writes(calls[i], r)
  PROVE  RowKept(r)'
<1>1. ASSUME NEW k \in DOMAIN calls \ {i}, Writes(calls'[k], r)
      PROVE  Writes(calls[k], r) /\ Still(calls[k], calls'[k])
  BY <1>1, WritesStill DEF Acted
<1>2. OneWriter(r, calls')
  <2> SUFFICES ASSUME NEW j \in DOMAIN calls', NEW k \in DOMAIN calls',
                      Writes(calls'[j], r), Writes(calls'[k], r), j # k
               PROVE  FALSE
    BY DEF OneWriter
  <2>1. j \in DOMAIN calls /\ k \in DOMAIN calls
    BY DEF Acted
  <2>2. CASE j # i /\ k # i
    BY <1>1, <2>1, <2>2 DEF OneWriter
  <2>3. CASE j = i
    BY <1>1, <2>1, <2>3 DEF OneWriter
  <2>4. CASE k = i
    BY <1>1, <2>1, <2>4 DEF OneWriter
  <2> QED
    BY <2>2, <2>3, <2>4
<1>3. WriterRead(r, calls', rows', snapshots')
  <2> SUFFICES ASSUME NEW k \in DOMAIN calls', Writes(calls'[k], r)
               PROVE  HasRead(calls'[k], rows'[r], r, snapshots')
    BY DEF WriterRead
  <2>1. CASE k # i
    <3>1. k \in DOMAIN calls /\ Writes(calls[k], r) /\ Still(calls[k], calls'[k])
      BY <1>1, <2>1 DEF Acted
    <3>2. ~Writes(calls[i], r)
      BY <2>1, <3>1 DEF OneWriter
    <3>3. HasRead(calls[k], rows[r], r, snapshots)
      BY <3>1 DEF WriterRead
    <3>4. HasRead(calls'[k], rows[r], r, snapshots')
      BY <3>1, <3>3, HasReadStill
    <3> QED
      BY <3>2, <3>4
  <2> QED
    BY <2>1
<1> QED
  BY <1>2, <1>3 DEF RowKept

LEMMA VersionsQuiet ==
  ASSUME Typed, Typed', VersionsKept, Quiet
  PROVE  VersionsKept'
<1>1. DashboardsKept /\ UNCHANGED <<snapshots, overlapped>>
  BY DEF Quiet
<1>2. PICK i, new : Moves(calls, calls', i, new) /\ \A c \in new : Harmless(c)
  BY DEF Quiet
<1>3. PICK f \in [DOMAIN calls' -> Nat] :
        /\ \A k, l \in DOMAIN calls' : f[k] = f[l] /\ f[k] # 0 => k = l
        /\ \A k \in DOMAIN calls' :
             \/ f[k] \in {0, i} /\ \E c \in new : Still(c, calls'[k])
             \/ f[k] \in DOMAIN calls \ {0, i} /\ Still(calls[f[k]], calls'[k])
  BY <1>2, MovesIs
<1> SUFFICES ASSUME NEW r \in DOMAIN rows' \ overlapped', rows'[r].kind = "dashboard"
             PROVE  RowKept(r)'
  BY DEF VersionsKept
<1>4. r \in DOMAIN rows /\ rows'[r] = rows[r] /\ r # 0
  <2>1. 0 \notin DOMAIN rows'
    BY SeqFacts DEF Typed, RowsFit
  <2> QED
    BY <1>1, <2>1 DEF DashboardsKept
<1>5. /\ PastKept(rows[r], r, snapshots) /\ OneWriter(r, calls)
      /\ WriterRead(r, calls, rows, snapshots)
  BY <1>1, <1>4 DEF VersionsKept, RowKept
<1>6. ASSUME NEW k \in DOMAIN calls', Writes(calls'[k], r)
      PROVE  /\ f[k] # 0 /\ f[k] \in DOMAIN calls /\ Still(calls[f[k]], calls'[k])
             /\ Writes(calls[f[k]], r)
  <2>1. calls'[k].kind = "dashboard"
    <3>1. FitsRow(calls'[k], rows')
      BY DEF Typed, CallsFit, Fits
    <3> QED
      BY <1>4, <1>6, <3>1 DEF FitsRow, Writes
  <2>2. ASSUME NEW c \in new, Still(c, calls'[k])
        PROVE  FALSE
    <3>1. Harmless(c)
      BY <1>2
    <3>2. /\ c.kind = "dashboard" /\ c.row = r /\ c.at \notin {"read", "answer"}
          /\ c.op \in {"save", "delete"}
      BY <1>6, <2>1, <2>2 DEF Still, Writes
    <3> QED
      BY <1>4, <3>1, <3>2 DEF Harmless
  <2>3. f[k] \in DOMAIN calls \ {0, i} /\ Still(calls[f[k]], calls'[k])
    BY <1>3, <2>2
  <2> QED
    BY <1>6, <2>3, WritesStill
<1>7. OneWriter(r, calls')
  BY <1>3, <1>5, <1>6 DEF OneWriter
<1>8. WriterRead(r, calls', rows', snapshots')
  <2> SUFFICES ASSUME NEW k \in DOMAIN calls', Writes(calls'[k], r)
               PROVE  HasRead(calls'[k], rows'[r], r, snapshots')
    BY DEF WriterRead
  <2>1. HasRead(calls[f[k]], rows[r], r, snapshots)
    BY <1>5, <1>6 DEF WriterRead
  <2> QED
    BY <1>1, <1>4, <1>6, <2>1, HasReadStill
<1>9. PastKept(rows'[r], r, snapshots')
  BY <1>1, <1>4, <1>5
<1> QED
  BY <1>7, <1>8, <1>9 DEF RowKept

LEMMA VersionsActed ==
  ASSUME Typed, Typed', VersionsKept, NEW i \in DOMAIN calls, WorksOnDashboards(i)
  PROVE  VersionsKept'
<1>1. PICK c : c = calls[i]
  OBVIOUS
<1>2. PICK d : d = calls'[i]
  OBVIOUS
<1> SUFFICES ASSUME NEW r \in DOMAIN rows' \ overlapped', rows'[r].kind = "dashboard"
             PROVE  RowKept(r)'
  BY DEF VersionsKept
<1>3. /\ DOMAIN rows = 1 .. Len(rows) /\ Len(rows) \in Nat /\ 0 \notin DOMAIN rows
      /\ DOMAIN rows' = 1 .. Len(rows') /\ Len(rows') \in Nat
  BY SeqFacts DEF Typed, RowsFit
<1>4. r # 0
  BY <1>3
<1>5. d.at = "answer" => ~Writes(calls'[i], r)
  BY <1>2 DEF Writes
<1>6. (r \in DOMAIN rows \ overlapped /\ rows[r].kind = "dashboard") =>
        /\ PastKept(rows[r], r, snapshots) /\ OneWriter(r, calls)
        /\ WriterRead(r, calls, rows, snapshots)
  BY DEF VersionsKept, RowKept
<1>7. CASE ReadDashboard(i)
  <2>1. /\ Acted(i) /\ UNCHANGED <<rows, snapshots>> /\ overlapped \subseteq overlapped'
        /\ \/ d.at = "answer"
           \/ /\ d.at \in {"slug", "snapshot"} /\ d.row = c.row
              /\ d.base = rows[c.row].text
              /\ c.row \in overlapped' \/ WritesTo(c.row) = {}
    BY <1>1, <1>2, <1>7, ReadDashboardIs
  <2>2. /\ PastKept(rows[r], r, snapshots) /\ OneWriter(r, calls)
        /\ WriterRead(r, calls, rows, snapshots)
    BY <1>6, <2>1
  <2>3. Writes(d, r) => /\ \A k \in DOMAIN calls : ~Writes(calls[k], r)
                        /\ HasRead(d, rows'[r], r, snapshots')
    <3> SUFFICES ASSUME Writes(d, r)
                 PROVE  /\ \A k \in DOMAIN calls : ~Writes(calls[k], r)
                        /\ HasRead(d, rows'[r], r, snapshots')
      OBVIOUS
    <3>1. /\ d.at \in {"slug", "snapshot"} /\ d.base = rows[r].text /\ c.row = r
          /\ WritesTo(r) = {}
      BY <2>1 DEF Writes
    <3>2. \A k \in DOMAIN calls : ~Writes(calls[k], r)
      BY <3>1 DEF WritesTo, Writes
    <3> QED
      BY <2>1, <3>1, <3>2 DEF HasRead
  <2> QED
    BY <1>2, <2>1, <2>2, <2>3, RowKeptActed
<1>8. CASE TrySlug(i)
  <2>1. /\ Acted(i) /\ UNCHANGED <<rows, snapshots, overlapped>>
        /\ c.op = "save" /\ c.at = "slug" /\ d.row = c.row /\ d.base = c.base
        /\ d.at = "slug" \/ d.at = AfterSlug(c)
    BY <1>1, <1>2, <1>8, SlugIs
  <2>2. /\ PastKept(rows[r], r, snapshots) /\ OneWriter(r, calls)
        /\ WriterRead(r, calls, rows, snapshots)
    BY <1>6, <2>1
  <2>3. Writes(d, r) => Writes(c, r) /\ HasRead(d, rows'[r], r, snapshots')
    <3> SUFFICES ASSUME Writes(d, r)
                 PROVE  Writes(c, r) /\ HasRead(d, rows'[r], r, snapshots')
      OBVIOUS
    <3>1. Writes(c, r)
      BY <2>1 DEF Writes
    <3>2. HasRead(c, rows[r], r, snapshots)
      BY <1>1, <2>2, <3>1 DEF WriterRead
    <3>3. d.at # "write"
      BY <1>4, <2>1, <3>1 DEF AfterSlug, Writes
    <3> QED
      BY <2>1, <3>1, <3>2, <3>3 DEF HasRead
  <2> QED
    BY <1>1, <1>2, <2>1, <2>2, <2>3, RowKeptActed
<1>9. CASE TakeSnapshot(i)
  <2>1. /\ Acted(i) /\ UNCHANGED <<rows, overlapped>>
        /\ snapshots' = snapshots \cup {<<c.row, c.base>>}
        /\ c.op \in {"save", "delete"} /\ c.at = "snapshot"
        /\ d.op = c.op /\ d.row = c.row /\ d.base = c.base /\ d.at = "write"
    BY <1>1, <1>2, <1>9, SnapshotIs
  <2>2. /\ PastKept(rows[r], r, snapshots) /\ OneWriter(r, calls)
        /\ WriterRead(r, calls, rows, snapshots)
    BY <1>6, <2>1
  <2>3. PastKept(rows'[r], r, snapshots')
    BY <2>1, <2>2 DEF PastKept
  <2>4. Writes(d, r) => Writes(c, r) /\ HasRead(d, rows'[r], r, snapshots')
    <3> SUFFICES ASSUME Writes(d, r)
                 PROVE  Writes(c, r) /\ HasRead(d, rows'[r], r, snapshots')
      OBVIOUS
    <3>1. Writes(c, r) /\ c.row = r
      BY <2>1 DEF Writes
    <3>2. HasRead(c, rows[r], r, snapshots)
      BY <1>1, <2>2, <3>1 DEF WriterRead
    <3> QED
      BY <2>1, <3>1, <3>2 DEF HasRead
  <2> QED
    BY <1>1, <1>2, <2>1, <2>2, <2>3, <2>4, RowKeptActed
<1>10. CASE InsertRow(i)
  <2>1. /\ Acted(i) /\ d.at = "answer" /\ UNCHANGED <<snapshots, overlapped>>
        /\ DOMAIN rows' = 1 .. Len(rows) + 1
        /\ \A s \in DOMAIN rows : rows'[s] = rows[s]
        /\ rows'[Len(rows) + 1].live
        /\ rows'[Len(rows) + 1].past = {rows'[Len(rows) + 1].text}
    BY <1>2, <1>10, InsertRowIs
  <2>2. CASE r \in DOMAIN rows
    <3>1. /\ PastKept(rows[r], r, snapshots) /\ OneWriter(r, calls)
          /\ WriterRead(r, calls, rows, snapshots) /\ rows'[r] = rows[r]
      BY <1>6, <2>1, <2>2
    <3> QED
      BY <1>5, <2>1, <3>1, RowKeptActed
  <2>3. CASE r \notin DOMAIN rows
    <3>1. r = Len(rows) + 1
      BY <1>3, <2>1, <2>3
    <3>2. PastKept(rows'[r], r, snapshots')
      BY <2>1, <3>1 DEF PastKept
    <3>3. ASSUME NEW k \in DOMAIN calls'
          PROVE  ~Writes(calls'[k], r)
      <4>1. CASE k = i
        BY <1>5, <2>1, <4>1
      <4>2. CASE k # i
        <5>1. k \in DOMAIN calls /\ calls'[k].row = calls[k].row
          BY <2>1, <4>2 DEF Acted, Still
        <5>2. calls[k].row \in Nat /\ calls[k].row <= Len(rows)
          BY <5>1, CallAt DEF Typed, FitsRow
        <5> QED
          BY <1>3, <3>1, <5>1, <5>2 DEF Writes
      <4> QED
        BY <4>1, <4>2
    <3> QED
      BY <3>2, <3>3 DEF RowKept, OneWriter, WriterRead
  <2> QED
    BY <2>2, <2>3
<1>11. CASE UpdateRow(i)
  <2>1. /\ Acted(i) /\ d.at = "answer" /\ c.op = "save" /\ c.at = "write"
        /\ UNCHANGED <<snapshots, overlapped>> /\ DOMAIN rows' = DOMAIN rows
        /\ rows'[r].kind = rows[r].kind
        /\ \/ rows'[r] = rows[r]
           \/ /\ r = c.row /\ rows[r].live /\ rows'[r].live
              /\ rows'[r].past = rows[r].past \cup {rows'[r].text}
    BY <1>1, <1>2, <1>11, UpdateRowIs
  <2>2. /\ PastKept(rows[r], r, snapshots) /\ OneWriter(r, calls)
        /\ WriterRead(r, calls, rows, snapshots)
    BY <1>6, <2>1
  <2>3. CASE rows'[r] = rows[r]
    BY <1>5, <2>1, <2>2, <2>3, RowKeptActed
  <2>4. CASE /\ r = c.row /\ rows[r].live /\ rows'[r].live
             /\ rows'[r].past = rows[r].past \cup {rows'[r].text}
    <3>1. Writes(c, r)
      BY <2>1, <2>4 DEF Writes
    <3>2. HasRead(c, rows[r], r, snapshots)
      BY <1>1, <2>2, <3>1 DEF WriterRead
    <3>3. <<r, rows[r].text>> \in snapshots
      BY <2>1, <2>4, <3>2 DEF HasRead
    <3>4. PastKept(rows'[r], r, snapshots')
      BY <2>1, <2>2, <2>4, <3>3 DEF PastKept
    <3> QED
      BY <1>1, <1>5, <2>1, <2>2, <3>1, <3>4, RowKeptActed
  <2> QED
    BY <2>1, <2>3, <2>4
<1>12. CASE WriteDelete(i)
  <2>1. /\ Acted(i) /\ d.at = "answer" /\ c.op = "delete" /\ c.at = "write"
        /\ UNCHANGED <<snapshots, overlapped>> /\ DOMAIN rows' = DOMAIN rows
        /\ \/ rows'[r] = rows[r]
           \/ /\ r = c.row /\ ~rows'[r].live /\ rows'[r].past = rows[r].past
              /\ rows'[r].kind = rows[r].kind
    BY <1>1, <1>2, <1>12, DeleteIs
  <2>2. /\ PastKept(rows[r], r, snapshots) /\ OneWriter(r, calls)
        /\ WriterRead(r, calls, rows, snapshots)
    BY <1>6, <2>1
  <2>3. CASE rows'[r] = rows[r]
    BY <1>5, <2>1, <2>2, <2>3, RowKeptActed
  <2>4. CASE r = c.row /\ ~rows'[r].live /\ rows'[r].past = rows[r].past
    <3>1. Writes(c, r)
      BY <2>1, <2>4 DEF Writes
    <3>2. HasRead(c, rows[r], r, snapshots)
      BY <1>1, <2>2, <3>1 DEF WriterRead
    <3>3. PastKept(rows'[r], r, snapshots')
      BY <2>1, <2>2, <2>4, <3>2 DEF PastKept, HasRead
    <3> QED
      BY <1>1, <1>5, <2>1, <2>2, <3>1, <3>3, RowKeptActed
  <2> QED
    BY <2>1, <2>3, <2>4
<1> QED
  BY <1>7, <1>8, <1>9, <1>10, <1>11, <1>12 DEF WorksOnDashboards

LEMMA VersionsInit == Init => VersionsKept
<1> SUFFICES ASSUME Init, NEW r \in DOMAIN rows
             PROVE  RowKept(r)
  BY DEF VersionsKept
<1>1. /\ rows[r].past = {1} /\ rows[r].text = 1 /\ rows[r].live
      /\ \A i \in DOMAIN calls : calls[i].op = "list"
  BY InitIs
<1> QED
  BY <1>1 DEF RowKept, PastKept, OneWriter, WriterRead, Writes

(* "auto-snapshots on every update and delete" (README.md:46): each text a *)
(* dashboard has had is still its text or is in a snapshot, whoever writes *)
(* over it with whatever it had loaded, unless two requests for it         *)
(* overlapped between their first statement and their last                 *)
(* (src/index.ts and src/mcp/server.ts over src/db/dashboards.ts).         *)
THEOREM VersionsAreKept == Spec => []EveryVersionIsKept
<1>1. Typed /\ VersionsKept /\ [Next]_vars => VersionsKept'
  BY NextTyped, QuietOrNot, VersionsQuiet, VersionsActed
<1>2. VersionsKept => EveryVersionIsKept
  <2> SUFFICES ASSUME VersionsKept, NEW r \in DOMAIN rows \ overlapped,
                      rows[r].kind = "dashboard", NEW t \in rows[r].past
               PROVE  t \in TextsOf(r)
                        \cup (IF rows[r].live THEN {rows[r].text} ELSE {})
    BY DEF EveryVersionIsKept, Kept
  <2>1. <<r, t>> \in snapshots \/ (rows[r].live /\ t = rows[r].text)
    BY DEF VersionsKept, RowKept, PastKept
  <2>2. <<r, t>> \in snapshots => t \in TextsOf(r)
    BY DEF TextsOf
  <2> QED
    BY <2>1, <2>2
<1> QED
  BY AlwaysTyped, VersionsInit, <1>1, <1>2, PTL DEF Spec

-----------------------------------------------------------------------------
(* Transforms.  Window w, whose record is v, shows the editor of job j; cs *)
(* are the calls and ts the triggers.  A call works for a job when it may  *)
(* still change the job's triggers or what its editor takes them to be: it *)
(* saves the job or deletes triggers of it, unless it is a panel's that    *)
(* changes no trigger.                                                     *)

Triggering(j, ts) == {g \in DOMAIN ts : ts[g] = j}
Writing(c, j, ts) ==
  /\ c.op = "save" /\ c.kind = "transform"
  /\ c.row = j \/ \E g \in c.found : ts[g] = j
Passive(c) == c.window = None /\ c.found = {} /\ ~c.watches
WorksFor(c, j, ts) == Writing(c, j, ts) /\ ~Passive(c)
Loads(c, w) == c.op = "load" /\ c.window = w /\ c.mounted
Edits(c, w) == c.op = "save" /\ c.kind = "transform" /\ c.window = w /\ c.mounted

EditorFits(j, v, w, cs) ==
  /\ v.loaded => j # 0
  /\ \A i \in DOMAIN cs : Loads(cs[i], w) => cs[i].row = j /\ ~v.loaded
  /\ \A i, k \in DOMAIN cs : Loads(cs[i], w) /\ Loads(cs[k], w) => i = k
  /\ \A i \in DOMAIN cs : Edits(cs[i], w) => j \in {0, cs[i].row}

(* What the only call that works for the job knows of it.                  *)
Knows(c, j, v, w, ts) ==
  /\ c.window = w /\ c.mounted /\ c.row = j
  /\ c.found = Triggering(j, ts) /\ v.loaded
EditorAlone(j, v, w, cs, ts) ==
  /\ \A i \in DOMAIN cs : WorksFor(cs[i], j, ts) => Knows(cs[i], j, v, w, ts)
  /\ \A i, k \in DOMAIN cs : WorksFor(cs[i], j, ts) /\ WorksFor(cs[k], j, ts) => i = k
  /\ v.loaded => \/ v.shown = Triggering(j, ts)
                 \/ \E i \in DOMAIN cs : WorksFor(cs[i], j, ts)
  /\ \A i \in DOMAIN cs : (Loads(cs[i], w) /\ cs[i].at = "answer")
                            => cs[i].found = Triggering(j, ts)

WatchesFit(cs) == \A i \in DOMAIN cs : cs[i].at = "post" => cs[i].watches
EditorIs(j, v, w, cs, ts, sound) ==
  EditorFits(j, v, w, cs) /\ (j \in sound => EditorAlone(j, v, w, cs, ts))
EditorsFit(cs) ==
  \A w \in Windows : EditorIs(Job(w), windows[w], w, cs, triggers, Live \ astray)
Editors == WatchesFit(calls) /\ EditorsFit(calls)

LEMMA LastsIs ==
  ASSUME NEW c, NEW d, NEW V, Lasts(c, d, V)
  PROVE  /\ \A w : Loads(d, w) => Loads(c, w)
         /\ \A w : Edits(d, w) => Edits(c, w)
         /\ \A j, ts : WorksFor(d, j, ts) <=> WorksFor(c, j, ts)
         /\ \A j, v, w, ts : w \in V /\ Knows(c, j, v, w, ts) => Knows(d, j, v, w, ts)
         /\ d.row = c.row /\ d.at = c.at /\ d.found = c.found
         /\ d.watches <=> c.watches
<1>1. /\ d.op = c.op /\ d.window = c.window /\ d.at = c.at /\ d.kind = c.kind
      /\ d.row = c.row /\ d.found = c.found /\ d.watches = c.watches
      /\ d.mounted => c.mounted
      /\ (c.window \in V /\ c.mounted) => d.mounted
  BY DEF Lasts, Still
<1>2. d.watches <=> c.watches
  BY <1>1
<1>3. \A w : Loads(d, w) => Loads(c, w)
  BY <1>1 DEF Loads
<1>4. \A w : Edits(d, w) => Edits(c, w)
  BY <1>1 DEF Edits
<1>5. \A j, ts : WorksFor(d, j, ts) <=> WorksFor(c, j, ts)
  BY <1>1, <1>2 DEF WorksFor, Writing, Passive
<1>6. \A j, v, w, ts : w \in V /\ Knows(c, j, v, w, ts) => Knows(d, j, v, w, ts)
  BY <1>1 DEF Knows
<1> QED
  BY <1>1, <1>2, <1>3, <1>4, <1>5, <1>6

(* The calls go on, and none that is new loads for the window.             *)
LEMMA FitsGoes ==
  ASSUME NEW j, NEW v, NEW v2, NEW w, NEW cs, NEW ds, NEW i, NEW new, NEW V,
         EditorFits(j, v, w, cs), Goes(cs, ds, i, new, V), v2.loaded => v.loaded,
         \A c \in new : ~Loads(c, w) /\ (Edits(c, w) => j \in {0, c.row})
  PROVE  EditorFits(j, v2, w, ds)
<1>1. PICK f \in [DOMAIN ds -> Nat] :
        /\ \A k, l \in DOMAIN ds : f[k] = f[l] /\ f[k] # 0 => k = l
        /\ \A k \in DOMAIN ds :
             \/ f[k] \in {0, i} /\ \E c \in new : Lasts(c, ds[k], V)
             \/ f[k] \in DOMAIN cs \ {0, i} /\ Lasts(cs[f[k]], ds[k], V)
  BY DEF Goes
<1>2. ASSUME NEW k \in DOMAIN ds, Loads(ds[k], w)
      PROVE  /\ f[k] \in DOMAIN cs \ {0, i} /\ Loads(cs[f[k]], w)
             /\ ds[k].row = cs[f[k]].row
  <2>1. ASSUME NEW c \in new, Lasts(c, ds[k], V) PROVE FALSE
    BY <1>2, <2>1, LastsIs
  <2>2. f[k] \in DOMAIN cs \ {0, i} /\ Lasts(cs[f[k]], ds[k], V)
    BY <1>1, <2>1
  <2> QED
    BY <1>2, <2>2, LastsIs
<1>3. ASSUME NEW k \in DOMAIN ds, Edits(ds[k], w)
      PROVE  j \in {0, ds[k].row}
  <2>1. CASE \E c \in new : Lasts(c, ds[k], V)
    <3>1. PICK c \in new : Lasts(c, ds[k], V)
      BY <2>1
    <3>2. Edits(c, w) /\ ds[k].row = c.row
      BY <1>3, <3>1, LastsIs
    <3> QED
      BY <3>2
  <2>2. CASE f[k] \in DOMAIN cs /\ Lasts(cs[f[k]], ds[k], V)
    <3>1. Edits(cs[f[k]], w) /\ ds[k].row = cs[f[k]].row
      BY <1>3, <2>2, LastsIs
    <3> QED
      BY <2>2, <3>1 DEF EditorFits
  <2> QED
    BY <1>1, <2>1, <2>2
<1>4. \A k \in DOMAIN ds : Loads(ds[k], w) => ds[k].row = j /\ ~v2.loaded
  BY <1>2 DEF EditorFits
<1>5. \A k, l \in DOMAIN ds : Loads(ds[k], w) /\ Loads(ds[l], w) => k = l
  BY <1>1, <1>2 DEF EditorFits
<1>6. v2.loaded => j # 0
  BY DEF EditorFits
<1> QED
  BY <1>3, <1>4, <1>5, <1>6 DEF EditorFits

(* The calls go on, and neither the one that acts nor a new one works for  *)
(* the job or loads its triggers.                                          *)
LEMMA AloneGoes ==
  ASSUME NEW j, NEW v, NEW v2, NEW w, NEW cs, NEW ds, NEW ts, NEW ts2, NEW i, NEW new,
         NEW V, w \in V, 0 \notin DOMAIN cs,
         EditorAlone(j, v, w, cs, ts), Goes(cs, ds, i, new, V),
         v2.loaded <=> v.loaded, v.loaded => v2.shown = v.shown,
         i \in DOMAIN cs => ~WorksFor(cs[i], j, ts),
         \A c \in new : ~WorksFor(c, j, ts2) /\ ~Loads(c, w),
         Triggering(j, ts2) = Triggering(j, ts),
         \A k \in DOMAIN cs : WorksFor(cs[k], j, ts2) <=> WorksFor(cs[k], j, ts)
  PROVE  EditorAlone(j, v2, w, ds, ts2)
<1>1. PICK f \in [DOMAIN ds -> Nat] :
        /\ \A k, l \in DOMAIN ds : f[k] = f[l] /\ f[k] # 0 => k = l
        /\ \A k \in DOMAIN ds :
             \/ f[k] \in {0, i} /\ \E c \in new : Lasts(c, ds[k], V)
             \/ f[k] \in DOMAIN cs \ {0, i} /\ Lasts(cs[f[k]], ds[k], V)
        /\ \A l \in DOMAIN cs \ {0, i} : \E k \in DOMAIN ds : f[k] = l
  BY DEF Goes
<1>2. ASSUME NEW k \in DOMAIN ds, WorksFor(ds[k], j, ts2)
      PROVE  /\ f[k] \in DOMAIN cs \ {0, i} /\ WorksFor(cs[f[k]], j, ts)
             /\ Lasts(cs[f[k]], ds[k], V)
  <2>1. ASSUME NEW c \in new, Lasts(c, ds[k], V) PROVE FALSE
    BY <1>2, <2>1, LastsIs
  <2>2. f[k] \in DOMAIN cs \ {0, i} /\ Lasts(cs[f[k]], ds[k], V)
    BY <1>1, <2>1
  <2>3. WorksFor(cs[f[k]], j, ts2)
    BY <1>2, <2>2, LastsIs
  <2> QED
    BY <2>2, <2>3
<1>3. ASSUME NEW k \in DOMAIN ds, WorksFor(ds[k], j, ts2)
      PROVE  Knows(ds[k], j, v2, w, ts2)
  <2>1. /\ f[k] \in DOMAIN cs /\ WorksFor(cs[f[k]], j, ts) /\ Lasts(cs[f[k]], ds[k], V)
    BY <1>2, <1>3
  <2>2. Knows(cs[f[k]], j, v, w, ts)
    BY <2>1 DEF EditorAlone
  <2>3. Knows(ds[k], j, v, w, ts)
    BY <2>1, <2>2, LastsIs
  <2> QED
    BY <2>3 DEF Knows
<1>4. \A k, l \in DOMAIN ds :
        WorksFor(ds[k], j, ts2) /\ WorksFor(ds[l], j, ts2) => k = l
  <2>1. ASSUME NEW k \in DOMAIN ds, NEW l \in DOMAIN ds,
               WorksFor(ds[k], j, ts2), WorksFor(ds[l], j, ts2)
        PROVE  k = l
    <3>1. f[k] \in DOMAIN cs \ {0, i} /\ WorksFor(cs[f[k]], j, ts)
      BY <1>2, <2>1
    <3>2. f[l] \in DOMAIN cs \ {0, i} /\ WorksFor(cs[f[l]], j, ts)
      BY <1>2, <2>1
    <3>3. f[k] = f[l]
      BY <3>1, <3>2 DEF EditorAlone
    <3> QED
      BY <1>1, <3>1, <3>3
  <2> QED
    BY <2>1
<1>5. ASSUME v2.loaded
      PROVE  \/ v2.shown = Triggering(j, ts2)
             \/ \E k \in DOMAIN ds : WorksFor(ds[k], j, ts2)
  <2>1. CASE v.shown = Triggering(j, ts)
    BY <1>5, <2>1
  <2>2. CASE \E l \in DOMAIN cs : WorksFor(cs[l], j, ts)
    <3>1. PICK l \in DOMAIN cs : WorksFor(cs[l], j, ts)
      BY <2>2
    <3>2. l \in DOMAIN cs \ {0, i}
      BY <3>1
    <3>3. PICK k \in DOMAIN ds : f[k] = l
      BY <1>1, <3>2
    <3>4. Lasts(cs[l], ds[k], V)
      BY <1>1, <3>2, <3>3
    <3>5. WorksFor(ds[k], j, ts2)
      BY <3>1, <3>4, LastsIs
    <3> QED
      BY <3>5
  <2> QED
    BY <1>5, <2>1, <2>2 DEF EditorAlone
<1>6. ASSUME NEW k \in DOMAIN ds, Loads(ds[k], w), ds[k].at = "answer"
      PROVE  ds[k].found = Triggering(j, ts2)
  <2>1. ASSUME NEW c \in new, Lasts(c, ds[k], V) PROVE FALSE
    BY <1>6, <2>1, LastsIs
  <2>2. f[k] \in DOMAIN cs \ {0, i} /\ Lasts(cs[f[k]], ds[k], V)
    BY <1>1, <2>1
  <2>3. /\ Loads(cs[f[k]], w) /\ cs[f[k]].at = "answer" /\ ds[k].found = cs[f[k]].found
    BY <1>6, <2>2, LastsIs
  <2> QED
    BY <2>2, <2>3 DEF EditorAlone
<1> QED
  BY <1>3, <1>4, <1>5, <1>6 DEF EditorAlone

LEMMA WatchesGo ==
  ASSUME NEW cs, NEW ds, NEW i, NEW new, NEW V, WatchesFit(cs), Goes(cs, ds, i, new, V),
         \A c \in new : c.at = "post" => c.watches
  PROVE  WatchesFit(ds)
<1>1. ASSUME NEW k \in DOMAIN ds, ds[k].at = "post"
      PROVE  ds[k].watches
  <2>1. \/ \E c \in new : Lasts(c, ds[k], V)
        \/ \E l \in DOMAIN cs : Lasts(cs[l], ds[k], V)
    BY DEF Goes
  <2>2. CASE \E c \in new : Lasts(c, ds[k], V)
    BY <1>1, <2>2, LastsIs
  <2>3. ASSUME NEW l \in DOMAIN cs, Lasts(cs[l], ds[k], V)
        PROVE  ds[k].watches
    <3>1. cs[l].at = "post" /\ (ds[k].watches <=> cs[l].watches)
      BY <1>1, <2>3, LastsIs
    <3> QED
      BY <3>1 DEF WatchesFit
  <2> QED
    BY <2>1, <2>2, <2>3
<1> QED
  BY <1>1 DEF WatchesFit

(* A call that neither loads triggers nor changes those of a job there is. *)
Idle(c) ==
  /\ c.op # "load" /\ (c.at = "post" => c.watches)
  /\ (c.op = "save" /\ c.kind = "transform") =>
       c.window = None /\ c.found = {} /\ (c.row = 0 \/ ~c.watches)

LEMMA IdleIs ==
  ASSUME NEW c, Idle(c)
  PROVE  /\ \A w \in Windows : ~Loads(c, w) /\ ~Edits(c, w)
         /\ \A j, ts : j # 0 => ~WorksFor(c, j, ts)
<1>1. \A w \in Windows : ~Loads(c, w) /\ ~Edits(c, w)
  BY WorkbenchAssumption DEF Idle, Loads, Edits
<1>2. \A j, ts : j # 0 => ~WorksFor(c, j, ts)
  BY DEF Idle, WorksFor, Writing, Passive
<1> QED
  BY <1>1, <1>2

LEMMA JobIs ==
  ASSUME Typed, NEW w \in Windows
  PROVE  /\ Job(w) \in Nat
         /\ Job(w) # 0 =>
              /\ windows[w].active # 0 /\ Active(w).kind = "transform"
              /\ Active(w).row = Job(w)
              /\ Job(w) \in DOMAIN rows /\ rows[Job(w)].kind = "transform"
<1>1. CASE windows[w].active # 0 /\ Active(w).kind = "transform"
  <2>1. Active(w) \in TabType /\ FitsTab(Active(w), rows)
    BY <1>1, ActiveIs
  <2>2. Active(w).row \in Nat /\ Job(w) = Active(w).row
    BY <1>1, <2>1 DEF Job, TabType
  <2>3. DOMAIN rows = 1 .. Len(rows) /\ Len(rows) \in Nat
    BY DEF Typed, RowsFit
  <2> QED
    BY <1>1, <2>1, <2>2, <2>3 DEF FitsTab
<1>2. CASE ~(windows[w].active # 0 /\ Active(w).kind = "transform")
  BY <1>2 DEF Job
<1> QED
  BY <1>1, <1>2

LEMMA JobSame ==
  ASSUME NEW w, windows'[w].tabs = windows[w].tabs, windows'[w].active = windows[w].active
  PROVE  Job(w)' = Job(w)
<1>1. Job(w)' = IF windows[w].active # 0
                   /\ windows[w].tabs[Place(windows[w].tabs, windows[w].active)].kind
                        = "transform"
                THEN windows[w].tabs[Place(windows[w].tabs, windows[w].active)].row ELSE 0
  BY ActiveThen
<1> QED
  BY <1>1 DEF Job, Active

LEMMA LiveIs ==
  ASSUME Typed
  PROVE  Live \subseteq DOMAIN rows /\ 0 \notin Live /\ 0 \notin DOMAIN calls
BY SeqFacts DEF Live, Typed, RowsFit, CallsFit

(* Job j keeps its triggers.                                               *)
SameFor(j, ts, ts2) ==
  \A g \in DOMAIN ts \cup DOMAIN ts2 :
    (g \in DOMAIN ts /\ ts[g] = j) <=> (g \in DOMAIN ts2 /\ ts2[g] = j)

LEMMA SameIs ==
  ASSUME NEW j, NEW ts, NEW ts2, SameFor(j, ts, ts2), DOMAIN ts \subseteq DOMAIN ts2
  PROVE  /\ Triggering(j, ts2) = Triggering(j, ts)
         /\ \A c : c.found \subseteq DOMAIN ts =>
              (WorksFor(c, j, ts2) <=> WorksFor(c, j, ts))
<1>1. Triggering(j, ts2) = Triggering(j, ts)
  BY DEF SameFor, Triggering
<1>2. ASSUME NEW c, c.found \subseteq DOMAIN ts
      PROVE  WorksFor(c, j, ts2) <=> WorksFor(c, j, ts)
  <2>1. (\E g \in c.found : ts2[g] = j) <=> (\E g \in c.found : ts[g] = j)
    BY <1>2 DEF SameFor
  <2> QED
    BY <2>1 DEF WorksFor, Writing
<1> QED
  BY <1>1, <1>2

(* The editor of window w shows its job, and what call i or a new one does *)
(* is not about that job.                                                  *)
StaysSound(w, i, new) ==
  /\ Job(w) \in Live \ astray /\ SameFor(Job(w), triggers, triggers')
  /\ windows[w].loaded => windows'[w].shown = windows[w].shown
  /\ i \in DOMAIN calls => ~WorksFor(calls[i], Job(w), triggers)
  /\ \A c \in new : ~WorksFor(c, Job(w), triggers')

LEMMA AloneStays ==
  ASSUME Typed, EditorsFit(calls), NEW w \in Windows, NEW j, j = Job(w),
         windows'[w].loaded <=> windows[w].loaded,
         NEW i, NEW new, NEW V, w \in V, Goes(calls, calls', i, new, V),
         \A c \in new : ~Loads(c, w),
         DOMAIN triggers \subseteq DOMAIN triggers', StaysSound(w, i, new)
  PROVE  EditorAlone(j, windows'[w], w, calls', triggers')
<1>1. /\ j \in Live \ astray /\ SameFor(j, triggers, triggers')
      /\ windows[w].loaded => windows'[w].shown = windows[w].shown
      /\ i \in DOMAIN calls => ~WorksFor(calls[i], j, triggers)
      /\ \A c \in new : ~WorksFor(c, j, triggers')
  BY DEF StaysSound
<1>2. EditorAlone(j, windows[w], w, calls, triggers)
  BY <1>1 DEF EditorsFit, EditorIs
<1>3. /\ Triggering(j, triggers') = Triggering(j, triggers)
      /\ \A c : c.found \subseteq DOMAIN triggers =>
           (WorksFor(c, j, triggers') <=> WorksFor(c, j, triggers))
  BY <1>1, SameIs
<1>4. ASSUME NEW k \in DOMAIN calls
      PROVE  WorksFor(calls[k], j, triggers') <=> WorksFor(calls[k], j, triggers)
  <2>1. CASE calls[k].op = "save" /\ calls[k].kind = "transform"
    <3>1. calls[k].found \subseteq DOMAIN triggers
      BY <2>1, CallAt DEF Typed, FitsKind, IsSaveOfTransform
    <3> QED
      BY <1>3, <3>1
  <2>2. CASE ~(calls[k].op = "save" /\ calls[k].kind = "transform")
    BY <2>2 DEF WorksFor, Writing
  <2> QED
    BY <2>1, <2>2
<1>5. 0 \notin DOMAIN calls
  BY LiveIs
<1>6. \A c \in new : ~WorksFor(c, j, triggers') /\ ~Loads(c, w)
  BY <1>1
<1>7. Triggering(j, triggers') = Triggering(j, triggers)
  BY <1>3
<1> QED
  BY <1>1, <1>2, <1>4, <1>5, <1>6, <1>7, AloneGoes

(* A step in which the windows go on with their editors: an editor is sound*)
(* as before, or the step makes it so.                                     *)
LEMMA EditorsAct ==
  ASSUME Typed, Typed', Editors,
         \A w \in Windows : /\ Job(w)' = Job(w)
                            /\ windows'[w].loaded <=> windows[w].loaded,
         NEW i, NEW new, Goes(calls, calls', i, new, Windows),
         \A c \in new : /\ c.op # "load" /\ (c.at = "post" => c.watches)
                        /\ \A w \in Windows : Edits(c, w) => Job(w) \in {0, c.row},
         DOMAIN triggers \subseteq DOMAIN triggers',
         \A w \in Windows : Job(w) \in Live' \ astray' =>
           \/ StaysSound(w, i, new)
           \/ EditorAlone(Job(w), windows'[w], w, calls', triggers')
  PROVE  Editors'
<1>1. WatchesFit(calls')
  BY WatchesGo DEF Editors
<1>2. ASSUME NEW w \in Windows
      PROVE  EditorIs(Job(w)', windows'[w], w, calls', triggers', Live' \ astray')
  <2>1. PICK j : j = Job(w)
    OBVIOUS
  <2>2. Job(w)' = j /\ (windows'[w].loaded <=> windows[w].loaded)
    BY <2>1
  <2>3. EditorFits(j, windows[w], w, calls)
    BY <2>1 DEF Editors, EditorsFit, EditorIs
  <2>4. \A c \in new : ~Loads(c, w) /\ (Edits(c, w) => j \in {0, c.row})
    BY <2>1 DEF Loads
  <2>5. EditorFits(j, windows'[w], w, calls')
    BY <2>2, <2>3, <2>4, FitsGoes
  <2>6. ASSUME j \in Live' \ astray'
        PROVE  EditorAlone(j, windows'[w], w, calls', triggers')
    BY <2>1, <2>2, <2>4, <2>6, AloneStays DEF Editors
  <2> QED
    BY <2>2, <2>5, <2>6 DEF EditorIs
<1> QED
  BY <1>1, <1>2 DEF Editors, EditorsFit

(* Windows go on with their editors, and rows that are gone do not return. *)
WindowsGo ==
  \A w \in Windows : /\ Job(w)' = Job(w)
                     /\ windows'[w].loaded <=> windows[w].loaded
                     /\ windows'[w].shown = windows[w].shown
RowsGo == Live' \cap DOMAIN rows \subseteq Live

LEMMA LiveThen ==
  ASSUME Typed, Typed', RowsGo, NEW w \in Windows, Job(w) \in Live'
  PROVE  Job(w) \in Live
<1>1. rows' \in Seq(RowType)
  BY DEF Typed, RowsFit
<1>2. 0 \notin DOMAIN rows'
  BY <1>1
<1>3. Job(w) # 0
  BY <1>2 DEF Live
<1> QED
  BY <1>3, JobIs DEF RowsGo

LEMMA EditorsCalm ==
  ASSUME Typed, Typed', Editors, WindowsGo, RowsGo, UNCHANGED triggers,
         astray \subseteq astray',
         NEW i, NEW new, Goes(calls, calls', i, new, Windows),
         \A c \in new : Idle(c), i \in DOMAIN calls => Idle(calls[i])
  PROVE  Editors'
<1>1. \A w \in Windows : /\ Job(w)' = Job(w)
                         /\ windows'[w].loaded <=> windows[w].loaded
  BY DEF WindowsGo
<1>2. \A c \in new : /\ c.op # "load" /\ (c.at = "post" => c.watches)
                     /\ \A w \in Windows : Edits(c, w) => Job(w) \in {0, c.row}
  BY IdleIs DEF Idle
<1>3. ASSUME NEW w \in Windows, Job(w) \in Live' \ astray'
      PROVE  StaysSound(w, i, new)
  <2>1. PICK j : j = Job(w)
    OBVIOUS
  <2>2. j \in Live \ astray /\ j # 0
    BY <1>3, <2>1, LiveThen, LiveIs
  <2>3. SameFor(j, triggers, triggers')
    BY DEF SameFor
  <2>4. i \in DOMAIN calls => ~WorksFor(calls[i], j, triggers)
    BY <2>2, IdleIs
  <2>5. \A c \in new : ~WorksFor(c, j, triggers')
    BY <2>2, IdleIs
  <2> QED
    BY <1>3, <2>1, <2>2, <2>3, <2>4, <2>5 DEF StaysSound, WindowsGo
<1> QED
  BY <1>1, <1>2, <1>3, EditorsAct

LEMMA WindowsGoSame ==
  ASSUME UNCHANGED windows
  PROVE  WindowsGo
BY JobSame DEF WindowsGo

LEMMA RowsGoBy ==
  ASSUME \A r \in DOMAIN rows : rows'[r].live => rows[r].live
  PROVE  RowsGo
BY DEF RowsGo, Live

(* Steps in which no call changes what editors take for their triggers.    *)
Calm ==
  /\ Typed /\ Typed' /\ Editors /\ WindowsGo /\ RowsGo
  /\ UNCHANGED triggers /\ astray \subseteq astray'
Elsewhere(c) == c.op # "load" /\ ~(c.op = "save" /\ c.kind = "transform")

LEMMA ElsewhereIdle ==
  ASSUME Typed, NEW i \in DOMAIN calls, Elsewhere(calls[i])
  PROVE  Idle(calls[i])
<1>1. FitsKind(calls[i], rows, triggers) /\ calls[i] \in CallType
  BY CallAt DEF Typed
<1>2. calls[i].op \in {"list", "load", "save", "delete", "query"}
  BY <1>1 DEF CallType
<1>3. calls[i].at # "post"
  BY <1>1, <1>2 DEF Elsewhere, FitsKind, IsLoad, IsQuery, IsDelete, IsSaveOfDashboard
<1> QED
  BY <1>3 DEF Elsewhere, Idle

LEMMA CalmStay ==
  ASSUME Calm, UNCHANGED calls
  PROVE  Editors'
<1>1. Goes(calls, calls', 0, {}, Windows)
  BY GoesStay DEF Calm, Typed, CallsFit
<1>2. 0 \notin DOMAIN calls
  BY LiveIs DEF Calm
<1> QED
  BY <1>1, <1>2, EditorsCalm DEF Calm

LEMMA CalmEnd ==
  ASSUME Calm, NEW i \in DOMAIN calls, Elsewhere(calls[i]), End(i)
  PROVE  Editors'
<1>1. Goes(calls, calls', i, {}, Windows)
  BY GoesOut DEF End, Without, Calm, Typed, CallsFit
<1>2. Idle(calls[i])
  BY ElsewhereIdle DEF Calm
<1> QED
  BY <1>1, <1>2, EditorsCalm DEF Calm

LEMMA CalmBegin ==
  ASSUME Calm, NEW c \in CallType, Idle(c), calls' = Append(calls, c)
  PROVE  Editors'
<1>1. Goes(calls, calls', 0, {c}, Windows)
  BY GoesAppend DEF Calm, Typed, CallsFit
<1>2. 0 \notin DOMAIN calls
  BY LiveIs DEF Calm
<1>3. \A d \in {c} : Idle(d)
  OBVIOUS
<1> QED
  BY <1>1, <1>2, <1>3, EditorsCalm DEF Calm

LEMMA CalmAct ==
  ASSUME Calm, NEW i \in DOMAIN calls, Elsewhere(calls[i]),
         NEW c \in CallType, Elsewhere(c), c.at # "post",
         \/ calls' = [calls EXCEPT ![i] = c]
         \/ calls' = [Raced(calls, i) EXCEPT ![i] = c]
  PROVE  Editors'
<1>1. calls \in Seq(CallType)
  BY DEF Calm, Typed, CallsFit
<1>2. Goes(calls, calls', i, {c}, Windows)
  BY <1>1, GoesAt, RacedGoes
<1>3. Idle(calls[i])
  BY ElsewhereIdle DEF Calm
<1>4. \A d \in {c} : Idle(d)
  BY DEF Idle, Elsewhere
<1> QED
  BY <1>2, <1>3, <1>4, EditorsCalm DEF Calm

LEMMA CalmAnswer ==
  ASSUME Calm, NEW i \in DOMAIN calls, Elsewhere(calls[i]), NEW found \in SUBSET Nat,
         \/ calls' = [calls EXCEPT ![i] = Answered(calls[i], found)]
         \/ calls' = [Raced(calls, i) EXCEPT ![i] = Answered(calls[i], found)]
  PROVE  Editors'
<1>1. PICK c : c = calls[i]
  OBVIOUS
<1>2. c \in CallType
  BY <1>1, CallAt DEF Calm, Typed
<1>3. PICK d : d = Answered(c, found)
  OBVIOUS
<1>4. d \in CallType /\ d.at = "answer" /\ d.op = c.op /\ d.kind = c.kind
  BY <1>2, <1>3, AnsweredIs
<1>5. Elsewhere(d)
  BY <1>1, <1>4 DEF Elsewhere
<1>6. \/ calls' = [calls EXCEPT ![i] = d]
      \/ calls' = [Raced(calls, i) EXCEPT ![i] = d]
  BY <1>1, <1>3
<1> QED
  BY <1>4, <1>5, <1>6, CalmAct

LEMMA CalmBy ==
  ASSUME Typed, Typed', Editors, UNCHANGED <<windows, triggers, astray>>,
         \A r \in DOMAIN rows : rows'[r].live => rows[r].live
  PROVE  Calm
<1>1. WindowsGo /\ RowsGo
  BY WindowsGoSame, RowsGoBy
<1> QED
  BY <1>1 DEF Calm

LEMMA ReadDashboardCalm ==
  ASSUME Typed, Typed', Editors, NEW i \in DOMAIN calls, ReadDashboard(i)
  PROVE  Editors'
<1>1. PICK c \in CallType : c = calls[i] /\ FitsKind(c, rows, triggers)
  BY CallAt DEF Typed
<1>2. /\ c.op \in {"save", "delete"} /\ c.at = "read"
      /\ UNCHANGED <<rows, windows, triggers, astray>>
      /\ IF c.row \in Live
         THEN calls' = [calls EXCEPT ![i] = Based(c, rows[c.row].text,
                          IF c.name \in Nat \ {0} THEN "slug" ELSE "snapshot")]
         ELSE calls' = [calls EXCEPT ![i] = Answered(c, {})]
  BY <1>1 DEF ReadDashboard, At, Based
<1>3. Calm
  BY <1>2, CalmBy
<1>4. Elsewhere(c)
  BY <1>1, <1>2 DEF Elsewhere, FitsKind, IsSaveOfTransform
<1>5. CASE c.row \in Live
  <2>1. PICK at \in Places :
          at = IF c.name \in Nat \ {0} THEN "slug" ELSE "snapshot"
    BY DEF Places
  <2>2. PICK text \in Nat : text = rows[c.row].text
    BY <1>5, RowIs DEF Typed, Live
  <2>3. PICK d : d = Based(c, text, at)
    OBVIOUS
  <2>4. d \in CallType /\ d.op = c.op /\ d.at = at /\ d.kind = c.kind
    BY <2>3, BasedIs
  <2>5. calls' = [calls EXCEPT ![i] = d]
    BY <1>2, <1>5, <2>1, <2>2, <2>3
  <2>6. Elsewhere(d) /\ d.at # "post"
    BY <1>4, <2>1, <2>4 DEF Elsewhere
  <2> QED
    BY <1>1, <1>3, <1>4, <2>4, <2>5, <2>6, CalmAct
<1>6. CASE c.row \notin Live
  <2>1. PICK found \in SUBSET Nat : found = {}
    OBVIOUS
  <2>2. calls' = [calls EXCEPT ![i] = Answered(calls[i], found)]
    BY <1>1, <1>2, <1>6, <2>1
  <2> QED
    BY <1>1, <1>3, <1>4, <2>2, CalmAnswer
<1> QED
  BY <1>5, <1>6

LEMMA TrySlugCalm ==
  ASSUME Typed, Typed', Editors, NEW i \in DOMAIN calls, TrySlug(i)
  PROVE  Editors'
<1>1. PICK c \in CallType : c = calls[i]
  BY CallAt DEF Typed
<1>2. /\ c.op = "save" /\ c.at = "slug" /\ c.kind = "dashboard"
      /\ UNCHANGED <<rows, windows, triggers, astray>>
      /\ \/ calls' = [calls EXCEPT ![i] = Retried(c)]
         \/ \E name \in Nat \ {0} :
              calls' = [calls EXCEPT ![i] = Slugged(c, name, AfterSlug(c))]
  BY <1>1, TrySlugIs DEF Typed
<1>3. Calm /\ Elsewhere(c)
  BY <1>2, CalmBy DEF Elsewhere
<1>4. CASE calls' = [calls EXCEPT ![i] = Retried(c)]
  <2>1. PICK d : d = Retried(c)
    OBVIOUS
  <2>2. d \in CallType /\ d.op = c.op /\ d.at = c.at /\ d.kind = c.kind
    BY <2>1, RetriedIs
  <2>3. Elsewhere(d) /\ d.at # "post"
    BY <1>2, <2>2 DEF Elsewhere
  <2> QED
    BY <1>1, <1>3, <1>4, <2>1, <2>2, <2>3, CalmAct
<1>5. ASSUME NEW name \in Nat \ {0},
             calls' = [calls EXCEPT ![i] = Slugged(c, name, AfterSlug(c))]
      PROVE  Editors'
  <2>1. PICK at \in Places : at = AfterSlug(c) /\ at # "post"
    BY DEF AfterSlug, Places
  <2>2. PICK d : d = Slugged(c, name, at)
    OBVIOUS
  <2>3. d \in CallType /\ d.op = c.op /\ d.at = at /\ d.kind = c.kind
    BY <2>1, <2>2, SluggedIs
  <2>4. Elsewhere(d)
    BY <1>2, <2>3 DEF Elsewhere
  <2>5. calls' = [calls EXCEPT ![i] = d]
    BY <1>5, <2>1, <2>2
  <2> QED
    BY <1>1, <1>3, <2>1, <2>3, <2>4, <2>5, CalmAct
<1> QED
  BY <1>2, <1>4, <1>5

LEMMA TakeSnapshotCalm ==
  ASSUME Typed, Typed', Editors, NEW i \in DOMAIN calls, TakeSnapshot(i)
  PROVE  Editors'
<1>1. PICK c \in CallType : c = calls[i] /\ FitsKind(c, rows, triggers)
  BY CallAt DEF Typed
<1>2. /\ c.op \in {"save", "delete"} /\ c.at = "snapshot"
      /\ calls' = [calls EXCEPT ![i] = Placed(c, "write")]
      /\ UNCHANGED <<rows, windows, triggers, astray>>
  BY <1>1 DEF TakeSnapshot, At, To, Placed
<1>3. Calm
  BY <1>2, CalmBy
<1>4. Elsewhere(c)
  BY <1>1, <1>2 DEF Elsewhere, FitsKind, IsSaveOfTransform
<1>5. PICK at \in Places : at = "write"
  BY DEF Places
<1>6. PICK d : d = Placed(c, at)
  OBVIOUS
<1>7. d \in CallType /\ d.op = c.op /\ d.at = at /\ d.kind = c.kind
  BY <1>6, PlacedIs
<1>8. Elsewhere(d) /\ d.at # "post"
  BY <1>4, <1>5, <1>7 DEF Elsewhere
<1>9. calls' = [calls EXCEPT ![i] = d]
  BY <1>2, <1>5, <1>6
<1> QED
  BY <1>1, <1>3, <1>4, <1>7, <1>8, <1>9, CalmAct

LEMMA ElsewhereAt ==
  ASSUME Typed, NEW i \in DOMAIN calls, calls[i].at \in {"read", "write", "missing"},
         calls[i].op # "load"
  PROVE  Elsewhere(calls[i])
<1>1. FitsKind(calls[i], rows, triggers)
  BY CallAt DEF Typed
<1> QED
  BY <1>1 DEF Elsewhere, FitsKind, IsSaveOfTransform

LEMMA InsertsCalm ==
  ASSUME Typed, Typed', Editors, NEW i \in DOMAIN calls, NEW kind \in Kinds,
         calls[i].at = "write", calls[i].op # "load", Inserts(i, kind)
  PROVE  Editors'
<1>1. PICK c \in CallType : /\ c = calls[i] /\ c.text \in Nat
                            /\ c.name \in Nat \cup {None}
  BY CallAt DEF Typed
<1>2. PICK row : row = Row(kind, NewName(c), c.text)
  OBVIOUS
<1>3. PICK found : found = {Len(rows) + 1}
  OBVIOUS
<1>4. /\ rows' = Append(rows, row)
      /\ calls' = [Raced(calls, i) EXCEPT ![i] = Answered(calls[i], found)]
      /\ UNCHANGED <<windows, triggers, astray>>
  BY <1>1, <1>2, <1>3 DEF Inserts
<1>5. NewName(c) \in Nat
  BY <1>1 DEF NewName
<1>6. row \in RowType
  BY <1>1, <1>2, <1>5, SMTT(30) DEF Row, RowType
<1>7. rows \in Seq(RowType) /\ Len(rows) \in Nat /\ DOMAIN rows = 1 .. Len(rows)
  BY DEF Typed, RowsFit
<1>8. \A r \in DOMAIN rows : rows'[r] = rows[r]
  BY <1>4, <1>6, <1>7, AppendIs
<1>9. Calm
  BY <1>4, <1>8, CalmBy
<1>10. found \in SUBSET Nat /\ Elsewhere(calls[i])
  BY <1>3, <1>7, ElsewhereAt
<1> QED
  BY <1>4, <1>9, <1>10, CalmAnswer

LEMMA UpdateRowCalm ==
  ASSUME Typed, Typed', Editors, NEW i \in DOMAIN calls, UpdateRow(i)
  PROVE  Editors'
<1>1. PICK found \in SUBSET Nat : found = {}
  OBVIOUS
<1>2. /\ calls[i].op = "save" /\ calls[i].at = "write"
      /\ calls' = [Raced(calls, i) EXCEPT ![i] = Answered(calls[i], found)]
      /\ UNCHANGED <<windows, triggers, astray>>
  BY <1>1 DEF UpdateRow, At
<1>3. \A r \in DOMAIN rows : rows'[r].live => rows[r].live
  BY UpdateRowIs
<1>4. Calm /\ Elsewhere(calls[i])
  BY <1>2, <1>3, CalmBy, ElsewhereAt
<1> QED
  BY <1>2, <1>4, CalmAnswer

LEMMA WriteDeleteCalm ==
  ASSUME Typed, Typed', Editors, NEW i \in DOMAIN calls, WriteDelete(i)
  PROVE  Editors'
<1>1. PICK found : found = IF calls[i].kind = "dashboard" THEN {calls[i].row}
                           ELSE Live \cap {calls[i].row}
  OBVIOUS
<1>2. /\ calls[i].op = "delete" /\ calls[i].at = "write"
      /\ calls' = [calls EXCEPT ![i] = Answered(calls[i], found)]
      /\ UNCHANGED <<windows, triggers, astray>>
  BY <1>1 DEF WriteDelete, At
<1>3. \A r \in DOMAIN rows : rows'[r].live => rows[r].live
  BY DeleteIs
<1>4. Calm /\ Elsewhere(calls[i])
  BY <1>2, <1>3, CalmBy, ElsewhereAt
<1>5. found \in SUBSET Nat
  BY <1>1, CallAt DEF Typed
<1> QED
  BY <1>2, <1>4, <1>5, CalmAnswer

LEMMA AnswersCalm ==
  ASSUME Typed, Typed', Editors, NEW i \in DOMAIN calls, ReadList(i) \/ RefuseWrite(i)
  PROVE  Editors'
<1>1. DOMAIN rows \subseteq Nat
  BY SeqFacts DEF Typed, RowsFit
<1>2. PICK found : /\ found \subseteq DOMAIN rows
                   /\ calls' = [calls EXCEPT ![i] = Answered(calls[i], found)]
  <2>1. CASE ReadList(i)
    BY <2>1 DEF ReadList, Live
  <2>2. CASE RefuseWrite(i)
    BY <2>2 DEF RefuseWrite
  <2> QED
    BY <2>1, <2>2
<1>3. UNCHANGED <<rows, windows, triggers, astray>> /\ calls[i].at \in {"read", "write"}
      /\ calls[i].op # "load"
  BY DEF ReadList, RefuseWrite, At
<1>4. Calm /\ Elsewhere(calls[i])
  BY <1>3, CalmBy, ElsewhereAt
<1>5. found \in SUBSET Nat
  BY <1>1, <1>2
<1> QED
  BY <1>2, <1>4, <1>5, CalmAnswer

LEMMA WindowsGoBy ==
  ASSUME \A w \in Windows :
           /\ windows'[w].tabs = windows[w].tabs /\ windows'[w].active = windows[w].active
           /\ windows'[w].loaded <=> windows[w].loaded
           /\ windows'[w].shown = windows[w].shown
  PROVE  WindowsGo
BY JobSame DEF WindowsGo

LEMMA ShowListCalm ==
  ASSUME Typed, Typed', Editors, NEW i \in DOMAIN calls, ShowList(i)
  PROVE  Editors'
<1>1. /\ calls[i].op = "list" /\ End(i)
      /\ windows' = [windows EXCEPT ![calls[i].window].listed = calls[i].found]
      /\ UNCHANGED <<rows, triggers, astray>>
  BY DEF ShowList, At
<1>2. calls[i] \in CallType /\ FitsKind(calls[i], rows, triggers)
  BY CallAt DEF Typed
<1>3. calls[i].window \in Windows /\ calls[i].found \in SUBSET Nat
  BY <1>1, <1>2 DEF FitsKind, CallType
<1>4. /\ \A v \in Windows : /\ windows'[v].tabs = windows[v].tabs
                            /\ windows'[v].active = windows[v].active
                            /\ windows'[v].shown = windows[v].shown
      /\ \A v \in Windows : windows'[v].loaded <=> windows[v].loaded
  BY <1>1, <1>3, ListedIs DEF Typed, WindowsFit
<1>5. WindowsGo
  BY <1>4, WindowsGoBy
<1>6. RowsGo
  BY <1>1, RowsGoBy
<1>7. Calm /\ Elsewhere(calls[i])
  BY <1>1, <1>5, <1>6 DEF Calm, Elsewhere
<1> QED
  BY <1>1, <1>7, CalmEnd

LEMMA JustEndsCalm ==
  ASSUME Typed, Typed', Editors, NEW i \in DOMAIN calls, Elsewhere(calls[i]), End(i),
         UNCHANGED <<rows, windows, triggers>>, astray \subseteq astray'
  PROVE  Editors'
<1>1. WindowsGo /\ RowsGo
  BY WindowsGoSame, RowsGoBy
<1>2. Calm
  BY <1>1 DEF Calm
<1> QED
  BY <1>2, CalmEnd

LEMMA NoRouteCalm ==
  ASSUME Typed, Typed', Editors, NEW i \in DOMAIN calls, NoRoute(i)
  PROVE  Editors'
<1>1. /\ calls[i].op = "save" /\ calls[i].at = "missing" /\ End(i)
      /\ UNCHANGED <<rows, windows, triggers, astray>>
  BY DEF NoRoute, At
<1>2. Elsewhere(calls[i])
  BY <1>1, ElsewhereAt
<1> QED
  BY <1>1, <1>2, JustEndsCalm

(* The number of the active tab is one tab's.                              *)
LEMMA PlaceOf ==
  ASSUME NEW tabs, NEW rs, FitTabs(tabs, rs), NEW k \in DOMAIN tabs
  PROVE  Place(tabs, tabs[k].n) = k
<1>1. /\ Place(tabs, tabs[k].n) \in DOMAIN tabs
      /\ tabs[Place(tabs, tabs[k].n)].n = tabs[k].n
  BY PlaceIs
<1> QED
  BY <1>1 DEF FitTabs

LEMMA ReceiveQueryCalm ==
  ASSUME Typed, Typed', Editors, NEW i \in DOMAIN calls, ReceiveQuery(i)
  PROVE  Editors'
<1>1. PICK w : w = calls[i].window
  OBVIOUS
<1>2. PICK tabs : tabs = windows[w].tabs
  OBVIOUS
<1>3. /\ calls[i].op = "query" /\ End(i)
      /\ UNCHANGED <<rows, triggers, astray>> /\ w \in Windows
      /\ \A u \in Windows \ {w} : windows'[u] = windows[u]
      /\ FitsWindow(windows'[w], rows, triggers)
      /\ windows'[w].active = windows[w].active /\ windows'[w].shown = windows[w].shown
      /\ windows'[w].loaded <=> windows[w].loaded
      /\ DOMAIN windows'[w].tabs = DOMAIN tabs
      /\ \A k \in DOMAIN tabs :
           /\ windows'[w].tabs[k].n = tabs[k].n /\ windows'[w].tabs[k].kind = tabs[k].kind
           /\ tabs[k].kind # "saved" => windows'[w].tabs[k].row = tabs[k].row
  BY <1>1, <1>2, ReceiveQueryIs
<1>4. Job(w)' = Job(w)
  <2>1. PICK tabs2, active : tabs2 = windows'[w].tabs /\ active = windows[w].active
    OBVIOUS
  <2>2. Job(w)' = IF active # 0 /\ tabs2[Place(tabs2, active)].kind = "transform"
                  THEN tabs2[Place(tabs2, active)].row ELSE 0
    BY <1>3, <2>1, ActiveThen
  <2>3. Job(w) = IF active # 0 /\ tabs[Place(tabs, active)].kind = "transform"
                 THEN tabs[Place(tabs, active)].row ELSE 0
    BY <1>2, <2>1 DEF Job, Active
  <2>4. CASE active = 0
    BY <2>2, <2>3, <2>4
  <2>5. CASE active # 0
    <3>1. FitTabs(tabs, rows) /\ HasActive(tabs, active)
      BY <1>2, <1>3, <2>1, WindowIs
    <3>2. PICK k \in DOMAIN tabs : tabs[k].n = active
      BY <2>5, <3>1 DEF HasActive
    <3>3. Place(tabs, active) = k
      BY <3>1, <3>2, PlaceOf
    <3>4. k \in DOMAIN tabs2 /\ tabs2[k].n = active /\ FitTabs(tabs2, rows)
      BY <1>3, <2>1, <3>2 DEF FitsWindow
    <3>5. Place(tabs2, active) = k
      BY <3>4, PlaceOf
    <3>6. tabs2[k].kind = tabs[k].kind
          /\ (tabs[k].kind # "saved" => tabs2[k].row = tabs[k].row)
      BY <1>3, <2>1
    <3> QED
      BY <2>2, <2>3, <3>3, <3>5, <3>6
  <2> QED
    BY <2>4, <2>5
<1>5. ASSUME NEW u \in Windows
      PROVE  /\ Job(u)' = Job(u) /\ windows'[u].shown = windows[u].shown
             /\ windows'[u].loaded <=> windows[u].loaded
  <2>1. CASE u = w
    BY <1>3, <1>4, <2>1
  <2>2. CASE u # w
    <3>1. windows'[u] = windows[u]
      BY <1>3, <2>2
    <3> QED
      BY <3>1, JobSame
  <2> QED
    BY <2>1, <2>2
<1>6. WindowsGo
  BY <1>5 DEF WindowsGo
<1>7. RowsGo
  BY <1>3, RowsGoBy
<1>8. Calm /\ Elsewhere(calls[i])
  BY <1>3, <1>6, <1>7 DEF Calm, Elsewhere
<1> QED
  BY <1>3, <1>8, CalmEnd

(* A call begins that concerns no transform, or that changes no trigger of *)
(* one there is.                                                           *)
LEMMA BeginsCalm ==
  ASSUME Typed, Typed', Editors, UNCHANGED <<rows, triggers, windows, astray>>,
         NEW c \in CallType, Idle(c), calls' = Append(calls, c)
  PROVE  Editors'
<1>1. Calm
  BY CalmBy
<1> QED
  BY <1>1, CalmBegin

LEMMA SavesCalm ==
  ASSUME Typed, Typed', Editors, NEW w \in Windows, NEW kind \in Kinds, kind # "transform",
         NEW at \in Places, NEW name \in Nat \cup {None}, NEW watches \in BOOLEAN,
         Saves(w, kind, at, name, watches), UNCHANGED astray, at # "post"
  PROVE  Editors'
<1>1. UNCHANGED <<rows, triggers, windows>>
  BY SavesIs
<1>2. PICK c : /\ c \in CallType /\ calls' = Append(calls, c)
               /\ c.op = "save" /\ c.at = at /\ c.kind = kind /\ c.row = Active(w).row
  BY SavesIs
<1>3. Idle(c)
  BY <1>2 DEF Idle
<1> QED
  BY <1>1, <1>2, <1>3, BeginsCalm

LEMMA DeletesCalm ==
  ASSUME Typed, Typed', Editors, NEW w \in Windows,
         NEW kind \in {"dashboard", "backend", "cred"},
         NEW at \in {"read", "write"}, Deletes(w, kind, at)
  PROVE  Editors'
<1>1. UNCHANGED <<rows, triggers, windows, astray>>
  BY DeletesIs
<1>2. PICK c : c \in CallType /\ calls' = Append(calls, c) /\ c.op = "delete" /\ c.at = at
  BY DeletesIs
<1>3. Idle(c)
  BY <1>2 DEF Idle
<1> QED
  BY <1>1, <1>2, <1>3, BeginsCalm

LEMMA SaveQueryCalm ==
  ASSUME Typed, Typed', Editors, NEW w \in Windows, SaveQuery(w)
  PROVE  Editors'
<1>1. UNCHANGED <<rows, triggers, windows, astray>>
  BY SaveQueryIs
<1>2. PICK c : c \in CallType /\ calls' = Append(calls, c) /\ c.op = "query" /\ c.at = "write"
  BY SaveQueryIs
<1>3. Idle(c)
  BY <1>2 DEF Idle
<1> QED
  BY <1>1, <1>2, <1>3, BeginsCalm

LEMMA MountCalm ==
  ASSUME Typed, Typed', Editors, NEW w \in Windows, Mount(w)
  PROVE  Editors'
<1>1. PICK c : c = Call("list", w, "read")
  OBVIOUS
<1>2. /\ calls' = Append(calls, c) /\ UNCHANGED <<rows, triggers, astray>>
      /\ windows' = [windows EXCEPT ![w].open = TRUE]
  BY <1>1 DEF Mount
<1>3. c \in CallType /\ c.op = "list" /\ c.at = "read"
  BY <1>1, ListCallIs DEF Typed, RowsFit
<1>4. Idle(c)
  BY <1>3 DEF Idle
<1>5. windows[w] \in WindowType /\ windows \in [Windows -> WindowType]
  BY DEF Typed, WindowsFit
<1>6. PICK v : v = [windows[w] EXCEPT !.open = TRUE]
  OBVIOUS
<1>7. v.tabs = windows[w].tabs /\ v.active = windows[w].active /\ v.shown = windows[w].shown
  BY <1>5, <1>6 DEF WindowType
<1>8. v.loaded <=> windows[w].loaded
  BY <1>5, <1>6 DEF WindowType
<1>9. \A u \in Windows : windows'[u] = IF u = w THEN v ELSE windows[u]
  BY <1>2, <1>5, <1>6
<1>10. \A u \in Windows : /\ windows'[u].tabs = windows[u].tabs
                          /\ windows'[u].active = windows[u].active
                          /\ windows'[u].loaded <=> windows[u].loaded
                          /\ windows'[u].shown = windows[u].shown
  <2>1. ASSUME NEW u \in Windows
        PROVE  /\ windows'[u].tabs = windows[u].tabs
               /\ windows'[u].active = windows[u].active
               /\ windows'[u].loaded <=> windows[u].loaded
               /\ windows'[u].shown = windows[u].shown
    <3>1. CASE u = w
      BY <1>7, <1>8, <1>9, <3>1
    <3>2. CASE u # w
      BY <1>9, <3>2
    <3> QED
      BY <3>1, <3>2
  <2> QED
    BY <2>1
<1>11. WindowsGo /\ RowsGo
  BY <1>2, <1>10, WindowsGoBy, RowsGoBy
<1>12. Calm
  BY <1>2, <1>11 DEF Calm
<1> QED
  BY <1>2, <1>3, <1>4, <1>12, CalmBegin

(* What agents and panels do, but to triggers.                             *)
LEMMA OthersCalm ==
  ASSUME Typed, Typed', Editors, Agent \/ Panels
  PROVE  \/ Editors'
         \/ \E r \in Live : CreateTrigger(r) \/ DeleteJob(r)
         \/ \E g \in DOMAIN triggers : triggers[g] # 0 /\ DeleteTrigger(g)
<1>1. Live \subseteq DOMAIN rows /\ rows \in Seq(RowType) /\ Len(rows) \in Nat
      /\ DOMAIN rows = 1 .. Len(rows)
  BY DEF Live, Typed, RowsFit
<1>2. ASSUME NEW r \in DOMAIN rows, NEW text, text \in {0, NewText},
             NEW name \in Nat \cup {None}, Update(r, text, name)
      PROVE  Editors'
  <2>1. UNCHANGED <<rows, triggers, windows, astray>>
    BY <1>2, UpdateIs
  <2>2. PICK c : IsUpdate(c, r, text)
    BY <1>2, UpdateIs
  <2>3. c \in CallType /\ calls' = Append(calls, c) /\ Idle(c)
    BY <2>2 DEF IsUpdate, Idle
  <2> QED
    BY <2>1, <2>3, BeginsCalm
<1>3. ASSUME NEW name \in {0, 1}, Submit(name)
      PROVE  Editors'
  <2>1. UNCHANGED <<rows, triggers, windows, astray>>
    BY <1>3, SubmitIs
  <2>2. PICK c : /\ c \in CallType /\ calls' = Append(calls, c)
                 /\ c.op = "save" /\ c.at = IF name = 0 THEN "write" ELSE "slug"
                 /\ c.kind = "dashboard"
    BY <1>3, SubmitIs
  <2>3. Idle(c)
    BY <2>2 DEF Idle
  <2> QED
    BY <2>1, <2>2, <2>3, BeginsCalm
<1>4. ASSUME UNCHANGED <<triggers, windows, calls, astray>>,
             \A r \in DOMAIN rows : rows'[r].live => rows[r].live
      PROVE  Editors'
  BY <1>4, CalmBy, CalmStay
<1>5. ASSUME NEW r \in Live, Drop(r)
      PROVE  Editors'
  <2>1. rows' = [rows EXCEPT ![r] = Gone(rows[r])]
        /\ UNCHANGED <<triggers, windows, calls, astray>>
    BY <1>5 DEF Drop, Gone
  <2>2. Gone(rows[r]) \in RowType
    BY <1>1, RowIs, GoneIs DEF Typed
  <2>3. \A s \in DOMAIN rows : rows'[s] = IF s = r THEN Gone(rows[r]) ELSE rows[s]
    BY <1>1, <2>1, <2>2, ExceptIs
  <2>4. \A s \in DOMAIN rows : rows'[s].live => rows[s].live
    <3>1. rows[r].live
      BY DEF Live
    <3> QED
      BY <2>3, <3>1
  <2> QED
    BY <1>4, <2>1, <2>4
<1>6. ASSUME NEW kind \in Kinds \ {"dashboard"}, NEW name \in Nat, Insert(kind, name)
      PROVE  Editors'
  <2>1. PICK row : row = Row(kind, name, NewText)
    OBVIOUS
  <2>2. rows' = Append(rows, row) /\ Act /\ UNCHANGED <<triggers, windows, calls, astray>>
    BY <1>6, <2>1 DEF Insert
  <2>3. NewText \in Nat
    BY <2>2, TextFits
  <2>4. row \in RowType
    BY <2>1, <2>3, SMTT(30) DEF Row, RowType
  <2>5. \A r \in DOMAIN rows : rows'[r] = rows[r]
    BY <1>1, <2>2, <2>4, AppendIs
  <2> QED
    BY <1>4, <2>2, <2>5
<1>7. ASSUME NEW r \in Live, NEW name \in Nat, Change(r, name)
      PROVE  Editors'
  <2>1. PICK old, x, row : old = rows[r] /\ x = NewText /\ row = Rewritten(old, name, x)
    OBVIOUS
  <2>2. /\ rows' = [rows EXCEPT ![r] = row] /\ Act
        /\ UNCHANGED <<triggers, windows, calls, astray>>
    BY <1>1, <1>7, <2>1 DEF Change, Rewritten
  <2>3. x \in Nat /\ old \in RowType
    BY <1>1, <2>1, <2>2, TextFits, RowIs DEF Typed
  <2>4. row \in RowType
    BY <2>1, <2>3, RewrittenIs
  <2>5. \A s \in DOMAIN rows : rows'[s] = IF s = r THEN row ELSE rows[s]
    BY <1>1, <2>2, <2>4, ExceptIs
  <2>6. \A s \in DOMAIN rows : rows'[s].live => rows[s].live
    <3>1. rows[r].live
      BY DEF Live
    <3> QED
      BY <2>5, <3>1
  <2> QED
    BY <1>4, <2>2, <2>6
<1>8. ASSUME NEW r \in {0} \cup Live, NEW watches \in BOOLEAN, SubmitTransform(r, watches)
      PROVE  Editors'
  <2>1. r \in {0} \cup DOMAIN rows
    BY <1>1
  <2>2. UNCHANGED <<rows, triggers, windows, astray>>
    BY <1>8, <2>1, SubmitTransformIs
  <2>3. PICK c : /\ c \in CallType /\ calls' = Append(calls, c)
                 /\ c.op = "save" /\ c.window = None /\ c.at = "put"
                 /\ c.row = r /\ c.found = {}
                 /\ c.watches => r = 0
    BY <1>8, <2>1, SubmitTransformIs
  <2>4. Idle(c)
    BY <2>3 DEF Idle
  <2> QED
    BY <2>2, <2>3, <2>4, BeginsCalm
<1>9. ASSUME NEW r \in Live, RemoveDashboard(r)
      PROVE  Editors'
  <2>1. UNCHANGED <<rows, triggers, windows, astray>>
    BY <1>1, <1>9, RemoveDashboardIs
  <2>2. PICK c : c \in CallType /\ calls' = Append(calls, c) /\ c.op = "delete" /\ c.at = "read"
    BY <1>1, <1>9, RemoveDashboardIs
  <2>3. Idle(c)
    BY <2>2 DEF Idle
  <2> QED
    BY <2>1, <2>2, <2>3, BeginsCalm
<1> QED
  BY <1>2, <1>3, <1>5, <1>6, <1>7, <1>8, <1>9, OthersDo

-----------------------------------------------------------------------------
(* Others change triggers or delete jobs.                                  *)

LEMMA EditorsTold ==
  ASSUME Typed, Typed', Editors, UNCHANGED <<windows, calls>>,
         DOMAIN triggers \subseteq DOMAIN triggers',
         \A w \in Windows : Job(w) \in Live' \ astray' =>
           Job(w) \in Live \ astray /\ SameFor(Job(w), triggers, triggers')
  PROVE  Editors'
<1>1. \A w \in Windows : /\ Job(w)' = Job(w)
                         /\ windows'[w].loaded <=> windows[w].loaded
  BY JobSame
<1>2. PICK i, new : i = 0 /\ new = {}
  OBVIOUS
<1>3. Goes(calls, calls', i, new, Windows)
  BY <1>2, GoesStay DEF Typed, CallsFit
<1>4. i \notin DOMAIN calls
  BY <1>2, LiveIs
<1>5. \A w \in Windows : Job(w) \in Live' \ astray' => StaysSound(w, i, new)
  BY <1>2, <1>4 DEF StaysSound
<1> QED
  BY <1>1, <1>2, <1>3, <1>5, EditorsAct

LEMMA ToldIs ==
  ASSUME Typed, NEW r, ToldToNobody(r), NEW w \in Windows, Job(w) \notin astray', r # 0
  PROVE  Job(w) # r /\ Job(w) \notin astray
<1>1. SUFFICES ASSUME Job(w) = r PROVE ShownElsewhere(None, r)
  BY DEF ToldToNobody
<1>2. windows[w].active # 0 /\ Active(w).kind = "transform" /\ Active(w).row = r
  BY <1>1, JobIs
<1>3. w \in Windows \ {None}
  BY WorkbenchAssumption
<1> QED
  BY <1>2, <1>3 DEF ShownElsewhere

LEMMA CreateTriggerEditors ==
  ASSUME Typed, Typed', Editors, NEW r \in Live, CreateTrigger(r)
  PROVE  Editors'
<1>1. /\ triggers' = Append(triggers, r) /\ ToldToNobody(r)
      /\ UNCHANGED <<rows, snapshots, windows, calls, overlapped>>
  BY DEF CreateTrigger
<1>2. r \in DOMAIN rows /\ r # 0
  BY LiveIs
<1>3. triggers \in Seq(Nat) /\ DOMAIN triggers = 1 .. Len(triggers) /\ Len(triggers) \in Nat
  BY DEF Typed, RowsFit
<1>4. /\ DOMAIN triggers' = 1 .. Len(triggers) + 1
      /\ \A g \in DOMAIN triggers : triggers'[g] = triggers[g]
      /\ triggers'[Len(triggers) + 1] = r
  BY <1>1, <1>2, TriggerAppended DEF Typed
<1>5. ASSUME NEW w \in Windows, Job(w) \in Live' \ astray'
      PROVE  Job(w) \in Live \ astray /\ SameFor(Job(w), triggers, triggers')
  <2>1. Job(w) # r /\ Job(w) \notin astray
    BY <1>1, <1>2, <1>5, ToldIs
  <2>2. Job(w) \in Live
    BY <1>1, <1>5 DEF Live
  <2>3. SameFor(Job(w), triggers, triggers')
    BY <1>3, <1>4, <2>1 DEF SameFor
  <2> QED
    BY <2>1, <2>2, <2>3
<1>6. DOMAIN triggers \subseteq DOMAIN triggers'
  BY <1>3, <1>4
<1> QED
  BY <1>1, <1>5, <1>6, EditorsTold

LEMMA DeleteTriggerEditors ==
  ASSUME Typed, Typed', Editors, NEW g \in DOMAIN triggers, triggers[g] # 0,
         DeleteTrigger(g)
  PROVE  Editors'
<1>1. /\ triggers' = [triggers EXCEPT ![g] = 0] /\ ToldToNobody(triggers[g])
      /\ UNCHANGED <<rows, windows, calls>>
  BY DEF DeleteTrigger
<1>2. /\ DOMAIN triggers' = DOMAIN triggers /\ triggers'[g] = 0
      /\ \A h \in DOMAIN triggers \ {g} : triggers'[h] = triggers[h]
  BY <1>1 DEF Typed, RowsFit
<1>3. ASSUME NEW w \in Windows, Job(w) \in Live' \ astray'
      PROVE  Job(w) \in Live \ astray /\ SameFor(Job(w), triggers, triggers')
  <2>1. Job(w) # triggers[g] /\ Job(w) \notin astray
    BY <1>1, <1>3, ToldIs
  <2>2. Job(w) \in Live
    BY <1>1, <1>3 DEF Live
  <2>3. Job(w) # 0
    BY <2>2, LiveIs
  <2>4. SameFor(Job(w), triggers, triggers')
    BY <1>2, <2>1, <2>3 DEF SameFor
  <2> QED
    BY <2>1, <2>2, <2>4
<1> QED
  BY <1>1, <1>2, <1>3, EditorsTold

LEMMA DeleteJobEditors ==
  ASSUME Typed, Typed', Editors, NEW r \in Live, DeleteJob(r)
  PROVE  Editors'
<1>1. /\ rows' = [rows EXCEPT ![r] = Gone(rows[r])]
      /\ triggers' = [g \in DOMAIN triggers |-> IF triggers[g] = r THEN 0 ELSE triggers[g]]
      /\ UNCHANGED <<windows, calls, astray>>
  BY DEF DeleteJob, Gone
<1>2. r \in DOMAIN rows /\ rows \in Seq(RowType)
  BY LiveIs DEF Typed, RowsFit
<1>3. Gone(rows[r]) \in RowType /\ ~Gone(rows[r]).live
  BY <1>2, RowIs, GoneIs DEF Typed
<1>4. /\ DOMAIN rows' = DOMAIN rows
      /\ \A s \in DOMAIN rows : rows'[s] = IF s = r THEN Gone(rows[r]) ELSE rows[s]
  BY <1>1, <1>2, <1>3, ExceptIs
<1>5. DOMAIN triggers' = DOMAIN triggers
  BY <1>1
<1>6. ASSUME NEW w \in Windows, Job(w) \in Live' \ astray'
      PROVE  Job(w) \in Live \ astray /\ SameFor(Job(w), triggers, triggers')
  <2>1. Job(w) \in DOMAIN rows /\ rows'[Job(w)].live
    BY <1>4, <1>6 DEF Live
  <2>2. Job(w) # r
    BY <1>3, <1>4, <2>1
  <2>3. Job(w) \in Live \ astray
    BY <1>1, <1>4, <1>6, <2>1, <2>2 DEF Live
  <2>4. Job(w) # 0
    BY <2>3, LiveIs
  <2>5. SameFor(Job(w), triggers, triggers')
    BY <1>1, <2>2, <2>4 DEF SameFor
  <2> QED
    BY <2>3, <2>5
<1> QED
  BY <1>1, <1>5, <1>6, EditorsTold

-----------------------------------------------------------------------------
(* The steps of a transform's save.                                        *)

LEMMA EditorOf ==
  ASSUME Editors, NEW w \in Windows
  PROVE  /\ EditorFits(Job(w), windows[w], w, calls)
         /\ Job(w) \in Live \ astray => EditorAlone(Job(w), windows[w], w, calls, triggers)
BY DEF Editors, EditorsFit, EditorIs

(* The call c of the job goes on as d, which knows the triggers as they    *)
(* are now.                                                                *)
GoesOnFor(j, c, d, v, v2, ts, ts2) ==
  /\ d.op = "save" /\ d.kind = "transform"
  /\ d.window = c.window /\ (c.mounted => d.mounted)
  /\ d.row = j /\ d.found = Triggering(j, ts2)
  /\ v2.loaded <=> v.loaded
  /\ DOMAIN ts \subseteq DOMAIN ts2
  /\ \A g \in DOMAIN ts : ts2[g] = j => ts[g] = j

(* The call that works for the job goes on with what it knows.             *)
LEMMA AloneContinues ==
  ASSUME Typed, Editors, NEW w \in Windows, NEW j, j = Job(w), j \in Live \ astray,
         NEW i \in DOMAIN calls, NEW c, c = calls[i], WorksFor(c, j, triggers),
         NEW d \in CallType, calls' = [calls EXCEPT ![i] = d],
         GoesOnFor(j, c, d, windows[w], windows'[w], triggers, triggers')
  PROVE  EditorAlone(j, windows'[w], w, calls', triggers')
<1>. USE DEF GoesOnFor
<1>1. EditorFits(j, windows[w], w, calls) /\ EditorAlone(j, windows[w], w, calls, triggers)
  BY EditorOf
<1>2. Knows(c, j, windows[w], w, triggers)
  BY <1>1 DEF EditorAlone
<1>3. c.window = w /\ c.mounted /\ windows[w].loaded
  BY <1>2 DEF Knows
<1>4. /\ DOMAIN calls' = DOMAIN calls /\ calls'[i] = d
      /\ \A k \in DOMAIN calls \ {i} : calls'[k] = calls[k]
  BY ExceptIs DEF Typed, CallsFit
<1>5. Knows(d, j, windows'[w], w, triggers')
  BY <1>3 DEF Knows
<1>6. WorksFor(d, j, triggers')
  <2>1. d.window # None
    BY <1>3, WorkbenchAssumption
  <2> QED
    BY <2>1 DEF WorksFor, Writing, Passive
<1>7. ASSUME NEW k \in DOMAIN calls \ {i}, WorksFor(calls[k], j, triggers')
      PROVE  FALSE
  <2>1. calls[k].op = "save" /\ calls[k].kind = "transform"
    BY <1>7 DEF WorksFor, Writing
  <2>2. calls[k].found \subseteq DOMAIN triggers
    BY <2>1, CallAt DEF Typed, FitsKind, IsSaveOfTransform
  <2>3. WorksFor(calls[k], j, triggers)
    BY <1>7, <2>2 DEF WorksFor, Writing
  <2> QED
    BY <1>1, <2>3 DEF EditorAlone
<1>8. \A k \in DOMAIN calls' : WorksFor(calls'[k], j, triggers') => k = i
  BY <1>4, <1>7
<1>9. \A k \in DOMAIN calls' : ~Loads(calls'[k], w)
  <2>1. ~Loads(d, w)
    BY DEF Loads
  <2>2. \A k \in DOMAIN calls : ~Loads(calls[k], w)
    BY <1>1, <1>3 DEF EditorFits
  <2> QED
    BY <1>4, <2>1, <2>2
<1> QED
  BY <1>4, <1>5, <1>6, <1>8, <1>9 DEF EditorAlone

(* It ends, and the editor shows what it knew.                             *)
LEMMA AloneEnds ==
  ASSUME NEW j, NEW v, NEW v2, NEW w, NEW cs, NEW ds, NEW ts, NEW i, NEW V,
         EditorFits(j, v, w, cs), EditorAlone(j, v, w, cs, ts), v.loaded,
         \A k \in DOMAIN cs : WorksFor(cs[k], j, ts) => k = i,
         Goes(cs, ds, i, {}, V), v2.shown = Triggering(j, ts)
  PROVE  EditorAlone(j, v2, w, ds, ts)
<1>1. PICK f \in [DOMAIN ds -> Nat] : \A k \in DOMAIN ds :
        f[k] \in DOMAIN cs \ {0, i} /\ Lasts(cs[f[k]], ds[k], V)
  BY DEF Goes
<1>2. \A k \in DOMAIN ds : ~WorksFor(ds[k], j, ts)
  BY <1>1, LastsIs
<1>3. \A k \in DOMAIN ds : ~Loads(ds[k], w)
  BY <1>1, LastsIs DEF EditorFits
<1> QED
  BY <1>2, <1>3 DEF EditorAlone

(* A call that works for the job begins, when none is under way.           *)
LEMMA AloneBegins ==
  ASSUME NEW j, NEW v, NEW w, NEW cs \in Seq(CallType), NEW ts, NEW c \in CallType,
         EditorFits(j, v, w, cs), v.loaded,
         \A k \in DOMAIN cs : ~WorksFor(cs[k], j, ts),
         c.op = "save", WorksFor(c, j, ts), Knows(c, j, v, w, ts)
  PROVE  EditorAlone(j, v, w, Append(cs, c), ts)
<1> DEFINE ds == Append(cs, c)
<1>1. /\ DOMAIN cs = 1 .. Len(cs) /\ Len(cs) \in Nat
      /\ DOMAIN ds = 1 .. Len(cs) + 1
      /\ \A k \in 1 .. Len(cs) : ds[k] = cs[k]
      /\ ds[Len(cs) + 1] = c
  BY AppendIs, SeqFacts
<1> HIDE DEF ds
<1>2. \A k \in DOMAIN ds : WorksFor(ds[k], j, ts) => k = Len(cs) + 1
  BY <1>1
<1>3. WorksFor(ds[Len(cs) + 1], j, ts) /\ Len(cs) + 1 \in DOMAIN ds
  BY <1>1
<1>4. \A k \in DOMAIN ds : ~Loads(ds[k], w)
  <2>1. \A k \in DOMAIN cs : ~Loads(cs[k], w)
    BY DEF EditorFits
  <2>2. ~Loads(c, w)
    BY DEF Loads
  <2> QED
    BY <1>1, <2>1, <2>2
<1>5. EditorAlone(j, v, w, ds, ts)
  BY <1>1, <1>2, <1>3, <1>4 DEF EditorAlone
<1> QED
  BY <1>5 DEF ds

(* A call that does not work for a job goes on, with no more triggers.     *)
LEMMA NotForJob ==
  ASSUME NEW c, NEW d, NEW j, NEW ts, ~WorksFor(c, j, ts), c.op = "save",
         c.kind = "transform", d.window = c.window, d.found \subseteq c.found,
         d.row = j => c.row = j, d.watches => c.watches
  PROVE  ~WorksFor(d, j, ts)
BY DEF WorksFor, Writing, Passive

(* The call goes on with d, in its window and for its row.                 *)
LEMMA SaveGoesOn ==
  ASSUME Typed, Typed', Editors, NEW i \in DOMAIN calls, NEW c, c = calls[i],
         NEW d \in CallType, calls' = [calls EXCEPT ![i] = d],
         c.op = "save", c.kind = "transform", d.op = "save", d.kind = "transform",
         d.window = c.window, d.mounted => c.mounted, c.row # 0 => d.row = c.row,
         d.at = "post" => d.watches, UNCHANGED windows,
         DOMAIN triggers \subseteq DOMAIN triggers',
         \A w \in Windows : Job(w) \in Live' \ astray' =>
           \/ StaysSound(w, i, {d})
           \/ EditorAlone(Job(w), windows'[w], w, calls', triggers')
  PROVE  Editors'
<1>1. \A w \in Windows : /\ Job(w)' = Job(w)
                         /\ windows'[w].loaded <=> windows[w].loaded
  BY JobSame
<1>2. PICK new : new = {d}
  OBVIOUS
<1>3. Goes(calls, calls', i, new, Windows)
  BY <1>2, GoesAt DEF Typed, CallsFit
<1>4. ASSUME NEW w \in Windows, Edits(d, w)
      PROVE  Job(w) \in {0, d.row}
  <2>1. Edits(c, w)
    BY <1>4 DEF Edits
  <2>2. Job(w) \in {0, c.row}
    BY <2>1, EditorOf DEF EditorFits
  <2> QED
    BY <2>2
<1>5. \A e \in new : /\ e.op # "load" /\ (e.at = "post" => e.watches)
                     /\ \A w \in Windows : Edits(e, w) => Job(w) \in {0, e.row}
  BY <1>2, <1>4
<1>6. \A w \in Windows : Job(w) \in Live' \ astray' =>
        \/ StaysSound(w, i, new)
        \/ EditorAlone(Job(w), windows'[w], w, calls', triggers')
  BY <1>2
<1> QED
  BY <1>1, <1>3, <1>5, <1>6, EditorsAct

(* What a call that works for a job knows.                                 *)
LEMMA WorkerKnows ==
  ASSUME Editors, NEW w \in Windows, Job(w) \in Live \ astray, NEW i \in DOMAIN calls,
         WorksFor(calls[i], Job(w), triggers)
  PROVE  /\ calls[i].op = "save" /\ calls[i].kind = "transform"
         /\ calls[i].window = w /\ calls[i].mounted /\ calls[i].row = Job(w)
         /\ calls[i].found = Triggering(Job(w), triggers) /\ windows[w].loaded
         /\ \A k \in DOMAIN calls : WorksFor(calls[k], Job(w), triggers) => k = i
<1>1. Knows(calls[i], Job(w), windows[w], w, triggers)
  BY EditorOf DEF EditorAlone
<1>2. \A k \in DOMAIN calls : WorksFor(calls[k], Job(w), triggers) => k = i
  BY EditorOf DEF EditorAlone
<1> QED
  BY <1>1, <1>2 DEF Knows, WorksFor, Writing

(* A call ends that worked for no job with an editor.                      *)
LEMMA EndsEditors ==
  ASSUME Typed, Typed', Editors, NEW i \in DOMAIN calls, End(i),
         UNCHANGED <<windows, triggers>>, RowsGo, astray \subseteq astray',
         \A w \in Windows : Job(w) \in Live' \ astray' =>
           ~WorksFor(calls[i], Job(w), triggers)
  PROVE  Editors'
<1>1. \A w \in Windows : /\ Job(w)' = Job(w)
                         /\ windows'[w].loaded <=> windows[w].loaded
  BY JobSame
<1>2. PICK new : new = {}
  OBVIOUS
<1>3. Goes(calls, calls', i, new, Windows)
  BY <1>2, GoesOut DEF End, Without, Typed, CallsFit
<1>4. ASSUME NEW w \in Windows, Job(w) \in Live' \ astray'
      PROVE  StaysSound(w, i, new)
  <2>1. Job(w) \in Live \ astray
    BY <1>4, LiveThen
  <2>2. SameFor(Job(w), triggers, triggers')
    BY DEF SameFor
  <2> QED
    BY <1>2, <1>4, <2>1, <2>2 DEF StaysSound
<1> QED
  BY <1>1, <1>2, <1>3, <1>4, EditorsAct

LEMMA PutTransformEditors ==
  ASSUME Typed, Typed', Editors, NEW i \in DOMAIN calls, PutTransform(i),
         UNCHANGED others
  PROVE  Editors'
<1>1. PICK c : c = calls[i]
  OBVIOUS
<1>2. /\ c.op = "save" /\ c.at = "put"
      /\ UNCHANGED <<snapshots, triggers, windows, overlapped, astray, acts, events>>
  BY <1>1 DEF PutTransform, At
<1>3. c.kind = "transform" /\ c \in CallType
  BY <1>1, <1>2, SaveOfTransformIs
<1>4. CASE c.row # 0 /\ c.row \notin Live
  <2>1. End(i) /\ UNCHANGED rows
    BY <1>1, <1>4 DEF PutTransform
  <2>2. RowsGo
    BY <2>1 DEF RowsGo, Live
  <2>3. ASSUME NEW w \in Windows, Job(w) \in Live' \ astray'
        PROVE  ~WorksFor(calls[i], Job(w), triggers)
    <3>1. Job(w) \in Live \ astray
      BY <1>2, <2>2, <2>3, LiveThen
    <3> QED
      BY <1>1, <1>4, <3>1, WorkerKnows
  <2> QED
    BY <1>2, <2>1, <2>2, <2>3, EndsEditors
<1>5. CASE ~(c.row # 0 /\ c.row \notin Live)
  <2>1. PICK r \in Nat \ {0} :
          /\ r = IF c.row = 0 THEN Len(rows) + 1 ELSE c.row
          /\ calls' = [calls EXCEPT ![i] = AfterPut(ForRow(c, r))]
          /\ Live' = Live \cup {r}
    BY <1>1, <1>5, PutIs
  <2>2. PICK e : e = ForRow(c, r)
    OBVIOUS
  <2>3. /\ e \in CallType /\ e.op = "save" /\ e.kind = "transform"
        /\ e.window = c.window /\ e.mounted = c.mounted /\ e.row = r
        /\ e.found = c.found /\ e.watches = c.watches
    BY <1>2, <1>3, <2>2, ForRowIs
  <2>4. PICK d : d = AfterPut(e)
    OBVIOUS
  <2>5. /\ d \in CallType /\ d.op = "save" /\ d.kind = "transform"
        /\ d.window = c.window /\ d.mounted = c.mounted /\ d.row = r
        /\ d.found = c.found /\ (d.watches => e.watches)
        /\ d.at = "post" => d.watches
    BY <2>3, <2>4, AfterPutIs
  <2>6. calls' = [calls EXCEPT ![i] = d]
    BY <2>1, <2>2, <2>4
  <2>7. ASSUME NEW w \in Windows, Job(w) \in Live' \ astray'
        PROVE  \/ StaysSound(w, i, {d})
               \/ EditorAlone(Job(w), windows'[w], w, calls', triggers')
    <3>1. PICK j : j = Job(w)
      OBVIOUS
    <3>2. j \in DOMAIN rows /\ j # 0
      <4>1. j # 0
        BY <2>1, <2>7, <3>1, LiveIs
      <4> QED
        BY <3>1, <4>1, JobIs
    <3>3. c.row = 0 => j # r
      BY <2>1, <3>2 DEF Typed, RowsFit
    <3>4. j \in Live \ astray
      BY <1>2, <1>5, <2>1, <2>7, <3>1, <3>3
    <3>5. CASE WorksFor(c, j, triggers)
      <4>1. c.row = j /\ c.found = Triggering(j, triggers)
        BY <1>1, <3>1, <3>4, <3>5, WorkerKnows
      <4>2. d.row = j /\ d.found = Triggering(j, triggers')
        BY <1>2, <2>1, <2>5, <3>2, <4>1
      <4>3. GoesOnFor(j, c, d, windows[w], windows'[w], triggers, triggers')
        BY <1>2, <2>5, <4>2 DEF GoesOnFor
      <4>4. EditorAlone(j, windows'[w], w, calls', triggers')
        BY <1>1, <2>5, <2>6, <3>1, <3>4, <3>5, <4>3, AloneContinues
      <4> QED
        BY <3>1, <4>4
    <3>6. CASE ~WorksFor(c, j, triggers)
      <4>1. d.row = j => c.row = j
        BY <2>1, <2>5, <3>3
      <4>2. d.watches => c.watches
        BY <2>3, <2>5
      <4>3. ~WorksFor(d, j, triggers)
        BY <1>2, <1>3, <2>5, <3>6, <4>1, <4>2, NotForJob
      <4>4. SameFor(j, triggers, triggers')
        BY <1>2 DEF SameFor
      <4> QED
        BY <1>1, <1>2, <3>1, <3>4, <3>6, <4>3, <4>4 DEF StaysSound
    <3> QED
      BY <3>5, <3>6
  <2>8. c.row # 0 => d.row = c.row
    BY <2>1, <2>5
  <2> QED
    BY <1>1, <1>2, <1>3, <2>5, <2>6, <2>7, <2>8, SaveGoesOn
<1> QED
  BY <1>4, <1>5

(* One of the triggers it knows of is done with: it is deleted, or both    *)
(* jobs are astray.                                                        *)
LEMMA ClearsEditors ==
  ASSUME Typed, Typed', Editors, NEW i \in DOMAIN calls, NEW g \in calls[i].found,
         calls[i].op = "save", calls[i].at = "clear",
         NEW e, e = Cleared(calls[i], g), NEW d, d = AfterPut(e),
         calls' = [calls EXCEPT ![i] = d], UNCHANGED <<rows, windows>>, astray \subseteq astray',
         \/ triggers' = [triggers EXCEPT ![g] = 0]
         \/ UNCHANGED triggers /\ {calls[i].row, triggers[g]} \ {0} \subseteq astray'
  PROVE  Editors'
<1>1. PICK c : c = calls[i]
  OBVIOUS
<1>2. c.op = "save" /\ c.at = "clear" /\ g \in c.found
  BY <1>1
<1>3. c.kind = "transform" /\ c \in CallType /\ IsSaveOfTransform(c, triggers)
  BY <1>1, <1>2, SaveOfTransformIs
<1>4. e = Cleared(c, g)
  BY <1>1
<1>5. /\ e \in CallType /\ e.op = "save" /\ e.kind = "transform"
      /\ e.window = c.window /\ e.mounted = c.mounted /\ e.row = c.row
      /\ e.found = c.found \ {g} /\ e.watches = c.watches
  BY <1>2, <1>3, <1>4, ClearedIs
<1>7. /\ d \in CallType /\ d.op = "save" /\ d.kind = "transform"
      /\ d.window = c.window /\ d.mounted = c.mounted /\ d.row = c.row
      /\ d.found = c.found \ {g} /\ (d.watches => e.watches)
      /\ d.at = "post" => d.watches
  BY <1>5, AfterPutIs
<1>9. g \in DOMAIN triggers /\ DOMAIN triggers' = DOMAIN triggers
  BY <1>2, <1>3 DEF IsSaveOfTransform
<1>10. ASSUME NEW w \in Windows, Job(w) \in Live' \ astray'
       PROVE  \/ StaysSound(w, i, {d})
              \/ EditorAlone(Job(w), windows'[w], w, calls', triggers')
  <2>1. PICK j : j = Job(w)
    OBVIOUS
  <2>2. j \in Live \ astray /\ j # 0 /\ j \notin astray'
    BY <1>10, <2>1, LiveIs DEF Live
  <2>3. CASE WorksFor(c, j, triggers)
    <3>1. c.row = j /\ c.found = Triggering(j, triggers)
      BY <1>1, <2>1, <2>2, <2>3, WorkerKnows
    <3>2. triggers' = [triggers EXCEPT ![g] = 0]
      BY <1>1, <2>2, <3>1
    <3>3. Triggering(j, triggers') = Triggering(j, triggers) \ {g}
      BY <1>9, <2>2, <3>2 DEF Triggering
    <3>4. \A h \in DOMAIN triggers : triggers'[h] = j => triggers[h] = j
      BY <2>2, <3>2
    <3>5. d.row = j /\ d.found = Triggering(j, triggers')
      BY <1>7, <3>1, <3>3
    <3>6. /\ DOMAIN triggers \subseteq DOMAIN triggers'
          /\ windows'[w].loaded <=> windows[w].loaded
      BY <1>9
    <3>7. /\ d \in CallType /\ d.op = "save" /\ d.kind = "transform"
          /\ d.window = c.window
          /\ c.mounted => d.mounted
      BY <1>7
    <3>8. EditorAlone(j, windows'[w], w, calls', triggers')
      <4>1. GoesOnFor(j, c, d, windows[w], windows'[w], triggers, triggers')
        BY <3>4, <3>5, <3>6, <3>7 DEF GoesOnFor
      <4> QED
        BY <1>1, <2>1, <2>2, <2>3, <3>7, <4>1, AloneContinues
    <3> QED
      BY <2>1, <3>8
  <2>4. CASE ~WorksFor(c, j, triggers)
    <3>1. triggers[g] # j
      BY <1>2, <1>3, <2>4 DEF WorksFor, Writing, Passive
    <3>2. SameFor(j, triggers, triggers')
      BY <1>9, <2>2, <3>1 DEF SameFor
    <3>3. d.watches => c.watches
      BY <1>5, <1>7
    <3>4. ~WorksFor(d, j, triggers)
      BY <1>2, <1>3, <1>7, <2>4, <3>3, NotForJob
    <3>5. d.found \subseteq DOMAIN triggers
      BY <1>3, <1>7 DEF IsSaveOfTransform
    <3>6. ~WorksFor(d, j, triggers')
      BY <1>9, <3>2, <3>4, <3>5, SameIs
    <3> QED
      BY <1>1, <2>1, <2>2, <2>4, <3>2, <3>6 DEF StaysSound
  <2> QED
    BY <2>3, <2>4
<1>11. /\ d \in CallType /\ d.op = "save" /\ d.kind = "transform" /\ d.window = c.window
       /\ d.mounted => c.mounted
       /\ c.row # 0 => d.row = c.row
       /\ d.at = "post" => d.watches
  BY <1>7
<1>12. DOMAIN triggers \subseteq DOMAIN triggers' /\ UNCHANGED windows
  BY <1>9
<1> QED
  BY <1>1, <1>2, <1>3, <1>10, <1>11, <1>12, SaveGoesOn

LEMMA ClearTriggerEditors ==
  ASSUME Typed, Typed', Editors, NEW i \in DOMAIN calls, NEW g \in calls[i].found,
         ClearTrigger(i, g)
  PROVE  Editors'
<1>1. PICK e : e = Cleared(calls[i], g)
  OBVIOUS
<1>2. PICK d : d = AfterPut(e)
  OBVIOUS
<1>3. /\ calls[i].op = "save" /\ calls[i].at = "clear"
      /\ triggers' = [triggers EXCEPT ![g] = 0]
      /\ calls' = [calls EXCEPT ![i] = d]
      /\ UNCHANGED <<rows, windows, astray>>
  BY <1>1, <1>2 DEF ClearTrigger, At, Cleared
<1> QED
  BY <1>1, <1>2, <1>3, ClearsEditors

LEMMA LoseClearEditors ==
  ASSUME Typed, Typed', Editors, NEW i \in DOMAIN calls, NEW g \in calls[i].found,
         LoseClear(i, g)
  PROVE  Editors'
<1>1. PICK e : e = Cleared(calls[i], g)
  OBVIOUS
<1>2. PICK d : d = AfterPut(e)
  OBVIOUS
<1>3. e.row = calls[i].row
  BY <1>1, CallAt, ClearedIs DEF Typed
<1>4. /\ calls[i].op = "save" /\ calls[i].at = "clear"
      /\ calls' = [calls EXCEPT ![i] = d]
      /\ astray' = astray \cup ({e.row, triggers[g]} \ {0})
      /\ UNCHANGED <<rows, windows, triggers>>
  BY <1>1, <1>2 DEF LoseClear, At, Cleared
<1> QED
  BY <1>1, <1>2, <1>3, <1>4, ClearsEditors

LEMMA PostTriggerEditors ==
  ASSUME Typed, Typed', Editors, NEW i \in DOMAIN calls, PostTrigger(i)
  PROVE  Editors'
<1>1. PICK c : c = calls[i]
  OBVIOUS
<1>2. c.op = "save" /\ c.at = "post" /\ UNCHANGED <<rows, windows, astray>>
  BY <1>1 DEF PostTrigger, At
<1>3. c.kind = "transform" /\ c \in CallType /\ IsSaveOfTransform(c, triggers)
  BY <1>1, <1>2, SaveOfTransformIs
<1>4. c.found = {} /\ c.watches
  BY <1>1, <1>2, <1>3 DEF IsSaveOfTransform, Editors, WatchesFit
<1>5. RowsGo
  BY <1>2 DEF RowsGo, Live
<1>6. CASE c.row \notin Live
  <2>1. End(i) /\ UNCHANGED triggers
    BY <1>1, <1>6 DEF PostTrigger
  <2>2. ASSUME NEW w \in Windows, Job(w) \in Live' \ astray'
        PROVE  ~WorksFor(calls[i], Job(w), triggers)
    <3>1. Job(w) \in Live \ astray
      BY <1>2, <1>5, <2>2, LiveThen
    <3> QED
      BY <1>1, <1>6, <3>1, WorkerKnows
  <2> QED
    BY <1>2, <1>5, <2>1, <2>2, EndsEditors
<1>7. CASE c.row \in Live
  <2>1. PICK g : g = Len(triggers) + 1
    OBVIOUS
  <2>2. PICK found : found = {g}
    OBVIOUS
  <2>3. PICK d : d = Answered(c, found)
    OBVIOUS
  <2>4. triggers' = Append(triggers, c.row) /\ calls' = [calls EXCEPT ![i] = d]
    BY <1>1, <1>7, <2>1, <2>2, <2>3 DEF PostTrigger
  <2>5. /\ DOMAIN triggers = 1 .. Len(triggers) /\ Len(triggers) \in Nat
        /\ c.row \in DOMAIN rows
    BY <1>7, LiveIs DEF Typed, RowsFit
  <2>6. /\ DOMAIN triggers' = 1 .. g
        /\ \A h \in DOMAIN triggers : triggers'[h] = triggers[h]
        /\ triggers'[g] = c.row /\ g \in Nat
        /\ DOMAIN triggers \subseteq DOMAIN triggers' /\ g \notin DOMAIN triggers
        /\ DOMAIN triggers' = DOMAIN triggers \cup {g}
    BY <1>2, <2>1, <2>4, <2>5, TriggerAppended DEF Typed
  <2>7. found \in SUBSET Nat
    BY <2>2, <2>6
  <2>8. /\ d \in CallType /\ d.op = "save" /\ d.kind = "transform" /\ d.at = "answer"
        /\ d.window = c.window /\ d.mounted = c.mounted /\ d.row = c.row
        /\ d.found = {g}
    BY <1>2, <1>3, <2>2, <2>3, <2>7, AnsweredIs
  <2>9. ASSUME NEW w \in Windows, Job(w) \in Live' \ astray'
        PROVE  \/ StaysSound(w, i, {d})
               \/ EditorAlone(Job(w), windows'[w], w, calls', triggers')
    <3>1. PICK j : j = Job(w)
      OBVIOUS
    <3>2. j \in Live \ astray /\ j # 0
      BY <1>2, <1>5, <2>9, <3>1, LiveThen, LiveIs
    <3>3. CASE WorksFor(c, j, triggers)
      <4>1. c.row = j /\ Triggering(j, triggers) = {}
        BY <1>1, <1>4, <3>1, <3>2, <3>3, WorkerKnows
      <4>2. Triggering(j, triggers') = {g}
        BY <2>6, <4>1 DEF Triggering
      <4>3. d.row = j /\ d.found = Triggering(j, triggers')
        BY <2>8, <4>1, <4>2
      <4>4. \A h \in DOMAIN triggers : triggers'[h] = j => triggers[h] = j
        BY <2>6
      <4>5. /\ DOMAIN triggers \subseteq DOMAIN triggers'
            /\ windows'[w].loaded <=> windows[w].loaded
        BY <1>2, <2>6
      <4>6. /\ d \in CallType /\ d.op = "save" /\ d.kind = "transform"
            /\ d.window = c.window
            /\ c.mounted => d.mounted
        BY <2>8
      <4>7. calls' = [calls EXCEPT ![i] = d]
        BY <2>4
      <4>8. GoesOnFor(j, c, d, windows[w], windows'[w], triggers, triggers')
        BY <4>3, <4>4, <4>5, <4>6 DEF GoesOnFor
      <4>9. EditorAlone(j, windows'[w], w, calls', triggers')
        BY <1>1, <3>1, <3>2, <3>3, <4>6, <4>7, <4>8, AloneContinues
      <4> QED
        BY <3>1, <4>9
    <3>4. CASE ~WorksFor(c, j, triggers)
      <4>1. c.row # j
        BY <1>2, <1>3, <1>4, <3>4 DEF WorksFor, Writing, Passive
      <4>2. SameFor(j, triggers, triggers')
        BY <2>6, <4>1 DEF SameFor
      <4>3. ~WorksFor(d, j, triggers')
        BY <2>6, <2>8, <4>1 DEF WorksFor, Writing
      <4> QED
        BY <1>1, <1>2, <3>1, <3>2, <3>4, <4>2, <4>3 DEF StaysSound
    <3> QED
      BY <3>3, <3>4
  <2> QED
    BY <1>1, <1>2, <1>3, <2>4, <2>6, <2>8, <2>9, SaveGoesOn
<1> QED
  BY <1>6, <1>7

LEMMA LoseEditors ==
  ASSUME Typed, Typed', Editors, NEW i \in DOMAIN calls, Lose(i)
  PROVE  Editors'
<1>1. PICK c : c = calls[i]
  OBVIOUS
<1>2. /\ End(i) /\ UNCHANGED <<rows, windows, triggers>> /\ astray \subseteq astray'
      /\ (c.op = "save" /\ c.kind = "transform") => c.row \in astray'
  BY <1>1 DEF Lose
<1>3. RowsGo
  BY <1>2 DEF RowsGo, Live
<1>4. ASSUME NEW w \in Windows, Job(w) \in Live' \ astray'
      PROVE  ~WorksFor(calls[i], Job(w), triggers)
  <2>1. Job(w) \in Live \ astray
    BY <1>2, <1>3, <1>4, LiveThen
  <2> QED
    BY <1>1, <1>2, <1>4, <2>1, WorkerKnows
<1> QED
  BY <1>2, <1>3, <1>4, EndsEditors

(* The component takes over what its call knows.                           *)
LEMMA ReceiveSavedEditors ==
  ASSUME Typed, Typed', Editors, NEW i \in DOMAIN calls, ReceiveSaved(i)
  PROVE  Editors'
<1>1. PICK c : c = calls[i]
  OBVIOUS
<1>2. /\ c.op = "save" /\ c.at = "answer" /\ End(i)
      /\ windows' = IF c.kind = "transform" /\ c.mounted /\ c.window # None
                    THEN [windows EXCEPT ![c.window].shown = c.found] ELSE windows
      /\ UNCHANGED <<rows, triggers, astray>>
  BY <1>1 DEF ReceiveSaved, At
<1>3. RowsGo
  BY <1>2 DEF RowsGo, Live
<1>4. CASE ~(c.kind = "transform" /\ c.mounted /\ c.window # None)
  <2>1. UNCHANGED windows
    BY <1>2, <1>4
  <2>2. ASSUME NEW w \in Windows, Job(w) \in Live' \ astray'
        PROVE  ~WorksFor(calls[i], Job(w), triggers)
    <3>1. Job(w) \in Live \ astray
      BY <1>2, <1>3, <2>2, LiveThen
    <3> QED
      BY <1>1, <1>4, <3>1, WorkerKnows, WorkbenchAssumption
  <2> QED
    BY <1>2, <1>3, <2>1, <2>2, EndsEditors
<1>5. CASE c.kind = "transform" /\ c.mounted /\ c.window # None
  <2>1. /\ c \in CallType /\ FitsKind(c, rows, triggers)
        /\ DOMAIN triggers = 1 .. Len(triggers) /\ Len(triggers) \in Nat
    BY <1>1, CallAt DEF Typed, RowsFit
  <2>2. PICK z \in Windows : z = c.window
    BY <1>5, <2>1 DEF CallType
  <2>3. c.found \in SUBSET Nat
    BY <2>1 DEF CallType
  <2>4. windows' = [windows EXCEPT ![z].shown = c.found]
    BY <1>2, <1>5, <2>2
  <2>5. /\ \A v \in Windows : /\ windows'[v].tabs = windows[v].tabs
                              /\ windows'[v].active = windows[v].active
        /\ \A v \in Windows : windows'[v].loaded <=> windows[v].loaded
        /\ \A v \in Windows \ {z} : windows'[v] = windows[v]
        /\ windows'[z].shown = c.found
    BY <2>3, <2>4, ShownIs DEF Typed, WindowsFit
  <2>6. \A w \in Windows : /\ Job(w)' = Job(w)
                           /\ windows'[w].loaded <=> windows[w].loaded
    BY <2>5, JobSame
  <2>7. PICK new : new = {}
    OBVIOUS
  <2>8. Goes(calls, calls', i, new, Windows)
    BY <1>2, <2>7, GoesOut DEF End, Without, Typed, CallsFit
  <2>9. ASSUME NEW w \in Windows, Job(w) \in Live' \ astray'
        PROVE  \/ StaysSound(w, i, new)
               \/ EditorAlone(Job(w), windows'[w], w, calls', triggers')
    <3>1. PICK j : j = Job(w)
      OBVIOUS
    <3>2. j \in Live \ astray /\ j # 0
      BY <1>2, <1>3, <2>9, <3>1, LiveThen, LiveIs
    <3>3. CASE WorksFor(c, j, triggers)
      <4>1. /\ c.window = w /\ c.found = Triggering(j, triggers) /\ windows[w].loaded
            /\ \A k \in DOMAIN calls : WorksFor(calls[k], j, triggers) => k = i
        BY <1>1, <3>1, <3>2, <3>3, WorkerKnows
      <4>2. windows'[w].shown = Triggering(j, triggers)
        BY <2>2, <2>5, <4>1
      <4>3. /\ EditorFits(j, windows[w], w, calls)
            /\ EditorAlone(j, windows[w], w, calls, triggers)
        BY <3>1, <3>2, EditorOf
      <4>4. EditorAlone(j, windows'[w], w, calls', triggers)
        BY <2>7, <2>8, <4>1, <4>2, <4>3, AloneEnds
      <4> QED
        BY <1>2, <3>1, <4>4
    <3>4. CASE ~WorksFor(c, j, triggers)
      <4>1. w # z
        <5>1. SUFFICES ASSUME w = z PROVE FALSE
          OBVIOUS
        <5>2. Edits(c, w)
          BY <1>2, <1>5, <2>2, <5>1 DEF Edits
        <5>3. c.row = j
          BY <1>1, <3>1, <3>2, <5>2, EditorOf DEF EditorFits
        <5> QED
          BY <1>2, <1>5, <3>4, <5>3 DEF WorksFor, Writing, Passive
      <4>2. SameFor(j, triggers, triggers')
        BY <1>2 DEF SameFor
      <4>3. windows'[w] = windows[w]
        BY <2>5, <4>1
      <4> QED
        BY <1>1, <2>7, <3>1, <3>2, <3>4, <4>2, <4>3 DEF StaysSound
    <3> QED
      BY <3>3, <3>4
  <2>10. /\ \A e \in new : /\ e.op # "load" /\ (e.at = "post" => e.watches)
                           /\ \A w \in Windows : Edits(e, w) => Job(w) \in {0, e.row}
         /\ DOMAIN triggers \subseteq DOMAIN triggers'
    BY <1>2, <2>7
  <2> QED
    BY <2>6, <2>8, <2>9, <2>10, EditorsAct
<1> QED
  BY <1>4, <1>5

(* A save of a transform begins: the component passes on what it shows.    *)
LEMMA SaveTransformEditors ==
  ASSUME Typed, Typed', Editors, NEW z \in Windows, NEW watches \in BOOLEAN,
         SaveTransform(z, watches)
  PROVE  Editors'
<1>1. /\ Saves(z, "transform", "put", None, watches)
      /\ astray' = astray \cup {r \in Touched(z) : Unsound(z, r)}
  BY DEF SaveTransform
<1>2. "transform" \in Kinds /\ "put" \in Places /\ None \in Nat \cup {None}
  BY DEF Kinds, Places
<1>3. /\ windows[z].active # 0 /\ Active(z).kind = "transform"
      /\ UNCHANGED <<rows, windows, triggers>>
  BY <1>1, <1>2, SavesIs
<1>4. PICK c : /\ c \in CallType /\ calls' = Append(calls, c)
               /\ c.op = "save" /\ c.window = z /\ c.at = "put"
               /\ c.kind = "transform" /\ c.row = Active(z).row
               /\ c.found = windows[z].shown /\ c.mounted
  BY <1>1, <1>2, SavesIs
<1>5. Job(z) = c.row
  BY <1>3, <1>4 DEF Job
<1>6. PICK new : new = {c}
  OBVIOUS
<1>7. PICK i : i = 0
  OBVIOUS
<1>8. Goes(calls, calls', i, new, Windows) /\ calls \in Seq(CallType) /\ 0 \notin DOMAIN calls
  BY <1>4, <1>6, <1>7, GoesAppend, LiveIs DEF Typed, CallsFit
<1>9. \A w \in Windows : /\ Job(w)' = Job(w)
                         /\ windows'[w].loaded <=> windows[w].loaded
  BY <1>3, JobSame
<1>10. \A e \in new : /\ e.op # "load" /\ (e.at = "post" => e.watches)
                      /\ \A w \in Windows : Edits(e, w) => Job(w) \in {0, e.row}
  BY <1>4, <1>5, <1>6 DEF Edits
<1>11. RowsGo
  BY <1>3 DEF RowsGo, Live
<1>12. ASSUME NEW w \in Windows, Job(w) \in Live' \ astray'
       PROVE  \/ StaysSound(w, i, new)
              \/ EditorAlone(Job(w), windows'[w], w, calls', triggers')
  <2>1. PICK j : j = Job(w)
    OBVIOUS
  <2>2. j \in Live \ astray /\ j # 0 /\ j \notin astray'
    BY <1>1, <1>11, <1>12, <2>1, LiveThen, LiveIs
  <2>3. CASE WorksFor(c, j, triggers)
    <3>1. j \in Touched(z)
      BY <1>4, <2>3 DEF Touched, WorksFor, Writing
    <3>2. ~Unsound(z, j)
      BY <1>1, <2>2, <3>1
    <3>3. w = z
      <4>1. SUFFICES ASSUME w # z PROVE ShownElsewhere(z, j)
        BY <3>2 DEF Unsound
      <4>2. windows[w].active # 0 /\ Active(w).kind = "transform" /\ Active(w).row = j
        BY <2>1, <2>2, JobIs
      <4> QED
        BY <4>1, <4>2 DEF ShownElsewhere
    <3>4. c.row = j /\ windows[w].loaded
      BY <1>4, <1>5, <2>1, <2>2, <3>2, <3>3 DEF Unsound
    <3>5. \A k \in DOMAIN calls : ~WorksFor(calls[k], j, triggers)
      BY <3>2 DEF Unsound, Touches, WorksFor, Writing
    <3>6. /\ EditorFits(j, windows[w], w, calls)
          /\ EditorAlone(j, windows[w], w, calls, triggers)
      BY <2>1, <2>2, EditorOf
    <3>7. windows[w].shown = Triggering(j, triggers)
      BY <3>4, <3>5, <3>6 DEF EditorAlone
    <3>8. Knows(c, j, windows[w], w, triggers)
      BY <1>4, <3>3, <3>4, <3>7 DEF Knows
    <3>9. EditorAlone(j, windows[w], w, Append(calls, c), triggers)
      BY <1>4, <1>8, <2>3, <3>4, <3>5, <3>6, <3>8, AloneBegins
    <3> QED
      BY <1>3, <1>4, <2>1, <3>9
  <2>4. CASE ~WorksFor(c, j, triggers)
    <3>1. SameFor(j, triggers, triggers')
      BY <1>3 DEF SameFor
    <3> QED
      BY <1>3, <1>6, <1>7, <1>8, <2>1, <2>2, <2>4, <3>1 DEF StaysSound
  <2> QED
    BY <2>3, <2>4
<1> QED
  BY <1>3, <1>8, <1>9, <1>10, <1>12, EditorsAct

-----------------------------------------------------------------------------
(* The triggers of a job are loaded.                                       *)

LEMMA LoadTriggersEditors ==
  ASSUME Typed, Typed', Editors, NEW i \in DOMAIN calls, LoadTriggers(i)
  PROVE  Editors'
<1>1. PICK c : c = calls[i]
  OBVIOUS
<1>2. PICK found : found = TriggersOf(c.row)
  OBVIOUS
<1>3. PICK d : d = Answered(c, found)
  OBVIOUS
<1>4. /\ c.op = "load" /\ calls' = [calls EXCEPT ![i] = d]
      /\ UNCHANGED <<rows, triggers, windows, astray>>
  BY <1>1, <1>2, <1>3 DEF LoadTriggers, At
<1>5. c \in CallType /\ found \in SUBSET Nat
  BY <1>1, <1>2, CallAt, TriggersOfIs, SeqFacts DEF Typed, RowsFit
<1>6. /\ d \in CallType /\ d.op = "load" /\ d.window = c.window /\ d.at = "answer"
      /\ d.row = c.row /\ d.found = found
  BY <1>3, <1>4, <1>5, AnsweredIs
<1>7. d.mounted <=> c.mounted
  BY <1>3, <1>4, <1>5, AnsweredIs
<1>8. /\ DOMAIN calls' = DOMAIN calls /\ calls'[i] = d
      /\ \A k \in DOMAIN calls \ {i} : calls'[k] = calls[k]
  BY <1>4, <1>6, ExceptIs DEF Typed, CallsFit
<1>9. \A k \in DOMAIN calls : \A w :
        /\ Loads(calls'[k], w) <=> Loads(calls[k], w)
        /\ Edits(calls'[k], w) <=> Edits(calls[k], w)
  BY <1>1, <1>4, <1>6, <1>7, <1>8 DEF Loads, Edits
<1>10. \A k \in DOMAIN calls : calls'[k].row = calls[k].row
  BY <1>1, <1>6, <1>8
<1>11. \A k \in DOMAIN calls : \A j :
         WorksFor(calls'[k], j, triggers) => k # i /\ WorksFor(calls[k], j, triggers)
  BY <1>6, <1>8 DEF WorksFor, Writing
<1>12. \A k \in DOMAIN calls : \A j :
         WorksFor(calls[k], j, triggers) => k # i /\ WorksFor(calls'[k], j, triggers)
  BY <1>1, <1>4, <1>8 DEF WorksFor, Writing
<1>13. WatchesFit(calls')
  BY <1>6, <1>8 DEF Editors, WatchesFit
<1>14. ASSUME NEW w \in Windows
       PROVE  EditorIs(Job(w)', windows'[w], w, calls', triggers', Live' \ astray')
  <2>1. PICK j : j = Job(w)
    OBVIOUS
  <2>2. Job(w)' = j /\ windows'[w] = windows[w] /\ Live' = Live
    BY <1>4, <2>1, JobSame DEF Live
  <2>3. EditorFits(j, windows[w], w, calls)
    BY <2>1, EditorOf
  <2>4. EditorFits(j, windows[w], w, calls')
    BY <1>8, <1>9, <1>10, <2>3 DEF EditorFits
  <2>5. ASSUME j \in Live \ astray
        PROVE  EditorAlone(j, windows[w], w, calls', triggers)
    <3>1. EditorAlone(j, windows[w], w, calls, triggers)
      BY <2>1, <2>5, EditorOf
    <3>2. ASSUME NEW k \in DOMAIN calls, Loads(calls'[k], w), calls'[k].at = "answer"
          PROVE  calls'[k].found = Triggering(j, triggers)
      <4>1. Loads(calls[k], w) /\ calls[k].row = j
        BY <1>9, <2>3, <3>2 DEF EditorFits
      <4>2. CASE k = i
        BY <1>1, <1>2, <1>6, <1>8, <4>1, <4>2 DEF TriggersOf, Triggering
      <4>3. CASE k # i
        BY <1>8, <3>1, <3>2, <4>1, <4>3 DEF EditorAlone
      <4> QED
        BY <4>2, <4>3
    <3>3. \A k \in DOMAIN calls : WorksFor(calls'[k], j, triggers) =>
            Knows(calls'[k], j, windows[w], w, triggers)
      BY <1>8, <1>11, <3>1 DEF EditorAlone
    <3> QED
      BY <1>8, <1>11, <1>12, <3>1, <3>2, <3>3 DEF EditorAlone
  <2> QED
    BY <1>4, <2>2, <2>4, <2>5 DEF EditorIs
<1> QED
  BY <1>13, <1>14 DEF Editors, EditorsFit

LEMMA ShowTriggersEditors ==
  ASSUME Typed, Typed', Editors, NEW i \in DOMAIN calls, ShowTriggers(i)
  PROVE  Editors'
<1>1. PICK c : c = calls[i]
  OBVIOUS
<1>2. /\ c.op = "load" /\ c.at = "answer" /\ End(i)
      /\ windows' = IF c.mounted
                    THEN [windows EXCEPT ![c.window].shown = c.found,
                                         ![c.window].loaded = TRUE]
                    ELSE windows
      /\ UNCHANGED <<rows, triggers, astray>>
  BY <1>1 DEF ShowTriggers, At
<1>3. /\ RowsGo
      /\ \A j, ts : ~WorksFor(c, j, ts)
  BY <1>2 DEF RowsGo, Live, WorksFor, Writing
<1>4. CASE ~c.mounted
  <2>1. UNCHANGED windows /\ \A w \in Windows : ~WorksFor(calls[i], Job(w), triggers)
    BY <1>1, <1>2, <1>3, <1>4
  <2> QED
    BY <1>2, <1>3, <2>1, EndsEditors
<1>5. CASE c.mounted
  <2>1. c \in CallType /\ FitsKind(c, rows, triggers)
    BY <1>1, CallAt DEF Typed
  <2>2. PICK z \in Windows : z = c.window
    BY <1>2, <2>1 DEF FitsKind
  <2>3. c.found \in SUBSET Nat
    BY <2>1 DEF CallType
  <2>4. windows' = [windows EXCEPT ![z].shown = c.found, ![z].loaded = TRUE]
    BY <1>2, <1>5, <2>2
  <2>5. /\ \A v \in Windows : /\ windows'[v].tabs = windows[v].tabs
                              /\ windows'[v].active = windows[v].active
        /\ \A v \in Windows \ {z} : windows'[v] = windows[v]
        /\ windows'[z].shown = c.found /\ windows'[z].loaded
    BY <2>3, <2>4, LoadedIs DEF Typed, WindowsFit
  <2>6. PICK new : new = {}
    OBVIOUS
  <2>7. Goes(calls, calls', i, new, Windows)
    BY <1>2, <2>6, GoesOut DEF End, Without, Typed, CallsFit
  <2>8. WatchesFit(calls')
    BY <2>6, <2>7, WatchesGo DEF Editors
  <2>9. ASSUME NEW w \in Windows
        PROVE  EditorIs(Job(w)', windows'[w], w, calls', triggers', Live' \ astray')
    <3>1. PICK j : j = Job(w)
      OBVIOUS
    <3>2. Job(w)' = j /\ Live' = Live
      BY <1>2, <2>5, <3>1, JobSame DEF Live
    <3>3. EditorFits(j, windows[w], w, calls)
      BY <3>1, EditorOf
    <3>4. CASE w # z
      <4>1. windows'[w] = windows[w]
        BY <2>5, <3>4
      <4>2. EditorFits(j, windows'[w], w, calls')
        BY <2>6, <2>7, <3>3, <4>1, FitsGoes
      <4>3. ASSUME j \in Live \ astray
            PROVE  EditorAlone(j, windows'[w], w, calls', triggers')
        <5>1. SameFor(j, triggers, triggers')
          BY <1>2 DEF SameFor
        <5>2. StaysSound(w, i, new)
          BY <1>1, <1>3, <2>6, <3>1, <4>1, <4>3, <5>1 DEF StaysSound
        <5>3. /\ DOMAIN triggers \subseteq DOMAIN triggers' /\ w \in Windows
              /\ \A e \in new : ~Loads(e, w)
              /\ windows'[w].loaded <=> windows[w].loaded
          BY <1>2, <2>6, <4>1
        <5> QED
          BY <2>7, <3>1, <5>2, <5>3, AloneStays DEF Editors
      <4> QED
        BY <1>2, <3>2, <4>2, <4>3 DEF EditorIs
    <3>5. CASE w = z
      <4>1. Loads(c, w)
        BY <1>2, <1>5, <2>2, <3>5 DEF Loads
      <4>2. c.row = j /\ ~windows[w].loaded /\ j # 0
        BY <1>1, <1>2, <2>1, <3>3, <4>1 DEF EditorFits, FitsKind, IsLoad
      <4>3. \A k \in DOMAIN calls : Loads(calls[k], w) => k = i
        BY <1>1, <3>3, <4>1 DEF EditorFits
      <4>4. PICK f \in [DOMAIN calls' -> Nat] : \A k \in DOMAIN calls' :
              f[k] \in DOMAIN calls \ {0, i} /\ Lasts(calls[f[k]], calls'[k], Windows)
        BY <2>6, <2>7 DEF Goes
      <4>5. \A k \in DOMAIN calls' : ~Loads(calls'[k], w)
        BY <4>3, <4>4, LastsIs
      <4>6. \A k \in DOMAIN calls' : Edits(calls'[k], w) => j \in {0, calls'[k].row}
        BY <3>3, <4>4, LastsIs DEF EditorFits
      <4>7. EditorFits(j, windows'[w], w, calls')
        BY <4>2, <4>5, <4>6 DEF EditorFits
      <4>8. ASSUME j \in Live \ astray
            PROVE  EditorAlone(j, windows'[w], w, calls', triggers')
        <5>1. EditorAlone(j, windows[w], w, calls, triggers)
          BY <3>1, <4>8, EditorOf
        <5>2. \A k \in DOMAIN calls : ~WorksFor(calls[k], j, triggers)
          BY <4>2, <5>1 DEF EditorAlone, Knows
        <5>3. \A k \in DOMAIN calls' : ~WorksFor(calls'[k], j, triggers)
          BY <4>4, <5>2, LastsIs
        <5>4. windows'[w].shown = Triggering(j, triggers)
          BY <1>1, <1>2, <2>5, <3>5, <4>1, <5>1 DEF EditorAlone
        <5> QED
          BY <1>2, <4>5, <5>3, <5>4 DEF EditorAlone
      <4> QED
        BY <1>2, <3>2, <4>7, <4>8 DEF EditorIs
    <3> QED
      BY <3>4, <3>5
  <2> QED
    BY <2>8, <2>9 DEF Editors, EditorsFit
<1> QED
  BY <1>4, <1>5

-----------------------------------------------------------------------------
(* A window turns to a tab.                                                *)

LEMMA GoesLess ==
  ASSUME NEW cs, NEW ds, NEW i, NEW new, NEW V, NEW W, W \subseteq V,
         Goes(cs, ds, i, new, V)
  PROVE  Goes(cs, ds, i, new, W)
<1>1. \A c, d : Lasts(c, d, V) => Lasts(c, d, W)
  BY DEF Lasts
<1>2. PICK f \in [DOMAIN ds -> Nat] :
        /\ \A k, l \in DOMAIN ds : f[k] = f[l] /\ f[k] # 0 => k = l
        /\ \A k \in DOMAIN ds :
             \/ f[k] \in {0, i} /\ \E c \in new : Lasts(c, ds[k], V)
             \/ f[k] \in DOMAIN cs \ {0, i} /\ Lasts(cs[f[k]], ds[k], V)
        /\ \A l \in DOMAIN cs \ {0, i} : \E k \in DOMAIN ds : f[k] = l
  BY DEF Goes
<1>3. \A k \in DOMAIN ds :
        \/ f[k] \in {0, i} /\ \E c \in new : Lasts(c, ds[k], W)
        \/ f[k] \in DOMAIN cs \ {0, i} /\ Lasts(cs[f[k]], ds[k], W)
  BY <1>1, <1>2
<1> QED
  BY <1>2, <1>3 DEF Goes

(* The tabs change, and the window shows the one it showed.                *)
LEMMA TurnsJob ==
  ASSUME Typed, NEW z \in Windows, NEW tabs, NEW active, active = windows[z].active,
         windows'[z].tabs = tabs, windows'[z].active = active,
         FitTabs(tabs, rows), HasActive(tabs, active), OldOrFresh(z, tabs)
  PROVE  Job(z)' = Job(z)
<1>1. Job(z)' = IF active # 0 /\ tabs[Place(tabs, active)].kind = "transform"
                THEN tabs[Place(tabs, active)].row ELSE 0
  BY ActiveThen
<1>2. CASE active = 0
  BY <1>1, <1>2 DEF Job
<1>3. CASE active # 0
  <2>1. PICK old : old = windows[z].tabs
    OBVIOUS
  <2>2. FitTabs(old, rows) /\ HasActive(old, active)
    BY <2>1, WindowIs DEF FitsWindow
  <2>3. PICK k \in DOMAIN old : old[k].n = active
    BY <1>3, <2>2 DEF HasActive
  <2>4. PICK j \in DOMAIN tabs : tabs[j].n = active
    BY <1>3 DEF HasActive
  <2>5. PICK m \in DOMAIN old : old[m] = tabs[j]
    BY <2>1, <2>3, <2>4 DEF OldOrFresh
  <2>6. Place(tabs, active) = j /\ Place(old, active) = m
    BY <2>2, <2>4, <2>5, PlaceOf
  <2>7. Active(z) = old[m]
    BY <2>1, <2>6 DEF Active
  <2> QED
    BY <1>1, <1>3, <2>5, <2>6, <2>7 DEF Job
<1> QED
  BY <1>2, <1>3

(* The calls of a window whose component is gone.                          *)
LEMMA GoneEditor ==
  ASSUME NEW cs \in Seq(CallType), NEW z \in Windows, NEW ds, ds = Unmounted(cs, z)
  PROVE  /\ ds \in Seq(CallType) /\ \A V : z \notin V => Goes(cs, ds, 0, {}, V)
         /\ \A k \in DOMAIN ds : ~Loads(ds[k], z) /\ ~Edits(ds[k], z)
         /\ \A k \in DOMAIN ds : \A j, ts : WorksFor(ds[k], j, ts) =>
              \E l \in DOMAIN cs : WorksFor(cs[l], j, ts)
<1>1. \A V : z \notin V => Goes(cs, ds, 0, {}, V)
  BY UnmountedGoes
<1>2. PICK V : V = {}
  OBVIOUS
<1>3. Goes(cs, ds, 0, {}, V)
  BY <1>1, <1>2
<1>4. \A k \in DOMAIN ds : ds[k].window = z => ~ds[k].mounted
  <2>1. z \notin V
    BY <1>2
  <2> QED
    BY <2>1, UnmountedGoes
<1>5. \A k \in DOMAIN ds : ~Loads(ds[k], z) /\ ~Edits(ds[k], z)
  BY <1>4 DEF Loads, Edits
<1>6. \A k \in DOMAIN ds : \E l \in DOMAIN cs : Lasts(cs[l], ds[k], V)
  BY <1>3 DEF Goes
<1>7. ASSUME NEW k \in DOMAIN ds, NEW j, NEW ts, WorksFor(ds[k], j, ts)
      PROVE  \E l \in DOMAIN cs : WorksFor(cs[l], j, ts)
  <2>1. PICK l \in DOMAIN cs : Lasts(cs[l], ds[k], V)
    BY <1>6
  <2> QED
    BY <1>7, <2>1, LastsIs
<1>8. ds \in Seq(CallType)
  BY <1>3 DEF Goes
<1> QED
  BY <1>1, <1>5, <1>7, <1>8

(* A new component has no call but the one that loads its triggers.        *)
LEMMA NewEditor ==
  ASSUME NEW cs \in Seq(CallType), NEW z \in Windows, NEW ds, ds = Unmounted(cs, z),
         NEW v, ~v.loaded, NEW j, NEW ts, NEW S, NEW es,
         j \in S => \A l \in DOMAIN cs : ~WorksFor(cs[l], j, ts),
         \/ es = ds
         \/ \E c : StartsToLoad(c, z, j) /\ es = Append(ds, c)
  PROVE  EditorIs(j, v, z, es, ts, S)
<1>1. /\ ds \in Seq(CallType)
      /\ \A k \in DOMAIN ds : ~Loads(ds[k], z) /\ ~Edits(ds[k], z)
      /\ j \in S => \A k \in DOMAIN ds : ~WorksFor(ds[k], j, ts)
  BY GoneEditor
<1>2. CASE es = ds
  <2>1. EditorFits(j, v, z, es)
    BY <1>1, <1>2 DEF EditorFits
  <2>2. j \in S => EditorAlone(j, v, z, es, ts)
    BY <1>1, <1>2 DEF EditorAlone
  <2> QED
    BY <2>1, <2>2 DEF EditorIs
<1>3. ASSUME NEW c, StartsToLoad(c, z, j), es = Append(ds, c)
      PROVE  EditorIs(j, v, z, es, ts, S)
  <2>1. /\ c \in CallType /\ c.op = "load" /\ c.at = "read" /\ c.row = j
    BY <1>3 DEF StartsToLoad
  <2>2. /\ DOMAIN ds = 1 .. Len(ds) /\ Len(ds) \in Nat
        /\ DOMAIN es = 1 .. Len(ds) + 1
        /\ \A k \in 1 .. Len(ds) : es[k] = ds[k]
        /\ es[Len(ds) + 1] = c
    BY <1>1, <1>3, <2>1, AppendIs, SeqFacts
  <2>3. \A ts2 : ~WorksFor(c, j, ts2) /\ ~Edits(c, z)
    BY <2>1 DEF WorksFor, Writing, Edits
  <2>4. \A k \in DOMAIN es : Loads(es[k], z) => k = Len(ds) + 1
    BY <1>1, <2>2
  <2>5. \A k \in DOMAIN es : ~Edits(es[k], z)
    BY <1>1, <2>2, <2>3
  <2>6. EditorFits(j, v, z, es)
    BY <2>1, <2>2, <2>4, <2>5 DEF EditorFits
  <2>7. j \in S => \A k \in DOMAIN es : ~WorksFor(es[k], j, ts)
    BY <1>1, <2>2, <2>3
  <2>8. \A k \in DOMAIN es : Loads(es[k], z) => es[k].at # "answer"
    BY <2>1, <2>2, <2>4
  <2>9. j \in S => EditorAlone(j, v, z, es, ts)
    BY <2>7, <2>8 DEF EditorAlone
  <2> QED
    BY <2>6, <2>9 DEF EditorIs
<1> QED
  BY <1>2, <1>3

LEMMA TurnsEditors ==
  ASSUME Typed, Typed', Editors, NEW z \in Windows, NEW cs, Turns(z, cs),
         NEW i, NEW first, Goes(calls, cs, i, first, Windows),
         \A c \in first : Idle(c), i \in DOMAIN calls => Idle(calls[i]),
         UNCHANGED <<rows, triggers>>
  PROVE  Editors'
<1>1. PICK tabs, active : TurnsTo(z, tabs, active, cs)
  BY DEF Turns
<1>2. /\ tabs \in Seq(TabType) /\ active \in Nat /\ FitTabs(tabs, rows)
      /\ HasActive(tabs, active) /\ OldOrFresh(z, tabs) /\ Show(z, tabs, active, cs)
  BY <1>1 DEF TurnsTo
<1>3. /\ \A v \in Windows \ {z} : windows'[v] = windows[v]
      /\ windows'[z].tabs = tabs /\ windows'[z].active = active
      /\ astray \subseteq astray'
  BY <1>2, ShowIs
<1>4. cs \in Seq(CallType)
  BY DEF Goes
<1>5. RowsGo /\ Live' = Live
  BY DEF RowsGo, Live
<1>6. CASE active = windows[z].active
  <2>1. /\ windows'[z].shown = windows[z].shown
        /\ windows'[z].loaded <=> windows[z].loaded
        /\ calls' = cs
    BY <1>2, <1>6, ShowIs
  <2>2. Job(z)' = Job(z)
    BY <1>2, <1>3, <1>6, TurnsJob
  <2>3. WindowsGo
    BY <1>3, <2>1, <2>2, JobSame DEF WindowsGo
  <2>4. Goes(calls, calls', i, first, Windows)
    BY <2>1
  <2> QED
    BY <1>3, <1>5, <2>3, <2>4, EditorsCalm
<1>7. CASE active # windows[z].active
  <2>1. PICK ds : ds = Unmounted(cs, z)
    OBVIOUS
  <2>2. PICK j : j = Job(z)'
    OBVIOUS
  <2>3. /\ ~windows'[z].loaded
        /\ \/ j = 0 /\ calls' = ds
           \/ /\ j # 0
              /\ \E c : StartsToLoad(c, z, j) /\ calls' = Append(ds, c)
              /\ (\E k \in DOMAIN cs : Touches(cs[k], j)) => j \in astray'
    BY <1>2, <1>7, <2>1, <2>2, ShowIs
  <2>4. PICK V : V = Windows \ {z}
    OBVIOUS
  <2>5. Goes(calls, cs, i, first, V) /\ Goes(cs, ds, 0, {}, V) /\ ds \in Seq(CallType)
    BY <1>4, <2>1, <2>4, GoesLess, GoneEditor
  <2>6. Goes(calls, ds, i, first \cup {}, V)
    BY <2>5, GoesThen
  <2>7. PICK new : /\ Goes(calls, calls', i, new, V)
                   /\ \A c \in new : c \in first \/ StartsToLoad(c, z, j)
    <3>1. CASE calls' = ds
      BY <2>6, <3>1
    <3>2. ASSUME NEW c, StartsToLoad(c, z, j), calls' = Append(ds, c)
          PROVE  \E new : /\ Goes(calls, calls', i, new, V)
                          /\ \A d \in new : d \in first \/ StartsToLoad(d, z, j)
      <4>1. Goes(ds, calls', 0, {c}, V)
        BY <2>5, <3>2, GoesAppend DEF StartsToLoad
      <4>2. Goes(calls, calls', i, first \cup {} \cup {c}, V)
        BY <2>6, <4>1, GoesThen
      <4> QED
        BY <3>2, <4>2
    <3> QED
      BY <2>3, <3>1, <3>2
  <2>8. ASSUME NEW c \in new
        PROVE  /\ c.at = "post" => c.watches
               /\ \A w \in Windows \ {z} : ~Loads(c, w) /\ ~Edits(c, w)
               /\ \A k, ts : k # 0 => ~WorksFor(c, k, ts)
    <3>1. CASE c \in first
      BY <3>1, IdleIs DEF Idle
    <3>2. CASE StartsToLoad(c, z, j)
      BY <3>2 DEF StartsToLoad, Loads, Edits, WorksFor, Writing
    <3> QED
      BY <2>7, <3>1, <3>2
  <2>9. WatchesFit(calls')
    BY <2>7, <2>8, WatchesGo DEF Editors
  <2>10. ASSUME NEW w \in Windows \ {z}
         PROVE  EditorIs(Job(w)', windows'[w], w, calls', triggers', Live' \ astray')
    <3>1. PICK k : k = Job(w)
      OBVIOUS
    <3>2. windows'[w] = windows[w] /\ Job(w)' = k
      BY <1>3, <3>1, JobSame
    <3>3. \A c \in new : ~Loads(c, w) /\ ~Edits(c, w)
      BY <2>8
    <3>4. EditorFits(k, windows[w], w, calls)
      BY <3>1, EditorOf
    <3>5. EditorFits(k, windows'[w], w, calls')
      BY <2>7, <3>2, <3>3, <3>4, FitsGoes
    <3>6. ASSUME k \in Live' \ astray'
          PROVE  EditorAlone(k, windows'[w], w, calls', triggers')
      <4>1. k \in Live \ astray /\ k # 0
        BY <1>3, <1>5, <3>6, LiveIs
      <4>2. SameFor(k, triggers, triggers')
        BY DEF SameFor
      <4>3. i \in DOMAIN calls => ~WorksFor(calls[i], k, triggers)
        BY <4>1, IdleIs
      <4>4. \A c \in new : ~WorksFor(c, k, triggers')
        BY <2>8, <4>1
      <4>5. StaysSound(w, i, new)
        BY <3>1, <3>2, <4>1, <4>2, <4>3, <4>4 DEF StaysSound
      <4>6. /\ w \in Windows /\ w \in V /\ EditorsFit(calls)
            /\ windows'[w].loaded <=> windows[w].loaded
        BY <2>4, <3>2 DEF Editors
      <4> QED
        BY <2>7, <3>1, <3>3, <4>5, <4>6, AloneStays
    <3> QED
      BY <3>2, <3>5, <3>6 DEF EditorIs
  <2>11. EditorIs(j, windows'[z], z, calls', triggers', Live' \ astray')
    <3>1. ASSUME j \in Live' \ astray', NEW l \in DOMAIN cs
          PROVE  ~WorksFor(cs[l], j, triggers')
      <4>1. j # 0
        BY <1>5, <3>1, LiveIs
      <4>2. ~Touches(cs[l], j)
        BY <2>3, <3>1, <4>1
      <4> QED
        BY <4>2 DEF Touches, WorksFor, Writing
    <3> QED
      BY <1>4, <2>1, <2>3, <3>1, NewEditor
  <2>12. \A w \in Windows :
           EditorIs(Job(w)', windows'[w], w, calls', triggers', Live' \ astray')
    BY <2>2, <2>10, <2>11
  <2> QED
    BY <2>9, <2>12 DEF Editors, EditorsFit
<1> QED
  BY <1>6, <1>7

LEMMA UserTurnsEditors ==
  ASSUME Typed, Typed', Editors, NEW z \in Windows, Turns(z, calls),
         UNCHANGED <<rows, triggers>>
  PROVE  Editors'
<1>1. PICK i, first : i = 0 /\ first = {}
  OBVIOUS
<1>2. Goes(calls, calls, i, first, Windows)
  BY <1>1, GoesStay DEF Typed, CallsFit
<1>3. i \notin DOMAIN calls /\ \A c \in first : Idle(c)
  BY <1>1, LiveIs
<1> QED
  BY <1>2, <1>3, TurnsEditors

LEMMA CloseEditors ==
  ASSUME Typed, Typed', Editors, NEW z \in Windows, NEW n, Close(z, n)
  PROVE  Editors'
<1>1. CloseTab(z, n, calls) /\ UNCHANGED <<rows, triggers>>
  BY DEF Close
<1>2. CASE calls' = calls /\ UNCHANGED <<windows, astray>>
  <2>1. Calm
    BY <1>1, <1>2, CalmBy
  <2> QED
    BY <1>2, <2>1, CalmStay
<1>3. CASE Turns(z, calls)
  BY <1>1, <1>3, UserTurnsEditors
<1> QED
  BY <1>1, <1>2, <1>3, CloseTabTurns

LEMMA ReceiveDeletedEditors ==
  ASSUME Typed, Typed', Editors, NEW i \in DOMAIN calls, ReceiveDeleted(i)
  PROVE  Editors'
<1>1. /\ calls[i].op = "delete" /\ calls[i].at = "answer" /\ UNCHANGED <<rows, triggers>>
  BY DeletedIs
<1>2. PICK cs, new :
        /\ Goes(calls, cs, i, new, Windows)
        /\ \A c \in new : Fits(c, rows, triggers) /\ c.op = "list"
        /\ \/ calls' = cs /\ UNCHANGED <<windows, astray>>
           \/ calls[i].window \in Windows /\ Turns(calls[i].window, cs)
  BY DeletedIs
<1>3. \A c \in new : Idle(c)
  BY <1>2 DEF Fits, FitsKind, Idle
<1>4. Idle(calls[i])
  BY <1>1 DEF Idle
<1>5. CASE calls' = cs /\ UNCHANGED <<windows, astray>>
  <2>1. Goes(calls, calls', i, new, Windows) /\ astray \subseteq astray'
    BY <1>2, <1>5
  <2>2. RowsGo /\ WindowsGo
    BY <1>1, <1>5, WindowsGoSame DEF RowsGo, Live
  <2> QED
    BY <1>1, <1>3, <1>4, <2>1, <2>2, EditorsCalm
<1>6. CASE calls[i].window \in Windows /\ Turns(calls[i].window, cs)
  <2>1. PICK z \in Windows : z = calls[i].window
    BY <1>6
  <2>2. Turns(z, cs)
    BY <1>6, <2>1
  <2> QED
    BY <1>1, <1>2, <1>3, <1>4, <2>2, TurnsEditors
<1> QED
  BY <1>2, <1>5, <1>6

LEMMA UserSavesEditors ==
  ASSUME Typed, Typed', Editors, NEW w \in Windows, SavesOfUser(w)
  PROVE  Editors'
<1>1. ASSUME NEW kind \in Kinds \ {"transform"}, NEW at \in Places \ {"post"},
             NEW name \in Nat \cup {None}, NEW watches \in BOOLEAN,
             Saves(w, kind, at, name, watches), UNCHANGED astray
      PROVE  Editors'
  BY <1>1, SavesCalm
<1>2. ASSUME NEW watches \in BOOLEAN, SaveTransform(w, watches)
      PROVE  Editors'
  BY <1>2, SaveTransformEditors
<1> QED
  BY <1>1, <1>2, UserSaves

LEMMA UserEditors ==
  ASSUME Typed, Typed', Editors, User
  PROVE  Editors'
<1>1. PICK w \in Windows :
        \/ Mount(w)
        \/ \E r \in DOMAIN rows : OpenRow(w, r)
        \/ \E kind \in Here : OpenNew(w, kind)
        \/ \E t \in ToSet(windows[w].tabs) : Focus(w, t.n) \/ Close(w, t.n)
        \/ SavesOfUser(w) \/ SaveQuery(w)
        \/ DeleteDashboard(w) \/ DeleteBackend(w) \/ DeleteCred(w)
  BY DEF User, SavesOfUser
<1>2. ASSUME NEW r \in DOMAIN rows, OpenRow(w, r)
      PROVE  Editors'
  BY <1>2, OpenRowTurns, UserTurnsEditors DEF OpenRow
<1>3. ASSUME NEW kind \in Here, OpenNew(w, kind)
      PROVE  Editors'
  <2>1. kind \in Kinds
    BY RowIs DEF Here, Typed
  <2> QED
    BY <1>3, <2>1, OpenNewTurns, UserTurnsEditors DEF OpenNew
<1>4. ASSUME NEW t \in ToSet(windows[w].tabs), Focus(w, t.n)
      PROVE  Editors'
  BY <1>4, FocusTurns, UserTurnsEditors DEF Focus
<1>5. ASSUME NEW t \in ToSet(windows[w].tabs), Close(w, t.n)
      PROVE  Editors'
  BY <1>5, CloseEditors
<1>6. CASE DeleteDashboard(w) \/ DeleteBackend(w) \/ DeleteCred(w)
  <2>1. \E kind \in {"dashboard", "backend", "cred"}, at \in {"read", "write"} :
          Deletes(w, kind, at)
    BY <1>6 DEF DeleteDashboard, DeleteBackend, DeleteCred
  <2> QED
    BY <2>1, DeletesCalm
<1> QED
  BY <1>1, <1>2, <1>3, <1>4, <1>5, <1>6, MountCalm, UserSavesEditors, SaveQueryCalm

LEMMA WorkEditors ==
  ASSUME Typed, Typed', Editors, Work
  PROVE  Editors'
<1>1. UNCHANGED others
  BY DEF Work
<1>2. PICK i \in DOMAIN calls :
        \/ ReadList(i) \/ ShowList(i)
        \/ ReadDashboard(i) \/ TrySlug(i) \/ TakeSnapshot(i)
        \/ RefuseWrite(i) \/ InsertRow(i) \/ InsertQuery(i) \/ UpdateRow(i)
        \/ WriteDelete(i)
        \/ PutTransform(i) \/ (\E g \in calls[i].found : ClearTrigger(i, g))
        \/ PostTrigger(i) \/ LoadTriggers(i) \/ ShowTriggers(i)
        \/ ReceiveSaved(i) \/ NoRoute(i) \/ ReceiveDeleted(i) \/ ReceiveQuery(i)
  BY DEF Work
<1>3. CASE ReadList(i) \/ ShowList(i) \/ RefuseWrite(i) \/ NoRoute(i)
  BY <1>3, AnswersCalm, ShowListCalm, NoRouteCalm
<1>4. CASE ReadDashboard(i) \/ TrySlug(i) \/ TakeSnapshot(i)
  BY <1>4, ReadDashboardCalm, TrySlugCalm, TakeSnapshotCalm
<1>5. CASE InsertRow(i)
  <2>1. PICK kind \in Kinds : kind = calls[i].kind
    BY CallAt DEF Typed, CallType
  <2>2. calls[i].at = "write" /\ calls[i].op # "load" /\ Inserts(i, kind)
    BY <1>5, <2>1 DEF InsertRow, At
  <2> QED
    BY <2>2, InsertsCalm
<1>6. CASE InsertQuery(i)
  <2>1. calls[i].at = "write" /\ calls[i].op # "load" /\ Inserts(i, "saved")
    BY <1>6 DEF InsertQuery, At
  <2>2. "saved" \in Kinds
    BY DEF Kinds
  <2> QED
    BY <2>1, <2>2, InsertsCalm
<1>7. CASE UpdateRow(i) \/ WriteDelete(i)
  BY <1>7, UpdateRowCalm, WriteDeleteCalm
<1>8. CASE PutTransform(i) \/ \E g \in calls[i].found : ClearTrigger(i, g)
  BY <1>1, <1>8, PutTransformEditors, ClearTriggerEditors
<1>9. CASE PostTrigger(i) \/ LoadTriggers(i) \/ ShowTriggers(i)
  BY <1>9, PostTriggerEditors, LoadTriggersEditors, ShowTriggersEditors
<1>10. CASE ReceiveSaved(i) \/ ReceiveDeleted(i) \/ ReceiveQuery(i)
  BY <1>10, ReceiveSavedEditors, ReceiveDeletedEditors, ReceiveQueryCalm
<1> QED
  BY <1>2, <1>3, <1>4, <1>5, <1>6, <1>7, <1>8, <1>9, <1>10

LEMMA EditorsNext ==
  ASSUME Typed, Editors, [Next]_vars
  PROVE  Editors'
<1>1. Typed'
  BY NextTyped
<1>2. CASE UNCHANGED vars
  <2>1. UNCHANGED <<rows, triggers, windows, calls, astray>>
    BY <1>2 DEF vars
  <2>2. Calm
    BY <1>1, <2>1, CalmBy
  <2> QED
    BY <2>1, <2>2, CalmStay
<1>3. CASE Agent \/ Panels
  <2>1. ASSUME NEW r \in Live, CreateTrigger(r) \/ DeleteJob(r)
        PROVE  Editors'
    BY <1>1, <2>1, CreateTriggerEditors, DeleteJobEditors
  <2>2. ASSUME NEW g \in DOMAIN triggers, triggers[g] # 0, DeleteTrigger(g)
        PROVE  Editors'
    BY <1>1, <2>2, DeleteTriggerEditors
  <2> QED
    BY <1>1, <1>3, <2>1, <2>2, OthersCalm
<1>4. CASE Fail
  BY <1>1, <1>4, LoseEditors, LoseClearEditors DEF Fail
<1> QED
  BY <1>1, <1>2, <1>3, <1>4, WorkEditors, UserEditors DEF Next

LEMMA EditorsInit == Init => Editors
<1> SUFFICES ASSUME Init PROVE Editors
  OBVIOUS
<1>1. /\ \A w \in Windows : windows[w].active = 0 /\ ~windows[w].loaded
      /\ \A i \in DOMAIN calls : calls[i].op = "list" /\ calls[i].at = "read"
      /\ rows \in Seq(RowType)
  BY InitIs
<1>2. WatchesFit(calls)
  BY <1>1 DEF WatchesFit
<1>3. ASSUME NEW w \in Windows
      PROVE  EditorIs(Job(w), windows[w], w, calls, triggers, Live \ astray)
  <2>1. Job(w) = 0 /\ 0 \notin Live
    BY <1>1, SeqFacts DEF Job, Live
  <2>2. \A i \in DOMAIN calls : ~Loads(calls[i], w) /\ ~Edits(calls[i], w)
    BY <1>1 DEF Loads, Edits
  <2>3. EditorFits(Job(w), windows[w], w, calls)
    BY <1>1, <2>2 DEF EditorFits
  <2> QED
    BY <2>1, <2>3 DEF EditorIs
<1> QED
  BY <1>2, <1>3 DEF Editors, EditorsFit

(* TransformView.tsx:122: what the editor of a transform shows as its      *)
(* triggers are the triggers of the job, when it alone edits them, has     *)
(* loaded them before the first save and no request of it has failed.      *)
THEOREM EditorsShowTriggers == Spec => []EditorShowsTriggers
<1>1. Typed /\ Editors /\ [Next]_vars => Editors'
  BY EditorsNext
<1>2. Typed /\ Editors => EditorShowsTriggers
  <2> SUFFICES ASSUME Typed, Editors, NEW w \in Windows,
                      windows[w].active # 0, windows[w].loaded, ~IsSaving(w),
                      Active(w).row \in Live \ astray
               PROVE  windows[w].shown = TriggersOf(Active(w).row)
    BY DEF EditorShowsTriggers
  <2>1. PICK j : j = Job(w)
    OBVIOUS
  <2>2. EditorFits(j, windows[w], w, calls)
    BY <2>1, EditorOf
  <2>3. j # 0
    BY <2>2 DEF EditorFits
  <2>4. Active(w).row = j
    BY <2>1, <2>3, JobIs
  <2>5. EditorAlone(j, windows[w], w, calls, triggers)
    BY <2>1, <2>4, EditorOf
  <2>6. ASSUME NEW i \in DOMAIN calls, WorksFor(calls[i], j, triggers)
        PROVE  FALSE
    <3>1. calls[i].window = w /\ calls[i].mounted /\ calls[i].op = "save"
      BY <2>5, <2>6 DEF EditorAlone, Knows, WorksFor, Writing
    <3> QED
      BY <3>1 DEF IsSaving
  <2>7. windows[w].shown = Triggering(j, triggers)
    BY <2>5, <2>6 DEF EditorAlone
  <2> QED
    BY <2>4, <2>7 DEF Triggering, TriggersOf
<1> QED
  BY AlwaysTyped, EditorsInit, <1>1, <1>2, PTL DEF Spec

=============================================================================
