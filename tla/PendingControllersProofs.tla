----------------------- MODULE PendingControllersProofs -----------------------
(***************************************************************************)
(* No controller of a FederatedTypeConfig is forgotten, and together they  *)
(* implement the abstract pipeline, however many there are and however     *)
(* they are arranged in steps; the bounds play no part.  The argument is   *)
(* about the annotation: what NormalizeControllers and                     *)
(* UpdatePendingControllers make of it is always what is left of one step  *)
(* and all of the later ones (WellFormed), so that the step in front is    *)
(* the one the abstract pipeline calls First.                              *)
(***************************************************************************)
EXTENDS PendingControllers, WellFoundedInduction, TLAPS

(* A set of numbers that is not empty has a least member. *)
LEMMA Least ==
  ASSUME NEW T \in SUBSET Nat, T # {}
  PROVE  \E m \in T : \A n \in T : m <= n
<1>1. PICK m \in T : \A n \in T : ~(<<n, m>> \in OpToRel(<, Nat))
  BY NatLessThanWellFounded, WFMin
<1>2. \A n \in T : ~(n < m)
  BY <1>1 DEF OpToRel
<1> QED BY <1>2

(* NormalizeControllers is a loop.  On a list in which only the first step may be empty
   it drops that one or nothing: a second solution of the loop's recursion would differ
   from this one first at some index, and there is no such index. *)
LEMMA NormalizeFront ==
  ASSUME NEW s \in Seq(SUBSET Controllers), \A i \in 2 .. Len(s) : s[i] # {}
  PROVE  NormalizeControllers(s) = IF Len(s) > 0 /\ s[1] = {} THEN SubSeq(s, 2, Len(s)) ELSE s
<1> DEFINE Step(f, i) == IF i = 0 THEN <<>>
                         ELSE IF s[i] = {} THEN f[i - 1] ELSE Append(f[i - 1], s[i])
           Kept(f) == f = [i \in 0 .. Len(s) |-> Step(f, i)]
           w == [i \in 0 .. Len(s) |-> IF i = 0 THEN <<>>
                                       ELSE IF s[1] = {} THEN SubSeq(s, 2, i) ELSE SubSeq(s, 1, i)]
<1>0. Len(s) \in Nat
  OBVIOUS
<1>1. Kept(w)
  <2>1. ASSUME NEW i \in 0 .. Len(s) PROVE w[i] = Step(w, i)
    <3>1. CASE i = 0
      BY <3>1
    <3>2. CASE i = 1
      <4>1. i - 1 = 0 /\ 0 \in 0 .. Len(s)
        BY <3>2, <1>0
      <4>2. w[i - 1] = <<>>
        BY <4>1
      <4>3. CASE s[1] = {}
        <5>1. SubSeq(s, 2, 1) = <<>>
          OBVIOUS
        <5> QED BY <3>2, <4>2, <4>3, <5>1
      <4>4. CASE s[1] # {}
        <5>1. SubSeq(s, 1, 1) = Append(<<>>, s[1])
          <6>1. 1 <= Len(s)
            BY <3>2, <1>0
          <6>2. SubSeq(s, 1, 1) = Append(SubSeq(s, 1, 0), s[1])
            BY <6>1, <1>0
          <6>3. SubSeq(s, 1, 0) = <<>>
            OBVIOUS
          <6> QED BY <6>2, <6>3
        <5> QED BY <3>2, <4>2, <4>4, <5>1
      <4> QED BY <4>3, <4>4
    <3>3. CASE i > 1
      <4>1. i - 1 \in 0 .. Len(s) /\ i - 1 # 0 /\ i \in 2 .. Len(s) /\ i # 0
        BY <3>3, <1>0
      <4>2. s[i] # {}
        BY <4>1
      <4>3. SubSeq(s, 2, i) = Append(SubSeq(s, 2, i - 1), s[i])
        BY <4>1, <1>0
      <4>4. SubSeq(s, 1, i) = Append(SubSeq(s, 1, i - 1), s[i])
        BY <4>1, <1>0
      <4> QED BY <4>1, <4>2, <4>3, <4>4
    <3> QED BY <3>1, <3>2, <3>3, <1>0
  <2> HIDE DEF Step
  <2> QED BY <2>1
<1>2. ASSUME NEW f, Kept(f) PROVE f[Len(s)] = w[Len(s)]
  <2> DEFINE T == {i \in 0 .. Len(s) : f[i] # w[i]}
  <2> SUFFICES ASSUME T # {} PROVE FALSE
    <3> HIDE DEF w
    <3> QED BY <1>0
  <2>1. PICK m \in T : \A n \in T : m <= n
    <3>1. T \in SUBSET Nat
      BY <1>0
    <3> HIDE DEF T
    <3> QED BY <3>1, Least
  <2>2. f[m] = Step(f, m) /\ w[m] = Step(w, m)
    BY <1>1, <1>2
  <2>3. m # 0
    BY <2>2
  <2>4. m - 1 \in 0 .. Len(s) /\ m - 1 \notin T
    <3>1. m \in 0 .. Len(s)
      OBVIOUS
    <3>2. m - 1 \in 0 .. Len(s) /\ ~(m <= m - 1)
      BY <1>0, <2>3, <3>1
    <3> HIDE DEF T, w
    <3> QED BY <2>1, <3>2
  <2>5. f[m - 1] = w[m - 1]
    BY <2>4
  <2>6. Step(f, m) = Step(w, m)
    BY <2>3, <2>5
  <2>7. f[m] # w[m]
    BY <2>1
  <2> HIDE DEF Step, T, w, Kept
  <2> QED BY <2>2, <2>6, <2>7
<1>3. NormalizeControllers(s) = w[Len(s)]
  <2>1. NormalizeControllers(s) = (CHOOSE f : Kept(f))[Len(s)]
    BY DEF NormalizeControllers
  <2> HIDE DEF w, Kept
  <2>2. Kept(CHOOSE f : Kept(f))
    BY <1>1
  <2> QED BY <2>1, <2>2, <1>2
<1>4. SubSeq(s, 1, Len(s)) = s
  OBVIOUS
<1>5. CASE Len(s) = 0
  BY <1>3, <1>5
<1>6. CASE Len(s) > 0
  <2>1. w[Len(s)] = IF s[1] = {} THEN SubSeq(s, 2, Len(s)) ELSE SubSeq(s, 1, Len(s))
    BY <1>0, <1>6
  <2> HIDE DEF w
  <2> QED BY <1>3, <1>4, <1>6, <2>1
<1> QED BY <1>0, <1>5, <1>6

-----------------------------------------------------------------------------
Rest(i) == SubSeq(AllControllers, i + 1, Len(AllControllers))

(* Step i, as far as it is not done, and all the later ones. *)
At(i, current) == <<current>> \o Rest(i)

(* What the annotation can be. *)
WellFormed(p) ==
    \/ p = <<>>
    \/ \E i \in DOMAIN AllControllers : \E current \in (SUBSET AllControllers[i]) \ {{}} :
          p = At(i, current)

Names(p) == UNION Range(p)

(* The steps share no controller: a controller has one level. *)
LEMMA LevelFacts ==
  ASSUME NEW k \in Controllers
  PROVE  /\ Level[k] \in DOMAIN AllControllers
         /\ k \in AllControllers[Level[k]]
         /\ \A i \in DOMAIN AllControllers : k \in AllControllers[i] => i = Level[k]
<1>1. \E i \in DOMAIN AllControllers : k \in AllControllers[i]
  BY DEF Controllers, Range
<1>2. Level[k] = CHOOSE i \in DOMAIN AllControllers : k \in AllControllers[i]
  BY DEF Level
<1>3. Level[k] \in DOMAIN AllControllers /\ k \in AllControllers[Level[k]]
  BY <1>1, <1>2
<1> QED BY <1>3, PipelineAssumption

LEMMA StepFacts ==
  /\ Len(AllControllers) \in Nat
  /\ DOMAIN AllControllers = 1 .. Len(AllControllers)
  /\ \A i \in DOMAIN AllControllers :
        AllControllers[i] \subseteq Controllers /\ AllControllers[i] # {}
<1>1. AllControllers \in Seq(SUBSET Controllers)
  BY PipelineAssumption
<1>2. \A i \in DOMAIN AllControllers : AllControllers[i] \in Range(AllControllers)
  BY DEF Range
<1>3. \A i \in DOMAIN AllControllers : AllControllers[i] # {}
  BY <1>2, PipelineAssumption
<1>4. Len(AllControllers) \in Nat /\ DOMAIN AllControllers = 1 .. Len(AllControllers)
  BY <1>1
<1>5. \A i \in DOMAIN AllControllers : AllControllers[i] \subseteq Controllers
  BY <1>1
<1> QED BY <1>3, <1>4, <1>5

LEMMA RestFacts ==
  ASSUME NEW i \in DOMAIN AllControllers
  PROVE  /\ Rest(i) \in Seq(SUBSET Controllers)
         /\ Len(Rest(i)) = Len(AllControllers) - i
         /\ \A j \in 1 .. (Len(AllControllers) - i) : Rest(i)[j] = AllControllers[i + j]
         /\ \A j \in 1 .. (Len(AllControllers) - i) : Rest(i)[j] # {}
<1>1. AllControllers \in Seq(SUBSET Controllers)
  BY PipelineAssumption
<1>2. i \in 1 .. Len(AllControllers) /\ Len(AllControllers) \in Nat
  BY StepFacts
<1>3. Rest(i) \in Seq(SUBSET Controllers)
  BY <1>1, <1>2 DEF Rest
<1>4. Len(Rest(i)) = Len(AllControllers) - i
  BY <1>1, <1>2 DEF Rest
<1>5. \A j \in 1 .. (Len(AllControllers) - i) : Rest(i)[j] = AllControllers[i + j]
  BY <1>1, <1>2 DEF Rest
<1>6. \A j \in 1 .. (Len(AllControllers) - i) : i + j \in DOMAIN AllControllers
  BY <1>2, StepFacts
<1> QED BY <1>3, <1>4, <1>5, <1>6, StepFacts

LEMMA AtFacts ==
  ASSUME NEW i \in DOMAIN AllControllers, NEW current \in SUBSET AllControllers[i]
  PROVE  /\ At(i, current) \in Seq(SUBSET Controllers)
         /\ At(i, current) # <<>>
         /\ Len(At(i, current)) = 1 + Len(AllControllers) - i
         /\ At(i, current)[1] = current
         /\ \A j \in 2 .. (1 + Len(AllControllers) - i) : At(i, current)[j] = AllControllers[i + j - 1]
         /\ \A j \in 2 .. (1 + Len(AllControllers) - i) : At(i, current)[j] # {}
         /\ Head(At(i, current)) = current
         /\ Tail(At(i, current)) = Rest(i)
<1>1. current \in SUBSET Controllers /\ i \in 1 .. Len(AllControllers) /\ Len(AllControllers) \in Nat
  BY StepFacts
<1>2. <<current>> \in Seq(SUBSET Controllers)
  BY <1>1
<1>3. At(i, current) \in Seq(SUBSET Controllers)
  BY <1>2, RestFacts DEF At
<1>4. Len(At(i, current)) = 1 + Len(AllControllers) - i
  BY <1>1, <1>2, RestFacts DEF At
<1>5. At(i, current)[1] = current
  BY <1>1, <1>2, <1>4, RestFacts DEF At
<1>6. ASSUME NEW j \in 2 .. (1 + Len(AllControllers) - i)
      PROVE  At(i, current)[j] = AllControllers[i + j - 1] /\ At(i, current)[j] # {}
  <2>1. j - 1 \in 1 .. (Len(AllControllers) - i)
    BY <1>1
  <2>2. At(i, current)[j] = Rest(i)[j - 1]
    BY <1>1, <1>2, <2>1, RestFacts DEF At
  <2>3. Rest(i)[j - 1] = AllControllers[i + (j - 1)] /\ Rest(i)[j - 1] # {}
    BY <2>1, RestFacts
  <2>4. i + (j - 1) = i + j - 1
    BY <1>1
  <2> QED BY <2>2, <2>3, <2>4
<1>7. Head(At(i, current)) = current
  BY <1>3, <1>4, <1>5
<1>8. Tail(At(i, current)) = Rest(i)
  <2> DEFINE r == Rest(i)
  <2>1. r \in Seq(SUBSET Controllers)
    BY RestFacts
  <2> HIDE DEF r
  <2>2. Tail(<<current>> \o r) = r
    BY <1>1, <2>1
  <2> QED BY <2>2 DEF At, r
<1>9. At(i, current) # <<>>
  BY <1>1, <1>4
<1> QED BY <1>3, <1>4, <1>5, <1>6, <1>7, <1>8, <1>9

(* What is pending: what is left of one step, and everything after it. *)
LEMMA NamesAt ==
  ASSUME NEW i \in DOMAIN AllControllers, NEW current \in SUBSET AllControllers[i]
  PROVE  Names(At(i, current)) = current \cup {d \in Controllers : Level[d] > i}
<1> DEFINE p == At(i, current)
<1>1. i \in 1 .. Len(AllControllers) /\ Len(AllControllers) \in Nat
  BY StepFacts
<1>2. p \in Seq(SUBSET Controllers) /\ Len(p) = 1 + Len(AllControllers) - i /\ p[1] = current
  BY AtFacts
<1>3. \A j \in 2 .. (1 + Len(AllControllers) - i) : p[j] = AllControllers[i + j - 1]
  BY AtFacts
<1> HIDE DEF p
<1>4. DOMAIN p = 1 .. (1 + Len(AllControllers) - i)
  BY <1>2
<1>5. ASSUME NEW d, d \in Names(p)
      PROVE  d \in current \/ (d \in Controllers /\ Level[d] > i)
  <2>1. PICK j \in DOMAIN p : d \in p[j]
    BY <1>5 DEF Names, Range
  <2>2. CASE j = 1
    BY <2>1, <2>2, <1>2
  <2>3. CASE j # 1
    <3>1. j \in 2 .. (1 + Len(AllControllers) - i)
      BY <1>1, <1>4, <2>3
    <3>2. i + j - 1 \in DOMAIN AllControllers /\ i + j - 1 > i
      BY <1>1, <3>1, StepFacts
    <3>3. d \in AllControllers[i + j - 1]
      BY <2>1, <3>1, <1>3
    <3>4. d \in Controllers
      BY <3>2, <3>3, StepFacts
    <3>5. Level[d] = i + j - 1
      BY <3>2, <3>3, <3>4, LevelFacts
    <3> QED BY <3>2, <3>4, <3>5
  <2> QED BY <2>2, <2>3
<1>6. ASSUME NEW d \in current PROVE d \in Names(p)
  <2>1. 1 \in DOMAIN p
    BY <1>1, <1>4
  <2> QED BY <1>2, <2>1 DEF Names, Range
<1>7. ASSUME NEW d \in Controllers, Level[d] > i PROVE d \in Names(p)
  <2>1. Level[d] \in 1 .. Len(AllControllers) /\ d \in AllControllers[Level[d]]
    BY LevelFacts, StepFacts
  <2> DEFINE j == Level[d] - i + 1
  <2>2. j \in 2 .. (1 + Len(AllControllers) - i) /\ i + j - 1 = Level[d]
    <3> DEFINE l == Level[d]
    <3>1. l \in Int /\ l > i /\ l <= Len(AllControllers)
      BY <1>1, <1>7, <2>1
    <3> HIDE DEF l
    <3>2. l - i + 1 \in 2 .. (1 + Len(AllControllers) - i) /\ i + (l - i + 1) - 1 = l
      BY <1>1, <3>1
    <3> QED BY <3>2 DEF l
  <2>3. j \in DOMAIN p
    BY <1>1, <1>4, <2>2
  <2>4. d \in p[j]
    BY <2>1, <2>2, <1>3
  <2> QED BY <2>3, <2>4 DEF Names, Range
<1>8. Names(p) = current \cup {d \in Controllers : Level[d] > i}
  BY <1>5, <1>6, <1>7
<1> QED BY <1>8 DEF p

(* The steps after one that is there begin with the next. *)
LEMMA RestWellFormed ==
  ASSUME NEW i \in DOMAIN AllControllers
  PROVE  /\ WellFormed(Rest(i))
         /\ Names(Rest(i)) = {d \in Controllers : Level[d] > i}
<1>1. i \in 1 .. Len(AllControllers) /\ Len(AllControllers) \in Nat
  BY StepFacts
<1>2. CASE i = Len(AllControllers)
  <2>1. Rest(i) = <<>>
    BY <1>2, RestFacts
  <2>2. Names(<<>>) = {}
    BY DEF Names, Range
  <2>3. \A d \in Controllers : ~(Level[d] > i)
    BY <1>1, <1>2, LevelFacts, StepFacts
  <2> QED BY <2>1, <2>2, <2>3 DEF WellFormed
<1>3. CASE i # Len(AllControllers)
  <2>1. i + 1 \in DOMAIN AllControllers
    BY <1>1, <1>3, StepFacts
  <2> DEFINE q == At(i + 1, AllControllers[i + 1])
  <2>2. Len(q) = Len(Rest(i)) /\ q \in Seq(SUBSET Controllers) /\ Rest(i) \in Seq(SUBSET Controllers)
    <3>1. Len(q) = 1 + Len(AllControllers) - (i + 1) /\ q \in Seq(SUBSET Controllers)
      BY <2>1, AtFacts
    <3> QED BY <1>1, <3>1, RestFacts
  <2>3. ASSUME NEW j \in 1 .. Len(Rest(i)) PROVE q[j] = Rest(i)[j]
    <3>1. Rest(i)[j] = AllControllers[i + j] /\ j \in 1 .. (Len(AllControllers) - i)
      BY RestFacts
    <3>2. CASE j = 1
      <4> DEFINE k == i + 1
      <4>1. AllControllers[k] \in SUBSET AllControllers[k] /\ k \in DOMAIN AllControllers
        BY <2>1
      <4> HIDE DEF k
      <4>2. At(k, AllControllers[k])[1] = AllControllers[k]
        BY <4>1, AtFacts
      <4> QED BY <3>1, <3>2, <4>2 DEF k
    <3>3. CASE j # 1
      <4>1. j \in 2 .. (1 + Len(AllControllers) - (i + 1)) /\ (i + 1) + j - 1 = i + j
        BY <1>1, <3>1, <3>3
      <4>2. q[j] = AllControllers[(i + 1) + j - 1]
        <5> DEFINE k == i + 1
        <5>1. AllControllers[k] \in SUBSET AllControllers[k] /\ k \in DOMAIN AllControllers
          BY <2>1
        <5> HIDE DEF k
        <5>2. \A l \in 2 .. (1 + Len(AllControllers) - k) : At(k, AllControllers[k])[l] = AllControllers[k + l - 1]
          BY <5>1, AtFacts
        <5> QED BY <4>1, <5>2 DEF k
      <4> QED BY <3>1, <4>1, <4>2
    <3> QED BY <3>2, <3>3
  <2> HIDE DEF q
  <2>4. Rest(i) = q
    BY <2>2, <2>3
  <2>5. AllControllers[i + 1] \in (SUBSET AllControllers[i + 1]) \ {{}}
    BY <2>1, StepFacts
  <2>6. WellFormed(q)
    BY <2>1, <2>5 DEF WellFormed, q
  <2>7. Names(q) = AllControllers[i + 1] \cup {d \in Controllers : Level[d] > i + 1}
    BY <2>1, NamesAt DEF q
  <2>8. AllControllers[i + 1] = {d \in Controllers : Level[d] = i + 1}
    BY <2>1, LevelFacts, StepFacts
  <2>9. \A d \in Controllers : Level[d] > i <=> (Level[d] = i + 1 \/ Level[d] > i + 1)
    BY <1>1, LevelFacts, StepFacts
  <2> QED BY <2>4, <2>6, <2>7, <2>8, <2>9
<1> QED BY <1>2, <1>3

(* Removing what is done from the first step. *)
LEMMA NormalizeAt ==
  ASSUME NEW i \in DOMAIN AllControllers, NEW current \in SUBSET AllControllers[i]
  PROVE  /\ NormalizeControllers(At(i, current)) = IF current = {} THEN Rest(i) ELSE At(i, current)
         /\ WellFormed(NormalizeControllers(At(i, current)))
         /\ Names(NormalizeControllers(At(i, current))) =
               current \cup {d \in Controllers : Level[d] > i}
<1> DEFINE p == At(i, current)
<1>1. i \in 1 .. Len(AllControllers) /\ Len(AllControllers) \in Nat
  BY StepFacts
<1>2. /\ p \in Seq(SUBSET Controllers) /\ Len(p) = 1 + Len(AllControllers) - i /\ p[1] = current
      /\ p # <<>> /\ Tail(p) = Rest(i)
  <2>1. p \in Seq(SUBSET Controllers) /\ p # <<>>
    BY AtFacts
  <2>2. Len(p) = 1 + Len(AllControllers) - i /\ p[1] = current
    BY AtFacts
  <2>3. Tail(p) = Rest(i)
    BY AtFacts
  <2> QED BY <2>1, <2>2, <2>3
<1>7. \A j \in 2 .. (1 + Len(AllControllers) - i) : p[j] # {}
  BY AtFacts
<1> HIDE DEF p
<1>3. Len(p) > 0 /\ SubSeq(p, 2, Len(p)) = Tail(p)
  <2>1. p \in Seq(SUBSET Controllers) /\ p # <<>>
    BY <1>2
  <2> QED BY <2>1
<1>4. NormalizeControllers(p) = IF current = {} THEN Rest(i) ELSE p
  <2>1. \A j \in 2 .. Len(p) : p[j] # {}
    BY <1>2, <1>7
  <2> QED BY <1>2, <1>3, <2>1, NormalizeFront
<1>5. CASE current = {}
  BY <1>4, <1>5, RestWellFormed DEF p
<1>6. CASE current # {}
  <2>1. WellFormed(p)
    BY <1>6 DEF WellFormed, p
  <2> QED BY <1>4, <1>6, <2>1, NamesAt DEF p
<1> QED BY <1>5, <1>6, <1>4 DEF p

LEMMA AllWellFormed ==
  /\ NormalizeControllers(AllControllers) = AllControllers
  /\ WellFormed(AllControllers)
  /\ Names(AllControllers) = Controllers
<1>1. AllControllers \in Seq(SUBSET Controllers) /\ Len(AllControllers) \in Nat
  BY PipelineAssumption
<1>2. \A j \in 1 .. Len(AllControllers) : AllControllers[j] # {}
  BY StepFacts
<1>3. ~(Len(AllControllers) > 0 /\ AllControllers[1] = {})
  BY <1>1, <1>2
<1>4. NormalizeControllers(AllControllers) = AllControllers
  <2>1. \A j \in 2 .. Len(AllControllers) : AllControllers[j] # {}
    BY <1>1, <1>2
  <2> QED BY <1>1, <1>3, <2>1, NormalizeFront
<1>5. Names(AllControllers) = Controllers
  BY DEF Names, Controllers
<1>6. WellFormed(AllControllers)
  <2>1. CASE Len(AllControllers) = 0
    <3>1. AllControllers = <<>>
      BY <1>1, <2>1
    <3> QED BY <3>1 DEF WellFormed
  <2>2. CASE Len(AllControllers) > 0
    <3>1. 1 \in DOMAIN AllControllers
      BY <1>1, <2>2
    <3>2. AllControllers[1] \in (SUBSET AllControllers[1]) \ {{}}
      BY <3>1, StepFacts
    <3> DEFINE q == At(1, AllControllers[1])
    <3>3. q \in Seq(SUBSET Controllers) /\ Len(q) = 1 + Len(AllControllers) - 1
      BY <3>1, AtFacts
    <3>4. q[1] = AllControllers[1]
      BY <3>1, AtFacts
    <3>5. \A j \in 2 .. (1 + Len(AllControllers) - 1) : q[j] = AllControllers[1 + j - 1]
      <4>1. AllControllers[1] \in SUBSET AllControllers[1]
        OBVIOUS
      <4> QED BY <3>1, <4>1, AtFacts, Zenon
    <3> HIDE DEF q
    <3>6. ASSUME NEW j \in 1 .. Len(AllControllers) PROVE q[j] = AllControllers[j]
      <4>1. CASE j = 1
        BY <4>1, <3>4
      <4>2. CASE j # 1
        <5>1. j \in 2 .. (1 + Len(AllControllers) - 1) /\ 1 + j - 1 = j
          BY <1>1, <4>2
        <5> QED BY <3>5, <5>1
      <4> QED BY <4>1, <4>2
    <3>7. Len(q) = Len(AllControllers)
      BY <1>1, <3>3
    <3>8. AllControllers = q
      BY <1>1, <3>3, <3>6, <3>7
    <3> QED BY <3>1, <3>2, <3>8 DEF WellFormed, q
  <2> QED BY <1>1, <2>1, <2>2
<1> QED BY <1>4, <1>5, <1>6

-----------------------------------------------------------------------------
(* The names of the first step of what is pending. *)
FirstOf(P) == {k \in P : \A j \in P : Level[k] <= Level[j]}

LEMMA Empty == Names(<<>>) = {} /\ FirstOf(Names(<<>>)) = {} /\ WellFormed(<<>>)
  BY DEF Names, Range, FirstOf, WellFormed

(* The step that is due is the one in front. *)
LEMMA FirstAt ==
  ASSUME NEW i \in DOMAIN AllControllers, NEW current \in (SUBSET AllControllers[i]) \ {{}}
  PROVE  /\ FirstOf(Names(At(i, current))) = current
         /\ Names(At(i, current)) \ current = {d \in Controllers : Level[d] > i}
         /\ \A k \in current : k \in Controllers /\ Level[k] = i
<1>1. i \in 1 .. Len(AllControllers) /\ Len(AllControllers) \in Nat
  BY StepFacts
<1>2. \A k \in current : k \in Controllers /\ Level[k] = i
  BY LevelFacts, StepFacts
<1>3. Names(At(i, current)) = current \cup {d \in Controllers : Level[d] > i}
  BY NamesAt
<1>4. \A d \in Controllers : Level[d] \in Nat
  BY LevelFacts, StepFacts
<1>5. PICK c : c \in current
  OBVIOUS
<1>6. \A d \in current : ~(Level[d] > i)
  BY <1>1, <1>2
<1>7. Names(At(i, current)) \ current = {d \in Controllers : Level[d] > i}
  BY <1>3, <1>6
<1>8. ASSUME NEW d \in current PROVE d \in FirstOf(Names(At(i, current)))
  BY <1>1, <1>2, <1>3, <1>4 DEF FirstOf
<1>9. ASSUME NEW d \in FirstOf(Names(At(i, current))) PROVE d \in current
  <2>1. Level[d] <= Level[c] /\ Level[c] = i /\ d \in Names(At(i, current))
    BY <1>2, <1>3, <1>5 DEF FirstOf
  <2>2. ~(Level[d] > i)
    <3>1. d \in Controllers
      BY <1>2, <1>3, <2>1
    <3> QED BY <1>1, <1>4, <2>1, <3>1
  <2> QED BY <1>3, <2>1, <2>2
<1> QED BY <1>2, <1>7, <1>8, <1>9

(* What UpdatePendingControllers makes of an annotation when it is the controller's
   turn: the annotation the abstract pipeline asks for. *)
LEMMA UpdateFacts ==
  ASSUME NEW p, WellFormed(p), NEW k \in Controllers, NEW changed \in BOOLEAN,
         ControllerDependenciesFulfilled(p, k)
  PROVE  LET u == UpdatePendingControllers(p, k, changed)
         IN  /\ WellFormed(u)
             /\ Names(u) = (FirstOf(Names(p)) \ {k}) \cup
                   (IF changed THEN {d \in Controllers : Level[d] > Level[k]}
                    ELSE Names(p) \ FirstOf(Names(p)))
             /\ p # <<>> => k \in Names(p) /\ k \in FirstOf(Names(p)) /\ Names(u) = Names(p) \ {k}
             /\ p = <<>> /\ ~changed => u = <<>>
<1> DEFINE u == UpdatePendingControllers(p, k, changed)
           l == Level[k]
<1>1. l \in DOMAIN AllControllers /\ k \in AllControllers[l]
  BY LevelFacts
<1>2. GetDownstreamControllers(k) = Rest(l)
  <2>1. l = CHOOSE i \in DOMAIN AllControllers : k \in AllControllers[i]
    BY DEF Level
  <2> HIDE DEF l
  <2> QED BY <2>1 DEF GetDownstreamControllers, Rest
<1> HIDE DEF l
<1>3. CASE p = <<>>
  <2>1. {} \ {k} = {}
    OBVIOUS
  <2>2. CASE changed
    <3>1. u = NormalizeControllers(At(l, {}))
      BY <1>2, <1>3, <2>1, <2>2 DEF UpdatePendingControllers, At
    <3>2. {} \in SUBSET AllControllers[l]
      OBVIOUS
    <3>3. WellFormed(u) /\ Names(u) = {} \cup {d \in Controllers : Level[d] > l}
      BY <1>1, <3>1, <3>2, NormalizeAt
    <3> QED BY <1>3, <2>2, <3>3, Empty DEF l
  <2>3. CASE ~changed
    <3>1. u = NormalizeControllers(<<{}>> \o <<>>)
      BY <1>3, <2>1, <2>3 DEF UpdatePendingControllers
    <3>2. <<{}>> \o <<>> = <<{}>>
      OBVIOUS
    <3>3. NormalizeControllers(<<{}>>) = <<>>
      <4>1. <<{}>> \in Seq(SUBSET Controllers) /\ Len(<<{}>>) = 1 /\ <<{}>>[1] = {}
        OBVIOUS
      <4>2. SubSeq(<<{}>>, 2, 1) = <<>>
        BY <4>1
      <4>3. \A j \in 2 .. Len(<<{}>>) : <<{}>>[j] # {}
        BY <4>1
      <4> DEFINE e == <<{}>>
      <4>4. e \in Seq(SUBSET Controllers) /\ Len(e) = 1 /\ e[1] = {} /\ SubSeq(e, 2, 1) = <<>>
            /\ \A j \in 2 .. Len(e) : e[j] # {}
        BY <4>1, <4>2, <4>3
      <4> HIDE DEF e
      <4>5. NormalizeControllers(e) = <<>>
        <5>1. e \in Seq(SUBSET Controllers) /\ \A j \in 2 .. Len(e) : e[j] # {}
          BY <4>4
        <5>2. NormalizeControllers(e) = IF Len(e) > 0 /\ e[1] = {} THEN SubSeq(e, 2, Len(e)) ELSE e
          BY <5>1, NormalizeFront, Zenon
        <5> QED BY <4>4, <5>2
      <4> QED BY <4>5 DEF e
    <3> QED BY <1>3, <2>3, <3>1, <3>2, <3>3, Empty
  <2> QED BY <2>2, <2>3
<1>4. CASE p # <<>>
  <2>0. PICK i \in DOMAIN AllControllers :
           \E c \in (SUBSET AllControllers[i]) \ {{}} : p = At(i, c)
    BY <1>4 DEF WellFormed
  <2>1. PICK current \in (SUBSET AllControllers[i]) \ {{}} : p = At(i, current)
    BY <2>0
  <2>2. Head(p) = current /\ Tail(p) = Rest(i)
    BY <2>1, AtFacts
  <2>3. k \in current
    BY <1>4, <2>2 DEF ControllerDependenciesFulfilled
  <2>4. l = i
    BY <2>1, <2>3, LevelFacts DEF l
  <2>5. u = NormalizeControllers(At(i, current \ {k}))
    BY <1>2, <1>4, <2>2, <2>4 DEF UpdatePendingControllers, At
  <2>6. current \ {k} \in SUBSET AllControllers[i]
    OBVIOUS
  <2>7. WellFormed(u) /\ Names(u) = (current \ {k}) \cup {d \in Controllers : Level[d] > i}
    BY <2>5, <2>6, NormalizeAt
  <2>8. /\ FirstOf(Names(p)) = current
        /\ Names(p) \ current = {d \in Controllers : Level[d] > i}
        /\ Names(p) = current \cup {d \in Controllers : Level[d] > i}
    BY <2>1, FirstAt, NamesAt
  <2>9. ~(Level[k] > i)
    <3>1. Level[k] = i /\ i \in Nat
      BY <2>4, StepFacts DEF l
    <3> QED BY <3>1
  <2> HIDE DEF u
  <2>10. Names(u) = Names(p) \ {k}
    BY <2>7, <2>8, <2>9
  <2>11. Names(u) = (FirstOf(Names(p)) \ {k}) \cup
                   (IF changed THEN {d \in Controllers : Level[d] > Level[k]}
                    ELSE Names(p) \ FirstOf(Names(p)))
    BY <2>7, <2>8, <2>4 DEF l
  <2>12. k \in Names(p) /\ k \in FirstOf(Names(p))
    BY <2>3, <2>8
  <2> QED BY <1>4, <2>7, <2>10, <2>11, <2>12 DEF u
<1> QED BY <1>3, <1>4

-----------------------------------------------------------------------------
(* The inductive invariant. *)

Object == [template : Nat, result : [Controllers -> Nat], pending : Seq(SUBSET Controllers)]

Typed ==
    /\ source \in 1 .. MaxSource
    /\ fed \in Object /\ cache \in Object
    /\ fed.template <= source
    /\ queued \subseteq Controllers
    /\ work \in [Controllers -> {Idle} \cup [busy : {TRUE}, obj : Object, stimulus : Nat]]
    /\ stimulus \in [Controllers -> Nat]
    /\ seen \in [Controllers -> Int]

(* Whatever copy of the annotation there is, it is well formed, and a controller at
   work is one whose turn it was in the copy it has read. *)
TurnInv ==
    /\ WellFormed(fed.pending) /\ WellFormed(cache.pending)
    /\ \A k \in Controllers : work[k].busy =>
          /\ WellFormed(work[k].obj.pending)
          /\ ControllerDependenciesFulfilled(work[k].obj.pending, k)

(* A controller whose copy is out of date has its key in the queue. *)
CopyInv ==
    \A k \in Controllers : work[k].busy /\ k \notin queued =>
        work[k].obj = cache /\ work[k].stimulus = stimulus[k]

(* No version of the object comes back. *)
Older(a, b) ==
    \/ a.template < b.template
    \/ /\ a.template = b.template
       /\ \A k \in Controllers : a.result[k] <= b.result[k]
       /\ a.result = b.result =>
             Names(b.pending) \subseteq Names(a.pending) /\ Names(b.pending) # Names(a.pending)

AgeInv == cache = fed \/ Older(cache, fed)

(* The controllers that try again when a write fails. *)
Retrying == Controllers \ (Failing \cap NoRetry)

(* Such a controller, when it is neither queued nor at work and the cache is current,
   is waiting for its turn or done with everything. *)
WakeInv ==
    cache = fed => \A k \in Retrying :
        k \notin queued /\ ~work[k].busy /\ ControllerDependenciesFulfilled(cache.pending, k)
        => cache.pending = <<>> /\ seen[k] = stimulus[k]

LEMMA WellFormedSeq ==
  ASSUME NEW p, WellFormed(p) PROVE p \in Seq(SUBSET Controllers)
<1>1. <<>> \in Seq(SUBSET Controllers)
  OBVIOUS
<1>2. ASSUME NEW i \in DOMAIN AllControllers, NEW current \in (SUBSET AllControllers[i]) \ {{}}
      PROVE  At(i, current) \in Seq(SUBSET Controllers)
  BY AtFacts
<1> QED BY <1>1, <1>2 DEF WellFormed

LEMMA OlderTransitive ==
  ASSUME NEW a \in Object, NEW b \in Object, NEW c \in Object, Older(a, b), Older(b, c)
  PROVE  Older(a, c)
<1>1. /\ a.template \in Nat /\ b.template \in Nat /\ c.template \in Nat
      /\ a.result \in [Controllers -> Nat] /\ b.result \in [Controllers -> Nat]
      /\ c.result \in [Controllers -> Nat]
  BY DEF Object
<1>2. CASE a.template < b.template \/ b.template < c.template
  BY <1>1, <1>2 DEF Older
<1>3. CASE ~(a.template < b.template \/ b.template < c.template)
  <2>1. a.template = b.template /\ b.template = c.template
    BY <1>3 DEF Older
  <2>2. \A k \in Controllers : a.result[k] <= b.result[k] /\ b.result[k] <= c.result[k]
    BY <1>3 DEF Older
  <2>3. \A k \in Controllers : a.result[k] <= c.result[k]
    BY <1>1, <2>2
  <2>4. ASSUME a.result = c.result
        PROVE  Names(c.pending) \subseteq Names(a.pending) /\ Names(c.pending) # Names(a.pending)
    <3>1. \A k \in Controllers : a.result[k] = b.result[k] /\ b.result[k] = c.result[k]
      BY <1>1, <2>2, <2>4
    <3>2. a.result = b.result /\ b.result = c.result
      BY <1>1, <3>1
    <3> QED BY <1>3, <3>2 DEF Older
  <2> QED BY <2>1, <2>3, <2>4 DEF Older
<1> QED BY <1>2, <1>3

LEMMA OlderIrreflexive ==
  ASSUME NEW a \in Object PROVE ~Older(a, a)
  BY DEF Older, Object

LEMMA BusyFacts ==
  ASSUME Typed, NEW k \in Controllers, work[k].busy
  PROVE  work[k].obj \in Object /\ work[k].stimulus \in Nat
<1>1. work[k] \in {Idle} \cup [busy : {TRUE}, obj : Object, stimulus : Nat]
  BY DEF Typed
<1>2. work[k] # Idle
  BY DEF Idle
<1> QED BY <1>1, <1>2

(* What a controller writes is newer than what it has read. *)
LEMMA UpdatedFacts ==
  ASSUME Typed, TurnInv, NEW k \in Controllers, NEW changed \in BOOLEAN, work[k].busy
  PROVE  LET obj == work[k].obj
             u == Updated(k, changed)
         IN  /\ u = [template |-> obj.template,
                     result |-> IF changed THEN [obj.result EXCEPT ![k] = @ + 1] ELSE obj.result,
                     pending |-> UpdatePendingControllers(obj.pending, k, changed)]
             /\ u \in Object
             /\ WellFormed(u.pending)
             /\ u = obj \/ Older(obj, u)
             /\ ~changed /\ u = obj => obj.pending = <<>>
<1> DEFINE obj == work[k].obj
           u == Updated(k, changed)
           p == UpdatePendingControllers(obj.pending, k, changed)
           r == IF changed THEN [obj.result EXCEPT ![k] = @ + 1] ELSE obj.result
<1>1. obj \in Object
  BY BusyFacts
<1>2. WellFormed(obj.pending) /\ ControllerDependenciesFulfilled(obj.pending, k)
  BY DEF TurnInv
<1>3. /\ WellFormed(p)
      /\ obj.pending # <<>> => k \in Names(obj.pending) /\ Names(p) = Names(obj.pending) \ {k}
      /\ obj.pending = <<>> /\ ~changed => p = <<>>
  BY <1>2, UpdateFacts
<1>4. u = [template |-> obj.template, result |-> r, pending |-> p]
  <2>1. obj = [template |-> obj.template, result |-> obj.result, pending |-> obj.pending]
    BY <1>1 DEF Object
  <2>2. u = [obj EXCEPT !.result[k] = IF changed THEN @ + 1 ELSE @, !.pending = p]
    BY DEF Updated
  <2>3. r = [obj.result EXCEPT ![k] = IF changed THEN @ + 1 ELSE @]
    BY <1>1 DEF Object
  <2> HIDE DEF r, p, obj, u
  <2> QED BY <1>1, <2>1, <2>2, <2>3 DEF Object
<1>5. r \in [Controllers -> Nat]
  BY <1>1 DEF Object
<1>6. p \in Seq(SUBSET Controllers)
  BY <1>3, WellFormedSeq
<1>7. \A j \in Controllers : obj.result[j] <= r[j]
  BY <1>1 DEF Object
<1>8. changed => r # obj.result
  <2>1. obj.result \in [Controllers -> Nat]
    BY <1>1 DEF Object
  <2>2. changed => r[k] = obj.result[k] + 1
    BY <2>1
  <2> QED BY <2>1, <2>2
<1>9. ~changed => r = obj.result
  OBVIOUS
<1> HIDE DEF r, p, obj, u
<1>10. u \in Object
  BY <1>1, <1>4, <1>5, <1>6 DEF Object
<1>11. WellFormed(u.pending)
  BY <1>3, <1>4
<1>12. u = obj \/ Older(obj, u)
  <2>1. u.template = obj.template /\ u.result = r /\ u.pending = p
    BY <1>4
  <2>2. CASE changed
    BY <1>7, <1>8, <2>1, <2>2 DEF Older
  <2>3. CASE ~changed /\ obj.pending = <<>>
    <3>1. obj = [template |-> obj.template, result |-> obj.result, pending |-> obj.pending]
      BY <1>1 DEF Object
    <3> QED BY <1>3, <1>4, <1>9, <2>3, <3>1
  <2>4. CASE ~changed /\ obj.pending # <<>>
    BY <1>3, <1>7, <2>1, <2>4 DEF Older
  <2> QED BY <2>2, <2>3, <2>4
<1>13. ~changed /\ u = obj => obj.pending = <<>>
  BY <1>3, <1>4
<1> QED BY <1>4, <1>10, <1>11, <1>12, <1>13 DEF r, p, obj, u

-----------------------------------------------------------------------------
Inv == Typed /\ TurnInv /\ CopyInv /\ AgeInv /\ WakeInv

LEMMA InitInv == Init => Inv
<1> SUFFICES ASSUME Init PROVE Inv
  OBVIOUS
<1>1. fed = [template |-> 1, result |-> [k \in Controllers |-> 0], pending |-> AllControllers]
  BY AllWellFormed DEF Init
<1>2. AllControllers \in Seq(SUBSET Controllers)
  BY PipelineAssumption
<1>3. fed \in Object
  BY <1>1, <1>2 DEF Object
<1>4. \A k \in Controllers : ~work[k].busy
  BY DEF Init, Idle
<1>5. source \in 1 .. MaxSource /\ fed.template <= source
  BY <1>1, PipelineAssumption DEF Init
<1>6. stimulus \in [Controllers -> Nat] /\ seen \in [Controllers -> Int] /\ queued = Controllers
  BY DEF Init
<1>7. work \in [Controllers -> {Idle} \cup [busy : {TRUE}, obj : Object, stimulus : Nat]]
  BY DEF Init
<1>8. cache = fed
  BY DEF Init
<1>9. Typed
  BY <1>3, <1>5, <1>6, <1>7, <1>8 DEF Typed
<1>10. TurnInv
  BY <1>1, <1>4, <1>8, AllWellFormed DEF TurnInv
<1> QED BY <1>4, <1>6, <1>8, <1>9, <1>10 DEF Inv, CopyInv, AgeInv, WakeInv, Retrying

(* The steps that leave the object in the API server alone, and the cache as it is or
   current. *)
LEMMA UpdateSourceInv == Inv /\ UpdateSource => Inv'
<1> SUFFICES ASSUME Inv, UpdateSource PROVE Inv'
  OBVIOUS
<1>1. UNCHANGED <<fed, cache, queued, work, stimulus, seen>>
  BY DEF UpdateSource
<1>2. source' \in 1 .. MaxSource /\ fed.template <= source'
  BY PipelineAssumption DEF Inv, Typed, UpdateSource, Object
<1>3. Typed'
  BY <1>1, <1>2 DEF Inv, Typed
<1>4. TurnInv' /\ CopyInv' /\ AgeInv' /\ WakeInv'
  BY <1>1 DEF Inv, TurnInv, CopyInv, AgeInv, WakeInv
<1> QED BY <1>3, <1>4 DEF Inv

LEMMA FederateInv == Inv /\ Federate => Inv'
<1> SUFFICES ASSUME Inv, Federate PROVE Inv'
  OBVIOUS
<1>1. UNCHANGED <<source, cache, queued, work, stimulus, seen>> /\ cache = fed
  BY DEF Federate
<1>2. fed \in Object /\ fed.template < source /\ source \in Nat
  BY PipelineAssumption DEF Inv, Typed, Object, Federate
<1>3. fed' = [fed EXCEPT !.template = source, !.pending = AllControllers]
  BY AllWellFormed DEF Federate
<1>4. fed' \in Object /\ fed'.template = source /\ fed'.pending = AllControllers
  BY <1>2, <1>3, PipelineAssumption DEF Object
<1>5. Older(cache, fed') /\ cache' = cache
  BY <1>1, <1>2, <1>4 DEF Older
<1>6. cache' # fed'
  BY <1>1, <1>2, <1>4
<1>7. fed'.template <= source'
  BY <1>1, <1>2, <1>4
<1>8. Typed'
  BY <1>1, <1>4, <1>7 DEF Inv, Typed
<1>9. TurnInv' /\ CopyInv'
  BY <1>1, <1>4, AllWellFormed DEF Inv, TurnInv, CopyInv
<1>10. AgeInv' /\ WakeInv'
  BY <1>5, <1>6 DEF AgeInv, WakeInv
<1> QED BY <1>8, <1>9, <1>10 DEF Inv

LEMMA StimulateInv ==
  ASSUME Inv, NEW k \in Controllers, Stimulate(k) PROVE Inv'
<1>1. UNCHANGED <<source, fed, cache, work, seen>> /\ queued' = queued \cup {k}
  BY DEF Stimulate
<1>2. stimulus' = [stimulus EXCEPT ![k] = @ + 1] /\ stimulus \in [Controllers -> Nat]
  BY DEF Stimulate, Inv, Typed
<1>3. stimulus' \in [Controllers -> Nat] /\ \A j \in Controllers \ {k} : stimulus'[j] = stimulus[j]
  BY <1>2
<1>4. Typed'
  BY <1>1, <1>3 DEF Inv, Typed
<1>5. TurnInv' /\ AgeInv'
  BY <1>1 DEF Inv, TurnInv, AgeInv
<1>6. CopyInv'
  BY <1>1, <1>3 DEF Inv, CopyInv
<1>7. WakeInv'
  BY <1>1, <1>3 DEF Inv, WakeInv, Retrying
<1> QED BY <1>4, <1>5, <1>6, <1>7 DEF Inv

LEMMA ObserveInv == Inv /\ Observe => Inv'
<1> SUFFICES ASSUME Inv, Observe PROVE Inv'
  OBVIOUS
<1>1. UNCHANGED <<source, fed, work, stimulus, seen>> /\ queued' = Controllers /\ cache' = fed
  BY DEF Observe
<1>2. Typed' /\ TurnInv'
  BY <1>1 DEF Inv, Typed, TurnInv
<1>3. CopyInv' /\ AgeInv' /\ WakeInv'
  BY <1>1 DEF CopyInv, AgeInv, WakeInv, Retrying
<1> QED BY <1>2, <1>3 DEF Inv

LEMMA RestartInv == Inv /\ Restart => Inv'
<1> SUFFICES ASSUME Inv, Restart PROVE Inv'
  OBVIOUS
<1>1. UNCHANGED <<source, fed, stimulus, seen>> /\ queued' = Controllers /\ cache' = fed
  BY DEF Restart
<1>2. work' = [k \in Controllers |-> Idle]
  BY DEF Restart
<1>3. \A k \in Controllers : ~work'[k].busy
  BY <1>2 DEF Idle
<1>4. Typed'
  BY <1>1, <1>2 DEF Inv, Typed
<1>5. TurnInv'
  BY <1>1, <1>3 DEF Inv, TurnInv
<1>6. CopyInv' /\ AgeInv' /\ WakeInv'
  BY <1>1 DEF CopyInv, AgeInv, WakeInv, Retrying
<1> QED BY <1>4, <1>5, <1>6 DEF Inv

LEMMA SkipInv ==
  ASSUME Inv, NEW k \in Controllers, Skip(k) PROVE Inv'
<1>1. UNCHANGED <<source, fed, cache, work, stimulus, seen>> /\ queued' = queued \ {k}
  BY DEF Skip
<1>2. ~work[k].busy /\ ~ControllerDependenciesFulfilled(cache.pending, k)
  BY DEF Skip
<1>3. Typed' /\ TurnInv' /\ AgeInv'
  BY <1>1 DEF Inv, Typed, TurnInv, AgeInv
<1>4. CopyInv'
  BY <1>1, <1>2 DEF Inv, CopyInv
<1>5. WakeInv'
  BY <1>1, <1>2 DEF Inv, WakeInv, Retrying
<1> QED BY <1>3, <1>4, <1>5 DEF Inv

LEMMA ReadInv ==
  ASSUME Inv, NEW k \in Controllers, Read(k) PROVE Inv'
<1>1. UNCHANGED <<source, fed, cache, stimulus, seen>> /\ queued' = queued \ {k}
  BY DEF Read
<1> DEFINE w == [busy |-> TRUE, obj |-> cache, stimulus |-> stimulus[k]]
<1>2. work' = [work EXCEPT ![k] = w]
  BY DEF Read
<1>3. w \in [busy : {TRUE}, obj : Object, stimulus : Nat]
  BY DEF Inv, Typed
<1>4. w.busy /\ w.obj = cache /\ w.stimulus = stimulus[k]
  OBVIOUS
<1> HIDE DEF w
<1>5. work' \in [Controllers -> {Idle} \cup [busy : {TRUE}, obj : Object, stimulus : Nat]]
  BY <1>2, <1>3 DEF Inv, Typed
<1>6. work'[k] = w /\ \A j \in Controllers \ {k} : work'[j] = work[j]
  BY <1>2 DEF Inv, Typed
<1>7. ControllerDependenciesFulfilled(cache.pending, k)
  BY DEF Read
<1>8. Typed' /\ AgeInv'
  BY <1>1, <1>5 DEF Inv, Typed, AgeInv
<1>9. TurnInv'
  BY <1>1, <1>4, <1>6, <1>7 DEF Inv, TurnInv
<1>10. CopyInv'
  BY <1>1, <1>4, <1>6 DEF Inv, CopyInv
<1>11. WakeInv'
  BY <1>1, <1>4, <1>6 DEF Inv, WakeInv, Retrying
<1> QED BY <1>8, <1>9, <1>10, <1>11 DEF Inv

(* The end of a reconcile, however it ends: the worker is idle, and the key is in the
   queue again, or not. *)
LEMMA EndInv ==
  ASSUME Inv, NEW k \in Controllers, work[k].busy, work' = [work EXCEPT ![k] = Idle],
         queued' \in {queued, queued \cup {k}}, UNCHANGED <<source, cache, stimulus>>,
         \/ UNCHANGED fed
         \/ work[k].obj = fed /\ \E changed \in BOOLEAN :
               fed' = Updated(k, changed) /\ Updated(k, changed) # work[k].obj,
         \/ UNCHANGED seen
         \/ seen' = [seen EXCEPT ![k] = work[k].stimulus],
         \/ k \notin Retrying
         \/ k \in queued'
         \/ cache # fed \/ fed' # fed
         \/ fed.pending = <<>> /\ (work[k].obj = fed => seen'[k] = work[k].stimulus)
  PROVE  Inv'
<1>1. work' \in [Controllers -> {Idle} \cup [busy : {TRUE}, obj : Object, stimulus : Nat]]
  BY DEF Inv, Typed
<1>2. ~work'[k].busy /\ \A j \in Controllers \ {k} : work'[j] = work[j]
  BY DEF Inv, Typed, Idle
<1>3. queued' \subseteq Controllers /\ \A j \in Controllers \ {k} : j \in queued' <=> j \in queued
  BY DEF Inv, Typed
<1>4. work[k].obj \in Object /\ work[k].stimulus \in Nat
  BY BusyFacts DEF Inv
<1>5. seen' \in [Controllers -> Int] /\ \A j \in Controllers \ {k} : seen'[j] = seen[j]
  BY <1>4 DEF Inv, Typed
<1>6. fed' = fed \/ (fed' \in Object /\ WellFormed(fed'.pending) /\ Older(fed, fed')
                     /\ fed'.template = fed.template)
  <2>1. ASSUME NEW changed \in BOOLEAN, work[k].obj = fed, fed' = Updated(k, changed),
               Updated(k, changed) # work[k].obj
        PROVE  fed' \in Object /\ WellFormed(fed'.pending) /\ Older(fed, fed')
               /\ fed'.template = fed.template
    BY <2>1, UpdatedFacts DEF Inv
  <2> QED BY <2>1
<1>7. fed \in Object /\ cache \in Object
  BY DEF Inv, Typed
<1>8. Typed'
  BY <1>1, <1>3, <1>5, <1>6 DEF Inv, Typed
<1>9. TurnInv'
  BY <1>2, <1>6 DEF Inv, TurnInv
<1>10. CopyInv'
  BY <1>2, <1>3 DEF Inv, CopyInv
<1>11. CASE fed' = fed
  <2>1. AgeInv'
    BY <1>11 DEF Inv, AgeInv
  <2>2. ASSUME cache' = fed', NEW j \in Retrying, j \notin queued', ~work'[j].busy,
               ControllerDependenciesFulfilled(cache'.pending, j)
        PROVE  cache'.pending = <<>> /\ seen'[j] = stimulus'[j]
    <3>1. CASE j # k
      BY <1>2, <1>3, <1>5, <1>11, <2>2, <3>1 DEF Inv, WakeInv, Retrying
    <3>2. CASE j = k
      <4>1. k \notin queued
        BY <2>2, <3>2
      <4>2. work[k].obj = cache /\ work[k].stimulus = stimulus[k]
        BY <4>1 DEF Inv, CopyInv
      <4> QED BY <1>11, <2>2, <3>2, <4>2
    <3> QED BY <3>1, <3>2
  <2>3. WakeInv'
    BY <2>2 DEF WakeInv, Retrying
  <2> QED BY <1>8, <1>9, <1>10, <2>1, <2>3 DEF Inv
<1>12. CASE fed' # fed
  <2>1. fed' \in Object /\ Older(fed, fed')
    BY <1>6, <1>12
  <2>2. Older(cache, fed')
    BY <1>7, <2>1, OlderTransitive DEF Inv, AgeInv
  <2>3. cache' # fed'
    BY <1>7, <2>2, OlderIrreflexive
  <2>4. AgeInv' /\ WakeInv'
    BY <2>2, <2>3 DEF AgeInv, WakeInv
  <2> QED BY <1>8, <1>9, <1>10, <2>4 DEF Inv
<1> QED BY <1>11, <1>12

LEMMA NothingToWriteInv ==
  ASSUME Inv, NEW k \in Controllers, NothingToWrite(k) PROVE Inv'
<1>1. work[k].busy /\ work' = [work EXCEPT ![k] = Idle]
  BY DEF NothingToWrite, Computing
<1>2. UNCHANGED <<source, fed, cache, queued, stimulus>>
  BY DEF NothingToWrite
<1>3. work[k].obj.pending = <<>>
  BY <1>1, UpdatedFacts DEF NothingToWrite, Inv
<1>4. CASE work[k].obj = fed
  <2>1. seen' = [seen EXCEPT ![k] = work[k].stimulus]
    BY <1>4 DEF NothingToWrite, Record
  <2>2. seen'[k] = work[k].stimulus
    BY <2>1 DEF Inv, Typed
  <2> QED BY <1>1, <1>2, <1>3, <1>4, <2>1, <2>2, EndInv
<1>5. CASE work[k].obj # fed
  <2>1. UNCHANGED seen
    BY <1>5 DEF NothingToWrite
  <2>2. CASE k \in queued
    BY <1>1, <1>2, <2>1, <2>2, EndInv
  <2>3. CASE k \notin queued
    <3>1. cache # fed
      BY <1>1, <1>5, <2>3 DEF Inv, CopyInv
    <3> QED BY <1>1, <1>2, <2>1, <3>1, EndInv
  <2> QED BY <2>2, <2>3
<1> QED BY <1>4, <1>5

LEMMA WriteInv ==
  ASSUME Inv, NEW k \in Controllers, NEW changed \in BOOLEAN, Write(k, changed)
  PROVE  Inv'
<1>1. work[k].busy /\ work' = [work EXCEPT ![k] = Idle]
  BY DEF Write, Computing
<1>2. UNCHANGED <<source, cache, queued, stimulus>>
  BY DEF Write
<1>3. work[k].obj = fed /\ fed' = Updated(k, changed) /\ Updated(k, changed) # work[k].obj
  BY DEF Write
<1>4. seen' = [seen EXCEPT ![k] = work[k].stimulus]
  BY DEF Write, Record
<1>5. fed' # fed
  BY <1>3
<1>6. \E c \in BOOLEAN : fed' = Updated(k, c) /\ Updated(k, c) # work[k].obj
  BY <1>3
<1> QED BY <1>1, <1>2, <1>3, <1>4, <1>5, <1>6, EndInv

LEMMA ConflictInv ==
  ASSUME Inv, NEW k \in Controllers, NEW changed \in BOOLEAN, Conflict(k, changed)
  PROVE  Inv'
<1>1. work[k].busy /\ work' = [work EXCEPT ![k] = Idle]
  BY DEF Conflict, Computing
<1>2. UNCHANGED <<source, fed, cache, stimulus, seen>> /\ queued' = queued \cup {k}
  BY DEF Conflict
<1> QED BY <1>1, <1>2, EndInv

LEMMA WriteFailsInv ==
  ASSUME Inv, NEW k \in Controllers, NEW changed \in BOOLEAN, WriteFails(k, changed)
  PROVE  Inv'
<1>1. work[k].busy /\ work' = [work EXCEPT ![k] = Idle]
  BY DEF WriteFails, Computing
<1>2. UNCHANGED <<source, fed, cache, stimulus, seen>>
  BY DEF WriteFails
<1>3. queued' \in {queued, queued \cup {k}} /\ (k \notin Retrying \/ k \in queued')
  BY DEF WriteFails, Retrying
<1> QED BY <1>1, <1>2, <1>3, EndInv

LEMMA NextInv == Inv /\ [Next]_vars => Inv'
<1> SUFFICES ASSUME Inv, [Next]_vars PROVE Inv'
  OBVIOUS
<1>1. CASE UpdateSource \/ Federate \/ Observe \/ Restart
  BY <1>1, UpdateSourceInv, FederateInv, ObserveInv, RestartInv
<1>2. ASSUME NEW k \in Controllers, Stimulate(k) \/ Skip(k) \/ Read(k) \/ NothingToWrite(k)
      PROVE  Inv'
  BY <1>2, StimulateInv, SkipInv, ReadInv, NothingToWriteInv
<1>3. ASSUME NEW k \in Controllers, NEW changed \in BOOLEAN,
             Write(k, changed) \/ Conflict(k, changed) \/ WriteFails(k, changed)
      PROVE  Inv'
  BY <1>3, WriteInv, ConflictInv, WriteFailsInv
<1>4. CASE UNCHANGED vars
  BY <1>4 DEF vars, Inv, Typed, TurnInv, CopyInv, AgeInv, WakeInv, Retrying
<1> QED BY <1>1, <1>2, <1>3, <1>4 DEF Next, Reconcile

LEMMA Invariance == Spec => []Inv
  BY InitInv, NextInv, PTL DEF Spec

(* No wakeup is lost, whatever the steps of the FederatedTypeConfig: when every
   controller that may fail to write tries again, a current cache, empty queues and
   idle workers mean that the pipeline is through and every result up to date. *)
THEOREM RestMeansDone ==
  ASSUME Failing \cap NoRetry = {}
  PROVE  Spec => []QuietIsDone
<1>1. ASSUME Inv PROVE QuietIsDone
  <2> SUFFICES ASSUME queued = {}, cache = fed, \A k \in Controllers : ~work[k].busy
               PROVE  fed.pending = <<>> /\ seen = stimulus
    BY DEF QuietIsDone
  <2>1. \A k \in Controllers : ControllerDependenciesFulfilled(fed.pending, k) =>
           fed.pending = <<>> /\ seen[k] = stimulus[k]
    BY <1>1 DEF Inv, WakeInv, Retrying
  <2>2. fed.pending = <<>>
    <3> SUFFICES ASSUME fed.pending # <<>> PROVE FALSE
      OBVIOUS
    <3>1. PICK i \in DOMAIN AllControllers :
             \E c \in (SUBSET AllControllers[i]) \ {{}} : fed.pending = At(i, c)
      BY <1>1 DEF Inv, TurnInv, WellFormed
    <3>2. PICK current \in (SUBSET AllControllers[i]) \ {{}} : fed.pending = At(i, current)
      BY <3>1
    <3>3. PICK k : k \in current
      OBVIOUS
    <3>4. k \in Controllers /\ k \in Head(fed.pending)
      BY <3>2, <3>3, AtFacts, StepFacts
    <3> QED BY <2>1, <3>4 DEF ControllerDependenciesFulfilled
  <2>3. \A k \in Controllers : seen[k] = stimulus[k]
    BY <2>1, <2>2 DEF ControllerDependenciesFulfilled
  <2>4. seen = stimulus
    BY <1>1, <2>3 DEF Inv, Typed
  <2> QED BY <2>2, <2>4
<1> QED BY <1>1, Invariance, PTL

-----------------------------------------------------------------------------
(* A controller that ends its reconcile on a current copy, with or without a write,
   takes the step of the abstract pipeline. *)
LEMMA ProcessSimulated ==
  ASSUME Inv, NEW k \in Controllers, NEW changed \in BOOLEAN, Computing(k, changed),
         work[k].obj = fed, fed' = Updated(k, changed), Record(k)
  PROVE  Abstract!Process(k, changed)
<1>1. /\ fed' = [template |-> fed.template,
                 result |-> IF changed THEN [fed.result EXCEPT ![k] = @ + 1] ELSE fed.result,
                 pending |-> UpdatePendingControllers(fed.pending, k, changed)]
  BY UpdatedFacts DEF Inv, Computing
<1>2. /\ fed'.template = fed.template
      /\ fed'.result = IF changed THEN [fed.result EXCEPT ![k] = @ + 1] ELSE fed.result
      /\ fed'.pending = UpdatePendingControllers(fed.pending, k, changed)
  BY <1>1
<1>3. WellFormed(fed.pending) /\ ControllerDependenciesFulfilled(fed.pending, k)
  BY DEF Inv, TurnInv, Computing
<1>4. /\ Names(fed'.pending) = (FirstOf(Names(fed.pending)) \ {k}) \cup
               (IF changed THEN {d \in Controllers : Level[d] > Level[k]}
                ELSE Names(fed.pending) \ FirstOf(Names(fed.pending)))
      /\ fed.pending # <<>> => k \in FirstOf(Names(fed.pending))
  BY <1>2, <1>3, UpdateFacts
<1>5. Abstract!First = FirstOf(Names(fed.pending))
  BY DEF Abstract!First, FirstOf, Names
<1>6. Abstract!MayRun(k)
  BY <1>4, <1>5, Empty DEF Abstract!MayRun, Names
<1>7. changed => fed.result[k] < MaxResult
  BY DEF Computing
<1>8. basis' = [basis EXCEPT ![k] = Abstract!Inputs(fed.template, fed.result, k)]
  BY DEF Record
<1>9. Names(fed'.pending) = (Abstract!First \ {k}) \cup
         (IF changed THEN Abstract!Downstream(k) ELSE Names(fed.pending) \ Abstract!First)
  BY <1>4, <1>5 DEF Abstract!Downstream
<1> QED BY <1>2, <1>6, <1>7, <1>8, <1>9 DEF Abstract!Process, Names

(* The controllers implement the abstract pipeline whatever their number and the steps
   they are arranged in, with stale caches, refused and failed writes, and restarts. *)
THEOREM ControllersArePipeline == Spec => PipelineRefined
<1>1. Init => Abstract!Init
  <2> SUFFICES ASSUME Init PROVE Abstract!Init
    OBVIOUS
  <2>1. fed = [template |-> 1, result |-> [k \in Controllers |-> 0], pending |-> AllControllers]
    BY AllWellFormed DEF Init
  <2>2. UNION Range(fed.pending) = Controllers
    BY <2>1, AllWellFormed DEF Names
  <2>3. basis = [k \in Controllers |-> Abstract!Inputs(0, fed.result, k)]
    BY DEF Init
  <2> QED BY <2>1, <2>2, <2>3 DEF Abstract!Init
<1>2. ASSUME Inv, [Next]_vars PROVE [Abstract!Next]_(Abstract!vars)
  <2>1. ASSUME UNCHANGED <<fed, basis>> PROVE UNCHANGED Abstract!vars
    BY <2>1 DEF Abstract!vars
  <2>2. CASE Federate
    <3>1. fed \in Object /\ fed.template \in Nat /\ source \in 1 .. MaxSource /\ fed.template < source
      BY <1>2, <2>2 DEF Inv, Typed, Object, Federate
    <3>2. fed' = [fed EXCEPT !.template = source, !.pending = AllControllers]
      BY <2>2, AllWellFormed DEF Federate
    <3>3. fed'.template = source /\ fed'.result = fed.result /\ fed'.pending = AllControllers
      BY <3>1, <3>2 DEF Object
    <3>4. source \in (fed.template + 1) .. MaxSource
      BY <3>1, PipelineAssumption
    <3>5. UNION Range(fed'.pending) = Controllers
      BY <3>3, AllWellFormed DEF Names
    <3>6. basis' = basis
      BY <2>2 DEF Federate
    <3>7. Abstract!Federate
      BY <3>3, <3>4, <3>5, <3>6 DEF Abstract!Federate
    <3> QED BY <3>7 DEF Abstract!Next
  <2>3. CASE UpdateSource \/ Observe \/ Restart \/ UNCHANGED vars
    BY <2>1, <2>3 DEF UpdateSource, Observe, Restart, vars
  <2>4. ASSUME NEW k \in Controllers, Stimulate(k) \/ Skip(k) \/ Read(k)
        PROVE  UNCHANGED Abstract!vars
    BY <2>1, <2>4 DEF Stimulate, Skip, Read
  <2>5. ASSUME NEW k \in Controllers, NothingToWrite(k)
        PROVE  [Abstract!Next]_(Abstract!vars)
    <3>1. CASE work[k].obj = fed
      <4>1. fed' = Updated(k, FALSE) /\ Computing(k, FALSE) /\ Record(k)
        BY <2>5, <3>1 DEF NothingToWrite
      <4>2. Abstract!Process(k, FALSE)
        BY <1>2, <3>1, <4>1, ProcessSimulated
      <4> QED BY <4>2 DEF Abstract!Next
    <3>2. CASE work[k].obj # fed
      BY <2>1, <2>5, <3>2 DEF NothingToWrite
    <3> QED BY <3>1, <3>2
  <2>6. ASSUME NEW k \in Controllers, NEW changed \in BOOLEAN, Write(k, changed)
        PROVE  Abstract!Next
    <3>1. fed' = Updated(k, changed) /\ Computing(k, changed) /\ Record(k) /\ work[k].obj = fed
      BY <2>6 DEF Write
    <3>2. Abstract!Process(k, changed)
      BY <1>2, <3>1, ProcessSimulated
    <3> QED BY <3>2 DEF Abstract!Next
  <2>7. ASSUME NEW k \in Controllers, NEW changed \in BOOLEAN,
               Conflict(k, changed) \/ WriteFails(k, changed)
        PROVE  UNCHANGED Abstract!vars
    BY <2>1, <2>7 DEF Conflict, WriteFails
  <2> QED BY <1>2, <2>2, <2>3, <2>4, <2>5, <2>6, <2>7 DEF Next, Reconcile
<1> QED BY <1>1, <1>2, Invariance, PTL DEF Spec, PipelineRefined, Abstract!Spec

-----------------------------------------------------------------------------
(* The abstract pipeline keeps its promise for every FederatedTypeConfig.  Nothing but its own
   actions is used: fed and basis may be any variables that behave as it says. *)

LEMMA LevelType == Level \in [Controllers -> Nat]
  BY LevelFacts, StepFacts DEF Level

(* What a controller reads has a type of its own. *)
LEMMA InputsType ==
  ASSUME NEW t \in Nat, NEW r \in [Controllers -> Nat], NEW k \in Controllers
  PROVE  Abstract!Inputs(t, r, k) \in Abstract!Basis(k)
<1>1. [u \in Abstract!Upstream(k) |-> r[u]] \in [Abstract!Upstream(k) -> Nat]
  BY DEF Abstract!Upstream
<1> QED BY <1>1 DEF Abstract!Inputs, Abstract!Basis

LEMMA PipelineInitTypeOK == Abstract!Init => Abstract!TypeOK
<1> SUFFICES ASSUME Abstract!Init PROVE Abstract!TypeOK
  OBVIOUS
<1> USE DEF Names
<1>1. fed.template \in Nat /\ fed.result \in [Controllers -> Nat] /\ Names(fed.pending) \subseteq Controllers
  BY DEF Abstract!Init
<1>2. \A k \in Controllers : Abstract!Inputs(0, fed.result, k) \in Abstract!Basis(k)
  BY <1>1, InputsType
<1> QED BY <1>1, <1>2 DEF Abstract!Init, Abstract!TypeOK

LEMMA PipelineNextTypeOK == Abstract!TypeOK /\ [Abstract!Next]_(Abstract!vars) => Abstract!TypeOK'
<1> SUFFICES ASSUME Abstract!TypeOK, [Abstract!Next]_(Abstract!vars) PROVE Abstract!TypeOK'
  OBVIOUS
<1> USE DEF Names
<1>1. CASE Abstract!Federate
  <2>1. fed'.template \in Nat
    BY <1>1 DEF Abstract!Federate, Abstract!TypeOK
  <2> QED BY <1>1, <2>1 DEF Abstract!Federate, Abstract!TypeOK
<1>2. ASSUME NEW k \in Controllers, NEW changed \in BOOLEAN, Abstract!Process(k, changed)
      PROVE  Abstract!TypeOK'
  <2>1. fed'.template \in Nat /\ fed'.result \in [Controllers -> Nat]
    BY <1>2 DEF Abstract!Process, Abstract!TypeOK
  <2>2. Names(fed'.pending) \subseteq Controllers
    BY <1>2 DEF Abstract!Process, Abstract!TypeOK, Abstract!First, Abstract!Downstream
  <2>3. Abstract!Inputs(fed.template, fed.result, k) \in Abstract!Basis(k)
    BY InputsType DEF Abstract!TypeOK
  <2>4. basis' = [basis EXCEPT ![k] = Abstract!Inputs(fed.template, fed.result, k)]
    BY <1>2 DEF Abstract!Process
  <2>5. /\ basis' = [j \in Controllers |-> basis'[j]]
        /\ \A j \in Controllers : basis'[j] \in Abstract!Basis(j)
    BY <2>3, <2>4 DEF Abstract!TypeOK
  <2> QED BY <2>1, <2>2, <2>5 DEF Abstract!TypeOK
<1>3. CASE UNCHANGED Abstract!vars
  BY <1>3 DEF Abstract!vars, Abstract!TypeOK
<1> QED BY <1>1, <1>2, <1>3 DEF Abstract!Next

(* Type correctness of the pipeline. *)
LEMMA PipelineTypes == Abstract!Spec => []Abstract!TypeOK
  BY PipelineInitTypeOK, PipelineNextTypeOK, PTL DEF Abstract!Spec

-----------------------------------------------------------------------------
(* A controller that takes its turn, or runs when nothing is pending, finds nothing
   pending in an earlier step. *)
LEMMA UpstreamDone ==
  ASSUME Abstract!TypeOK, NEW k \in Controllers, Abstract!MayRun(k)
  PROVE  Abstract!Upstream(k) \cap Names(fed.pending) = {}
  BY LevelType DEF Abstract!TypeOK, Abstract!MayRun, Abstract!First, Abstract!Upstream, Names

(* The results a controller reads are those of other controllers: its own run does
   not change its inputs, nor those of its own or an earlier step. *)
LEMMA InputsKept ==
  ASSUME Abstract!TypeOK, NEW k \in Controllers, NEW changed \in BOOLEAN, Abstract!Process(k, changed),
         NEW j \in Controllers, k \notin Abstract!Upstream(j) \/ ~changed
  PROVE  Abstract!Inputs(fed'.template, fed'.result, j) = Abstract!Inputs(fed.template, fed.result, j)
<1>1. \A u \in Abstract!Upstream(j) : fed'.result[u] = fed.result[u]
  BY DEF Abstract!Process, Abstract!TypeOK, Abstract!Upstream
<1>2. fed'.template = fed.template
  BY DEF Abstract!Process
<1> QED BY <1>1, <1>2 DEF Abstract!Inputs

LEMMA PipelineNextSettled == Abstract!TypeOK /\ Abstract!Settled /\ [Abstract!Next]_(Abstract!vars) => Abstract!Settled'
<1> SUFFICES ASSUME Abstract!TypeOK, Abstract!Settled, [Abstract!Next]_(Abstract!vars) PROVE Abstract!Settled'
  OBVIOUS
<1> USE DEF Names
<1>1. CASE Abstract!Federate
  BY <1>1 DEF Abstract!Federate, Abstract!Settled
<1>2. ASSUME NEW k \in Controllers, NEW changed \in BOOLEAN, Abstract!Process(k, changed)
      PROVE  Abstract!Settled'
  <2> SUFFICES ASSUME NEW j \in Controllers, j \notin Names(fed'.pending)
               PROVE  basis'[j] = Abstract!Inputs(fed'.template, fed'.result, j)
    BY DEF Abstract!Settled
  <2>1. k \notin Abstract!Upstream(j) \/ ~changed
    BY <1>2 DEF Abstract!Process, Abstract!Upstream, Abstract!Downstream
  <2>2. Abstract!Inputs(fed'.template, fed'.result, j) = Abstract!Inputs(fed.template, fed.result, j)
    BY <1>2, <2>1, InputsKept
  <2>3. CASE j = k
    BY <1>2, <2>2, <2>3 DEF Abstract!Process, Abstract!TypeOK
  <2>4. CASE j # k
    <3>1. basis'[j] = basis[j]
      BY <1>2, <2>4 DEF Abstract!Process, Abstract!TypeOK
    <3>2. j \notin Abstract!First
      BY <1>2, <2>4 DEF Abstract!Process
    <3>3. j \notin Names(fed.pending)
      <4>1. CASE ~changed
        BY <1>2, <3>2, <4>1 DEF Abstract!Process
      <4>2. CASE changed
        \* j would be pending in a later step than k, and so be set pending again
        <5> SUFFICES ASSUME j \in Names(fed.pending) PROVE FALSE
          OBVIOUS
        <5>1. k \in Abstract!First
          BY <1>2 DEF Abstract!Process, Abstract!MayRun
        <5>2. Level[k] < Level[j]
          BY <3>2, <5>1, LevelType DEF Abstract!First, Abstract!TypeOK
        <5> QED BY <1>2, <4>2, <5>2 DEF Abstract!Process, Abstract!Downstream
      <4> QED BY <4>1, <4>2
    <3> QED BY <2>2, <3>1, <3>3 DEF Abstract!Settled
  <2> QED BY <2>3, <2>4
<1>3. CASE UNCHANGED Abstract!vars
  BY <1>3 DEF Abstract!vars, Abstract!Settled
<1> QED BY <1>1, <1>2, <1>3 DEF Abstract!Next

(* Whatever the steps, a controller that is not pending has worked on the current
   template and on the current results of the steps before it. *)
LEMMA PipelineSettled == Abstract!Spec => []Abstract!Settled
<1>1. Abstract!Init => Abstract!Settled
  BY DEF Abstract!Init, Abstract!Settled
<1> QED BY <1>1, PipelineNextSettled, PipelineTypes, PTL DEF Abstract!Spec

-----------------------------------------------------------------------------
(* A controller works only on finished inputs: when it runs, the earlier steps have
   worked on the current template and on each other's current results. *)
LEMMA PipelineInOrder == Abstract!Spec => Abstract!InOrder
<1> USE DEF Names
<1>1. ASSUME Abstract!TypeOK, Abstract!Settled, [Abstract!Next]_(Abstract!vars)
      PROVE  [\A k \in Controllers : basis'[k] # basis[k] =>
                \A u \in Abstract!Upstream(k) : basis[u] = Abstract!Inputs(fed.template, fed.result, u)]_(Abstract!vars)
  <2> SUFFICES ASSUME NEW k \in Controllers, basis'[k] # basis[k],
                      NEW u \in Abstract!Upstream(k)
               PROVE  basis[u] = Abstract!Inputs(fed.template, fed.result, u)
    OBVIOUS
  <2>1. PICK changed \in BOOLEAN : Abstract!Process(k, changed)
    <3>1. ~Abstract!Federate /\ ~UNCHANGED Abstract!vars
      BY DEF Abstract!Federate, Abstract!vars
    <3>2. PICK j \in Controllers, changed \in BOOLEAN : Abstract!Process(j, changed)
      BY <1>1, <3>1 DEF Abstract!Next
    <3>3. j = k
      BY <1>1, <3>2 DEF Abstract!Process, Abstract!TypeOK
    <3> QED BY <3>2, <3>3
  <2>2. u \notin Names(fed.pending)
    BY <1>1, <2>1, UpstreamDone DEF Abstract!Process
  <2> QED BY <1>1, <2>2 DEF Abstract!Settled, Abstract!Upstream
<1> QED BY <1>1, PipelineTypes, PipelineSettled, PTL DEF Abstract!Spec, Abstract!InOrder

-----------------------------------------------------------------------------
(* What the abstract pipeline promises, the controllers keep.  In the object the API server holds,
   whatever the caches hold and whichever write is refused, a controller that
   UpdatePendingControllers has taken off the annotation has computed its result from the template
   and the results of the earlier steps that stand there. *)
THEOREM ResultsFit == Spec => []Settled
  BY ControllersArePipeline, PipelineSettled, PTL DEF PipelineRefined, Settled

(* Step T completes before step T+1 commences: when a result is computed anew, the results of the
   earlier steps are up to date with the template and with each other. *)
THEOREM StepsComplete == Spec => InOrder
  BY ControllersArePipeline, PipelineInOrder, PTL DEF PipelineRefined, InOrder
=============================================================================
