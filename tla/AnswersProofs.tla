---------------------------- MODULE AnswersProofs ---------------------------
(***************************************************************************)
(* That an answer keeps its limit, and that an agent is told of what it is *)
(* not shown: for answers and lists of any length and for any limits.      *)
(*                                                                         *)
(* Induction over the length of a sequence is done by its least            *)
(* counterexample, as the library's induction rules cannot be instantiated *)
(* by the provers.                                                         *)
(***************************************************************************)
EXTENDS MCWorktrees, SequenceTheorems, WellFoundedInduction, TLAPS

-----------------------------------------------------------------------------
(* Least and greatest numbers *)

\* Any numbers there are have a least one.
LEMMA Least ==
  ASSUME NEW S \in SUBSET Nat, S # {}
  PROVE  \E m \in S : \A n \in S : m <= n
<1> DEFINE R == OpToRel(<, Nat)
<1>1. IsWellFoundedOn(R, Nat)
  BY NatLessThanWellFounded
<1>2. \A a, b \in Nat : << a, b >> \in R <=> a < b
  BY DEF OpToRel
<1> HIDE DEF R
<1>3. PICK m \in S : \A n \in S : ~ (<< n, m >> \in R)
  <2>1. S \subseteq Nat
    OBVIOUS
  <2> QED
    BY <2>1, <1>1, WFMin, Zenon
<1>4. ASSUME NEW n \in S PROVE m <= n
  <2>1. m \in Nat /\ n \in Nat
    OBVIOUS
  <2>2. ~ (n < m)
    BY <2>1, <1>2, <1>3, Zenon
  <2> QED
    BY <2>1, <2>2
<1> QED
  BY <1>4

\* Max is the greatest of any numbers up to a bound.
LEMMA Greatest ==
  ASSUME NEW bound \in Nat, NEW S \in SUBSET (0 .. bound), S # {}
  PROVE  Max(S) \in S /\ \A n \in S : n <= Max(S)
<1> DEFINE Distances == {d \in Nat : bound - d \in S}
<1>1. PICK s \in S : TRUE
  OBVIOUS
<1>2. bound - s \in Distances
  OBVIOUS
<1>3. Distances \in SUBSET Nat
  OBVIOUS
<1>4. PICK least \in Distances : \A d \in Distances : least <= d
  <2> HIDE DEF Distances
  <2> QED
    BY <1>2, <1>3, Least
<1>5. bound - least \in S
  BY <1>4
<1>6. ASSUME NEW n \in S PROVE bound - least >= n
  <2>1. n \in 0 .. bound
    OBVIOUS
  <2>2. bound - n \in Nat /\ bound - (bound - n) = n
    BY <2>1
  <2>3. bound - n \in Distances
    BY <2>2
  <2>4. least <= bound - n /\ least \in Nat
    BY <2>3, <1>4
  <2> QED
    BY <2>1, <2>4
<1>7. \E m \in S : \A n \in S : m >= n
  BY <1>5, <1>6
<1> QED
  BY <1>7 DEF Max

-----------------------------------------------------------------------------
(* Sums *)

\* Sums is what its definition says.
LEMMA SumsRecursive ==
  ASSUME NEW numbers \in Seq(Nat)
  PROVE  /\ Sums(numbers) \in [0 .. Len(numbers) -> Nat]
         /\ \A n \in 0 .. Len(numbers) :
              Sums(numbers)[n] = IF n = 0 THEN 0 ELSE Sums(numbers)[n - 1] + numbers[n]
<1> DEFINE
      IsSum(g, m) == \A n \in 0 .. m : g[n] = IF n = 0 THEN 0 ELSE g[n - 1] + numbers[n]
      Exists(m) == \E g \in [0 .. m -> Nat] : IsSum(g, m)
      Missing == {m \in 0 .. Len(numbers) : ~ Exists(m)}
<1>1. Missing = {}
  <2> SUFFICES ASSUME Missing # {} PROVE FALSE
    OBVIOUS
  <2>1. Missing \in SUBSET Nat
    OBVIOUS
  <2>2. PICK m \in Missing : \A n \in Missing : m <= n
    <3> HIDE DEF Missing
    <3> QED
      BY <2>1, Least
  <2>3. m \in 0 .. Len(numbers) /\ ~ Exists(m)
    BY <2>2
  <2>4. m # 0
    <3> DEFINE zero == [n \in 0 .. 0 |-> 0]
    <3>1. zero \in [0 .. 0 -> Nat] /\ IsSum(zero, 0)
      OBVIOUS
    <3>2. Exists(0)
      <4> HIDE DEF zero, IsSum
      <4> QED
        BY <3>1
    <3> HIDE DEF Exists
    <3> QED
      BY <2>3, <3>2
  <2>5. Exists(m - 1)
    <3> HIDE DEF Exists
    <3>1. m - 1 \in 0 .. Len(numbers) /\ ~ (m <= m - 1)
      BY <2>3, <2>4
    <3> QED
      BY <3>1, <2>2
  <2>6. PICK g \in [0 .. m - 1 -> Nat] : IsSum(g, m - 1)
    <3> HIDE DEF IsSum
    <3> QED
      BY <2>5
  <2> DEFINE h == [n \in 0 .. m |-> IF n = m THEN g[m - 1] + numbers[m] ELSE g[n]]
  <2>7. numbers[m] \in Nat /\ g[m - 1] \in Nat
    BY <2>3, <2>4
  <2>8. h \in [0 .. m -> Nat]
    BY <2>7
  <2>9. IsSum(h, m)
    BY <2>3, <2>4, <2>6
  <2> HIDE DEF h, IsSum
  <2> QED
    BY <2>3, <2>8, <2>9
<1>2. PICK g \in [0 .. Len(numbers) -> Nat] : IsSum(g, Len(numbers))
  <2>1. Len(numbers) \in 0 .. Len(numbers)
    OBVIOUS
  <2>2. Exists(Len(numbers))
    <3> HIDE DEF Exists
    <3> QED
      BY <1>1, <2>1
  <2> HIDE DEF IsSum
  <2> QED
    BY <2>2
<1> DEFINE
      Fixed(f) == f = [n \in 0 .. Len(numbers) |->
                         IF n = 0 THEN 0 ELSE f[n - 1] + numbers[n]]
<1>3. Fixed(g)
  BY <1>2
<1>4. Sums(numbers) = CHOOSE f : Fixed(f)
  BY DEF Sums
<1>5. Fixed(Sums(numbers))
  <2> HIDE DEF Fixed
  <2> QED
    BY <1>3, <1>4
<1> DEFINE S == Sums(numbers)
           Wrong == {n \in 0 .. Len(numbers) : S[n] \notin Nat}
<1>6. \A n \in 0 .. Len(numbers) : S[n] = IF n = 0 THEN 0 ELSE S[n - 1] + numbers[n]
  BY <1>5
<1>7. Wrong = {}
  <2> SUFFICES ASSUME Wrong # {} PROVE FALSE
    OBVIOUS
  <2>1. Wrong \in SUBSET Nat
    OBVIOUS
  <2>2. PICK m \in Wrong : \A n \in Wrong : m <= n
    <3> HIDE DEF Wrong
    <3> QED
      BY <2>1, Least
  <2>3. m \in 0 .. Len(numbers) /\ S[m] \notin Nat
    BY <2>2
  <2> HIDE DEF S
  <2>4. m # 0
    BY <2>3, <1>6
  <2>5. m - 1 \in 0 .. Len(numbers) /\ m - 1 \notin Wrong
    <3>1. m - 1 \in 0 .. Len(numbers) /\ ~ (m <= m - 1)
      BY <2>3, <2>4
    <3> HIDE DEF Wrong
    <3> QED
      BY <3>1, <2>2
  <2>6. S[m - 1] \in Nat
    BY <2>5
  <2>7. numbers[m] \in Nat
    BY <2>3, <2>4
  <2> QED
    BY <2>3, <2>4, <2>6, <2>7, <1>6
<1>8. S = [n \in 0 .. Len(numbers) |-> S[n]]
  BY <1>5
<1> HIDE DEF S
<1>9. S \in [0 .. Len(numbers) -> Nat]
  BY <1>7, <1>8
<1> QED
  BY <1>6, <1>9 DEF S

\* Sums of the first numbers do not depend on what follows.
LEMMA SumsAgree ==
  ASSUME NEW a \in Seq(Nat), NEW b \in Seq(Nat), NEW k \in Nat,
         k <= Len(a), k <= Len(b), \A n \in 1 .. k : a[n] = b[n]
  PROVE  \A n \in 0 .. k : Sums(a)[n] = Sums(b)[n]
<1> DEFINE SA == Sums(a)
           SB == Sums(b)
           Differ == {n \in 0 .. k : SA[n] # SB[n]}
<1> SUFFICES ASSUME Differ # {} PROVE FALSE
  OBVIOUS
<1>1. /\ \A n \in 0 .. Len(a) : SA[n] = IF n = 0 THEN 0 ELSE SA[n - 1] + a[n]
      /\ \A n \in 0 .. Len(b) : SB[n] = IF n = 0 THEN 0 ELSE SB[n - 1] + b[n]
  BY SumsRecursive
<1>2. PICK m \in Differ : \A n \in Differ : m <= n
  <2>1. Differ \in SUBSET Nat
    OBVIOUS
  <2> HIDE DEF Differ
  <2> QED
    BY <2>1, Least
<1> HIDE DEF SA, SB
<1>3. m \in 0 .. k /\ SA[m] # SB[m]
  BY <1>2
<1>4. m \in 0 .. Len(a) /\ m \in 0 .. Len(b)
  BY <1>3
<1>5. m # 0
  BY <1>1, <1>3, <1>4
<1>6. m - 1 \in 0 .. k /\ m - 1 \notin Differ
  <2>1. m - 1 \in 0 .. k /\ ~ (m <= m - 1)
    BY <1>3, <1>5
  <2> HIDE DEF Differ
  <2> QED
    BY <2>1, <1>2
<1>7. SA[m - 1] = SB[m - 1]
  BY <1>6
<1>8. a[m] = b[m]
  BY <1>3, <1>5
<1> QED
  BY <1>1, <1>3, <1>4, <1>5, <1>7, <1>8

\* A byte takes at most two.
LEMMA SumsAtMostDouble ==
  ASSUME NEW bytes \in Seq(1 .. 2)
  PROVE  \A n \in 0 .. Len(bytes) : Sums(bytes)[n] <= 2 * n
<1> DEFINE S == Sums(bytes)
           Over == {n \in 0 .. Len(bytes) : ~ (S[n] <= 2 * n)}
<1> SUFFICES ASSUME Over # {} PROVE FALSE
  OBVIOUS
<1>1. bytes \in Seq(Nat)
  OBVIOUS
<1>2. /\ S \in [0 .. Len(bytes) -> Nat]
      /\ \A n \in 0 .. Len(bytes) : S[n] = IF n = 0 THEN 0 ELSE S[n - 1] + bytes[n]
  BY <1>1, SumsRecursive
<1>3. PICK m \in Over : \A n \in Over : m <= n
  <2>1. Over \in SUBSET Nat
    OBVIOUS
  <2> HIDE DEF Over
  <2> QED
    BY <2>1, Least
<1> HIDE DEF S
<1>4. m \in 0 .. Len(bytes) /\ ~ (S[m] <= 2 * m)
  BY <1>3
<1>5. m # 0
  BY <1>2, <1>4
<1>6. m - 1 \in 0 .. Len(bytes) /\ m - 1 \notin Over
  <2>1. m - 1 \in 0 .. Len(bytes) /\ ~ (m <= m - 1)
    BY <1>4, <1>5
  <2> HIDE DEF Over
  <2> QED
    BY <2>1, <1>3
<1>7. S[m - 1] <= 2 * (m - 1)
  BY <1>6
<1>8. bytes[m] \in 1 .. 2
  BY <1>4, <1>5
<1>9. S[m] = S[m - 1] + bytes[m]
  BY <1>2, <1>4, <1>5
<1>10. S[m - 1] \in Nat
  BY <1>2, <1>6
<1> QED
  BY <1>4, <1>7, <1>8, <1>9, <1>10

-----------------------------------------------------------------------------
(* The limit of an answer *)

\* Taking a step off the limit again and again, the last preview that is tried is no
\* longer than a step.
LEMMA ShortestPreview ==
  \E n \in 1 .. PreviewStep : \E k \in 1 .. MaxToolOutput : n + k * PreviewStep = MaxToolOutput
<1> DEFINE Rest == {n \in Nat : n > 0 /\ \E k \in Nat : n + k * PreviewStep = MaxToolOutput}
<1>1. /\ MaxToolOutput \in Nat /\ Envelope \in Nat /\ PreviewStep \in Nat
      /\ PreviewStep > 0 /\ MaxToolOutput > PreviewStep
  BY AnswerAssumption
<1>2. MaxToolOutput \in Rest
  <2>1. MaxToolOutput + 0 * PreviewStep = MaxToolOutput
    BY <1>1
  <2> QED
    BY <1>1, <2>1
<1>3. PICK m \in Rest : \A n \in Rest : m <= n
  <2>1. Rest \in SUBSET Nat
    OBVIOUS
  <2> HIDE DEF Rest
  <2> QED
    BY <1>2, <2>1, Least
<1>4. m \in Nat /\ m > 0
  BY <1>3
<1>5. PICK k \in Nat : m + k * PreviewStep = MaxToolOutput
  BY <1>3
<1>6. m <= PreviewStep
  <2> SUFFICES ASSUME m > PreviewStep PROVE FALSE
    BY <1>1, <1>4
  <2>1. (k + 1) * PreviewStep = k * PreviewStep + PreviewStep /\ k * PreviewStep \in Nat
    BY <1>1
  <2>2. (m - PreviewStep) + (k + 1) * PreviewStep = MaxToolOutput
    BY <1>1, <1>4, <1>5, <2>1
  <2>3. m - PreviewStep \in Nat /\ m - PreviewStep > 0 /\ ~ (m <= m - PreviewStep) /\ k + 1 \in Nat
    BY <1>1, <1>4
  <2>4. m - PreviewStep \in Rest
    BY <2>2, <2>3
  <2> HIDE DEF Rest
  <2> QED
    BY <1>3, <2>3, <2>4
<1>7. k # 0
  BY <1>1, <1>4, <1>5, <1>6
<1>8. k <= k * PreviewStep /\ k * PreviewStep \in Nat
  <2>1. k * PreviewStep = k + k * (PreviewStep - 1)
    BY <1>1
  <2>2. k * (PreviewStep - 1) \in Nat
    BY <1>1
  <2> QED
    BY <1>1, <2>1, <2>2
<1>9. k \in 1 .. MaxToolOutput
  BY <1>1, <1>4, <1>5, <1>7, <1>8
<1> QED
  BY <1>4, <1>5, <1>6, <1>9

\* tools.py:186: an answer of any length never exceeds the limit, however much of it
\* has to be escaped; one that fits is whole, and of any other there is a preview.
THEOREM AnswersKeepLimit ==
  \A bytes \in Seq(1 .. 2) : IsBounded(bytes)
<1> SUFFICES ASSUME NEW bytes \in Seq(1 .. 2) PROVE IsBounded(bytes)
  OBVIOUS
<1> DEFINE
      tried == {n \in 1 .. MaxToolOutput : \E k \in 1 .. MaxToolOutput :
                                            n + k * PreviewStep = MaxToolOutput}
      fitting == {n \in tried : Fits(bytes, n)}
<1>0. /\ MaxToolOutput \in Nat /\ Envelope \in Nat /\ PreviewStep \in Nat
      /\ PreviewStep > 0 /\ Envelope + 2 * PreviewStep <= MaxToolOutput
  BY AnswerAssumption
<1>1. Len(bytes) \in Nat
  OBVIOUS
<1>2. CASE Len(bytes) <= MaxToolOutput
  <2>1. BoundedJson(bytes) = [size |-> Len(bytes), shown |-> Len(bytes), truncated |-> FALSE]
    BY <1>2 DEF BoundedJson
  <2>2. Len(bytes) > 0 \/ bytes = << >>
    OBVIOUS
  <2> QED
    BY <1>1, <1>2, <2>1, <2>2 DEF IsBounded
<1>3. CASE ~ (Len(bytes) <= MaxToolOutput)
  <2>1. fitting # {}
    <3>1. PICK n \in 1 .. PreviewStep :
            \E k \in 1 .. MaxToolOutput : n + k * PreviewStep = MaxToolOutput
      BY ShortestPreview
    <3>2. n \in 1 .. MaxToolOutput /\ Envelope + 2 * n <= MaxToolOutput
      BY <1>0
    <3>3. n \in 0 .. Len(bytes)
      BY <1>0, <1>1, <1>3, <3>2
    <3>4. Sums(bytes)[n] <= 2 * n /\ Sums(bytes)[n] \in Nat
      <4>1. bytes \in Seq(Nat)
        OBVIOUS
      <4> QED
        BY <3>3, <4>1, SumsAtMostDouble, SumsRecursive
    <3>5. Fits(bytes, n)
      BY <1>0, <3>2, <3>4 DEF Fits, Preview
    <3> QED
      BY <3>1, <3>2, <3>5
  <2>2. Max(fitting) \in fitting
    <3>1. fitting \in SUBSET (0 .. MaxToolOutput)
      BY <1>0
    <3> HIDE DEF fitting
    <3> QED
      BY <1>0, <2>1, <3>1, Greatest
  <2>3. BoundedJson(bytes) =
          [size |-> Preview(bytes, Max(fitting)), shown |-> Max(fitting), truncated |-> TRUE]
    BY <1>3, <2>1 DEF BoundedJson
  <2>4. Max(fitting) \in 1 .. MaxToolOutput /\ Preview(bytes, Max(fitting)) <= MaxToolOutput
    BY <2>2 DEF Fits
  <2> HIDE DEF fitting
  <2>5. Max(fitting) < Len(bytes) /\ Max(fitting) > 0
    BY <1>0, <1>1, <1>3, <2>4
  <2> QED
    BY <2>3, <2>4, <2>5 DEF IsBounded
<1> QED
  BY <1>2, <1>3

-----------------------------------------------------------------------------
(* What an agent is told *)

\* The first n of some lines.
LEMMA FirstOfLines ==
  ASSUME NEW lines \in Seq(Nat), NEW n \in Nat
  PROVE  /\ FirstOf(lines, n) \in Seq(Nat)
         /\ Len(FirstOf(lines, n)) = IF n < Len(lines) THEN n ELSE Len(lines)
         /\ \A i \in 1 .. Len(FirstOf(lines, n)) : FirstOf(lines, n)[i] = lines[i]
         /\ n >= Len(lines) => FirstOf(lines, n) = lines
<1> DEFINE k == IF n < Len(lines) THEN n ELSE Len(lines)
<1>1. Len(lines) \in Nat /\ k \in 0 .. Len(lines)
  OBVIOUS
<1>2. FirstOf(lines, n) = SubSeq(lines, 1, k)
  BY DEF FirstOf
<1> HIDE DEF k
<1>3. /\ SubSeq(lines, 1, k) \in Seq(Nat) /\ Len(SubSeq(lines, 1, k)) = k
      /\ \A i \in 1 .. k : SubSeq(lines, 1, k)[i] = lines[i]
  BY <1>1
<1>4. SubSeq(lines, 1, Len(lines)) = lines
  OBVIOUS
<1>5. Len(FirstOf(lines, n)) = k
  BY <1>2, <1>3
<1>6. n >= Len(lines) => k = Len(lines)
  BY <1>1 DEF k
<1> QED
  BY <1>2, <1>3, <1>4, <1>5, <1>6 DEF k

\* The length of joined lines is a number, and 0 of none.
LEMMA JoinedIsNat ==
  /\ \A lines \in Seq(Nat) : JoinedLength(lines) \in Nat
  /\ JoinedLength(<< >>) = 0
<1>1. ASSUME NEW lines \in Seq(Nat) PROVE JoinedLength(lines) \in Nat
  <2>1. Len(lines) \in Nat /\ (lines # << >> => Len(lines) - 1 \in Nat)
    OBVIOUS
  <2>2. Sums(lines)[Len(lines)] \in Nat
    BY <2>1, SumsRecursive
  <2> QED
    BY <2>1, <2>2 DEF JoinedLength
<1>2. JoinedLength(<< >>) = 0
  <2>1. << >> \in Seq(Nat) /\ Len(<< >>) = 0
    OBVIOUS
  <2>2. 0 \in 0 .. Len(<< >>)
    BY <2>1
  <2>3. Sums(<< >>)[0] = 0
    BY <2>1, <2>2, SumsRecursive
  <2> QED
    BY <2>1, <2>3 DEF JoinedLength
<1> QED
  BY <1>1, <1>2

\* A line more adds its length, and a line break unless it is the first.
LEMMA JoinedWithOneMore ==
  ASSUME NEW lines \in Seq(Nat), NEW more \in Nat
  PROVE  JoinedLength(lines \o << more >>) =
           (IF lines = << >> THEN 0 ELSE JoinedLength(lines) + 1) + more
<1> DEFINE longer == lines \o << more >>
<1>1. /\ longer \in Seq(Nat) /\ longer # << >>
      /\ Len(lines) \in Nat /\ Len(longer) = Len(lines) + 1
      /\ longer[Len(lines) + 1] = more
      /\ \A i \in 1 .. Len(lines) : longer[i] = lines[i]
      /\ lines = << >> <=> Len(lines) = 0
  OBVIOUS
<1> HIDE DEF longer
<1>2. Sums(longer)[Len(lines)] = Sums(lines)[Len(lines)]
  <2>1. Len(lines) <= Len(lines) /\ Len(lines) <= Len(longer) /\ Len(lines) \in 0 .. Len(lines)
    BY <1>1
  <2>2. \A n \in 0 .. Len(lines) : Sums(longer)[n] = Sums(lines)[n]
    BY <1>1, <2>1, SumsAgree
  <2> QED
    BY <2>1, <2>2
<1>3. Sums(longer)[Len(lines) + 1] = Sums(longer)[Len(lines)] + more
  <2>1. \A n \in 0 .. Len(longer) :
          Sums(longer)[n] = IF n = 0 THEN 0 ELSE Sums(longer)[n - 1] + longer[n]
    BY <1>1, SumsRecursive
  <2>2. /\ Len(lines) + 1 \in 0 .. Len(longer) /\ Len(lines) + 1 # 0
        /\ Len(lines) + 1 - 1 = Len(lines)
    BY <1>1
  <2> QED
    BY <1>1, <2>1, <2>2
<1>4. Sums(lines)[Len(lines)] \in Nat /\ (Len(lines) = 0 => Sums(lines)[Len(lines)] = 0)
  <2>1. Len(lines) \in 0 .. Len(lines)
    BY <1>1
  <2> QED
    BY <2>1, SumsRecursive
<1>5. JoinedLength(longer) = Sums(longer)[Len(lines) + 1] + Len(lines)
  BY <1>1, <1>3, <1>2, <1>4 DEF JoinedLength
<1> QED
  BY <1>1, <1>2, <1>3, <1>4, <1>5 DEF JoinedLength, longer

\* What is cut off: nothing of what fits, else lines, or a part of the last one that
\* leaves as much as the limit allows.
LEMMA CutLines ==
  ASSUME NEW lines \in Seq(Nat)
  PROVE  /\ JoinedLength(lines) <= MaxToolOutput => Cut(lines) = lines
         /\ Cut(lines) # lines =>
              Len(Cut(lines)) < Len(lines) \/ JoinedLength(Cut(lines)) = MaxToolOutput
         /\ Len(Cut(lines)) <= Len(lines)
<1> DEFINE
      before(n) == IF n = 0 THEN 0 ELSE JoinedLength(FirstOf(lines, n)) + 1
      within == {n \in 0 .. Len(lines) : JoinedLength(FirstOf(lines, n)) <= MaxToolOutput}
      whole == Max(within)
      rest == IF before(whole) < MaxToolOutput THEN MaxToolOutput - before(whole) ELSE 0
<1>1. Cut(lines) = IF whole = Len(lines) THEN lines
                   ELSE FirstOf(lines, whole) \o (IF rest = 0 THEN << >> ELSE << rest >>)
  BY DEF Cut
<1>2. Len(lines) \in Nat /\ MaxToolOutput \in Nat
  BY AnswerAssumption
<1>3. 0 \in within
  <2>1. FirstOf(lines, 0) = << >>
    <3>1. FirstOf(lines, 0) \in Seq(Nat) /\ Len(FirstOf(lines, 0)) = 0
      BY <1>2, FirstOfLines
    <3> QED
      BY <3>1
  <2> QED
    BY <1>2, <2>1, JoinedIsNat
<1>4. whole \in within /\ \A n \in within : n <= whole
  <2>1. within \in SUBSET (0 .. Len(lines))
    OBVIOUS
  <2> HIDE DEF within
  <2> QED
    BY <1>2, <1>3, <2>1, Greatest
<1>5. whole \in 0 .. Len(lines) /\ whole \in Nat
  BY <1>4, <1>2
<1>6. ASSUME JoinedLength(lines) <= MaxToolOutput PROVE whole = Len(lines)
  <2>1. FirstOf(lines, Len(lines)) = lines
    BY <1>2, FirstOfLines
  <2>2. Len(lines) \in within
    BY <1>2, <1>6, <2>1
  <2> HIDE DEF within
  <2> QED
    BY <1>2, <1>4, <1>5, <2>2
<1> HIDE DEF within, whole
<1>7. CASE whole = Len(lines)
  BY <1>1, <1>2, <1>7
<1>8. CASE whole # Len(lines)
  <2> DEFINE some == FirstOf(lines, whole)
  <2>1. whole < Len(lines)
    BY <1>2, <1>5, <1>8
  <2>2. some \in Seq(Nat) /\ Len(some) = whole
    BY <1>5, <2>1, FirstOfLines
  <2>3. ~ (JoinedLength(lines) <= MaxToolOutput)
    BY <1>6, <1>8
  <2>4. JoinedLength(some) \in Nat
    BY <2>2, JoinedIsNat
  <2>5. whole = 0 <=> some = << >>
    BY <2>2
  <2>6. before(whole) \in Nat /\ rest \in Nat
    BY <1>2, <1>5, <2>4
  <2>7. before(whole) = IF some = << >> THEN 0 ELSE JoinedLength(some) + 1
    BY <2>5
  <2>8. rest # 0 => before(whole) + rest = MaxToolOutput
    BY <1>2, <2>6
  <2> HIDE DEF some, rest, before
  <2>9. CASE rest = 0
    <3>1. Cut(lines) = some
      BY <1>1, <1>8, <2>2, <2>9 DEF some
    <3> QED
      BY <2>1, <2>2, <2>3, <3>1
  <2>10. CASE rest # 0
    <3>1. Cut(lines) = some \o << rest >>
      BY <1>1, <1>8, <2>10 DEF some
    <3>2. Len(Cut(lines)) = whole + 1
      BY <2>2, <2>6, <3>1
    <3>3. JoinedLength(Cut(lines)) = MaxToolOutput
      BY <2>2, <2>6, <2>7, <2>8, <2>10, <3>1, JoinedWithOneMore
    <3> QED
      BY <1>2, <1>5, <2>1, <2>3, <3>2, <3>3
  <2> QED
    BY <2>9, <2>10
<1> QED
  BY <1>7, <1>8

\* A read of a file of any length, from any line and to any end, shows every line up to
\* the end that it names, or the agent is told that it is cut; and if these are fewer
\* lines than it asked for, there are no more.  That there are more it is never told.
THEOREM ReadsAreTold ==
  \A lines \in Seq(Nat), from \in Nat \ {0} :
    \A end \in Ends(from) : ReadIsTold(lines, from, end)
<1> SUFFICES ASSUME NEW lines \in Seq(Nat), NEW from \in Nat \ {0}, NEW end \in Ends(from)
             PROVE  ReadIsTold(lines, from, end)
  OBVIOUS
<1> DEFINE stop == IF end = 0 THEN from + ReadLines - 1 ELSE end
           first == FirstOf(lines, stop)
           selected == SubSeq(first, from, Len(first))
<1>1. ReadFile(lines, from, end) =
        [lines |-> Cut(selected), end |-> stop,
         truncated |-> JoinedLength(selected) > MaxToolOutput]
  BY DEF ReadFile
<1>2. stop \in Nat /\ stop >= from /\ Len(lines) \in Nat
  BY AnswerAssumption DEF Ends
<1> HIDE DEF stop
<1> DEFINE n == IF stop < Len(lines) THEN stop ELSE Len(lines)
<1>3. n \in 0 .. Len(lines) /\ first = SubSeq(lines, 1, n)
  BY <1>2 DEF FirstOf
<1> HIDE DEF n
<1>4. /\ first \in Seq(Nat) /\ Len(first) = n
      /\ \A i \in 1 .. n : first[i] = lines[i]
  BY <1>3
<1> HIDE DEF first
<1>5. selected = SubSeq(lines, from, n) /\ selected \in Seq(Nat)
  <2>1. /\ n \in Nat /\ n <= Len(lines) /\ Len(first) = n
        /\ \A i \in from .. n : first[i] = lines[i] /\ lines[i] \in Nat
    BY <1>2, <1>3, <1>4
  <2> DEFINE size == IF from <= n THEN n - from + 1 ELSE 0
             a == SubSeq(first, from, n)
             b == SubSeq(lines, from, n)
  <2>2. /\ a \in Seq(Nat) /\ Len(a) = size
        /\ \A i \in 1 .. size : a[i] = first[from + i - 1]
    <3>1. \A i \in from .. n : first[i] \in Nat
      BY <2>1
    <3> QED
      BY <1>2, <2>1, <3>1, SubSeqProperties
  <2>3. /\ b \in Seq(Nat) /\ Len(b) = size
        /\ \A i \in 1 .. size : b[i] = lines[from + i - 1]
    BY <1>2, <2>1, SubSeqProperties
  <2>6. \A i \in 1 .. size : from + i - 1 \in from .. n
    BY <2>1
  <2>7. \A i \in 1 .. size : a[i] = b[i]
    BY <2>1, <2>2, <2>3, <2>6
  <2> HIDE DEF a, b
  <2>8. a = b
    BY <2>2, <2>3, <2>7, SeqEqual
  <2>4. SubSeq(first, from, n) = SubSeq(lines, from, n)
    BY <2>8 DEF a, b
  <2>5. SubSeq(lines, from, n) \in Seq(Nat)
    BY <2>3 DEF b
  <2> QED
    BY <2>1, <2>4, <2>5
<1>6. n < Len(lines) => n = stop
  BY <1>2 DEF n
<1>7. Len(selected) < stop - from + 1 => n = Len(lines)
  <2>1. n \in Nat /\ stop \in Nat /\ n <= Len(lines)
    BY <1>2, <1>3
  <2>2. n = stop => Len(SubSeq(lines, from, n)) = stop - from + 1
    BY <1>2, <1>3, <2>1
  <2> QED
    BY <1>2, <1>5, <1>6, <2>1, <2>2
<1> HIDE DEF selected
<1> DEFINE answer == ReadFile(lines, from, end)
<1>10. /\ answer.lines = Cut(selected) /\ answer.end = stop
       /\ answer.truncated = (JoinedLength(selected) > MaxToolOutput)
  BY <1>1
<1> HIDE DEF answer
<1> SUFFICES IsTold(answer) \/
               /\ answer.lines = SubSeq(lines, from, n)
               /\ Len(answer.lines) < answer.end - from + 1 =>
                    answer.lines = SubSeq(lines, from, Len(lines))
  BY <1>10 DEF ReadIsTold, answer, n
<1>8. CASE JoinedLength(selected) > MaxToolOutput
  BY <1>8, <1>10 DEF IsTold
<1>9. CASE ~ (JoinedLength(selected) > MaxToolOutput)
  <2>1. Cut(selected) = selected
    <3>1. JoinedLength(selected) \in Nat /\ MaxToolOutput \in Nat
      BY <1>5, JoinedIsNat, AnswerAssumption
    <3>2. JoinedLength(selected) <= MaxToolOutput
      BY <1>9, <3>1
    <3> QED
      BY <1>5, <3>2, CutLines
  <2> QED
    BY <1>5, <1>7, <1>10, <2>1
<1> QED
  BY <1>8, <1>9

\* An agent that searches is told of matches that are left out, by either way of
\* searching, however many there are and however long they are.
THEOREM SearchesAreTold ==
  \A found \in Seq(Nat), max \in Nat \ {0}, ripgrep \in BOOLEAN :
    SearchIsTold(found, max, ripgrep)
<1> SUFFICES ASSUME NEW found \in Seq(Nat), NEW max \in Nat \ {0}, NEW ripgrep \in BOOLEAN,
                    SearchText(found, max, ripgrep).lines # found
             PROVE  IsTold(SearchText(found, max, ripgrep))
  BY DEF SearchIsTold
<1> DEFINE lines == IF ripgrep THEN found ELSE Fallback(found, max)
           shown == FirstOf(lines, max)
           output == Cut(shown)
<1>1. SearchText(found, max, ripgrep) = [lines |-> output, truncated |-> Len(lines) > Len(output)]
  BY DEF SearchText
<1>2. /\ lines \in Seq(Nat) /\ Len(lines) \in Nat
      /\ lines # found => Len(lines) = max + 1
  <2>1. CASE ripgrep
    BY <2>1
  <2>2. CASE ~ ripgrep
    <3>1. lines = FirstOf(found, max + 1) /\ max + 1 \in Nat
      BY <2>2 DEF Fallback
    <3> HIDE DEF lines
    <3>2. /\ lines \in Seq(Nat)
          /\ Len(lines) = IF max + 1 < Len(found) THEN max + 1 ELSE Len(found)
          /\ max + 1 >= Len(found) => lines = found
      BY <3>1, FirstOfLines
    <3> QED
      BY <3>1, <3>2
  <2> QED
    BY <2>1, <2>2
<1> HIDE DEF lines
<1>3. /\ shown \in Seq(Nat) /\ Len(shown) \in Nat /\ Len(shown) <= Len(lines)
      /\ Len(lines) > max => Len(shown) < Len(lines)
      /\ Len(lines) <= max => shown = lines
  BY <1>2, FirstOfLines
<1> HIDE DEF shown
<1>4. /\ output # shown =>
           Len(output) < Len(shown) \/ JoinedLength(output) = MaxToolOutput
      /\ Len(output) <= Len(shown)
  BY <1>3, CutLines
<1>5. output # found
  BY <1>1
<1> SUFFICES Len(lines) > Len(output) \/ Envelope + JoinedLength(output) > MaxToolOutput
  <2> HIDE DEF output
  <2>1. /\ SearchText(found, max, ripgrep).lines = output
        /\ SearchText(found, max, ripgrep).truncated = (Len(lines) > Len(output))
    BY <1>1
  <2> QED
    BY <2>1 DEF IsTold
<1>6. CASE output = shown
  BY <1>2, <1>3, <1>5, <1>6
<1>7. CASE output # shown
  <2> HIDE DEF output
  <2>1. CASE JoinedLength(output) = MaxToolOutput
    BY <2>1, AnswerAssumption
  <2>2. CASE Len(output) < Len(shown)
    BY <1>2, <1>3, <2>2
  <2> QED
    BY <1>4, <1>7, <2>1, <2>2
<1> QED
  BY <1>6, <1>7

-----------------------------------------------------------------------------
(* The properties of the runs *)

\* A sequence of at most n elements is a sequence.
LEMMA BoundedIsSeq ==
  ASSUME NEW S, NEW n \in Nat
  PROVE  BoundedSeq(S, n) \subseteq Seq(S)
BY DEF BoundedSeq, SeqOf

\* An answer of a tool never exceeds its limit, and there is a preview of one that does
\* not fit.
THEOREM AnswersBounded == Spec => []AnswersAreBounded
<1>1. Bounded
  <2>1. Encoded \subseteq Seq(1 .. 2)
    BY BoundedIsSeq, AnswerAssumption DEF Encoded
  <2> QED
    BY <2>1, AnswersKeepLimit DEF Bounded
<1>2. AnswersAreBounded
  BY <1>1 DEF AnswersAreBounded
<1> QED
  BY <1>2, PTL

\* An agent is told of what a tool leaves out of its answer, and of a read, to which line
\* it goes.
THEOREM OmissionsTold == Spec => []OmissionsAreTold
<1>1. Told
  <2>1. Lines \subseteq Seq(Nat)
    <3>1. LineLengths \subseteq Nat /\ MaxLines \in Nat
      BY AnswerAssumption
    <3>2. ASSUME NEW lines \in Lines PROVE lines \in Seq(Nat)
      <4>1. PICK n \in 0 .. MaxLines : lines \in [1 .. n -> LineLengths]
        BY DEF Lines, BoundedSeq, SeqOf
      <4>2. lines \in [1 .. n -> Nat] /\ n \in Nat
        <5>1. /\ DOMAIN lines = 1 .. n /\ lines = [i \in 1 .. n |-> lines[i]]
              /\ \A i \in 1 .. n : lines[i] \in Nat
          BY <3>1, <4>1
        <5> QED
          BY <3>1, <5>1
      <4> QED
        BY <4>2
    <3> QED
      BY <3>2
  <2>2. \A max \in 1 .. MaxLines : max \in Nat \ {0}
    BY AnswerAssumption
  <2>4. 1 .. MaxLines \subseteq Nat \ {0}
    BY AnswerAssumption
  <2>3. \A count \in 0 .. MaxLines, max \in 1 .. MaxLines : ListIsTold(count, max)
    <3> SUFFICES ASSUME NEW count \in 0 .. MaxLines, NEW max \in 1 .. MaxLines
                 PROVE  ListIsTold(count, max)
      OBVIOUS
    <3>1. count \in Nat /\ max \in Nat
      BY AnswerAssumption
    <3>2. ListFiles(count, max).shown < count => count >= max
      BY <3>1 DEF ListFiles
    <3> QED
      BY <3>2 DEF ListIsTold, ListFiles
  <2> QED
    BY <2>1, <2>2, <2>3, <2>4, ReadsAreTold, SearchesAreTold DEF Told
<1>2. OmissionsAreTold
  BY <1>1 DEF OmissionsAreTold
<1> QED
  BY <1>2, PTL
=============================================================================
