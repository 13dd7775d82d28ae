-------------------------- MODULE StripControlProofs --------------------------
(***************************************************************************)
(* What stripControl guarantees for every text, not only the short ones    *)
(* TLC enumerates.                                                         *)
(***************************************************************************)
EXTENDS StripControl, WellFoundedInduction, TLAPS

(* The order of the naturals as a set of pairs. *)
Less == {ss \in Nat \X Nat : ss[1] < ss[2]}

(* A nonempty set of naturals has a least element, which First denotes. *)
LEMMA Least ==
    ASSUME NEW S \in SUBSET Nat, S # {}
    PROVE  First(S) \in S /\ \A k \in S : First(S) <= k
<1>1. IsWellFoundedOn(Less, Nat)
  BY NatLessThanWellFounded DEF OpToRel, Less
<1>2. \E x \in S : \A y \in S : ~ (<<y, x>> \in Less)
  BY <1>1, WFMin, Zenon
<1>3. \E x \in S : \A y \in S : ~ (y < x)
  BY <1>2 DEF Less
<1>4. \E x \in S : \A y \in S : x <= y
  BY <1>3
<1> QED
  BY <1>4 DEF First

(* skipANSI returns the end of the escape sequence that starts at p. *)
LEMMA SkipSpans ==
    ASSUME NEW t \in Seq(Classes), NEW p \in 1..Len(t), t[p] = "esc"
    PROVE  /\ skipANSI(t, p) \in p..Len(t)
           /\ IsSequence(t, p, skipANSI(t, p))
<1>. DEFINE F == Finals(t, p)
<1>1. CASE p + 1 > Len(t)
  BY <1>1 DEF skipANSI, IsSequence
<1>2. CASE p + 1 <= Len(t) /\ t[p + 1] # "bracket"
  BY <1>2 DEF skipANSI, IsSequence
<1>3. CASE p + 1 <= Len(t) /\ t[p + 1] = "bracket" /\ F = {}
  <2>1. skipANSI(t, p) = Len(t)
    BY <1>3 DEF skipANSI
  <2>2. \A j \in (p + 2)..(Len(t) - 1) : ~ Final(t[j])
    BY <1>3 DEF Finals
  <2> QED
    BY <1>3, <2>1, <2>2 DEF IsSequence
<1>4. CASE p + 1 <= Len(t) /\ t[p + 1] = "bracket" /\ F # {}
  <2>1. skipANSI(t, p) = First(F)
    BY <1>4 DEF skipANSI
  <2>2. F \in SUBSET Nat
    BY DEF Finals
  <2>3. First(F) \in F /\ \A k \in F : First(F) <= k
    BY <1>4, <2>2, Least
  <2>4. First(F) \in (p + 2)..Len(t) /\ Final(t[First(F)])
    BY <2>3 DEF Finals
  <2>5. \A j \in (p + 2)..(First(F) - 1) : ~ Final(t[j])
    BY <2>3, <2>4 DEF Finals
  <2> QED
    BY <1>4, <2>1, <2>4, <2>5 DEF IsSequence
<1> QED
  BY <1>1, <1>2, <1>3, <1>4

LEMMA InputIsText == ASSUME s \in Inputs PROVE s \in Seq(Classes)
  BY InputsAssumption

-----------------------------------------------------------------------------
(* The loop stays inside the text. *)
LEMMA StepTypeOK == ASSUME TypeOK, [Next]_vars PROVE TypeOK'
<1>. USE DEF TypeOK
<1>. s \in Seq(Classes) /\ Len(s) \in Nat
  BY InputIsText
<1>1. CASE Escape
  <2>1. skipANSI(s, i) \in i..Len(s)
    BY <1>1, SkipSpans DEF Escape
  <2> QED
    BY <1>1, <2>1 DEF Escape
<1>2. CASE Control
  <2>1. s' = s /\ i' \in 1..(Len(s) + 1)
    BY <1>2 DEF Control
  <2>2. CASE s[i] = "space"
    BY <1>2, <2>1, <2>2 DEF Control
  <2>3. CASE s[i] # "space"
    BY <1>2, <2>1, <2>3 DEF Control
  <2> QED
    BY <2>2, <2>3
<1>3. CASE Write
  BY <1>3 DEF Write
<1>4. CASE UNCHANGED vars
  BY <1>4 DEF vars
<1> QED
  BY <1>1, <1>2, <1>3, <1>4 DEF Next

(* skipANSI and the loop never read or skip beyond the end of the text.    *)
THEOREM TypeCorrect == Spec => []TypeOK
<1>1. Init => TypeOK
  <2> SUFFICES ASSUME Init PROVE TypeOK
    OBVIOUS
  <2>1. s \in Seq(Classes) /\ Len(s) \in Nat
    BY InputIsText DEF Init
  <2> QED
    BY <2>1 DEF Init, TypeOK
<1>2. TypeOK /\ [Next]_vars => TypeOK'
  BY StepTypeOK
<1> QED
  BY <1>1, <1>2, PTL DEF Spec

-----------------------------------------------------------------------------
(* A written byte goes behind all the others. *)
LEMMA AppendKeepsSafe ==
    ASSUME TypeOK, OutputIsSafeText, i <= Len(s), s[i] \notin {"esc", "ctrl"},
           b' = Append(b, i), i' = i + 1, s' = s
    PROVE  OutputIsSafeText'
<1>. s \in Seq(Classes) /\ b \in Seq(1..Len(s)) /\ i \in Nat /\ Len(b) \in Nat
  BY InputIsText DEF TypeOK
<1>1. DOMAIN b = 1..Len(b) /\ DOMAIN b' = 1..(Len(b) + 1)
  OBVIOUS
<1>2. \A k \in 1..Len(b) : b'[k] = b[k] /\ b[k] \in 1..Len(s)
  OBVIOUS
<1>3. b'[Len(b) + 1] = i
  OBVIOUS
<1>4. \A k \in DOMAIN b' : s'[b'[k]] \notin {"esc", "ctrl"}
  BY <1>1, <1>2, <1>3 DEF OutputIsSafeText
<1>5. ASSUME NEW k \in DOMAIN b'
      PROVE  b'[k] < i' /\ \A m \in 1..(k - 1) : b'[m] < b'[k]
  <2>1. CASE k \in 1..Len(b)
    BY <2>1, <1>1, <1>2 DEF OutputIsSafeText
  <2>2. CASE k = Len(b) + 1
    <3>1. \A m \in 1..Len(b) : b'[m] = b[m] /\ b[m] < i
      BY <1>1, <1>2 DEF OutputIsSafeText
    <3>2. k - 1 = Len(b) /\ b'[k] = i
      BY <2>2, <1>3
    <3>3. \A m \in 1..(k - 1) : b'[m] < b'[k]
      BY <3>1, <3>2
    <3>4. b'[k] < i'
      BY <3>2
    <3> QED
      BY <3>3, <3>4
  <2> QED
    BY <2>1, <2>2, <1>1
<1> QED
  BY <1>4, <1>5 DEF OutputIsSafeText

(* Nothing else touches the builder, and the loop only moves forward. *)
LEMMA SkippingKeepsSafe ==
    ASSUME TypeOK, OutputIsSafeText, UNCHANGED <<s, b>>, i' \in Nat, i <= i'
    PROVE  OutputIsSafeText'
<1>1. \A k \in DOMAIN b : b[k] \in Nat /\ i \in Nat
  BY InputIsText DEF TypeOK
<1> QED
  BY <1>1 DEF OutputIsSafeText

LEMMA StepSafe == ASSUME TypeOK, OutputIsSafeText, [Next]_vars PROVE OutputIsSafeText'
<1>. s \in Seq(Classes) /\ Len(s) \in Nat /\ i \in 1..(Len(s) + 1)
  BY InputIsText DEF TypeOK
<1>1. CASE Escape
  <2>1. skipANSI(s, i) \in i..Len(s)
    BY <1>1, SkipSpans DEF Escape
  <2> QED
    BY <1>1, <2>1, SkippingKeepsSafe DEF Escape
<1>2. CASE Control /\ s[i] = "space"
  BY <1>2, AppendKeepsSafe DEF Control
<1>3. CASE Control /\ s[i] # "space"
  BY <1>3, SkippingKeepsSafe DEF Control
<1>4. CASE Write
  BY <1>4, AppendKeepsSafe DEF Write
<1>5. CASE UNCHANGED vars
  BY <1>5, SkippingKeepsSafe DEF vars
<1> QED
  BY <1>1, <1>2, <1>3, <1>4, <1>5 DEF Next

(* Of no text does a control byte survive, and the bytes that do keep      *)
(* their order.                                                            *)
THEOREM SafeText == Spec => []OutputIsSafeText
<1>1. Init => OutputIsSafeText
  BY DEF Init, OutputIsSafeText
<1>2. TypeOK /\ OutputIsSafeText /\ [Next]_vars => OutputIsSafeText'
  BY StepSafe
<1> QED
  BY <1>1, <1>2, TypeCorrect, PTL DEF Spec

-----------------------------------------------------------------------------
(* The invariant DropsWholeSequences with its witness as a parameter: S    *)
(* divides the first n - 1 bytes of t into escape sequences and the rest,  *)
(* of which all but the control bytes is in K.                             *)
Swallowed(S) == UNION {p[1]..p[2] : p \in S}

Divides(S, t, n, K) ==
    /\ S \subseteq {p \in (1..(n - 1)) \X (1..(n - 1)) : IsSequence(t, p[1], p[2])}
    /\ \A p, q \in S : p # q => p[2] < q[1] \/ q[2] < p[1]
    /\ \A p \in 1..(n - 1) : t[p] = "esc" => p \in Swallowed(S)
    /\ K = {p \in (1..(n - 1)) \ Swallowed(S) : t[p] # "ctrl"}

Kept == {b[k] : k \in DOMAIN b}

LEMMA InSwallowed ==
    ASSUME NEW S, NEW x
    PROVE  x \in Swallowed(S) <=> \E p \in S : x \in p[1]..p[2]
  BY DEF Swallowed

LEMMA DividesIsWhole == DropsWholeSequences <=> \E S : Divides(S, s, i, Kept)
<1>1. ASSUME DropsWholeSequences PROVE \E S : Divides(S, s, i, Kept)
  <2>1. PICK S \in SUBSET {p \in (1..(i - 1)) \X (1..(i - 1)) : IsSequence(s, p[1], p[2])} :
            /\ \A p, q \in S : p # q => p[2] < q[1] \/ q[2] < p[1]
            /\ \A p \in 1..(i - 1) : s[p] = "esc" => p \in Swallowed(S)
            /\ Kept = {p \in (1..(i - 1)) \ Swallowed(S) : s[p] # "ctrl"}
    BY <1>1, Zenon DEF DropsWholeSequences, Swallowed, Kept
  <2> QED
    BY <2>1, Zenon DEF Divides
<1>2. ASSUME NEW S, Divides(S, s, i, Kept) PROVE DropsWholeSequences
  <2>1. S \in SUBSET {p \in (1..(i - 1)) \X (1..(i - 1)) : IsSequence(s, p[1], p[2])}
    BY <1>2, Zenon DEF Divides
  <2> QED
    BY <1>2, <2>1, Zenon DEF Divides, DropsWholeSequences, Swallowed, Kept
<1> QED
  BY <1>1, <1>2

(* A skipped sequence joins the division: it lies behind all the others.   *)
LEMMA SkipDivides ==
    ASSUME NEW t \in Seq(Classes), NEW n \in 1..Len(t), NEW f \in n..Len(t),
           IsSequence(t, n, f), NEW S, NEW K, Divides(S, t, n, K)
    PROVE  Divides(S \cup {<<n, f>>}, t, f + 1, K)
<1>. DEFINE R == S \cup {<<n, f>>}
<1>1. \A p \in S : p[1] \in 1..(n - 1) /\ p[2] \in 1..(n - 1) /\ IsSequence(t, p[1], p[2])
                  /\ p \in Nat \X Nat
  BY DEF Divides
<1>2. Swallowed(R) = Swallowed(S) \cup (n..f)
  <2>1. ASSUME NEW x
        PROVE  (\E p \in R : x \in p[1]..p[2]) <=> (\E p \in S : x \in p[1]..p[2]) \/ x \in n..f
    <3>1. (\E p \in R : x \in p[1]..p[2])
            <=> (\E p \in S : x \in p[1]..p[2]) \/ x \in (<<n, f>>[1])..(<<n, f>>[2])
      BY Zenon
    <3> QED
      BY <3>1
  <2> QED
    BY <2>1, InSwallowed
<1>3. R \subseteq {p \in (1..f) \X (1..f) : IsSequence(t, p[1], p[2])}
  <2>1. S \subseteq {p \in (1..f) \X (1..f) : IsSequence(t, p[1], p[2])}
    BY DEF Divides
  <2>2. <<n, f>> \in {p \in (1..f) \X (1..f) : IsSequence(t, p[1], p[2])}
    OBVIOUS
  <2> QED
    BY <2>1, <2>2
<1>4. \A p, q \in R : p # q => p[2] < q[1] \/ q[2] < p[1]
  BY <1>1 DEF Divides
<1>5. 1..(n - 1) = (1..f) \ (n..f)
  OBVIOUS
<1>6. \A p \in 1..f : t[p] = "esc" => p \in Swallowed(R)
  BY <1>2, <1>5 DEF Divides
<1>7. (1..f) \ Swallowed(R) = (1..(n - 1)) \ Swallowed(S)
  <2> HIDE DEF R
  <2> QED
    BY <1>2, <1>5, Zenon
<1>8. K = {p \in (1..f) \ Swallowed(R) : t[p] # "ctrl"}
  BY <1>7 DEF Divides
<1>9. (f + 1) - 1 = f
  OBVIOUS
<1> QED
  BY <1>3, <1>4, <1>6, <1>8, <1>9 DEF Divides

(* A byte that is no ESC belongs to the rest, and is kept unless it is a   *)
(* control byte.                                                           *)
LEMMA ByteDivides ==
    ASSUME NEW t \in Seq(Classes), NEW n \in 1..Len(t), t[n] # "esc",
           NEW S, NEW K, Divides(S, t, n, K)
    PROVE  Divides(S, t, n + 1, IF t[n] = "ctrl" THEN K ELSE K \cup {n})
<1>1. \A p \in S : p[2] < n
  BY DEF Divides
<1>2. n \notin Swallowed(S)
  BY <1>1 DEF Swallowed, Divides
<1>3. (n + 1) - 1 = n /\ 1..n = (1..(n - 1)) \cup {n}
  OBVIOUS
<1>4. S \subseteq {p \in (1..n) \X (1..n) : IsSequence(t, p[1], p[2])}
  BY DEF Divides
<1>5. \A p \in 1..n : t[p] = "esc" => p \in Swallowed(S)
  BY <1>3 DEF Divides
<1>6. (1..n) \ Swallowed(S) = ((1..(n - 1)) \ Swallowed(S)) \cup {n}
  BY <1>2, <1>3
<1>7. (IF t[n] = "ctrl" THEN K ELSE K \cup {n})
        = {p \in (1..n) \ Swallowed(S) : t[p] # "ctrl"}
  BY <1>6 DEF Divides
<1> QED
  BY <1>3, <1>4, <1>5, <1>7 DEF Divides

(* What Append does to the set of positions kept.                          *)
LEMMA AppendKeeps == ASSUME TypeOK, b' = Append(b, i) PROVE Kept' = Kept \cup {i}
<1>1. b \in Seq(Nat) /\ Len(b) \in Nat /\ DOMAIN b = 1..Len(b)
  BY InputIsText DEF TypeOK
<1>2. DOMAIN b' = DOMAIN b \cup {Len(b) + 1} /\ b'[Len(b) + 1] = i
  BY <1>1
<1>3. \A k \in DOMAIN b : b'[k] = b[k]
  BY <1>1
<1> QED
  BY <1>2, <1>3 DEF Kept

LEMMA StepWhole ==
    ASSUME TypeOK, DropsWholeSequences, [Next]_vars PROVE DropsWholeSequences'
<1>. s \in Seq(Classes) /\ Len(s) \in Nat /\ i \in 1..(Len(s) + 1)
  BY InputIsText DEF TypeOK
<1>1. PICK S : Divides(S, s, i, Kept)
  BY DividesIsWhole
<1>2. ASSUME NEW R, Divides(R, s', i', Kept') PROVE DropsWholeSequences'
  <2>1. R \in SUBSET {p \in (1..(i' - 1)) \X (1..(i' - 1)) : IsSequence(s', p[1], p[2])}
    BY <1>2, Zenon DEF Divides
  <2> QED
    BY <1>2, <2>1, Zenon DEF Divides, DropsWholeSequences, Swallowed, Kept
<1>3. CASE Escape
  <2>. DEFINE f == skipANSI(s, i)
  <2>1. i \in 1..Len(s) /\ f \in i..Len(s) /\ IsSequence(s, i, f)
    BY <1>3, SkipSpans DEF Escape
  <2>2. s' = s /\ i' = f + 1 /\ Kept' = Kept
    BY <1>3 DEF Escape, Kept
  <2>3. Divides(S \cup {<<i, f>>}, s, f + 1, Kept)
    BY <1>1, <2>1, SkipDivides
  <2> QED
    BY <1>2, <2>2, <2>3
<1>4. CASE Control \/ Write
  <2>1. /\ s' = s /\ i' = i + 1 /\ i \in 1..Len(s) /\ s[i] # "esc"
        /\ s[i] = "ctrl" => b' = b
        /\ s[i] # "ctrl" => b' = Append(b, i)
    BY <1>4 DEF Control, Write
  <2>2. Kept' = IF s[i] = "ctrl" THEN Kept ELSE Kept \cup {i}
    BY <2>1, AppendKeeps DEF Kept
  <2>3. Divides(S, s, i + 1, IF s[i] = "ctrl" THEN Kept ELSE Kept \cup {i})
    BY <1>1, <2>1, ByteDivides
  <2> QED
    BY <1>2, <2>1, <2>2, <2>3
<1>5. CASE UNCHANGED vars
  BY <1>1, <1>2, <1>5 DEF vars, Kept
<1> QED
  BY <1>3, <1>4, <1>5 DEF Next

(* Every escape sequence of a text is dropped to its last byte, and the    *)
(* text around the sequences is kept to the last byte but control bytes.   *)
THEOREM WholeSequences == Spec => []DropsWholeSequences
<1>1. Init => DropsWholeSequences
  <2> SUFFICES ASSUME Init PROVE Divides({}, s, i, Kept)
    BY DividesIsWhole
  <2>1. i - 1 = 0 /\ 1..0 = {} /\ Kept = {}
    BY DEF Init, Kept
  <2> QED
    BY <2>1 DEF Divides, Swallowed
<1>2. TypeOK /\ DropsWholeSequences /\ [Next]_vars => DropsWholeSequences'
  BY StepWhole
<1> QED
  BY <1>1, <1>2, TypeCorrect, PTL DEF Spec

-----------------------------------------------------------------------------
(* Whatever byte it meets, the loop goes on behind it and stops no later   *)
(* than behind the last one: what of Terminates needs no fairness.         *)
THEOREM Advances == Spec => [][i' > i /\ i' <= Len(s) + 1]_vars
<1>1. TypeOK /\ [Next]_vars => [i' > i /\ i' <= Len(s) + 1]_vars
  <2> SUFFICES ASSUME TypeOK, Next PROVE i' > i /\ i' <= Len(s) + 1
    BY DEF vars
  <2>. s \in Seq(Classes) /\ Len(s) \in Nat /\ i \in 1..(Len(s) + 1)
    BY InputIsText DEF TypeOK
  <2>1. CASE Escape
    <3>1. skipANSI(s, i) \in i..Len(s)
      BY <2>1, SkipSpans DEF Escape
    <3> QED
      BY <2>1, <3>1 DEF Escape
  <2>2. CASE Control \/ Write
    BY <2>2 DEF Control, Write
  <2> QED
    BY <2>1, <2>2 DEF Next
<1> QED
  BY <1>1, TypeCorrect, PTL DEF Spec
=============================================================================
