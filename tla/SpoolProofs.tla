---------------------------- MODULE SpoolProofs ----------------------------
(***************************************************************************)
(* Theorems about Spool and Chunker for every length of frames, of the     *)
(* silence, the pre-roll, the turns and the channel, and any number of     *)
(* frames, pauses, lost streams and failures.                              *)
(*                                                                         *)
(* First come induction and the sums of sequences of frames, then what one *)
(* call of the chunker does, then the inductive invariant of the spool:    *)
(* the frames it holds and the frames it stored are those that were said,  *)
(* in order and without gaps, and little speech was lost before the next   *)
(* frame it may lose.                                                      *)
(***************************************************************************)
EXTENDS Spool, WellFoundedInduction, TLAPS

-----------------------------------------------------------------------------
(* Sums *)

(* Induction up to n, for a set in the place of a predicate: the least     *)
(* number outside of it would have its predecessor in it.                  *)
LEMMA Climb ==
  ASSUME NEW n \in Nat, NEW S, 0 \in S, \A i \in 1 .. n : i - 1 \in S => i \in S
  PROVE  0 .. n \subseteq S
<1> DEFINE R   == {p \in Nat \X Nat : p[1] < p[2]}
           bad == {i \in 0 .. n : i \notin S}
<1> SUFFICES ASSUME bad # {} PROVE FALSE  OBVIOUS
<1>1. IsWellFoundedOn(R, Nat)  BY NatLessThanWellFounded DEF OpToRel
<1>2. ASSUME NEW x \in Nat, NEW y \in Nat, y < x
      PROVE  <<y, x>> \in R
  <2>1. <<y, x>> \in Nat \X Nat /\ <<y, x>>[1] = y /\ <<y, x>>[2] = x  OBVIOUS
  <2> QED  BY <1>2, <2>1
<1>3. bad \in SUBSET Nat  OBVIOUS
<1> HIDE DEF R, bad
<1>4. PICK x \in bad : \A y \in bad : ~(<<y, x>> \in R)  BY <1>1, <1>3, WFMin
<1>5. \A y \in bad : ~(y < x)  BY <1>2, <1>3, <1>4
<1> USE DEF bad
<1>6. x \in 1 .. n /\ x - 1 \in 0 .. n  BY <1>4
<1>7. x - 1 \in S  BY <1>5, <1>6
<1> QED  BY <1>4, <1>6, <1>7

(* Every set of numbers that is not empty has a least one. *)
LEMMA LeastNatural ==
  ASSUME NEW S \in SUBSET Nat, S # {}
  PROVE  \E n \in S : \A m \in S : n <= m
<1> PICK n \in S : TRUE  OBVIOUS
<1> DEFINE above == {k \in Nat : k > n \/ \A m \in S : ~(m <= k)}
<1> SUFFICES ASSUME \A k \in S : \E m \in S : m < k
             PROVE  FALSE
  OBVIOUS
<1>1. 0 \in above
  <2>1. \A m \in S : m > 0  OBVIOUS
  <2> QED  BY <2>1
<1>2. ASSUME NEW i \in 1 .. n, i - 1 \in above
      PROVE  i \in above
  <2>1. \A m \in S : ~(m <= i - 1)  BY <1>2
  <2>2. ASSUME NEW m \in S, m <= i
        PROVE  FALSE
    <3>1. m = i  BY <2>1, <2>2
    <3>2. PICK l \in S : l < m  OBVIOUS
    <3>3. l <= i - 1  BY <3>1, <3>2
    <3> QED  BY <2>1, <3>3
  <2> QED  BY <2>2
<1> HIDE DEF above
<1>3. n \in Nat  OBVIOUS
<1>4. 0 .. n \subseteq above  BY <1>1, <1>2, <1>3, Climb
<1>5. n \in above  BY <1>3, <1>4
<1> QED  BY <1>5 DEF above

(* The sums of a sequence are what the recursion says. *)
LEMMA SumsValue ==
  ASSUME NEW w \in Seq(Nat)
  PROVE  /\ Sums(w) \in [0 .. Len(w) -> Nat]
         /\ Sums(w)[0] = 0
         /\ \A i \in 1 .. Len(w) : Sums(w)[i] = Sums(w)[i - 1] + w[i]
<1> DEFINE N        == Len(w)
           Is(f, n) == f = [i \in 0 .. n |-> IF i = 0 THEN 0 ELSE f[i - 1] + w[i]]
           good     == {n \in 0 .. N : \E f \in [0 .. n -> Nat] : Is(f, n)}
<1>1. N \in Nat /\ \A i \in 1 .. N : w[i] \in Nat  OBVIOUS
<1> HIDE DEF N
<1>2. 0 \in good
  <2> DEFINE f == [i \in 0 .. 0 |-> 0]
  <2>1. f \in [0 .. 0 -> Nat] /\ Is(f, 0)  OBVIOUS
  <2>2. 0 \in 0 .. N  BY <1>1
  <2> HIDE DEF f, Is
  <2> QED  BY <2>1, <2>2
<1>3. ASSUME NEW n \in 1 .. N, n - 1 \in good
      PROVE  n \in good
  <2>1. PICK f \in [0 .. n - 1 -> Nat] : Is(f, n - 1)  BY <1>3
  <2> DEFINE g == [i \in 0 .. n |-> IF i = n THEN f[n - 1] + w[n] ELSE f[i]]
  <2>2. f[n - 1] \in Nat  BY <1>1
  <2>3. g \in [0 .. n -> Nat]  BY <1>1, <2>2
  <2>4. ASSUME NEW i \in 0 .. n
        PROVE  g[i] = IF i = 0 THEN 0 ELSE g[i - 1] + w[i]
    <3>1. CASE i = n  BY <1>1, <3>1
    <3>2. CASE i # n
      <4>1. i \in 0 .. n - 1  BY <1>1, <3>2
      <4>2. f[i] = IF i = 0 THEN 0 ELSE f[i - 1] + w[i]  BY <2>1, <4>1
      <4>3. g[i] = f[i] /\ (i # 0 => i - 1 \in 0 .. n /\ i - 1 # n)  BY <1>1, <3>2, <4>1
      <4>4. i # 0 => g[i - 1] = f[i - 1]  BY <4>3
      <4> QED  BY <4>2, <4>3, <4>4
    <3> QED  BY <3>1, <3>2
  <2>5. Is(g, n)
    <3> HIDE DEF g
    <3> QED  BY <2>3, <2>4
  <2>6. n \in 0 .. N  BY <1>1
  <2> HIDE DEF g, Is
  <2> QED  BY <2>3, <2>5, <2>6
<1>4. N \in good
  <2> HIDE DEF good
  <2>1. 0 .. N \subseteq good  BY <1>1, <1>2, <1>3, Climb
  <2> QED  BY <1>1, <2>1
<1>5. PICK f \in [0 .. N -> Nat] : Is(f, N)  BY <1>4
<1> DEFINE S == Sums(w)
<1>6. S = CHOOSE s : Is(s, N)  BY DEF Sums, N
<1> HIDE DEF S
<1>7. Is(S, N)  BY <1>5, <1>6, Zenon
<1>8. /\ DOMAIN S = 0 .. N /\ S[0] = 0
      /\ \A i \in 1 .. N : S[i] = S[i - 1] + w[i]
  BY <1>1, <1>7
<1>9. \A i \in 0 .. N : S[i] \in Nat
  <2> DEFINE natural == {i \in 0 .. N : S[i] \in Nat}
  <2>1. 0 \in natural  BY <1>1, <1>8
  <2>2. ASSUME NEW i \in 1 .. N, i - 1 \in natural
        PROVE  i \in natural
    <3>1. S[i - 1] \in Nat /\ i \in 0 .. N  BY <1>1, <2>2
    <3>2. S[i] = S[i - 1] + w[i] /\ w[i] \in Nat  BY <1>1, <1>8
    <3> QED  BY <3>1, <3>2
  <2> HIDE DEF natural
  <2>3. 0 .. N \subseteq natural  BY <1>1, <2>1, <2>2, Climb
  <2> QED  BY <2>3 DEF natural
<1>10. S \in [0 .. N -> Nat]  BY <1>7, <1>9
<1> QED  BY <1>8, <1>10 DEF S, N

(* Where two sequences agree, their sums differ by a constant. *)
LEMMA SumsAgree ==
  ASSUME NEW v \in Seq(Nat), NEW w \in Seq(Nat), NEW n \in 0 .. Len(v), NEW k \in Nat,
         k + n <= Len(w), \A i \in 1 .. n : v[i] = w[k + i]
  PROVE  \A i \in 0 .. n : Sums(w)[k + i] = Sums(w)[k] + Sums(v)[i]
<1> DEFINE good == {i \in 0 .. n : Sums(w)[k + i] = Sums(w)[k] + Sums(v)[i]}
<1>1. /\ \A j \in 0 .. Len(w) : Sums(w)[j] \in Nat
      /\ \A j \in 0 .. Len(v) : Sums(v)[j] \in Nat
      /\ Sums(v)[0] = 0
  BY SumsValue
<1>2. k \in 0 .. Len(w) /\ n \in Nat /\ Len(v) \in Nat  OBVIOUS
<1>3. 0 \in good  BY <1>1, <1>2
<1>4. ASSUME NEW i \in 1 .. n, i - 1 \in good
      PROVE  i \in good
  <2>1. /\ k + i \in 1 .. Len(w) /\ i \in 1 .. Len(v) /\ k + (i - 1) = (k + i) - 1
        /\ i - 1 \in 0 .. Len(v)
    BY <1>2
  <2>2. Sums(v)[i] = Sums(v)[i - 1] + v[i]  BY <2>1, SumsValue
  <2>3. Sums(w)[k + i] = Sums(w)[k + (i - 1)] + w[k + i]
    <3>1. Sums(w)[k + i] = Sums(w)[(k + i) - 1] + w[k + i]
      <4> DEFINE a == k + i
      <4>1. a \in 1 .. Len(w)  BY <2>1
      <4> HIDE DEF a
      <4>2. Sums(w)[a] = Sums(w)[a - 1] + w[a]  BY <4>1, SumsValue
      <4> QED  BY <4>2 DEF a
    <3> QED  BY <2>1, <3>1
  <2>4. v[i] = w[k + i] /\ v[i] \in Nat  BY <2>1
  <2>5. Sums(w)[k + (i - 1)] = Sums(w)[k] + Sums(v)[i - 1]  BY <1>4
  <2>6. Sums(w)[k] \in Nat /\ Sums(v)[i - 1] \in Nat /\ i \in 0 .. n  BY <1>1, <1>2, <2>1
  <2>7. Sums(w)[k + i] = Sums(w)[k] + Sums(v)[i]
    <3> DEFINE a == Sums(w)[k]
               b == Sums(v)[i - 1]
               x == v[i]
    <3>1. /\ a \in Nat /\ b \in Nat /\ x \in Nat
          /\ Sums(v)[i] = b + x /\ Sums(w)[k + i] = (a + b) + x
      BY <2>2, <2>3, <2>4, <2>5, <2>6
    <3> HIDE DEF a, b, x
    <3>2. (a + b) + x = a + (b + x)  BY <3>1
    <3>3. Sums(w)[k + i] = a + Sums(v)[i]  BY <3>1, <3>2
    <3> QED  BY <3>3 DEF a
  <2> QED  BY <2>6, <2>7
<1> HIDE DEF good
<1>5. 0 .. n \subseteq good  BY <1>2, <1>3, <1>4, Climb
<1> QED  BY <1>5 DEF good

(* Sums grow. *)
LEMMA SumsGrow ==
  ASSUME NEW w \in Seq(Nat), NEW i \in 0 .. Len(w), NEW j \in i .. Len(w)
  PROVE  Sums(w)[i] <= Sums(w)[j]
<1> DEFINE good == {m \in 0 .. Len(w) - i : Sums(w)[i] <= Sums(w)[i + m]}
<1>1. \A l \in 0 .. Len(w) : Sums(w)[l] \in Nat  BY SumsValue
<1>2. 0 \in good  BY <1>1
<1>3. ASSUME NEW m \in 1 .. Len(w) - i, m - 1 \in good
      PROVE  m \in good
  <2>1. i + m \in 1 .. Len(w) /\ (i + m) - 1 = i + (m - 1) /\ i + (m - 1) \in 0 .. Len(w)
    OBVIOUS
  <2>2. Sums(w)[i + m] = Sums(w)[i + (m - 1)] + w[i + m]  BY <2>1, SumsValue
  <2>3. w[i + m] \in Nat  BY <2>1
  <2>4. Sums(w)[i] <= Sums(w)[i + (m - 1)]  BY <1>3
  <2>5. Sums(w)[i] \in Nat /\ Sums(w)[i + (m - 1)] \in Nat  BY <1>1, <2>1
  <2>6. Sums(w)[i] <= Sums(w)[i + m]  BY <2>2, <2>3, <2>4, <2>5
  <2> QED  BY <2>6
<1> HIDE DEF good
<1>4. Len(w) - i \in Nat  OBVIOUS
<1>5. 0 .. Len(w) - i \subseteq good  BY <1>2, <1>3, <1>4, Climb
<1>6. j - i \in good /\ i + (j - i) = j  BY <1>5
<1> QED  BY <1>6 DEF good

(* Where the speech of a turn ends, without the silence. *)
Voiced(q) == Sums([i \in 1 .. Len(q) |-> IF q[i].speech THEN q[i].len ELSE 0])

(* The types of what is in a frame. *)
LEMMA FrameParts ==
  ASSUME NEW f \in Frames
  PROVE  f.len \in Nat /\ f.len > 0 /\ f.speech \in BOOLEAN /\ f.id \in 1 .. MaxFrames
BY DEF Frames

(* What a sequence of frames sums up to. *)
LEMMA EndsValue ==
  ASSUME NEW q \in Seq(Frames)
  PROVE  /\ Ends(q)[0] = 0 /\ Voiced(q)[0] = 0
         /\ \A i \in 0 .. Len(q) : Ends(q)[i] \in Nat /\ Voiced(q)[i] \in Nat
         /\ \A i \in 1 .. Len(q) :
              /\ Ends(q)[i] = Ends(q)[i - 1] + q[i].len
              /\ Voiced(q)[i] = Voiced(q)[i - 1] + (IF q[i].speech THEN q[i].len ELSE 0)
         /\ \A i \in 0 .. Len(q) : \A j \in i .. Len(q) :
              Ends(q)[i] <= Ends(q)[j] /\ Voiced(q)[i] <= Voiced(q)[j]
<1> DEFINE v == [i \in 1 .. Len(q) |-> q[i].len]
           w == [i \in 1 .. Len(q) |-> IF q[i].speech THEN q[i].len ELSE 0]
<1>1. \A i \in 1 .. Len(q) : q[i].len \in Nat  BY FrameParts
<1>2. v \in Seq(Nat) /\ w \in Seq(Nat) /\ Len(v) = Len(q) /\ Len(w) = Len(q)  BY <1>1
<1>3. \A i \in 1 .. Len(q) : /\ v[i] = q[i].len
                             /\ w[i] = IF q[i].speech THEN q[i].len ELSE 0
  OBVIOUS
<1>4. Ends(q) = Sums(v) /\ Voiced(q) = Sums(w)  BY DEF Ends, Voiced
<1> HIDE DEF v, w
<1>5. /\ \A i \in 0 .. Len(v) : \A j \in i .. Len(v) : Sums(v)[i] <= Sums(v)[j]
      /\ \A i \in 0 .. Len(w) : \A j \in i .. Len(w) : Sums(w)[i] <= Sums(w)[j]
  BY <1>2, SumsGrow
<1>6. /\ Sums(v) \in [0 .. Len(v) -> Nat] /\ Sums(v)[0] = 0
      /\ \A i \in 1 .. Len(v) : Sums(v)[i] = Sums(v)[i - 1] + v[i]
  BY <1>2, SumsValue
<1>7. /\ Sums(w) \in [0 .. Len(w) -> Nat] /\ Sums(w)[0] = 0
      /\ \A i \in 1 .. Len(w) : Sums(w)[i] = Sums(w)[i - 1] + w[i]
  BY <1>2, SumsValue
<1> QED  BY <1>2, <1>3, <1>4, <1>5, <1>6, <1>7

(* Where two sequences of frames agree, so do their sums. *)
LEMMA EndsAgree ==
  ASSUME NEW p \in Seq(Frames), NEW q \in Seq(Frames), NEW n \in 0 .. Len(p), NEW k \in Nat,
         k + n <= Len(q), \A i \in 1 .. n : p[i] = q[k + i]
  PROVE  \A i \in 0 .. n : /\ Ends(q)[k + i] = Ends(q)[k] + Ends(p)[i]
                           /\ Voiced(q)[k + i] = Voiced(q)[k] + Voiced(p)[i]
<1> DEFINE lens(s)  == [i \in 1 .. Len(s) |-> s[i].len]
           parts(s) == [i \in 1 .. Len(s) |-> IF s[i].speech THEN s[i].len ELSE 0]
<1>1. \A s \in Seq(Frames) : \A i \in 1 .. Len(s) : s[i].len \in Nat  BY FrameParts
<1>2. \A s \in Seq(Frames) : /\ lens(s) \in Seq(Nat) /\ Len(lens(s)) = Len(s)
                             /\ parts(s) \in Seq(Nat) /\ Len(parts(s)) = Len(s)
  BY <1>1
<1>3. \A i \in 1 .. n : lens(p)[i] = lens(q)[k + i] /\ parts(p)[i] = parts(q)[k + i]
  <2> SUFFICES ASSUME NEW i \in 1 .. n
               PROVE  lens(p)[i] = lens(q)[k + i] /\ parts(p)[i] = parts(q)[k + i]
    OBVIOUS
  <2>1. i \in 1 .. Len(p) /\ k + i \in 1 .. Len(q) /\ p[i] = q[k + i]  OBVIOUS
  <2> QED  BY <2>1
<1>4. \A s : Ends(s) = Sums(lens(s)) /\ Voiced(s) = Sums(parts(s))  BY DEF Ends, Voiced
<1> HIDE DEF lens, parts
<1>5. \A i \in 0 .. n : Sums(lens(q))[k + i] = Sums(lens(q))[k] + Sums(lens(p))[i]
  <2>1. /\ lens(p) \in Seq(Nat) /\ lens(q) \in Seq(Nat) /\ n \in 0 .. Len(lens(p))
        /\ k + n <= Len(lens(q)) /\ \A i \in 1 .. n : lens(p)[i] = lens(q)[k + i]
    BY <1>2, <1>3
  <2> QED  BY <2>1, SumsAgree
<1>6. \A i \in 0 .. n : Sums(parts(q))[k + i] = Sums(parts(q))[k] + Sums(parts(p))[i]
  <2>1. /\ parts(p) \in Seq(Nat) /\ parts(q) \in Seq(Nat) /\ n \in 0 .. Len(parts(p))
        /\ k + n <= Len(parts(q)) /\ \A i \in 1 .. n : parts(p)[i] = parts(q)[k + i]
    BY <1>2, <1>3
  <2> QED  BY <2>1, SumsAgree
<1> QED  BY <1>4, <1>5, <1>6

(* No frames have no length. *)
LEMMA EmptyEnds == Length(<<>>) = 0 /\ SpeechIn(<<>>) = 0
<1>1. <<>> \in Seq(Frames) /\ Len(<<>>) = 0  OBVIOUS
<1>2. Ends(<<>>)[0] = 0 /\ Voiced(<<>>)[0] = 0  BY <1>1, EndsValue
<1> QED  BY <1>1, <1>2 DEF Length, SpeechIn, Voiced

(* One more frame. *)
LEMMA AppendEnds ==
  ASSUME NEW q \in Seq(Frames), NEW f \in Frames
  PROVE  /\ \A i \in 0 .. Len(q) : Ends(Append(q, f))[i] = Ends(q)[i]
         /\ Length(Append(q, f)) = Length(q) + f.len
         /\ SpeechIn(Append(q, f)) = SpeechIn(q) + (IF f.speech THEN f.len ELSE 0)
<1> DEFINE r == Append(q, f)
           n == Len(q)
<1>1. /\ r \in Seq(Frames) /\ Len(r) = n + 1 /\ n \in Nat /\ r[n + 1] = f
      /\ \A i \in 1 .. n : r[i] = q[i]
  OBVIOUS
<1> HIDE DEF r
<1>2. Ends(r)[0] = 0 /\ Voiced(r)[0] = 0  BY <1>1, EndsValue
<1>3. \A i \in 0 .. n : /\ Ends(r)[0 + i] = Ends(r)[0] + Ends(q)[i]
                        /\ Voiced(r)[0 + i] = Voiced(r)[0] + Voiced(q)[i]
  <2>1. n \in 0 .. Len(q) /\ 0 \in Nat /\ 0 + n <= Len(r)  BY <1>1
  <2>2. \A i \in 1 .. n : q[i] = r[0 + i]  BY <1>1
  <2> HIDE DEF n
  <2> QED  BY <1>1, <2>1, <2>2, EndsAgree
<1>4. \A i \in 0 .. n : Ends(r)[i] = Ends(q)[i] /\ Voiced(r)[i] = Voiced(q)[i]
  BY <1>2, <1>3, EndsValue
<1>5. /\ Ends(r)[n + 1] = Ends(r)[n] + f.len
      /\ Voiced(r)[n + 1] = Voiced(r)[n] + (IF f.speech THEN f.len ELSE 0)
  <2>1. n + 1 \in 1 .. Len(r) /\ (n + 1) - 1 = n  BY <1>1
  <2> QED  BY <1>1, <2>1, EndsValue
<1>6. n \in 0 .. n  BY <1>1
<1> QED  BY <1>1, <1>4, <1>5, <1>6 DEF Length, SpeechIn, Voiced, r

(* What is kept for the pre-roll is an end of it, and is short enough. *)
LEMMA RecentEnd ==
  ASSUME NEW q \in Seq(Frames)
  PROVE  \E k \in 1 .. Len(q) + 1 : /\ Recent(q) = SubSeq(q, k, Len(q))
                                    /\ Length(SubSeq(q, k, Len(q))) \in 0 .. PreRoll
<1> DEFINE n    == Len(q)
           fits == {k \in 1 .. n + 1 : Length(q) - Ends(q)[k - 1] <= PreRoll}
<1>1. n \in Nat /\ PreRoll \in Nat  BY CutAssumption
<1>2. \A i \in 0 .. n : Ends(q)[i] \in Nat /\ Ends(q)[i] <= Ends(q)[n]
  <2>1. \A i \in 0 .. n : n \in i .. n  BY <1>1
  <2> QED  BY <2>1, EndsValue
<1>3. n + 1 \in fits
  <2>1. n + 1 \in 1 .. n + 1 /\ (n + 1) - 1 = n /\ n \in 0 .. n  BY <1>1
  <2>2. Length(q) - Ends(q)[n] = 0  BY <1>2, <2>1 DEF Length
  <2> QED  BY <1>1, <2>1, <2>2
<1>4. \E k \in fits : \A j \in fits : k <= j
  <2>1. fits \in SUBSET Nat  BY <1>1
  <2> QED  BY <1>3, <2>1, LeastNatural
<1> HIDE DEF fits
<1>5. PICK k \in fits : Recent(q) = SubSeq(q, k, n)
  <2> DEFINE k == CHOOSE k \in fits : \A j \in fits : k <= j
  <2>1. k \in fits  BY <1>4, Zenon
  <2>2. Recent(q) = SubSeq(q, k, n)  BY DEF Recent, fits
  <2> QED  BY <2>1, <2>2
<1>6. k \in 1 .. n + 1 /\ Length(q) - Ends(q)[k - 1] <= PreRoll  BY <1>5 DEF fits
<1> DEFINE r == SubSeq(q, k, n)
           m == (n + 1) - k
<1>7. /\ r \in Seq(Frames) /\ Len(r) = m /\ m \in Nat
      /\ \A i \in 1 .. m : r[i] = q[(k - 1) + i]
  BY <1>1, <1>6
<1> HIDE DEF r
<1>8. Ends(q)[(k - 1) + m] = Ends(q)[k - 1] + Ends(r)[m]
  <2>1. /\ m \in 0 .. Len(r) /\ k - 1 \in Nat /\ (k - 1) + m <= Len(q) /\ m \in 0 .. m
    BY <1>1, <1>6, <1>7
  <2> QED  BY <1>7, <2>1, EndsAgree
<1>9. (k - 1) + m = n /\ k - 1 \in 0 .. n  BY <1>1, <1>6
<1>10. Ends(r)[m] \in Nat  BY <1>7, EndsValue
<1>11. Length(r) = Length(q) - Ends(q)[k - 1]
  BY <1>2, <1>7, <1>8, <1>9, <1>10 DEF Length
<1>12. Length(r) \in 0 .. PreRoll
  BY <1>1, <1>6, <1>7, <1>10, <1>11 DEF Length
<1> QED  BY <1>5, <1>6, <1>12 DEF r

-----------------------------------------------------------------------------
(* The chunker *)

(* The type of the chunker, as in TypeOK. *)
ChunkerStates ==
  [pre : Seq(Frames), preLen : 0 .. PreRoll, active : Seq(Frames), len : 0 .. MaxTurn - 1,
   started : BOOLEAN, silence : 0 .. Silence - 1, speech : Nat]

(* A turn opens with speech after at most PreRoll samples. *)
Opens(q) == \E i \in 1 .. Len(q) : q[i].speech /\ Ends(q)[i - 1] <= PreRoll

(* No long silence within it, and so much of it at its end. *)
Spaced(q, silence) ==
  \A i \in 1 .. Len(q) : q[i].speech =>
    \/ Length(q) - Ends(q)[i] = silence
    \/ \E j \in 1 .. Len(q) : q[j].speech /\ i < j /\ Ends(q)[j - 1] - Ends(q)[i] < Silence

(* The counters are those of the frames, which are either a turn or silence. *)
Counted(c) ==
  /\ c.preLen = Length(c.pre) /\ c.len = Length(c.active) /\ c.speech = SpeechIn(c.active)
  /\ \A i \in 1 .. Len(c.pre) : ~c.pre[i].speech
  /\ c.started => /\ c.pre = <<>> /\ Opens(c.active) /\ Spaced(c.active, c.silence)
                  /\ c.silence < c.len
  /\ ~c.started => c.active = <<>>

Valid(c) == c \in ChunkerStates /\ Counted(c)

(* The frames of the turn when f is added. *)
Turn(c, f) == Append(IF c.started THEN c.active ELSE c.pre, f)

(* A new chunker counts right. *)
LEMMA FreshValid == Valid(Fresh)
<1>1. <<>> \in Seq(Frames) /\ Len(<<>>) = 0  OBVIOUS
<1>2. Fresh \in ChunkerStates  BY <1>1, CutAssumption DEF Fresh, ChunkerStates
<1> QED  BY <1>1, <1>2, EmptyEnds DEF Valid, Counted, Fresh

(* Silence has no speech. *)
LEMMA SilentSum ==
  ASSUME NEW q \in Seq(Frames), \A i \in 1 .. Len(q) : ~q[i].speech
  PROVE  SpeechIn(q) = 0
<1> DEFINE zero == {i \in 0 .. Len(q) : Voiced(q)[i] = 0}
<1>1. Len(q) \in Nat  OBVIOUS
<1>2. 0 \in zero  BY <1>1, EndsValue
<1>3. ASSUME NEW i \in 1 .. Len(q), i - 1 \in zero
      PROVE  i \in zero
  <2>1. Voiced(q)[i] = Voiced(q)[i - 1] + 0  BY EndsValue
  <2> QED  BY <1>3, <2>1
<1> HIDE DEF zero
<1>4. 0 .. Len(q) \subseteq zero  BY <1>1, <1>2, <1>3, Climb
<1>5. Len(q) \in zero  BY <1>1, <1>4
<1> QED  BY <1>5 DEF zero, SpeechIn, Voiced

(* One more frame of silence, or of speech that ends it. *)
LEMMA SpacedOn ==
  ASSUME NEW q \in Seq(Frames), NEW f \in Frames, NEW silence \in 0 .. Silence - 1,
         Spaced(q, silence)
  PROVE  Spaced(Append(q, f), IF f.speech THEN 0 ELSE silence + f.len)
<1> DEFINE r == Append(q, f)
           n == Len(q)
           s == IF f.speech THEN 0 ELSE silence + f.len
<1>1. /\ Len(r) = n + 1 /\ n \in Nat /\ r[n + 1] = f /\ r \in Seq(Frames)
      /\ \A i \in 1 .. n : r[i] = q[i]
  OBVIOUS
<1>2. /\ \A i \in 0 .. n : Ends(r)[i] = Ends(q)[i]
      /\ Length(r) = Length(q) + f.len
  BY AppendEnds
<1>3. /\ \A i \in 0 .. n : Ends(q)[i] \in Nat
      /\ Length(q) = Ends(q)[n] /\ Length(r) = Ends(r)[n + 1]
  BY <1>1, EndsValue DEF Length
<1>4. f.len \in Nat /\ Silence \in Nat  BY FrameParts, CutAssumption
<1> HIDE DEF r, n
<1> SUFFICES ASSUME NEW i \in 1 .. n + 1, r[i].speech
             PROVE  \/ Length(r) - Ends(r)[i] = s
                    \/ \E j \in 1 .. n + 1 : /\ r[j].speech /\ i < j
                                             /\ Ends(r)[j - 1] - Ends(r)[i] < Silence
  BY <1>1 DEF Spaced, r
<1>5. CASE i = n + 1
  <2>1. f.speech  BY <1>1, <1>5
  <2>2. Length(r) - Ends(r)[i] = 0  BY <1>1, <1>2, <1>3, <1>4, <1>5
  <2> QED  BY <2>1, <2>2
<1>6. CASE i # n + 1
  <2>1. i \in 1 .. n /\ i \in 0 .. n /\ q[i].speech /\ Ends(r)[i] = Ends(q)[i]
    BY <1>1, <1>2, <1>6
  <2>2. CASE Length(q) - Ends(q)[i] = silence
    <3>1. CASE f.speech
      <4>1. n + 1 \in 1 .. n + 1 /\ i < n + 1 /\ (n + 1) - 1 = n /\ n \in 0 .. n
        BY <1>1, <2>1
      <4>2. Ends(r)[n] - Ends(r)[i] < Silence
        <5>1. Ends(r)[n] = Ends(q)[n]  BY <1>2, <4>1
        <5>2. Ends(r)[n] - Ends(r)[i] = silence  BY <1>3, <2>1, <2>2, <5>1
        <5> QED  BY <1>4, <5>2
      <4> QED  BY <1>1, <3>1, <4>1, <4>2
    <3>2. CASE ~f.speech
      <4>1. Length(r) - Ends(r)[i] = silence + f.len
        <5> DEFINE a == Length(q)
                   b == Ends(q)[i]
        <5>1. /\ Length(r) = a + f.len /\ Ends(r)[i] = b /\ a - b = silence
              /\ a \in Nat /\ b \in Nat
          BY <1>1, <1>2, <1>3, <2>1, <2>2
        <5> HIDE DEF a, b
        <5> QED  BY <1>4, <5>1
      <4> QED  BY <3>2, <4>1
    <3> QED  BY <3>1, <3>2
  <2>3. CASE \E j \in 1 .. n : q[j].speech /\ i < j /\ Ends(q)[j - 1] - Ends(q)[i] < Silence
    <3>1. PICK j \in 1 .. n : q[j].speech /\ i < j /\ Ends(q)[j - 1] - Ends(q)[i] < Silence
      BY <2>3
    <3>2. j \in 1 .. n + 1 /\ j - 1 \in 0 .. n /\ r[j].speech  BY <1>1, <3>1
    <3>3. Ends(r)[j - 1] = Ends(q)[j - 1]  BY <1>2, <3>2
    <3> QED  BY <2>1, <3>1, <3>2, <3>3
  <2> QED  BY <2>1, <2>2, <2>3 DEF Spaced, n
<1> QED  BY <1>5, <1>6

(* A turn that has opened stays open, and speech opens one. *)
LEMMA OpensOn ==
  ASSUME NEW q \in Seq(Frames), NEW f \in Frames,
         Opens(q) \/ (f.speech /\ Length(q) <= PreRoll)
  PROVE  Opens(Append(q, f))
<1> DEFINE r == Append(q, f)
           n == Len(q)
<1>1. /\ Len(r) = n + 1 /\ n \in Nat /\ r[n + 1] = f
      /\ \A i \in 1 .. n : r[i] = q[i]
  OBVIOUS
<1>2. \A i \in 0 .. n : Ends(r)[i] = Ends(q)[i]  BY AppendEnds
<1> HIDE DEF r, n
<1>3. CASE Opens(q)
  <2>1. PICK i \in 1 .. n : q[i].speech /\ Ends(q)[i - 1] <= PreRoll  BY <1>3 DEF Opens, n
  <2>2. i \in 1 .. n + 1 /\ i - 1 \in 0 .. n /\ r[i].speech  BY <1>1, <2>1
  <2>3. Ends(r)[i - 1] <= PreRoll  BY <1>2, <2>1, <2>2
  <2> QED  BY <1>1, <2>2, <2>3 DEF Opens, r
<1>4. CASE f.speech /\ Length(q) <= PreRoll
  <2>1. n + 1 \in 1 .. n + 1 /\ (n + 1) - 1 = n /\ n \in 0 .. n  BY <1>1
  <2>2. Ends(r)[n] <= PreRoll  BY <1>2, <1>4, <2>1 DEF Length, n
  <2> QED  BY <1>1, <1>4, <2>1, <2>2 DEF Opens, r
<1> QED  BY <1>3, <1>4

(* A turn is well cut when it is long enough and the silence left at its   *)
(* end is short.                                                           *)
LEMMA CutWell ==
  ASSUME NEW q \in Seq(Frames), NEW silence \in Nat, NEW trim \in Nat,
         Opens(q), Spaced(q, silence), SpeechIn(q) >= MinSpeech, trim <= Length(q),
         silence - trim < Silence, Length(q) - q[Len(q)].len < MaxTurn
  PROVE  WellCut([frames |-> q, len |-> Length(q) - trim])
<1> DEFINE u      == [frames |-> q, len |-> Length(q) - trim]
           spoken == {i \in 1 .. Len(q) : q[i].speech}
<1>1. u.frames = q /\ u.len = Length(q) - trim  OBVIOUS
<1>2. /\ \A i \in 0 .. Len(q) : Ends(q)[i] \in Nat
      /\ Length(q) \in Nat /\ Silence \in Nat /\ MaxTurn \in Nat
  BY EndsValue, CutAssumption DEF Length
<1>3. Len(q) \in 1 .. Len(q) /\ q[Len(q)].len \in Nat
  <2>1. Len(q) >= 1  BY DEF Opens
  <2> QED  BY <2>1, FrameParts
<1> HIDE DEF u
<1>4. \E i \in spoken : Ends(q)[i - 1] <= PreRoll  BY DEF Opens
<1>5. ASSUME NEW i \in spoken
      PROVE  \/ u.len - Ends(q)[i] < Silence
             \/ \E j \in spoken : i < j /\ Ends(q)[j - 1] - Ends(q)[i] < Silence
  <2>1. CASE Length(q) - Ends(q)[i] = silence
    <3>1. Ends(q)[i] \in Nat  BY <1>2
    <3> QED  BY <1>1, <1>2, <2>1, <3>1
  <2>2. CASE \E j \in 1 .. Len(q) : /\ q[j].speech /\ i < j
                                    /\ Ends(q)[j - 1] - Ends(q)[i] < Silence
    BY <2>2
  <2> QED  BY <2>1, <2>2 DEF Spaced
<1>6. u.len - q[Len(q)].len < MaxTurn  BY <1>1, <1>2, <1>3
<1> HIDE DEF spoken
<1>7. WellCut(u)  BY <1>1, <1>4, <1>5, <1>6 DEF WellCut, spoken
<1> QED  BY <1>7 DEF u

(* What finish makes of a turn that ends. *)
Ended(q, result) ==
  /\ result.chunker = Fresh
  /\ \/ result.out = <<>> /\ (q = <<>> \/ SpeechIn(q) < MinSpeech)
     \/ \E u \in [frames : Seq(Frames), len : Nat] :
          u.frames = q /\ WellCut(u) /\ result.out = <<u>>

LEMMA FinishCases ==
  ASSUME NEW c, NEW trim \in Nat, c.active \in Seq(Frames), c.active # <<>>,
         c.len = Length(c.active), c.speech = SpeechIn(c.active), c.silence \in Nat,
         Opens(c.active), Spaced(c.active, c.silence),
         0 < trim => trim < c.len, c.silence - trim < Silence,
         c.len - c.active[Len(c.active)].len < MaxTurn
  PROVE  Ended(c.active, Finish(c, trim))
<1> DEFINE q == c.active
           u == [frames |-> q, len |-> Length(q) - trim]
           n == IF 0 < trim /\ trim < c.len THEN c.len - trim ELSE c.len
<1>1. Length(q) \in Nat /\ Length(q) > 0 /\ SpeechIn(q) \in Nat /\ MinSpeech \in Nat
  <2>1. /\ Len(q) \in 1 .. Len(q) /\ Len(q) \in 0 .. Len(q) /\ q[Len(q)] \in Frames
        /\ Len(q) - 1 \in 0 .. Len(q)
    OBVIOUS
  <2>2. /\ Ends(q)[Len(q)] = Ends(q)[Len(q) - 1] + q[Len(q)].len
        /\ Ends(q)[Len(q) - 1] \in Nat /\ Voiced(q)[Len(q)] \in Nat
    BY <2>1, EndsValue
  <2>3. q[Len(q)].len \in Nat /\ q[Len(q)].len > 0  BY <2>1, FrameParts
  <2>4. Length(q) = Ends(q)[Len(q) - 1] + q[Len(q)].len  BY <2>2 DEF Length
  <2>5. SpeechIn(q) \in Nat  BY <2>2 DEF SpeechIn, Voiced
  <2>6. \A a, b \in Nat : b > 0 => a + b \in Nat /\ a + b > 0  OBVIOUS
  <2>7. Length(q) \in Nat /\ Length(q) > 0  BY <2>2, <2>3, <2>4, <2>6, Zenon
  <2> QED  BY <2>5, <2>7, CutAssumption
<1>2. n = Length(q) - trim /\ n \in Nat /\ n # 0 /\ trim <= Length(q)  BY <1>1
<1>3. CASE SpeechIn(q) < MinSpeech
  <2>1. Finish(c, trim) = Nothing(Fresh)  BY <1>3 DEF Finish
  <2> QED  BY <1>3, <2>1 DEF Ended, Nothing
<1>4. CASE ~(SpeechIn(q) < MinSpeech)
  <2>1. Finish(c, trim) = Utterance(c, n)  BY <1>2, <1>4 DEF Finish
  <2>2. Finish(c, trim).chunker = Fresh /\ Finish(c, trim).out = <<u>>
    BY <1>2, <2>1 DEF Utterance
  <2>3. SpeechIn(q) >= MinSpeech  BY <1>1, <1>4
  <2>4. WellCut(u)  BY <1>2, <2>3, CutWell
  <2>5. u \in [frames : Seq(Frames), len : Nat] /\ u.frames = q  BY <1>2
  <2> HIDE DEF u
  <2> QED  BY <2>2, <2>4, <2>5 DEF Ended
<1> QED  BY <1>3, <1>4

(* What flush makes of the turn that is held, if there is one. *)
LEMMA FlushCases ==
  ASSUME NEW c, Valid(c)
  PROVE  Ended(c.active, Flush(c))
<1>1. /\ c.active \in Seq(Frames) /\ c.len \in 0 .. MaxTurn - 1 /\ c.silence \in 0 .. Silence - 1
      /\ c.len = Length(c.active) /\ c.speech = SpeechIn(c.active)
  BY DEF Valid, Counted, ChunkerStates
<1>2. CASE c.active = <<>>
  <2>1. c.len = 0  BY <1>1, <1>2, EmptyEnds
  <2>2. Flush(c) = Nothing(Fresh)  BY <2>1 DEF Flush, Finish
  <2> QED  BY <1>2, <2>2 DEF Ended, Nothing
<1>3. CASE c.active # <<>>
  <2>1. Opens(c.active) /\ Spaced(c.active, c.silence)
    BY <1>3 DEF Valid, Counted, ChunkerStates
  <2>2. c.active[Len(c.active)].len \in Nat  BY <1>1, <1>3, FrameParts
  <2>3. /\ c.silence \in Nat /\ 0 \in Nat /\ c.silence - 0 < Silence
        /\ c.len - c.active[Len(c.active)].len < MaxTurn
    <3>1. \A a \in 0 .. MaxTurn - 1, x \in Nat : a - x < MaxTurn  BY CutAssumption
    <3>2. \A a \in 0 .. Silence - 1 : a \in Nat /\ a - 0 < Silence  BY CutAssumption
    <3> QED  BY <1>1, <2>2, <3>1, <3>2
  <2>4. Ended(c.active, Finish(c, 0))  BY <1>1, <1>3, <2>1, <2>3, FinishCases
  <2> QED  BY <2>4 DEF Flush
<1> QED  BY <1>2, <1>3

(* The turn with the new frame, before it is looked at. *)
LEMMA ExtendTurn ==
  ASSUME NEW c, Valid(c), NEW f \in Frames, c.started \/ f.speech
  PROVE  LET e == Extend(IF c.started THEN c ELSE Begin(c), f)
         IN  /\ e.active = Turn(c, f) /\ e.active \in Seq(Frames) /\ e.active # <<>>
             /\ e.pre = <<>> /\ e.preLen = 0 /\ e.started = TRUE
             /\ e.len = Length(e.active) /\ e.speech = SpeechIn(e.active)
             /\ e.len \in Nat /\ e.silence \in Nat /\ e.speech \in Nat
             /\ e.silence < e.len /\ (f.speech => e.silence = 0)
             /\ Opens(e.active) /\ Spaced(e.active, e.silence)
             /\ e.len - e.active[Len(e.active)].len < MaxTurn
<1> DEFINE b == IF c.started THEN c ELSE Begin(c)
           e == Extend(b, f)
           q == b.active
           r == Append(q, f)
<1>1. /\ c.pre \in Seq(Frames) /\ c.active \in Seq(Frames) /\ c.started \in BOOLEAN
      /\ c.len \in 0 .. MaxTurn - 1 /\ c.silence \in 0 .. Silence - 1 /\ c.preLen \in 0 .. PreRoll
      /\ c.len = Length(c.active) /\ c.speech = SpeechIn(c.active) /\ c.preLen = Length(c.pre)
      /\ c \in ChunkerStates
  BY DEF Valid, Counted, ChunkerStates
<1>2. Silence \in Nat /\ MaxTurn \in Nat /\ PreRoll \in Nat /\ PreRoll < MaxTurn
  BY CutAssumption
<1>3. /\ b \in [pre : Seq(Frames), preLen : Nat, active : Seq(Frames), len : Nat,
              started : BOOLEAN, silence : Nat, speech : Nat]
      /\ b.pre = <<>> /\ b.preLen = 0 /\ b.started = TRUE
      /\ q = (IF c.started THEN c.active ELSE c.pre) /\ q \in Seq(Frames)
      /\ b.silence = c.silence /\ b.len < MaxTurn
      /\ b.len = (IF c.started THEN c.len ELSE c.preLen) /\ b.speech = c.speech
  <2>1. CASE c.started
    <3>1. c.pre = <<>>  BY <2>1 DEF Valid, Counted
    <3>2. c.preLen = 0  BY <1>1, <3>1, EmptyEnds
    <3> QED  BY <1>1, <1>2, <2>1, <3>1, <3>2 DEF ChunkerStates
  <2>2. CASE ~c.started
    <3>1. b = Begin(c)  BY <2>2
    <3>2. /\ b.pre = <<>> /\ b.preLen = 0 /\ b.started = TRUE /\ b.active = c.pre
          /\ b.len = c.preLen /\ b.silence = c.silence /\ b.speech = c.speech
          /\ b = [pre |-> b.pre, preLen |-> b.preLen, active |-> b.active, len |-> b.len,
                  started |-> b.started, silence |-> b.silence, speech |-> b.speech]
      BY <1>1, <3>1 DEF ChunkerStates, Begin
    <3>3. c.speech \in Nat /\ c.silence \in Nat /\ c.preLen \in Nat /\ c.preLen < MaxTurn
      BY <1>1, <1>2 DEF ChunkerStates
    <3>4. <<>> \in Seq(Frames)  OBVIOUS
    <3>5. q = c.pre  BY <3>2
    <3> HIDE DEF b, q
    <3>6. b \in [pre : Seq(Frames), preLen : Nat, active : Seq(Frames), len : Nat,
                 started : BOOLEAN, silence : Nat, speech : Nat]
      <4>1. /\ b.pre \in Seq(Frames) /\ b.preLen \in Nat /\ b.active \in Seq(Frames)
            /\ b.len \in Nat /\ b.started \in BOOLEAN /\ b.silence \in Nat /\ b.speech \in Nat
        <5>1. /\ b.pre = <<>> /\ b.preLen = 0 /\ b.started = TRUE /\ b.active = c.pre
              /\ b.len = c.preLen /\ b.silence = c.silence /\ b.speech = c.speech
          BY <3>2
        <5>2. 0 \in Nat /\ TRUE \in BOOLEAN  OBVIOUS
        <5> QED  BY <1>1, <3>3, <3>4, <5>1, <5>2
      <4>2. \A x1, x5 \in Seq(Frames), x2, x3, x4, x6 \in Nat, x7 \in BOOLEAN :
              [pre |-> x1, preLen |-> x2, active |-> x5, len |-> x3, started |-> x7,
               silence |-> x4, speech |-> x6]
                \in [pre : Seq(Frames), preLen : Nat, active : Seq(Frames), len : Nat,
                    started : BOOLEAN, silence : Nat, speech : Nat]
        OBVIOUS
      <4> QED  BY <3>2, <4>1, <4>2
    <3> QED  BY <1>1, <2>2, <3>2, <3>3, <3>5, <3>6
  <2> QED  BY <2>1, <2>2
<1>4. b.len = Length(q) /\ b.speech = SpeechIn(q)
  <2>1. CASE c.started  BY <1>1, <1>3, <2>1
  <2>2. CASE ~c.started
    <3>1. c.active = <<>> /\ \A i \in 1 .. Len(c.pre) : ~c.pre[i].speech
      BY <2>2 DEF Valid, Counted
    <3>2. SpeechIn(c.pre) = 0 /\ c.speech = 0  BY <1>1, <3>1, SilentSum, EmptyEnds
    <3> QED  BY <1>1, <1>3, <2>2, <3>2
  <2> QED  BY <2>1, <2>2
<1>5. Spaced(q, c.silence)
  <2>1. CASE c.started  BY <1>3, <2>1 DEF Valid, Counted
  <2>2. CASE ~c.started
    <3>1. \A i \in 1 .. Len(c.pre) : ~c.pre[i].speech  BY DEF Valid, Counted
    <3> QED  BY <1>3, <2>2, <3>1 DEF Spaced
  <2> QED  BY <2>1, <2>2
<1>6. Opens(q) \/ (f.speech /\ Length(q) <= PreRoll)
  <2>1. CASE c.started  BY <1>3, <2>1 DEF Valid, Counted
  <2>2. CASE ~c.started  BY <1>1, <1>2, <1>3, <2>2
  <2> QED  BY <2>1, <2>2
<1>7. f.len \in Nat /\ f.len > 0 /\ f.speech \in BOOLEAN  BY FrameParts
<1>8. f.speech \/ c.silence < b.len
  <2>1. CASE c.started  BY <1>3, <2>1 DEF Valid, Counted
  <2> QED  BY <2>1
<1> HIDE DEF b
<1>9. /\ e.active = r /\ e.pre = <<>> /\ e.preLen = 0 /\ e.started = TRUE
      /\ e.len = b.len + f.len
      /\ e.silence = (IF f.speech THEN 0 ELSE b.silence + f.len)
      /\ e.speech = (IF f.speech THEN b.speech + f.len ELSE b.speech)
  BY <1>3 DEF Extend
<1>10. r \in Seq(Frames) /\ r # <<>> /\ r[Len(r)] = f /\ r = Turn(c, f)
  <2>1. q \in Seq(Frames) /\ f \in Frames  BY <1>3
  <2>2. r \in Seq(Frames) /\ r # <<>> /\ r[Len(r)] = f
    <3> HIDE DEF q
    <3>1. r \in Seq(Frames) /\ Len(r) = Len(q) + 1 /\ Len(q) \in Nat  BY <2>1
    <3> QED  BY <2>1, <3>1
  <2> QED  BY <1>3, <2>2 DEF Turn
<1>11. /\ Length(r) = Length(q) + f.len
       /\ SpeechIn(r) = SpeechIn(q) + (IF f.speech THEN f.len ELSE 0)
  BY <1>3, AppendEnds
<1>12. Spaced(r, e.silence)  BY <1>1, <1>3, <1>5, <1>9, SpacedOn
<1>13. Opens(r)  BY <1>3, <1>6, OpensOn
<1>14. b.len \in Nat /\ b.silence \in Nat /\ b.speech \in Nat  BY <1>3
<1> HIDE DEF e, r, q
<1>15. /\ e.len = Length(r) /\ e.speech = SpeechIn(r)
  BY <1>4, <1>7, <1>9, <1>11, <1>14
<1>16. /\ e.len \in Nat /\ e.silence \in Nat /\ e.speech \in Nat /\ e.silence < e.len
       /\ f.speech => e.silence = 0
       /\ e.len - f.len < MaxTurn
  BY <1>2, <1>3, <1>7, <1>8, <1>9, <1>14
<1>17. /\ e.active = Turn(c, f) /\ e.active \in Seq(Frames) /\ e.active # <<>>
       /\ e.active[Len(e.active)].len = f.len
       /\ Opens(e.active) /\ Spaced(e.active, e.silence)
  BY <1>9, <1>10, <1>12, <1>13
<1> QED  BY <1>9, <1>15, <1>16, <1>17 DEF e, b

(* What a frame does: it is kept for the pre-roll, it joins a turn, or the *)
(* turn it joins ends with it.                                             *)
LEMMA PushCases ==
  ASSUME NEW c, Valid(c), NEW f \in Frames
  PROVE  LET p == Push(c, f) IN
         /\ Valid(p.chunker)
         /\ \/ /\ ~c.started /\ ~f.speech /\ p.out = <<>> /\ ~p.chunker.started
               /\ \E k \in 1 .. Len(c.pre) + 2 :
                    p.chunker.pre = SubSeq(Append(c.pre, f), k, Len(c.pre) + 1)
            \/ /\ c.started \/ f.speech
               /\ p.out = <<>> /\ p.chunker.started /\ p.chunker.active = Turn(c, f)
            \/ /\ c.started \/ f.speech
               /\ Ended(Turn(c, f), p)
               /\ ~f.speech \/ Length(Turn(c, f)) >= MaxTurn
<1> DEFINE p == Push(c, f)
<1>1. /\ c.pre \in Seq(Frames) /\ c.active \in Seq(Frames) /\ c.started \in BOOLEAN
      /\ c \in ChunkerStates /\ Counted(c)
  BY DEF Valid, ChunkerStates
<1>2. /\ Silence \in Nat /\ MaxTurn \in Nat /\ PostRoll \in Nat /\ PreRoll \in Nat
      /\ PostRoll > 0 /\ PostRoll < Silence
  BY CutAssumption
<1>3. CASE ~c.started /\ ~f.speech
  <2> DEFINE q == Append(c.pre, f)
             r == Recent(q)
             d == [c EXCEPT !.pre = r, !.preLen = Length(r)]
  <2>1. q \in Seq(Frames) /\ Len(q) = Len(c.pre) + 1 /\ Len(c.pre) \in Nat  BY <1>1
  <2>2. PICK k \in 1 .. Len(q) + 1 : r = SubSeq(q, k, Len(q)) /\ Length(r) \in 0 .. PreRoll
    BY <2>1, RecentEnd
  <2>3. p.chunker = d /\ p.out = <<>>  BY <1>3 DEF Push, Nothing, PushPreRoll
  <2>4. \A i \in 1 .. Len(q) : ~q[i].speech
    <3>1. \A i \in 1 .. Len(c.pre) : ~c.pre[i].speech  BY <1>1 DEF Counted
    <3> QED  BY <1>1, <1>3, <3>1
  <2>5. r \in Seq(Frames) /\ \A i \in 1 .. Len(r) : ~r[i].speech
    <3> HIDE DEF q, r
    <3>1. /\ r \in Seq(Frames) /\ Len(r) = Len(q) + 1 - k
          /\ \A i \in 1 .. Len(r) : r[i] = q[k - 1 + i] /\ k - 1 + i \in 1 .. Len(q)
      BY <2>1, <2>2
    <3> QED  BY <2>4, <3>1
  <2> HIDE DEF r
  <2>6. /\ d \in ChunkerStates /\ d.pre = r /\ d.preLen = Length(r) /\ d.active = c.active
        /\ d.len = c.len /\ d.speech = c.speech /\ d.started = c.started
    BY <1>1, <2>2, <2>5 DEF ChunkerStates
  <2> HIDE DEF d
  <2>7. Valid(d)  BY <1>1, <1>3, <2>5, <2>6 DEF Valid, Counted
  <2>8. k \in 1 .. Len(c.pre) + 2 /\ p.chunker.pre = SubSeq(q, k, Len(c.pre) + 1)
    BY <2>1, <2>2, <2>3, <2>6
  <2> QED  BY <1>3, <2>3, <2>6, <2>7, <2>8
<1>4. CASE c.started \/ f.speech
  <2> DEFINE e == Extend(IF c.started THEN c ELSE Begin(c), f)
  <2>1. /\ e.active = Turn(c, f) /\ e.active \in Seq(Frames) /\ e.active # <<>>
        /\ e.pre = <<>> /\ e.preLen = 0 /\ e.started = TRUE
        /\ e.len = Length(e.active) /\ e.speech = SpeechIn(e.active)
        /\ e.len \in Nat /\ e.silence \in Nat /\ e.speech \in Nat
        /\ e.silence < e.len /\ (f.speech => e.silence = 0)
        /\ Opens(e.active) /\ Spaced(e.active, e.silence)
        /\ e.len - e.active[Len(e.active)].len < MaxTurn
    BY <1>4, ExtendTurn
  <2>2. p = Cut(e)  BY <1>1, <1>4 DEF Push
  <2>3. e = [pre |-> e.pre, preLen |-> e.preLen, active |-> e.active, len |-> e.len,
             started |-> e.started, silence |-> e.silence, speech |-> e.speech]
    <3> DEFINE b == IF c.started THEN c ELSE Begin(c)
    <3>1. b = [pre |-> b.pre, preLen |-> b.preLen, active |-> b.active, len |-> b.len,
               started |-> b.started, silence |-> b.silence, speech |-> b.speech]
      BY <1>1 DEF Begin, ChunkerStates
    <3>2. e = Extend(b, f)  OBVIOUS
    <3> HIDE DEF b, e
    <3> QED  BY <3>1, <3>2 DEF Extend
  <2> HIDE DEF e, p
  <2>4. CASE e.silence >= Silence
    <3>1. p = Finish(e, e.silence - PostRoll)  BY <1>2, <2>1, <2>2, <2>4 DEF Cut
    <3>2. /\ e.silence - PostRoll \in Nat /\ e.silence - PostRoll < e.len
          /\ e.silence - (e.silence - PostRoll) < Silence
      BY <1>2, <2>1, <2>4
    <3>3. Ended(e.active, p)  BY <2>1, <3>1, <3>2, FinishCases
    <3>4. ~f.speech  BY <1>2, <2>1, <2>4
    <3>5. Valid(p.chunker)  BY <3>3, FreshValid DEF Ended
    <3> QED  BY <1>4, <2>1, <3>3, <3>4, <3>5 DEF p
  <2>5. CASE e.silence < Silence /\ e.len >= MaxTurn
    <3>1. p = Finish(e, 0)  BY <1>2, <2>1, <2>2, <2>5 DEF Cut
    <3>2. 0 \in Nat /\ e.silence - 0 < Silence  BY <2>1, <2>5
    <3>3. Ended(e.active, p)  BY <2>1, <3>1, <3>2, FinishCases
    <3>4. Valid(p.chunker)  BY <3>3, FreshValid DEF Ended
    <3>5. Length(Turn(c, f)) >= MaxTurn  BY <2>1, <2>5
    <3> QED  BY <1>4, <2>1, <3>3, <3>4, <3>5 DEF p
  <2>6. CASE e.silence < Silence /\ e.len < MaxTurn
    <3>1. p = Nothing(e)  BY <1>2, <2>1, <2>2, <2>6 DEF Cut
    <3>2. p.chunker = e /\ p.out = <<>>  BY <3>1 DEF Nothing
    <3>3. /\ e.len \in 0 .. MaxTurn - 1 /\ e.silence \in 0 .. Silence - 1
          /\ e.preLen \in 0 .. PreRoll /\ e.pre \in Seq(Frames) /\ Len(e.pre) = 0
      BY <1>2, <2>1, <2>6
    <3>4. e \in ChunkerStates  BY <2>1, <2>3, <3>3 DEF ChunkerStates
    <3>5. Counted(e)  BY <2>1, <3>3, EmptyEnds DEF Counted
    <3> QED  BY <1>4, <2>1, <3>2, <3>4, <3>5 DEF p, Valid
  <2>7. \/ e.silence >= Silence \/ (e.silence < Silence /\ e.len >= MaxTurn)
        \/ (e.silence < Silence /\ e.len < MaxTurn)
    BY <1>2, <2>1
  <2> QED  BY <2>4, <2>5, <2>6, <2>7
<1> QED  BY <1>1, <1>3, <1>4

-----------------------------------------------------------------------------
(* The inductive invariant *)

(* What the chunker holds: a turn, or the pre-roll. *)
Kept(c) == IF c.started THEN c.active ELSE c.pre
Held    == Ids(Kept(chunker)) \cup Ids(queue)

Increasing(q) == \A i, j \in 1 .. Len(q) : i < j => q[i].id < q[j].id
Below(A, B)   == \A a \in A, b \in B : a < b

(* The types, but for the chunker and the store. *)
StateTypes ==
  /\ said \in Seq(Frames) /\ queue \in Seq(Frames)
  /\ Len(said) <= MaxFrames /\ Len(queue) <= Capacity
  /\ stream \in BOOLEAN /\ spool \in Steps
  /\ noticed \in BOOLEAN /\ paused \in BOOLEAN /\ stop \in BOOLEAN
  /\ dropped \subseteq 1 .. Len(said) /\ skipped \subseteq 1 .. Len(said)
  /\ late \subseteq skipped
  /\ spent \in [Kinds -> Nat]

(* The chunker is in order, and fresh when it has nothing to do. *)
Working ==
  /\ Valid(chunker)
  /\ ~Listening => chunker = Fresh /\ queue = <<>>
  /\ spool = "running" /\ noticed => chunker = Fresh

StoreTypes ==
  /\ stored \in Seq([frames : Seq(Frames), len : Nat])
  /\ UtterancesWellCut

(* A frame is the one that was said under its number. *)
Genuine(q) == \A i \in 1 .. Len(q) : q[i].id \in 1 .. Len(said) /\ said[q[i].id] = q[i]

Authentic ==
  /\ Genuine(said) /\ Genuine(queue) /\ Genuine(Kept(chunker))
  /\ \A n \in 1 .. Len(stored) : Genuine(stored[n].frames)

(* The frames are in order, the newer behind the older. *)
InLine ==
  /\ Increasing(Kept(chunker)) /\ Increasing(queue)
  /\ Below(Ids(Kept(chunker)), Ids(queue))

InStock ==
  \A n \in 1 .. Len(stored) :
    /\ Increasing(stored[n].frames) /\ Below(Ids(stored[n].frames), Held)
    /\ \A m \in 1 .. n - 1 : Below(Ids(stored[m].frames), Ids(stored[n].frames))

(* Between frames that are held, and in an utterance, only dropped ones    *)
(* and late ones are missing.                                              *)
Covered ==
  \A a \in Held : a .. Len(said) \subseteq Held \cup dropped \cup late

Unbroken ==
  \A n \in 1 .. Len(stored) : \A a, b \in Ids(stored[n].frames) :
    a .. b \subseteq Ids(stored[n].frames) \cup dropped \cup late

(* Speech that is nowhere any more. *)
Gone ==
  {i \in 1 .. Len(said) : said[i].speech} \ (StoredIds \cup Held \cup dropped \cup skipped)

(* As long as the spool works, what was lost right before a frame it may   *)
(* still lose is less than MinSpeech.                                      *)
LittleLost ==
  \A i, j \in Gone : i <= j /\ i .. j \subseteq Gone =>
    /\ Ends(said)[j] - Ends(said)[i - 1] < 2 * MinSpeech
    /\ Listening /\ j + 1 \in Held \cup {Len(said) + 1} =>
         Ends(said)[j] - Ends(said)[i - 1] < MinSpeech

IInv == /\ StateTypes /\ Working /\ StoreTypes /\ Authentic
        /\ InLine /\ InStock /\ Covered /\ Unbroken /\ LittleLost

-----------------------------------------------------------------------------
(* Lemmas about sequences of frames *)

(* A number is in a sequence at some place. *)
LEMMA IdsOf ==
  ASSUME NEW q, NEW x
  PROVE  x \in Ids(q) <=> \E i \in 1 .. Len(q) : q[i].id = x
BY DEF Ids

(* A sequence with a frame that comes later. *)
LEMMA AppendIds ==
  ASSUME NEW q \in Seq(Frames), NEW f \in Frames
  PROVE  /\ Append(q, f) \in Seq(Frames)
         /\ Ids(Append(q, f)) = Ids(q) \cup {f.id}
         /\ Increasing(q) /\ Below(Ids(q), {f.id}) => Increasing(Append(q, f))
         /\ Genuine(q) /\ Genuine(<<f>>) => Genuine(Append(q, f))
<1> DEFINE r == Append(q, f)
           n == Len(q)
<1>1. /\ r \in Seq(Frames) /\ Len(r) = n + 1 /\ n \in Nat /\ r[n + 1] = f
      /\ \A i \in 1 .. n : r[i] = q[i]
  OBVIOUS
<1> HIDE DEF r
<1>2. Ids(r) = Ids(q) \cup {f.id}
  <2>1. ASSUME NEW i \in 1 .. n + 1
        PROVE  r[i].id \in Ids(q) \cup {f.id}
    <3>1. CASE i = n + 1  BY <1>1, <3>1
    <3>2. CASE i # n + 1
      <4>1. i \in 1 .. n /\ r[i] = q[i]  BY <1>1, <3>2
      <4> QED  BY <4>1 DEF Ids
    <3> QED  BY <3>1, <3>2
  <2>2. ASSUME NEW i \in 1 .. n
        PROVE  q[i].id \in Ids(r)
    <3>1. i \in 1 .. Len(r) /\ r[i] = q[i]  BY <1>1
    <3> QED  BY <3>1 DEF Ids
  <2>3. f.id \in Ids(r)
    <3>1. n + 1 \in 1 .. Len(r)  BY <1>1
    <3> QED  BY <1>1, <3>1 DEF Ids
  <2> QED  BY <1>1, <2>1, <2>2, <2>3 DEF Ids
<1>3. ASSUME Increasing(q), Below(Ids(q), {f.id})
      PROVE  Increasing(r)
  <2> SUFFICES ASSUME NEW i \in 1 .. n + 1, NEW j \in 1 .. n + 1, i < j
               PROVE  r[i].id < r[j].id
    BY <1>1 DEF Increasing
  <2>1. i \in 1 .. n /\ r[i] = q[i]  BY <1>1
  <2>2. CASE j = n + 1
    <3>1. q[i].id \in Ids(q)  BY <2>1 DEF Ids
    <3> QED  BY <1>1, <1>3, <2>1, <2>2, <3>1 DEF Below
  <2>3. CASE j # n + 1
    <3>1. j \in 1 .. n /\ r[j] = q[j]  BY <1>1, <2>3
    <3> QED  BY <1>3, <2>1, <3>1 DEF Increasing
  <2> QED  BY <2>2, <2>3
<1>4. ASSUME Genuine(q), Genuine(<<f>>)
      PROVE  Genuine(r)
  <2> SUFFICES ASSUME NEW i \in 1 .. n + 1
               PROVE  r[i].id \in 1 .. Len(said) /\ said[r[i].id] = r[i]
    BY <1>1 DEF Genuine
  <2>1. CASE i = n + 1
    <3>1. 1 \in 1 .. Len(<<f>>) /\ <<f>>[1] = f  OBVIOUS
    <3> QED  BY <1>1, <1>4, <2>1, <3>1 DEF Genuine
  <2>2. CASE i # n + 1
    <3>1. i \in 1 .. n /\ r[i] = q[i]  BY <1>1, <2>2
    <3> QED  BY <1>4, <3>1 DEF Genuine
  <2> QED  BY <2>1, <2>2
<1> QED  BY <1>1, <1>2, <1>3, <1>4 DEF r

(* What is left of a sequence when its beginning is taken away. *)
LEMMA SuffixIds ==
  ASSUME NEW q \in Seq(Frames), Increasing(q), Genuine(q), NEW k \in 1 .. Len(q) + 1
  PROVE  LET r == SubSeq(q, k, Len(q)) IN
         /\ r \in Seq(Frames) /\ Increasing(r) /\ Genuine(r)
         /\ Ids(r) \subseteq Ids(q) /\ Below(Ids(q) \ Ids(r), Ids(r))
<1> DEFINE r == SubSeq(q, k, Len(q))
           n == Len(q)
<1>1. /\ r \in Seq(Frames) /\ n \in Nat /\ Len(r) = n + 1 - k
      /\ \A i \in 1 .. Len(r) : r[i] = q[k - 1 + i] /\ k - 1 + i \in 1 .. n
  OBVIOUS
<1> HIDE DEF r
<1>2. Increasing(r)
  <2> SUFFICES ASSUME NEW i \in 1 .. Len(r), NEW j \in 1 .. Len(r), i < j
               PROVE  r[i].id < r[j].id
    BY DEF Increasing
  <2>1. k - 1 + i \in 1 .. n /\ k - 1 + j \in 1 .. n /\ k - 1 + i < k - 1 + j  BY <1>1
  <2> QED  BY <1>1, <2>1 DEF Increasing
<1>3. Genuine(r)  BY <1>1 DEF Genuine
<1>4. Ids(r) \subseteq Ids(q)
  <2> SUFFICES ASSUME NEW i \in 1 .. Len(r)
               PROVE  r[i].id \in Ids(q)
    BY DEF Ids
  <2> QED  BY <1>1 DEF Ids
<1>5. Below(Ids(q) \ Ids(r), Ids(r))
  <2> SUFFICES ASSUME NEW i \in 1 .. n, NEW j \in 1 .. Len(r), q[i].id \notin Ids(r)
               PROVE  q[i].id < r[j].id
    BY DEF Ids, Below
  <2>1. k - 1 + j \in 1 .. n /\ r[j] = q[k - 1 + j]  BY <1>1
  <2>2. i < k
    <3> SUFFICES ASSUME i >= k PROVE FALSE  BY <1>1
    <3>1. i - (k - 1) \in 1 .. Len(r) /\ k - 1 + (i - (k - 1)) = i  BY <1>1
    <3>2. r[i - (k - 1)] = q[i]  BY <1>1, <3>1
    <3> QED  BY <3>1, <3>2 DEF Ids
  <2>3. i < k - 1 + j  BY <1>1, <2>2
  <2> QED  BY <2>1, <2>3 DEF Increasing
<1> QED  BY <1>1, <1>2, <1>3, <1>4, <1>5 DEF r

(* The first frame of a sequence and the others. *)
LEMMA TailIds ==
  ASSUME NEW q \in Seq(Frames), q # <<>>, Increasing(q), Genuine(q)
  PROVE  /\ Head(q) \in Frames /\ Genuine(<<Head(q)>>)
         /\ Tail(q) \in Seq(Frames) /\ Len(Tail(q)) = Len(q) - 1
         /\ Increasing(Tail(q)) /\ Genuine(Tail(q))
         /\ Ids(q) = {Head(q).id} \cup Ids(Tail(q))
         /\ Below({Head(q).id}, Ids(Tail(q)))
<1> DEFINE r == Tail(q)
           n == Len(q)
<1>1. /\ n \in Nat /\ n >= 1 /\ r \in Seq(Frames) /\ Len(r) = n - 1 /\ Head(q) = q[1]
      /\ q[1] \in Frames
      /\ \A i \in 1 .. Len(r) : r[i] = q[i + 1]
  OBVIOUS
<1> HIDE DEF r
<1>2. Increasing(r)
  <2> SUFFICES ASSUME NEW i \in 1 .. Len(r), NEW j \in 1 .. Len(r), i < j
               PROVE  r[i].id < r[j].id
    BY DEF Increasing
  <2>1. i + 1 \in 1 .. n /\ j + 1 \in 1 .. n /\ i + 1 < j + 1  BY <1>1
  <2> QED  BY <1>1, <2>1 DEF Increasing
<1>3. Genuine(r)
  <2>1. \A i \in 1 .. Len(r) : i + 1 \in 1 .. n  BY <1>1
  <2> QED  BY <1>1, <2>1 DEF Genuine
<1>4. Ids(q) = {q[1].id} \cup Ids(r)
  <2>1. ASSUME NEW i \in 1 .. n
        PROVE  q[i].id \in {q[1].id} \cup Ids(r)
    <3>1. CASE i = 1  BY <3>1
    <3>2. CASE i # 1
      <4>1. i - 1 \in 1 .. Len(r) /\ (i - 1) + 1 = i  BY <1>1, <3>2
      <4>2. r[i - 1] = q[i]  BY <1>1, <4>1
      <4> QED  BY <4>1, <4>2 DEF Ids
    <3> QED  BY <3>1, <3>2
  <2>2. ASSUME NEW i \in 1 .. Len(r)
        PROVE  r[i].id \in Ids(q)
    <3>1. i + 1 \in 1 .. n  BY <1>1
    <3> QED  BY <1>1, <3>1 DEF Ids
  <2>3. q[1].id \in Ids(q)
    <3>1. 1 \in 1 .. n  BY <1>1
    <3> QED  BY <3>1 DEF Ids
  <2> QED  BY <2>1, <2>2, <2>3 DEF Ids
<1>5. Below({q[1].id}, Ids(r))
  <2> SUFFICES ASSUME NEW i \in 1 .. Len(r)
               PROVE  q[1].id < r[i].id
    BY DEF Below, Ids
  <2>1. 1 \in 1 .. n /\ i + 1 \in 1 .. n /\ 1 < i + 1  BY <1>1
  <2> QED  BY <1>1, <2>1 DEF Increasing
<1>6. Genuine(<<q[1]>>)
  <2>1. 1 \in 1 .. n  BY <1>1
  <2>2. \A i \in 1 .. Len(<<q[1]>>) : <<q[1]>>[i] = q[1]  OBVIOUS
  <2> QED  BY <2>1, <2>2 DEF Genuine
<1> QED  BY <1>1, <1>2, <1>3, <1>4, <1>5, <1>6 DEF r

(* The empty sequence. *)
LEMMA EmptyIds ==
  /\ <<>> \in Seq(Frames) /\ Ids(<<>>) = {} /\ Increasing(<<>>) /\ Genuine(<<>>)
<1>1. <<>> \in Seq(Frames) /\ Len(<<>>) = 0  OBVIOUS
<1> QED  BY <1>1 DEF Ids, Increasing, Genuine

(* The samples of consecutive frames of speech that are all in a sequence  *)
(* are among its speech.                                                   *)
LEMMA RunSum ==
  ASSUME said \in Seq(Frames), NEW q \in Seq(Frames), Increasing(q), Genuine(q),
         NEW i \in Nat, NEW j \in Nat, i <= j,
         \A x \in i .. j : x \in Ids(q) /\ said[x].speech
  PROVE  Ends(said)[j] - Ends(said)[i - 1] <= SpeechIn(q)
<1> DEFINE n == Len(q)
<1>1. n \in Nat /\ Len(said) \in Nat  OBVIOUS
<1>2. PICK p \in 1 .. n : q[p].id = i
  <2>1. i \in Ids(q)  OBVIOUS
  <2> QED  BY <2>1, IdsOf
<1>3. /\ \A a \in 0 .. n : Voiced(q)[a] \in Nat
      /\ \A b \in 0 .. Len(said) : Ends(said)[b] \in Nat
  BY EndsValue
<1>4. ASSUME NEW a \in 1 .. n, q[a].id \in i .. j
      PROVE  /\ q[a].id \in 1 .. Len(said)
             /\ Voiced(q)[a] = Voiced(q)[a - 1] + q[a].len
             /\ Ends(said)[q[a].id] = Ends(said)[q[a].id - 1] + q[a].len
             /\ q[a].len \in Nat
  <2>1. q[a].id \in 1 .. Len(said) /\ said[q[a].id] = q[a]  BY DEF Genuine
  <2>2. q[a].speech  BY <1>4, <2>1
  <2>3. q[a].len \in Nat  BY FrameParts
  <2>4. Voiced(q)[a] = Voiced(q)[a - 1] + (IF q[a].speech THEN q[a].len ELSE 0)  BY EndsValue
  <2>5. Ends(said)[q[a].id] = Ends(said)[q[a].id - 1] + said[q[a].id].len  BY <2>1, EndsValue
  <2> QED  BY <2>1, <2>2, <2>3, <2>4, <2>5
<1> DEFINE V == Voiced(q)
           T == Ends(said)
           good == {k \in 0 .. j - i : /\ p + k \in 1 .. n /\ q[p + k].id = i + k
                                       /\ V[p + k] - V[p - 1] = T[i + k] - T[i - 1]}
<1> HIDE DEF V, T
<1>5. /\ \A a \in 0 .. n : V[a] \in Nat
      /\ \A b \in 0 .. Len(said) : T[b] \in Nat
  BY <1>3 DEF V, T
<1>6. \A a \in 1 .. n : q[a].id \in i .. j =>
        /\ q[a].id \in 1 .. Len(said) /\ q[a].len \in Nat
        /\ V[a] = V[a - 1] + q[a].len
        /\ T[q[a].id] = T[q[a].id - 1] + q[a].len
  BY <1>4 DEF V, T
<1>7. 0 \in good
  <2>1. i \in i .. j  OBVIOUS
  <2>2. /\ i \in 1 .. Len(said) /\ q[p].len \in Nat
        /\ V[p] = V[p - 1] + q[p].len /\ T[i] = T[i - 1] + q[p].len
    BY <1>2, <1>6, <2>1
  <2>3. V[p - 1] \in Nat /\ T[i - 1] \in Nat
    <3>1. p - 1 \in 0 .. n /\ i - 1 \in 0 .. Len(said)  BY <1>1, <2>2
    <3> QED  BY <1>5, <3>1
  <2>4. V[p] - V[p - 1] = T[i] - T[i - 1]  BY <2>2, <2>3
  <2>5. p + 0 = p /\ i + 0 = i /\ 0 \in 0 .. j - i  OBVIOUS
  <2> QED  BY <1>2, <2>4, <2>5
<1>8. ASSUME NEW k \in 1 .. j - i, k - 1 \in good
      PROVE  k \in good
  <2>1. /\ p + (k - 1) \in 1 .. n /\ q[p + (k - 1)].id = i + (k - 1)
        /\ V[p + (k - 1)] - V[p - 1] = T[i + (k - 1)] - T[i - 1]
    BY <1>8
  <2>2. i + k \in i .. j  OBVIOUS
  <2>3. PICK r \in 1 .. n : q[r].id = i + k
    <3>1. i + k \in Ids(q)  BY <2>2
    <3> QED  BY <3>1, IdsOf
  <2>4. \A a, b \in 1 .. n : a < b => q[a].id < q[b].id  BY DEF Increasing
  <2>5. \A a \in 1 .. n : q[a].id \in Nat
    <3>1. \A a \in 1 .. n : q[a].id \in 1 .. Len(said)  BY DEF Genuine
    <3> QED  BY <1>1, <3>1
  <2>6. r > p + (k - 1)
    <3> SUFFICES ASSUME ~(r > p + (k - 1)) PROVE FALSE  OBVIOUS
    <3>1. r = p + (k - 1) \/ q[r].id < q[p + (k - 1)].id  BY <2>1, <2>4
    <3> QED  BY <2>1, <2>3, <3>1
  <2>7. p + k \in 1 .. n  BY <1>1, <2>3, <2>6
  <2>8. r = p + k
    <3> SUFFICES ASSUME r # p + k PROVE FALSE  OBVIOUS
    <3>1. q[p + k].id < q[r].id  BY <2>3, <2>4, <2>6, <2>7
    <3>2. q[p + (k - 1)].id < q[p + k].id  BY <2>1, <2>4, <2>7
    <3> QED  BY <2>1, <2>3, <2>5, <2>7, <3>1, <3>2
  <2>9. /\ i + k \in 1 .. Len(said) /\ q[p + k].len \in Nat
        /\ V[p + k] = V[p + (k - 1)] + q[p + k].len
        /\ T[i + k] = T[i + (k - 1)] + q[p + k].len
    <3>1. p + k - 1 = p + (k - 1) /\ i + k - 1 = i + (k - 1)  OBVIOUS
    <3>2. q[p + k].id = i + k  BY <2>3, <2>8
    <3>3. /\ i + k \in 1 .. Len(said) /\ q[p + k].len \in Nat
          /\ V[p + k] = V[p + k - 1] + q[p + k].len
          /\ T[i + k] = T[i + k - 1] + q[p + k].len
      <4> DEFINE a == p + k
                 b == i + k
      <4>1. a \in 1 .. n /\ q[a].id = b /\ b \in i .. j  BY <2>2, <2>7, <3>2
      <4> HIDE DEF a, b
      <4>2. /\ q[a].id \in 1 .. Len(said) /\ q[a].len \in Nat
            /\ V[a] = V[a - 1] + q[a].len
            /\ T[q[a].id] = T[q[a].id - 1] + q[a].len
        BY <1>6, <4>1
      <4>3. /\ b \in 1 .. Len(said) /\ q[a].len \in Nat
            /\ V[a] = V[a - 1] + q[a].len
            /\ T[b] = T[b - 1] + q[a].len
        BY <4>1, <4>2
      <4> QED  BY <4>3 DEF a, b
    <3> QED  BY <3>1, <3>3
  <2>10. /\ V[p + (k - 1)] \in Nat /\ V[p - 1] \in Nat
         /\ T[i + (k - 1)] \in Nat /\ T[i - 1] \in Nat
    <3>1. /\ p + (k - 1) \in 0 .. n /\ p - 1 \in 0 .. n
      BY <1>1, <2>1
    <3>2. i + (k - 1) \in 0 .. Len(said) /\ i - 1 \in 0 .. Len(said)
      <4>1. i \in 1 .. Len(said)  BY <1>2 DEF Genuine
      <4> QED  BY <1>1, <2>9, <4>1
    <3> QED  BY <1>5, <3>1, <3>2
  <2> DEFINE v0 == V[p - 1]
             v1 == V[p + (k - 1)]
             v2 == V[p + k]
             t0 == T[i - 1]
             t1 == T[i + (k - 1)]
             t2 == T[i + k]
             l  == q[p + k].len
  <2>11. v2 - v0 = t2 - t0
    <3>1. v1 - v0 = t1 - t0  BY <2>1
    <3>2. v2 = v1 + l /\ t2 = t1 + l /\ l \in Nat  BY <2>9
    <3>3. v0 \in Nat /\ v1 \in Nat /\ t0 \in Nat /\ t1 \in Nat  BY <2>10
    <3> HIDE DEF v0, v1, v2, t0, t1, t2, l
    <3> QED  BY <3>1, <3>2, <3>3
  <2> QED  BY <2>3, <2>7, <2>8, <2>11
<1>9. j - i \in good
  <2> HIDE DEF good
  <2>1. j - i \in Nat  OBVIOUS
  <2>2. 0 .. j - i \subseteq good  BY <1>7, <1>8, <2>1, Climb
  <2> QED  BY <2>1, <2>2
<1> DEFINE e == p + (j - i)
<1>10. e \in 1 .. n /\ V[e] - V[p - 1] = T[j] - T[i - 1]
  <2>1. i + (j - i) = j  OBVIOUS
  <2> QED  BY <1>9, <2>1
<1> HIDE DEF e
<1>11. V[e] <= V[n]
  <2>1. e \in 0 .. Len(q) /\ n \in e .. Len(q)  BY <1>1, <1>10
  <2> QED  BY <2>1, EndsValue DEF V
<1>12. V[e] \in Nat /\ V[n] \in Nat /\ V[p - 1] \in Nat
  <2>1. e \in 0 .. n /\ n \in 0 .. n /\ p - 1 \in 0 .. n  BY <1>1, <1>10
  <2> QED  BY <1>5, <2>1
<1>13. V[e] - V[p - 1] <= V[n]  BY <1>11, <1>12
<1> QED  BY <1>10, <1>13 DEF V, T, SpeechIn, Voiced

(* A turn of speech only has as much of it as it is long. *)
LEMMA OnlySpeech ==
  ASSUME NEW q \in Seq(Frames), \A i \in 1 .. Len(q) : q[i].speech
  PROVE  SpeechIn(q) = Length(q)
<1> DEFINE same == {i \in 0 .. Len(q) : Voiced(q)[i] = Ends(q)[i]}
<1>1. Len(q) \in Nat  OBVIOUS
<1>2. 0 \in same  BY <1>1, EndsValue
<1>3. ASSUME NEW i \in 1 .. Len(q), i - 1 \in same
      PROVE  i \in same
  <2>1. Voiced(q)[i] = Voiced(q)[i - 1] + q[i].len /\ Ends(q)[i] = Ends(q)[i - 1] + q[i].len
    BY EndsValue
  <2> QED  BY <1>3, <2>1
<1> HIDE DEF same
<1>4. 0 .. Len(q) \subseteq same  BY <1>1, <1>2, <1>3, Climb
<1>5. Len(q) \in same  BY <1>1, <1>4
<1> QED  BY <1>5 DEF same, SpeechIn, Voiced, Length

-----------------------------------------------------------------------------
(* What a step that says nothing new leaves of the invariant *)

(* What is held stays without gaps. *)
LEMMA CoverKept ==
  ASSUME Covered, said' = said, Held' \subseteq Held, Held \subseteq Nat,
         dropped \subseteq dropped', late \subseteq late',
         \A x \in Held \ Held' : x \in late' \/ \A y \in Held' : x < y
  PROVE  Covered'
<1> SUFFICES ASSUME NEW a \in Held', NEW x \in a .. Len(said)
             PROVE  x \in Held' \cup dropped' \cup late'
  BY DEF Covered
<1>1. x \in Held \cup dropped \cup late  BY DEF Covered
<1>2. ~(x < a)
  <2>1. a \in Nat  OBVIOUS
  <2> QED  BY <2>1
<1>3. CASE x \in Held \ Held'
  BY <1>2, <1>3
<1> QED  BY <1>1, <1>3

(* The store as it was, in a state where more may have been said. *)
LEMMA StockKept ==
  ASSUME Authentic, InStock, Unbroken, StoreTypes, StateTypes, stored' = stored,
         \A x \in Held' : x \in Held \/ x > Len(said), Held' \subseteq Nat,
         dropped \subseteq dropped', late \subseteq late',
         \A i \in 1 .. Len(said) : i \in 1 .. Len(said') /\ said'[i] = said[i]
  PROVE  /\ StoreTypes' /\ InStock' /\ Unbroken'
         /\ \A n \in 1 .. Len(stored') : Genuine(stored[n].frames)'
<1>1. StoreTypes'  BY DEF StoreTypes, UtterancesWellCut
<1>2. \A n \in 1 .. Len(stored') : Genuine(stored[n].frames)'  BY DEF Authentic, Genuine
<1>3. \A n \in 1 .. Len(stored) : \A x \in Ids(stored[n].frames) : x \in 1 .. Len(said)
  BY DEF Authentic, Genuine, Ids
<1>4. InStock'
  <2>1. ASSUME NEW n \in 1 .. Len(stored)
        PROVE  Below(Ids(stored[n].frames), Held')
    <3> SUFFICES ASSUME NEW x \in Ids(stored[n].frames), NEW y \in Held'
                 PROVE  x < y
      BY DEF Below
    <3>1. CASE y \in Held  BY <3>1 DEF InStock, Below
    <3>2. CASE y > Len(said)
      <4>1. x \in 1 .. Len(said) /\ Len(said) \in Nat  BY <1>3 DEF StateTypes
      <4>2. y \in Nat  OBVIOUS
      <4> QED  BY <3>2, <4>1, <4>2
    <3> QED  BY <3>1, <3>2
  <2> QED  BY <2>1 DEF InStock
<1>5. Unbroken'  BY DEF Unbroken
<1> QED  BY <1>1, <1>2, <1>4, <1>5

(* The store with an utterance of what was held. *)
LEMMA StockAppend ==
  ASSUME Authentic, InStock, Unbroken, StoreTypes, Covered, said' = said, Held \subseteq Nat,
         dropped \subseteq dropped', late \subseteq late',
         NEW u \in [frames : Seq(Frames), len : Nat], WellCut(u),
         stored' = Append(stored, u),
         Increasing(u.frames), Genuine(u.frames), Ids(u.frames) \subseteq Held,
         Below(Ids(u.frames), Held \ Ids(u.frames)), Held' \subseteq Held \ Ids(u.frames)
  PROVE  /\ StoreTypes' /\ InStock' /\ Unbroken'
         /\ \A n \in 1 .. Len(stored') : Genuine(stored[n].frames)'
         /\ StoredIds' = StoredIds \cup Ids(u.frames)
<1> DEFINE N == Len(stored)
<1>1. /\ N \in Nat /\ Len(stored') = N + 1 /\ stored'[N + 1] = u
      /\ \A n \in 1 .. N : stored'[n] = stored[n]
      /\ stored' \in Seq([frames : Seq(Frames), len : Nat])
  <2> DEFINE R == [frames : Seq(Frames), len : Nat]
  <2>1. stored \in Seq(R) /\ u \in R  BY DEF StoreTypes
  <2> HIDE DEF R
  <2>2. stored' \in Seq(R) /\ N \in Nat /\ Len(stored') = N + 1 /\ stored'[N + 1] = u
    BY <2>1
  <2>3. \A n \in 1 .. N : stored'[n] = stored[n]  BY <2>1
  <2> QED  BY <2>2, <2>3 DEF R
<1> HIDE DEF N
<1>2. \A n \in 1 .. N + 1 : n \in 1 .. N \/ n = N + 1
  <2>1. N \in Nat  BY <1>1
  <2> QED  BY <2>1
<1>3. StoreTypes'
  <2>1. \A n \in 1 .. N : WellCut(stored[n])  BY DEF StoreTypes, UtterancesWellCut, N
  <2>2. \A n \in 1 .. N + 1 : WellCut(stored'[n])  BY <1>1, <1>2, <2>1
  <2> QED  BY <1>1, <2>2 DEF StoreTypes, UtterancesWellCut
<1>4. \A n \in 1 .. Len(stored') : Genuine(stored[n].frames)'
  <2>1. \A n \in 1 .. N : Genuine(stored[n].frames)  BY DEF Authentic, N
  <2>2. \A n \in 1 .. N + 1 : Genuine(stored'[n].frames)  BY <1>1, <1>2, <2>1
  <2> QED  BY <1>1, <2>2 DEF Genuine
<1>5. InStock'
  <2>1. \A n \in 1 .. N : /\ Increasing(stored[n].frames) /\ Below(Ids(stored[n].frames), Held)
                          /\ \A m \in 1 .. n - 1 :
                               Below(Ids(stored[m].frames), Ids(stored[n].frames))
    BY DEF InStock, N
  <2>2. ASSUME NEW n \in 1 .. N + 1
        PROVE  Increasing(stored'[n].frames) /\ Below(Ids(stored'[n].frames), Held')
    <3>1. CASE n \in 1 .. N
      <4>1. stored'[n] = stored[n]  BY <1>1, <3>1
      <4> QED  BY <2>1, <3>1, <4>1 DEF Below
    <3>2. CASE n = N + 1
      <4>1. stored'[n] = u  BY <1>1, <3>2
      <4> QED  BY <4>1 DEF Below
    <3> QED  BY <1>2, <3>1, <3>2
  <2>3. ASSUME NEW n \in 1 .. N + 1, NEW m \in 1 .. n - 1
        PROVE  Below(Ids(stored'[m].frames), Ids(stored'[n].frames))
    <3>1. m \in 1 .. N /\ stored'[m] = stored[m]  BY <1>1
    <3>2. CASE n \in 1 .. N
      <4>1. stored'[n] = stored[n]  BY <1>1, <3>2
      <4> QED  BY <2>1, <3>1, <3>2, <4>1
    <3>3. CASE n = N + 1
      <4>1. stored'[n] = u  BY <1>1, <3>3
      <4>2. Below(Ids(stored[m].frames), Held)  BY <2>1, <3>1
      <4>3. Below(Ids(stored[m].frames), Ids(u.frames))  BY <4>2 DEF Below
      <4> QED  BY <3>1, <4>1, <4>3
    <3> QED  BY <1>2, <3>2, <3>3
  <2> QED  BY <1>1, <2>2, <2>3 DEF InStock
<1>6. Unbroken'
  <2>1. \A n \in 1 .. N : \A a, b \in Ids(stored[n].frames) :
          a .. b \subseteq Ids(stored[n].frames) \cup dropped \cup late
    BY DEF Unbroken, N
  <2>2. ASSUME NEW a \in Ids(u.frames), NEW b \in Ids(u.frames), NEW x \in a .. b
        PROVE  x \in Ids(u.frames) \cup dropped' \cup late'
    <3>1. a \in Held /\ b \in Held /\ b \in Nat /\ a \in Nat  OBVIOUS
    <3>2. b \in 1 .. Len(said)
      <4>1. PICK i \in 1 .. Len(u.frames) : u.frames[i].id = b  BY IdsOf
      <4> QED  BY <4>1 DEF Genuine
    <3>3. x \in a .. Len(said)  BY <3>1, <3>2
    <3>4. x \in Held \cup dropped \cup late  BY <3>1, <3>3 DEF Covered
    <3>5. CASE x \in Held \ Ids(u.frames)
      <4>1. b < x  BY <3>5 DEF Below
      <4> QED  BY <3>1, <4>1
    <3> QED  BY <3>4, <3>5
  <2>3. ASSUME NEW n \in 1 .. N + 1,
               NEW a \in Ids(stored'[n].frames), NEW b \in Ids(stored'[n].frames)
        PROVE  a .. b \subseteq Ids(stored'[n].frames) \cup dropped' \cup late'
    <3>1. CASE n \in 1 .. N
      <4>1. stored'[n] = stored[n]  BY <1>1, <3>1
      <4>2. a .. b \subseteq Ids(stored[n].frames) \cup dropped \cup late
        BY <2>1, <2>3, <3>1, <4>1
      <4> QED  BY <4>1, <4>2
    <3>2. CASE n = N + 1
      <4>1. stored'[n] = u  BY <1>1, <3>2
      <4> QED  BY <2>2, <2>3, <4>1
    <3> QED  BY <1>2, <3>1, <3>2
  <2> QED  BY <1>1, <2>3 DEF Unbroken
<1>7. StoredIds' = StoredIds \cup Ids(u.frames)
  <2>1. StoredIds = UNION {Ids(stored[n].frames) : n \in 1 .. N}  BY DEF StoredIds, N
  <2>2. StoredIds' = UNION {Ids(stored'[n].frames) : n \in 1 .. N + 1}  BY <1>1 DEF StoredIds
  <2>3. \A n \in 1 .. N : n \in 1 .. N + 1  BY <1>1
  <2>4. N + 1 \in 1 .. N + 1  BY <1>1
  <2>5. ASSUME NEW x
        PROVE  x \in StoredIds' <=> x \in StoredIds \cup Ids(u.frames)
    <3>1. ASSUME x \in StoredIds'
          PROVE  x \in StoredIds \cup Ids(u.frames)
      <4>1. PICK n \in 1 .. N + 1 : x \in Ids(stored'[n].frames)  BY <2>2, <3>1
      <4> QED  BY <1>1, <1>2, <2>1, <4>1
    <3>2. ASSUME x \in StoredIds
          PROVE  x \in StoredIds'
      <4>1. PICK n \in 1 .. N : x \in Ids(stored[n].frames)  BY <2>1, <3>2
      <4> QED  BY <1>1, <2>2, <2>3, <4>1
    <3>3. x \in Ids(u.frames) => x \in StoredIds'  BY <1>1, <2>2, <2>4
    <3> QED  BY <3>1, <3>2, <3>3
  <2> QED  BY <2>5
<1> QED  BY <1>3, <1>4, <1>5, <1>6, <1>7

(* What is lost if a step loses no speech. *)
LEMMA LostNothing ==
  ASSUME LittleLost, said' = said, Gone' \subseteq Gone, Held' \subseteq Held,
         Listening' => Listening
  PROVE  LittleLost'
<1> SUFFICES ASSUME NEW i \in Gone', NEW j \in Gone', i <= j, i .. j \subseteq Gone'
             PROVE  /\ Ends(said)[j] - Ends(said)[i - 1] < 2 * MinSpeech
                    /\ Listening' /\ j + 1 \in Held' \cup {Len(said) + 1} =>
                         Ends(said)[j] - Ends(said)[i - 1] < MinSpeech
  BY DEF LittleLost
<1>1. i \in Gone /\ j \in Gone /\ i .. j \subseteq Gone  OBVIOUS
<1> QED  BY <1>1 DEF LittleLost

(* What is lost if a turn ends: nothing when it is stored, and too little  *)
(* when it is dropped.  The speech of a dropped turn may be near what was  *)
(* lost before it, but then it has not all been speech: it was not cut for *)
(* its length.                                                             *)
LEMMA LostTurn ==
  ASSUME StateTypes, Covered, LittleLost, Listening, said' = said, Held \subseteq Nat,
         dropped \subseteq dropped', skipped \subseteq skipped', late \subseteq skipped',
         StoredIds \subseteq StoredIds', Held' \subseteq Held,
         NEW q \in Seq(Frames), Increasing(q), Genuine(q), Ids(q) \subseteq Held,
         Below(Ids(q), Held \ Ids(q)), Held' \subseteq Held \ Ids(q),
         Ids(q) \subseteq StoredIds' \/ SpeechIn(q) < MinSpeech,
         \A x \in Held \ Ids(q) : x \in Held' \cup dropped' \cup skipped' \/ ~said[x].speech,
         Listening' => \/ \E i \in 1 .. Len(q) : ~q[i].speech
                       \/ Length(q) >= MaxTurn
                       \/ \E x \in Held \ Ids(q) : x \in 1 .. Len(said) /\ \A y \in Held' : x < y
  PROVE  LittleLost'
<1> DEFINE T == Ends(said)
<1>1. /\ Len(said) \in Nat /\ MinSpeech \in Nat /\ MaxTurn \in Nat /\ MinSpeech <= MaxTurn
      /\ Len(q) \in Nat
  BY CutAssumption DEF StateTypes
<1>2. \A a \in 0 .. Len(said) : T[a] \in Nat  BY EndsValue DEF StateTypes
<1> HIDE DEF T
<1>3. \A x \in Gone' : \/ x \in Gone /\ x \notin Ids(q)
                       \/ x \in Ids(q) /\ SpeechIn(q) < MinSpeech
  BY DEF Gone
<1>4. \A x \in Gone' : x \in 1 .. Len(said) /\ said[x].speech  BY DEF Gone
<1>5. \A x \in Ids(q) : x \in 1 .. Len(said) /\ said[x] \in Frames /\ x \in Nat
  BY IdsOf DEF Genuine, StateTypes
<1> SUFFICES ASSUME NEW i \in Gone', NEW j \in Gone', i <= j, i .. j \subseteq Gone'
             PROVE  /\ T[j] - T[i - 1] < 2 * MinSpeech
                    /\ Listening' /\ j + 1 \in Held' \cup {Len(said) + 1} =>
                         T[j] - T[i - 1] < MinSpeech
  BY DEF LittleLost, T
<1>6. /\ i \in 1 .. Len(said) /\ j \in 1 .. Len(said) /\ i \in Nat /\ j \in Nat
      /\ T[j] \in Nat /\ T[i - 1] \in Nat
  BY <1>1, <1>2, <1>4
<1>7. CASE i .. j \cap Ids(q) = {}
  <2>1. i .. j \subseteq Gone  BY <1>3, <1>7
  <2>2. i \in Gone /\ j \in Gone  BY <1>6, <2>1
  <2> QED  BY <1>6, <2>1, <2>2 DEF LittleLost, T
<1>8. CASE i .. j \cap Ids(q) # {}
  <2>1. PICK z \in i .. j : z \in Ids(q)  BY <1>8
  <2>2. SpeechIn(q) < MinSpeech /\ SpeechIn(q) \in Nat
    <3>1. SpeechIn(q) < MinSpeech  BY <1>3, <2>1
    <3>2. Voiced(q)[Len(q)] \in Nat  BY <1>1, EndsValue
    <3> QED  BY <3>1, <3>2 DEF SpeechIn, Voiced
  <2> DEFINE m == q[1].id
  <2>3. m \in Ids(q) /\ m \in 1 .. Len(said) /\ \A x \in Ids(q) : m <= x
    <3>1. 1 \in 1 .. Len(q)
      <4>1. PICK k \in 1 .. Len(q) : q[k].id = z  BY <2>1, IdsOf
      <4> QED  BY <1>1
    <3>2. m \in Ids(q)  BY <3>1 DEF Ids
    <3>3. ASSUME NEW x \in Ids(q)
          PROVE  m <= x
      <4>1. PICK k \in 1 .. Len(q) : q[k].id = x  BY IdsOf
      <4>2. k = 1 \/ m < x  BY <3>1, <4>1 DEF Increasing
      <4>3. m \in Nat /\ x \in Nat  BY <1>5, <3>2
      <4> QED  BY <4>1, <4>2, <4>3
    <3> QED  BY <1>5, <3>2, <3>3
  <2> HIDE DEF m
  <2>4. m \in Nat /\ z \in Nat /\ m <= z  BY <1>5, <2>1, <2>3
  <2>5. ASSUME NEW x \in i .. j, m <= x
        PROVE  x \in Ids(q)
    <3>1. x \in Gone' /\ x \in m .. Len(said)  BY <1>4, <1>6, <2>4, <2>5
    <3>2. x \in Held \cup dropped \cup late  BY <2>3, <3>1 DEF Covered
    <3>3. x \notin dropped' \cup skipped' \cup Held'  BY <3>1 DEF Gone
    <3>4. x \in Held  BY <3>2, <3>3
    <3>5. said[x].speech  BY <1>4, <3>1
    <3> QED  BY <3>3, <3>4, <3>5
  <2>6. j \in Ids(q)
    <3>1. j \in i .. j /\ m <= j  BY <1>6, <2>1, <2>4
    <3> QED  BY <2>5, <3>1
  <2>7. CASE m <= i
    <3>1. \A x \in i .. j : x \in Ids(q) /\ said[x].speech
      <4>1. \A x \in i .. j : m <= x  BY <1>6, <2>4, <2>7
      <4> QED  BY <1>4, <2>5, <4>1
    <3>2. T[j] - T[i - 1] <= SpeechIn(q)
      BY <1>6, <3>1, RunSum DEF T, StateTypes
    <3> QED  BY <1>1, <1>6, <2>2, <3>2
  <2>8. CASE i < m
    <3>1. m - 1 \in i .. j /\ m \in i .. j /\ m - 1 \in Nat /\ (m - 1) + 1 = m /\ m <= j
          /\ m - 1 \in 0 .. Len(said)
      BY <1>6, <2>1, <2>3, <2>4, <2>8
    <3>2. T[m - 1] - T[i - 1] < MinSpeech
      <4>1. \A x \in i .. m - 1 : x \in i .. j /\ x < m /\ x \in Nat  BY <1>6, <2>4, <3>1
      <4>2. \A x \in i .. m - 1 : x \notin Ids(q)
        <5> SUFFICES ASSUME NEW x \in i .. m - 1, x \in Ids(q) PROVE FALSE  OBVIOUS
        <5>1. m <= x  BY <2>3
        <5> QED  BY <2>4, <4>1, <5>1
      <4>3. i .. m - 1 \subseteq Gone  BY <1>3, <4>1, <4>2
      <4>4. i \in Gone /\ m - 1 \in Gone /\ i <= m - 1
        <5>1. i \in i .. m - 1 /\ m - 1 \in i .. m - 1  BY <1>6, <2>4, <2>8
        <5> QED  BY <2>4, <4>3, <5>1, <1>6, <2>8
      <4>5. (m - 1) + 1 \in Held \cup {Len(said) + 1}  BY <2>3, <3>1
      <4> QED  BY <4>3, <4>4, <4>5 DEF LittleLost, T
    <3>3. \A x \in m .. j : x \in Ids(q) /\ said[x].speech
      <4>1. \A x \in m .. j : x \in i .. j /\ m <= x  BY <1>6, <2>4, <2>8
      <4> QED  BY <1>4, <2>5, <4>1
    <3>4. T[j] - T[m - 1] <= SpeechIn(q)
      BY <1>6, <2>4, <3>1, <3>3, RunSum DEF T, StateTypes
    <3>5. T[m - 1] \in Nat  BY <1>2, <3>1
    <3>6. T[j] - T[i - 1] < 2 * MinSpeech
      BY <1>1, <1>6, <2>2, <3>2, <3>4, <3>5
    <3>7. ASSUME Listening', j + 1 \in Held' \cup {Len(said) + 1}
          PROVE  FALSE
      <4>1. \A x \in Held' : x \in Nat /\ j < x
        <5>1. \A x \in Held' : x \in Held \ Ids(q)  OBVIOUS
        <5> QED  BY <2>6, <5>1 DEF Below
      <4>2. ASSUME NEW x \in Ids(q)
            PROVE  x \in m .. j
        <5>1. x \in Nat /\ m <= x /\ x <= Len(said)  BY <1>1, <1>5, <2>3
        <5>2. CASE j + 1 = Len(said) + 1  BY <1>1, <1>6, <2>4, <5>1, <5>2
        <5>3. CASE j + 1 \in Held'
          <6>1. x < j + 1  BY <5>3 DEF Below
          <6> QED  BY <1>6, <2>4, <5>1, <6>1
        <5> QED  BY <3>7, <5>2, <5>3
      <4>3. ASSUME NEW k \in 1 .. Len(q)
            PROVE  q[k].speech
        <5>1. q[k].id \in Ids(q)  BY DEF Ids
        <5>2. said[q[k].id] = q[k]  BY DEF Genuine
        <5> QED  BY <3>3, <4>2, <5>1, <5>2
      <4>4. ~(Length(q) >= MaxTurn)
        <5>1. SpeechIn(q) = Length(q)  BY <4>3, OnlySpeech
        <5> QED  BY <1>1, <2>2, <5>1
      <4>5. PICK x \in Held \ Ids(q) : x \in 1 .. Len(said) /\ \A y \in Held' : x < y
        BY <3>7, <4>3, <4>4
      <4>6. j < x  BY <2>6 DEF Below
      <4>7. CASE j + 1 \in Held'
        <5>1. x < j + 1  BY <4>5, <4>7
        <5> QED  BY <1>6, <4>5, <4>6, <5>1
      <4>8. CASE j + 1 = Len(said) + 1  BY <1>1, <1>6, <4>5, <4>6, <4>8
      <4> QED  BY <3>7, <4>7, <4>8
    <3> QED  BY <3>6, <3>7
  <2> QED  BY <1>6, <2>4, <2>7, <2>8
<1> QED  BY <1>7, <1>8

(* What is held are frames that were said, the chunker's before the        *)
(* channel's; without a turn it is silence.                                *)
LEMMA HeldFacts ==
  ASSUME IInv
  PROVE  /\ Held \subseteq 1 .. Len(said) /\ Held \subseteq Nat /\ Len(said) \in Nat
         /\ Kept(chunker) \in Seq(Frames) /\ queue \in Seq(Frames)
         /\ \A x \in Ids(Kept(chunker)), y \in Ids(queue) : x < y
         /\ \A x \in Ids(Kept(chunker)) : ~chunker.started => ~said[x].speech
<1>1. /\ said \in Seq(Frames) /\ queue \in Seq(Frames) /\ Genuine(queue) /\ Genuine(Kept(chunker))
      /\ chunker \in ChunkerStates /\ Counted(chunker)
  BY DEF IInv, StateTypes, Authentic, Working, Valid
<1>2. Len(said) \in Nat  BY <1>1
<1>3. \A x \in Ids(Kept(chunker)) : x \in 1 .. Len(said)  BY <1>1 DEF Ids, Genuine
<1>4. \A x \in Ids(queue) : x \in 1 .. Len(said)  BY <1>1 DEF Ids, Genuine
<1>5. Held \subseteq 1 .. Len(said)  BY <1>3, <1>4 DEF Held
<1>6. Kept(chunker) \in Seq(Frames)  BY <1>1 DEF Kept, ChunkerStates
<1>7. \A x \in Ids(Kept(chunker)), y \in Ids(queue) : x < y  BY DEF IInv, InLine, Below
<1>8. ASSUME NEW x \in Ids(Kept(chunker)), ~chunker.started
      PROVE  ~said[x].speech
  <2>1. Kept(chunker) = chunker.pre  BY <1>8 DEF Kept
  <2>2. PICK i \in 1 .. Len(chunker.pre) : chunker.pre[i].id = x  BY <1>8, <2>1, IdsOf
  <2>3. said[x] = chunker.pre[i]  BY <1>1, <2>1, <2>2 DEF Genuine
  <2> QED  BY <1>1, <2>2, <2>3 DEF Counted
<1>9. Held \subseteq Nat  BY <1>2, <1>5
<1> QED  BY <1>1, <1>2, <1>5, <1>6, <1>7, <1>8, <1>9

(* A step in which a turn ends. *)
LEMMA TurnEnds ==
  ASSUME IInv, Listening, NEW q \in Seq(Frames), Increasing(q), Genuine(q),
         Ids(q) \subseteq Held, Below(Ids(q), Held \ Ids(q)),
         NEW result, Ended(q, result), Take(result),
         said' = said, dropped' = dropped, skipped \subseteq skipped',
         late \subseteq late', late' \subseteq skipped', Held' \subseteq Held \ Ids(q),
         \A x \in Held \ Held' : x \in late' \/ \A y \in Held' : x < y,
         \A x \in Held \ Ids(q) : x \in Held' \cup skipped' \/ ~said[x].speech,
         Listening' => \/ \E i \in 1 .. Len(q) : ~q[i].speech
                       \/ Length(q) >= MaxTurn
                       \/ \E x \in Held \ Ids(q) : \A y \in Held' : x < y
  PROVE  /\ StoreTypes' /\ InStock' /\ Unbroken' /\ Covered' /\ LittleLost'
         /\ \A n \in 1 .. Len(stored') : Genuine(stored[n].frames)'
         /\ chunker' = Fresh
<1>1. /\ StateTypes /\ StoreTypes /\ Authentic /\ InStock /\ Covered /\ Unbroken /\ LittleLost
  BY DEF IInv
<1>2. Held \subseteq Nat /\ Held \subseteq 1 .. Len(said)  BY HeldFacts
<1>3. Held' \subseteq Held  OBVIOUS
<1>4. Covered'  BY <1>1, <1>2, <1>3, CoverKept
<1>5. chunker' = Fresh  BY DEF Take, Ended
<1>6. CASE result.out = <<>> /\ (q = <<>> \/ SpeechIn(q) < MinSpeech)
  <2>1. stored' = stored  BY <1>1, <1>6 DEF Take, StoreTypes
  <2>2. /\ StoreTypes' /\ InStock' /\ Unbroken'
        /\ \A n \in 1 .. Len(stored') : Genuine(stored[n].frames)'
    BY <1>1, <1>2, <1>3, <2>1, StockKept
  <2>3. StoredIds' = StoredIds  BY <2>1 DEF StoredIds
  <2>4. Ids(q) \subseteq StoredIds' \/ SpeechIn(q) < MinSpeech
    <3>1. q = <<>> => Ids(q) = {}  BY EmptyIds
    <3> QED  BY <1>6, <3>1
  <2>5. LittleLost'
    <3>1. late \subseteq skipped'  BY <1>1 DEF StateTypes
    <3> QED  BY <1>1, <1>2, <1>3, <2>3, <2>4, <3>1, LostTurn
  <2> QED  BY <1>4, <1>5, <2>2, <2>5
<1>7. CASE \E u \in [frames : Seq(Frames), len : Nat] :
             u.frames = q /\ WellCut(u) /\ result.out = <<u>>
  <2>1. PICK u \in [frames : Seq(Frames), len : Nat] :
          u.frames = q /\ WellCut(u) /\ result.out = <<u>>
    BY <1>7
  <2>2. stored' = Append(stored, u)  BY <1>1, <2>1 DEF Take, StoreTypes
  <2>3. /\ StoreTypes' /\ InStock' /\ Unbroken'
        /\ \A n \in 1 .. Len(stored') : Genuine(stored[n].frames)'
        /\ StoredIds' = StoredIds \cup Ids(u.frames)
    BY <1>1, <1>2, <2>1, <2>2, StockAppend
  <2>4. LittleLost'
    <3>1. late \subseteq skipped' /\ Ids(q) \subseteq StoredIds' /\ StoredIds \subseteq StoredIds'
      BY <1>1, <2>1, <2>3 DEF StateTypes
    <3> QED  BY <1>1, <1>2, <1>3, <3>1, LostTurn
  <2> QED  BY <1>4, <1>5, <2>3, <2>4
<1> QED  BY <1>6, <1>7 DEF Ended

(* A step in which none does. *)
LEMMA NoTurnEnds ==
  ASSUME IInv, stored' = stored, said' = said, dropped \subseteq dropped',
         skipped \subseteq skipped', late \subseteq late', Held' \subseteq Held,
         Listening' => Listening,
         \A x \in Held \ Held' : x \in late' \/ \A y \in Held' : x < y,
         \A x \in Held \ Held' : x \in dropped' \cup skipped' \/ ~said[x].speech
  PROVE  /\ StoreTypes' /\ InStock' /\ Unbroken' /\ Covered' /\ LittleLost'
         /\ \A n \in 1 .. Len(stored') : Genuine(stored[n].frames)'
<1>1. /\ StateTypes /\ StoreTypes /\ Authentic /\ InStock /\ Covered /\ Unbroken /\ LittleLost
  BY DEF IInv
<1>2. Held \subseteq Nat /\ Held' \subseteq Nat  BY HeldFacts
<1>3. Covered'  BY <1>1, <1>2, CoverKept
<1>4. /\ StoreTypes' /\ InStock' /\ Unbroken'
      /\ \A n \in 1 .. Len(stored') : Genuine(stored[n].frames)'
  BY <1>1, <1>2, StockKept
<1>5. Gone' \subseteq Gone
  <2>1. StoredIds' = StoredIds  BY DEF StoredIds
  <2> QED  BY <2>1 DEF Gone
<1>6. LittleLost'  BY <1>1, <1>5, LostNothing
<1> QED  BY <1>3, <1>4, <1>6

-----------------------------------------------------------------------------
(* The actions *)

(* At first nothing is said, held or stored. *)
LEMMA InitHolds == Init => IInv
<1> SUFFICES ASSUME Init PROVE IInv  OBVIOUS
<1>1. /\ said = <<>> /\ queue = <<>> /\ stored = <<>> /\ chunker = Fresh
      /\ dropped = {} /\ skipped = {} /\ late = {} /\ spool = "running"
  BY DEF Init
<1>2. <<>> \in Seq(Frames) /\ Len(<<>>) = 0  OBVIOUS
<1>3. Ids(<<>>) = {} /\ Increasing(<<>>) /\ Genuine(<<>>)  BY EmptyIds
<1>4. Kept(chunker) = <<>>  BY <1>1 DEF Fresh, Kept
<1>5. Held = {}  BY <1>1, <1>3, <1>4 DEF Held
<1>6. StateTypes
  <2>1. MaxFrames \in Nat /\ Capacity \in Nat  BY SizesAssumption
  <2>2. said \in Seq(Frames) /\ queue \in Seq(Frames)  BY <1>1, <1>2
  <2>3. Len(said) <= MaxFrames /\ Len(queue) <= Capacity  BY <1>1, <1>2, <2>1
  <2>4. stream \in BOOLEAN /\ noticed \in BOOLEAN /\ paused \in BOOLEAN /\ stop \in BOOLEAN
    BY DEF Init
  <2>5. spool \in Steps  BY <1>1 DEF Steps
  <2>6. spent \in [Kinds -> Nat]
    <3>1. spent = [k \in Kinds |-> 0]  BY DEF Init
    <3> QED  BY <3>1
  <2> QED  BY <1>1, <2>2, <2>3, <2>4, <2>5, <2>6 DEF StateTypes
<1>7. Working  BY <1>1, FreshValid DEF Working, Init
<1>8. StoreTypes
  <2>1. <<>> \in Seq([frames : Seq(Frames), len : Nat])  OBVIOUS
  <2> QED  BY <1>1, <1>2, <2>1 DEF StoreTypes, UtterancesWellCut
<1>9. Authentic /\ InLine /\ InStock /\ Covered /\ Unbroken
  BY <1>1, <1>2, <1>3, <1>4, <1>5 DEF Authentic, InLine, InStock, Covered, Unbroken, Below
<1>10. LittleLost  BY <1>1, <1>2 DEF LittleLost, Gone
<1> QED  BY <1>6, <1>7, <1>8, <1>9, <1>10 DEF IInv

(* A step that moves no frame. *)
LEMMA FramesStay ==
  ASSUME IInv, UNCHANGED <<buffers, history>>, Listening' => Listening
  PROVE  Authentic' /\ InLine' /\ StoreTypes' /\ InStock' /\ Covered' /\ Unbroken' /\ LittleLost'
<1>1. /\ said' = said /\ queue' = queue /\ chunker' = chunker /\ stored' = stored
      /\ dropped' = dropped /\ skipped' = skipped /\ late' = late
  BY DEF buffers, history
<1>2. Held' = Held  BY <1>1 DEF Held
<1>3. /\ StoreTypes' /\ InStock' /\ Unbroken' /\ Covered' /\ LittleLost'
      /\ \A n \in 1 .. Len(stored') : Genuine(stored[n].frames)'
  BY <1>1, <1>2, NoTurnEnds
<1>4. Authentic'  BY <1>1, <1>3 DEF IInv, Authentic, Genuine
<1>5. InLine'  BY <1>1 DEF IInv, InLine
<1> QED  BY <1>3, <1>4, <1>5

(* The streams' end, the end of the loop, and the user's commands. *)
LEMMA FlagSteps ==
  ASSUME IInv, StreamEnds \/ LeaveLoop \/ Pause \/ Resume \/ Stop
  PROVE  IInv'
<1>1. /\ UNCHANGED <<buffers, history, noticed>>
      /\ Listening' <=> Listening
      /\ spool' = spool \/ (spool = "running" /\ spool' = "draining")
      /\ stream' \in {stream, FALSE} /\ paused' \in BOOLEAN /\ stop' \in BOOLEAN
  BY DEF StreamEnds, LeaveLoop, Pause, Resume, Stop, Listening, IInv, StateTypes, flags, history,
         buffers
<1>2. spent' \in [Kinds -> Nat]
  <2>1. UNCHANGED spent \/ \E k \in Kinds : Spend(k)
    BY DEF StreamEnds, LeaveLoop, Pause, Resume, Stop, Kinds
  <2>2. spent \in [Kinds -> Nat]  BY DEF IInv, StateTypes
  <2>3. ASSUME NEW k \in Kinds, Spend(k)
        PROVE  spent' \in [Kinds -> Nat]
    <3>1. spent' = [spent EXCEPT ![k] = @ + 1]  BY <2>3 DEF Spend
    <3> QED  BY <2>2, <3>1
  <2> QED  BY <2>1, <2>2, <2>3
<1>3. Authentic' /\ InLine' /\ StoreTypes' /\ InStock' /\ Covered' /\ Unbroken' /\ LittleLost'
  BY <1>1, FramesStay
<1>4. StateTypes'
  BY <1>1, <1>2 DEF IInv, StateTypes, buffers, history, Steps
<1>5. Working'
  BY <1>1 DEF IInv, Working, buffers, Listening
<1> QED  BY <1>3, <1>4, <1>5 DEF IInv

(* One more frame is said: it is held, dropped, or silence between streams. *)
LEMMA SayMore ==
  ASSUME IInv, NEW f \in Frames, f.id = Len(said) + 1, said' = Append(said, f),
         stored' = stored, late' = late, dropped \subseteq dropped', skipped \subseteq skipped',
         Held \subseteq Held', Held' \subseteq Held \cup {f.id},
         f.id \in Held' \cup dropped' \/ (Held' = {} /\ ~f.speech),
         Listening' => Listening \/ Held' = {}
  PROVE  /\ StoreTypes' /\ InStock' /\ Unbroken' /\ Covered' /\ LittleLost'
         /\ \A n \in 1 .. Len(stored') : Genuine(stored[n].frames)'
         /\ Genuine(said)'
         /\ \A q : Genuine(q) => \A i \in 1 .. Len(q) :
                     q[i].id \in 1 .. Len(said') /\ said'[q[i].id] = q[i]
<1> DEFINE L == Len(said)
<1>1. /\ StateTypes /\ StoreTypes /\ Authentic /\ InStock /\ Covered /\ Unbroken /\ LittleLost
      /\ said \in Seq(Frames)
  BY DEF IInv, StateTypes
<1>2. Held \subseteq 1 .. L /\ L \in Nat  BY HeldFacts
<1>3. /\ Len(said') = L + 1 /\ said'[L + 1] = f /\ said' \in Seq(Frames)
      /\ \A i \in 1 .. L : said'[i] = said[i]
  BY <1>1
<1> HIDE DEF L
<1>4. \A i \in 1 .. L + 1 : i \in 1 .. L \/ i = L + 1  BY <1>2
<1>5. \A i \in 1 .. L : i \in 1 .. L + 1  BY <1>2
<1>6. f.id = L + 1  BY DEF L
<1>7. Held' \subseteq Nat /\ \A x \in Held' : x \in Held \/ x > L  BY <1>2, <1>6
<1>8. /\ StoreTypes' /\ InStock' /\ Unbroken'
      /\ \A n \in 1 .. Len(stored') : Genuine(stored[n].frames)'
  <2>1. \A i \in 1 .. Len(said) : i \in 1 .. Len(said') /\ said'[i] = said[i]
    BY <1>3, <1>5 DEF L
  <2> QED  BY <1>1, <1>7, <2>1, StockKept DEF L
<1>9. Genuine(said)'
  <2>1. \A i \in 1 .. L : said[i].id \in 1 .. L /\ said[said[i].id] = said[i]
    BY <1>1 DEF Authentic, Genuine, L
  <2>2. ASSUME NEW i \in 1 .. L + 1
        PROVE  said'[i].id \in 1 .. L + 1 /\ said'[said'[i].id] = said'[i]
    <3>1. CASE i \in 1 .. L  BY <1>3, <1>5, <2>1, <3>1
    <3>2. CASE i = L + 1  BY <1>3, <1>6, <2>2, <3>2
    <3> QED  BY <1>4, <3>1, <3>2
  <2> QED  BY <1>3, <2>2 DEF Genuine
<1>10. \A q : Genuine(q) => \A i \in 1 .. Len(q) :
                     q[i].id \in 1 .. Len(said') /\ said'[q[i].id] = q[i]
  BY <1>3, <1>5 DEF Genuine, L
<1>11. Covered'
  <2> SUFFICES ASSUME NEW a \in Held', NEW x \in a .. L + 1
               PROVE  x \in Held' \cup dropped' \cup late'
    BY <1>3 DEF Covered
  <2>1. CASE x = L + 1  BY <1>6, <2>1
  <2>2. CASE x # L + 1
    <3>1. a \in Nat  BY <1>7
    <3>2. x \in a .. L /\ a # L + 1  BY <1>2, <2>2, <3>1
    <3>3. a \in Held  BY <1>6, <3>2
    <3> QED  BY <1>1, <3>2, <3>3 DEF Covered, L
  <2> QED  BY <2>1, <2>2
<1>12. Gone' \subseteq Gone
  <2> SUFFICES ASSUME NEW x \in Gone' PROVE x \in Gone  OBVIOUS
  <2>1. /\ x \in 1 .. L + 1 /\ said'[x].speech
        /\ x \notin StoredIds' \cup Held' \cup dropped' \cup skipped'
    BY <1>3 DEF Gone
  <2>2. x # L + 1  BY <1>3, <1>6, <2>1
  <2>3. x \in 1 .. L /\ said[x].speech  BY <1>3, <1>4, <2>1, <2>2
  <2>4. StoredIds' = StoredIds  BY DEF StoredIds
  <2>5. late \subseteq skipped  BY <1>1 DEF StateTypes
  <2> QED  BY <2>1, <2>3, <2>4, <2>5 DEF Gone, L
<1>13. LittleLost'
  <2> SUFFICES ASSUME NEW i \in Gone', NEW j \in Gone', i <= j, i .. j \subseteq Gone'
               PROVE  /\ Ends(said')[j] - Ends(said')[i - 1] < 2 * MinSpeech
                      /\ Listening' /\ j + 1 \in Held' \cup {Len(said') + 1} =>
                           Ends(said')[j] - Ends(said')[i - 1] < MinSpeech
    BY DEF LittleLost
  <2>1. i \in Gone /\ j \in Gone /\ i .. j \subseteq Gone  BY <1>12
  <2>2. i \in 1 .. L /\ j \in 1 .. L  BY <2>1 DEF Gone, L
  <2>3. Ends(said')[j] = Ends(said)[j] /\ Ends(said')[i - 1] = Ends(said)[i - 1]
    <3>1. j \in 0 .. Len(said) /\ i - 1 \in 0 .. Len(said)  BY <1>2, <2>2 DEF L
    <3> QED  BY <1>1, <3>1, AppendEnds
  <2>4. Ends(said)[j] - Ends(said)[i - 1] < 2 * MinSpeech  BY <1>1, <2>1 DEF LittleLost
  <2>5. ASSUME Listening', j + 1 \in Held' \cup {Len(said') + 1}
        PROVE  Ends(said)[j] - Ends(said)[i - 1] < MinSpeech
    <3>1. j + 1 \in Held'
      <4>1. j + 1 # Len(said') + 1  BY <1>2, <1>3, <2>2
      <4> QED  BY <2>5, <4>1
    <3>2. Listening  BY <2>5, <3>1
    <3>3. j + 1 \in Held \cup {Len(said) + 1}  BY <3>1
    <3> QED  BY <1>1, <2>1, <3>2, <3>3 DEF LittleLost
  <2> QED  BY <2>3, <2>4, <2>5
<1> QED  BY <1>8, <1>9, <1>10, <1>11, <1>13

(* A frame that is captured is the newest in the channel, or dropped. *)
LEMMA CaptureStep ==
  ASSUME IInv, NEW sound \in Sounds, Capture(sound)
  PROVE  IInv'
<1> DEFINE f == Frame(sound)
           L == Len(said)
<1>1. /\ stored' = stored /\ late' = late /\ skipped' = skipped /\ chunker' = chunker
      /\ stream' = stream /\ spool' = spool /\ noticed' = noticed /\ paused' = paused
      /\ stop' = stop /\ spent' = spent /\ said' = Append(said, f) /\ L < MaxFrames
  BY DEF Capture, flags
<1>2. /\ \/ Listening /\ Len(queue) < Capacity /\ queue' = Append(queue, f) /\ dropped' = dropped
         \/ dropped' = dropped \cup {f.id} /\ queue' = queue
  BY DEF Capture
<1>3. /\ said \in Seq(Frames) /\ queue \in Seq(Frames) /\ L \in Nat /\ MaxFrames \in Nat
      /\ Len(queue) <= Capacity /\ Capacity \in Nat
  BY SizesAssumption DEF IInv, StateTypes
<1>4. f \in Frames /\ f.id = L + 1
  <2>1. /\ f.id = L + 1 /\ f.len = sound.len /\ f.speech = sound.speech /\ f.quiet = paused
        /\ f = [id |-> L + 1, len |-> sound.len, speech |-> sound.speech, quiet |-> paused]
    BY DEF Frame
  <2>2. /\ L + 1 \in 1 .. MaxFrames /\ sound.len \in Nat \ {0} /\ sound.speech \in BOOLEAN
        /\ paused \in BOOLEAN
    BY <1>1, <1>3, SoundsAssumption DEF IInv, StateTypes
  <2> HIDE DEF f, L
  <2> QED  BY <2>1, <2>2 DEF Frames
<1> HIDE DEF f
<1>5. Listening' <=> Listening  BY <1>1 DEF Listening
<1>6. /\ Held \subseteq 1 .. L /\ Kept(chunker) \in Seq(Frames)
      /\ \A x \in Ids(Kept(chunker)), y \in Ids(queue) : x < y
  BY HeldFacts
<1>7. /\ \A x \in Ids(Kept(chunker)) : x < L + 1
      /\ \A x \in Ids(queue) : x < L + 1
  BY <1>3, <1>6 DEF Held
<1>8. Increasing(queue) /\ Increasing(Kept(chunker)) /\ Genuine(queue) /\ Genuine(Kept(chunker))
  BY DEF IInv, InLine, Authentic
<1>9. /\ Held \subseteq Held' /\ Held' \subseteq Held \cup {f.id}
      /\ f.id \in Held' \cup dropped' /\ dropped \subseteq dropped'
      /\ Increasing(queue') /\ Below(Ids(Kept(chunker)), Ids(queue'))
      /\ \A i \in 1 .. Len(queue') :
           queue'[i] = f \/ \E j \in 1 .. Len(queue) : queue'[i] = queue[j]
      /\ queue' \in Seq(Frames) /\ Len(queue') <= Capacity
      /\ ~Listening => queue' = queue
  <2>1. CASE /\ Listening /\ Len(queue) < Capacity /\ queue' = Append(queue, f)
             /\ dropped' = dropped
    <3>1. Below(Ids(queue), {f.id})  BY <1>4, <1>7 DEF Below
    <3>2. /\ Ids(queue') = Ids(queue) \cup {f.id} /\ Increasing(queue')
          /\ queue' \in Seq(Frames)
      BY <1>3, <1>4, <1>8, <2>1, <3>1, AppendIds
    <3>3. Held' = Held \cup {f.id}  BY <1>1, <3>2 DEF Held
    <3>4. Below(Ids(Kept(chunker)), Ids(queue'))
      BY <1>4, <1>6, <1>7, <3>2 DEF Below
    <3>5. Len(queue') = Len(queue) + 1 /\ Len(queue) \in Nat  BY <1>3, <2>1
    <3>6. \A i \in 1 .. Len(queue') :
            queue'[i] = f \/ \E j \in 1 .. Len(queue) : queue'[i] = queue[j]
      <4> SUFFICES ASSUME NEW i \in 1 .. Len(queue')
                   PROVE  queue'[i] = f \/ \E j \in 1 .. Len(queue) : queue'[i] = queue[j]
        OBVIOUS
      <4>1. CASE i = Len(queue) + 1  BY <1>3, <2>1, <4>1
      <4>2. CASE i # Len(queue) + 1
        <5>1. i \in 1 .. Len(queue)  BY <3>5, <4>2
        <5>2. queue'[i] = queue[i]  BY <1>3, <2>1, <5>1
        <5> QED  BY <5>1, <5>2
      <4> QED  BY <4>1, <4>2
    <3>7. Len(queue') <= Capacity  BY <1>3, <2>1, <3>5
    <3> QED  BY <2>1, <3>2, <3>3, <3>4, <3>6, <3>7
  <2>2. CASE dropped' = dropped \cup {f.id} /\ queue' = queue
    <3>1. Held' = Held  BY <1>1, <2>2 DEF Held
    <3> QED  BY <1>3, <1>6, <1>8, <2>2, <3>1 DEF Below
  <2> QED  BY <1>2, <2>1, <2>2
<1>10. /\ StoreTypes' /\ InStock' /\ Unbroken' /\ Covered' /\ LittleLost'
       /\ \A n \in 1 .. Len(stored') : Genuine(stored[n].frames)'
       /\ Genuine(said)'
       /\ \A q : Genuine(q) => \A i \in 1 .. Len(q) :
                   q[i].id \in 1 .. Len(said') /\ said'[q[i].id] = q[i]
  BY <1>1, <1>4, <1>5, <1>9, SayMore
<1>11. Authentic'
  <2>1. Genuine(Kept(chunker))'
    <3>1. Kept(chunker)' = Kept(chunker)  BY <1>1
    <3> QED  BY <1>8, <1>10, <3>1 DEF Genuine
  <2>2. f.id \in 1 .. Len(said') /\ said'[f.id] = f
    BY <1>1, <1>3, <1>4
  <2>3. Genuine(queue)'
    <3>1. \A j \in 1 .. Len(queue) :
            queue[j].id \in 1 .. Len(said') /\ said'[queue[j].id] = queue[j]
      BY <1>8, <1>10
    <3> QED  BY <1>9, <2>2, <3>1 DEF Genuine
  <2> QED  BY <1>10, <2>1, <2>3 DEF Authentic
<1>12. InLine'
  <2>1. Kept(chunker)' = Kept(chunker)  BY <1>1
  <2> QED  BY <1>8, <1>9, <2>1 DEF InLine
<1>13. StateTypes'
  <2>1. said' \in Seq(Frames) /\ Len(said') = L + 1  BY <1>1, <1>3, <1>4
  <2>2. \A x \in 1 .. L : x \in 1 .. L + 1  BY <1>3
  <2>3. dropped' \subseteq dropped \cup {f.id}  BY <1>2
  <2>4. L + 1 \in 1 .. L + 1 /\ L + 1 <= MaxFrames  BY <1>1, <1>3
  <2>5. dropped \subseteq 1 .. L /\ skipped \subseteq 1 .. L  BY DEF IInv, StateTypes
  <2>6. dropped' \subseteq 1 .. Len(said') /\ skipped' \subseteq 1 .. Len(said')
    BY <1>1, <1>4, <2>1, <2>2, <2>3, <2>4, <2>5
  <2> QED  BY <1>1, <1>9, <2>1, <2>4, <2>6 DEF IInv, StateTypes
<1>14. Working'
  BY <1>1, <1>5, <1>9 DEF IInv, Working
<1> QED  BY <1>10, <1>11, <1>12, <1>13, <1>14 DEF IInv

(* New streams begin with nothing held. *)
LEMMA ReopenStep ==
  ASSUME IInv, Reopen
  PROVE  IInv'
<1> DEFINE L == Len(said)
           f == Frame([len |-> 1, speech |-> FALSE])
<1>1. /\ stream' = TRUE /\ spool' = "running" /\ queue' = <<>> /\ chunker' = Fresh
      /\ noticed' = FALSE /\ said' = Append(said, f) /\ skipped' = skipped \cup {L + 1}
      /\ stored' = stored /\ paused' = paused /\ stop' = stop /\ dropped' = dropped
      /\ late' = late /\ spent' = spent /\ ~Listening /\ L < MaxFrames
  BY DEF Reopen, flags
<1>2. said \in Seq(Frames) /\ L \in Nat /\ MaxFrames \in Nat /\ Capacity \in Nat
  BY SizesAssumption DEF IInv, StateTypes
<1>3. f \in Frames /\ f.id = L + 1 /\ ~f.speech
  <2>1. f = [id |-> L + 1, len |-> 1, speech |-> FALSE, quiet |-> paused]  BY DEF Frame
  <2>2. L + 1 \in 1 .. MaxFrames /\ paused \in BOOLEAN
    BY <1>1, <1>2 DEF IInv, StateTypes
  <2> HIDE DEF f, L
  <2> QED  BY <2>1, <2>2 DEF Frames
<1> HIDE DEF f
<1>4. /\ Ids(<<>>) = {} /\ Increasing(<<>>) /\ Genuine(<<>>) /\ <<>> \in Seq(Frames)
      /\ Len(<<>>) = 0
  BY EmptyIds
<1>5. Kept(Fresh) = <<>>  BY DEF Kept, Fresh
<1>6. Held = {} /\ Held' = {}
  <2>1. chunker = Fresh /\ queue = <<>>  BY <1>1 DEF IInv, Working
  <2> QED  BY <1>1, <1>4, <1>5, <2>1 DEF Held
<1>7. /\ StoreTypes' /\ InStock' /\ Unbroken' /\ Covered' /\ LittleLost'
      /\ \A n \in 1 .. Len(stored') : Genuine(stored[n].frames)'
      /\ Genuine(said)'
  BY <1>1, <1>3, <1>6, SayMore
<1>8. Kept(chunker)' = <<>> /\ queue' = <<>>  BY <1>1, <1>5
<1>9. Authentic'
  <2>1. Genuine(queue)' /\ Genuine(Kept(chunker))'  BY <1>4, <1>8 DEF Genuine
  <2> QED  BY <1>7, <2>1 DEF Authentic
<1>10. InLine'  BY <1>4, <1>8 DEF InLine, Below
<1>11. StateTypes'
  <2>1. said' \in Seq(Frames) /\ Len(said') = L + 1  BY <1>1, <1>2, <1>3
  <2>2. \A x \in 1 .. L : x \in 1 .. L + 1  BY <1>2
  <2>3. L + 1 \in 1 .. L + 1 /\ L + 1 <= MaxFrames  BY <1>1, <1>2
  <2>4. dropped \subseteq 1 .. L /\ skipped \subseteq 1 .. L  BY DEF IInv, StateTypes
  <2>5. dropped' \subseteq 1 .. Len(said') /\ skipped' \subseteq 1 .. Len(said')
    BY <1>1, <2>1, <2>2, <2>3, <2>4
  <2>6. Len(queue') <= Capacity /\ queue' \in Seq(Frames)  BY <1>1, <1>2, <1>4
  <2>7. late' \subseteq skipped'  BY <1>1 DEF IInv, StateTypes
  <2>8. stream' \in BOOLEAN /\ spool' \in Steps /\ noticed' \in BOOLEAN  BY <1>1 DEF Steps
  <2> QED  BY <1>1, <2>1, <2>3, <2>5, <2>6, <2>7, <2>8 DEF IInv, StateTypes
<1>12. Working'  BY <1>1, FreshValid DEF Working, Listening
<1> QED  BY <1>7, <1>9, <1>10, <1>11, <1>12 DEF IInv

(* The types after a step that says nothing new. *)
LEMMA TypesStay ==
  ASSUME IInv, said' = said, queue' \in {queue, Tail(queue), <<>>}, queue # <<>> \/ queue' = <<>>,
         stream' = stream, spool' \in Steps, noticed' \in BOOLEAN,
         UNCHANGED flags, dropped' \subseteq 1 .. Len(said),
         skipped' \in {skipped, skipped \cup {Head(queue).id}},
         skipped' = skipped \/ queue # <<>>,
         late' \in {late, late \cup {Head(queue).id}}, late' = late \/ skipped' # skipped
            \/ Head(queue).id \in skipped',
         spent' \in [Kinds -> Nat]
  PROVE  StateTypes'
<1>1. /\ queue \in Seq(Frames) /\ said \in Seq(Frames) /\ Increasing(queue) /\ Genuine(queue)
      /\ Len(queue) <= Capacity /\ skipped \subseteq 1 .. Len(said) /\ late \subseteq skipped
      /\ Capacity \in Nat
  BY SizesAssumption DEF IInv, StateTypes, InLine, Authentic
<1>2. Len(<<>>) = 0 /\ <<>> \in Seq(Frames) /\ Len(queue) \in Nat  BY <1>1
<1>3. queue' \in Seq(Frames) /\ Len(queue') <= Capacity
  <2>1. CASE queue # <<>>
    <3>1. Tail(queue) \in Seq(Frames) /\ Len(Tail(queue)) = Len(queue) - 1
      BY <1>1, <2>1, TailIds
    <3>2. Len(Tail(queue)) <= Capacity  BY <1>1, <1>2, <3>1
    <3>3. 0 <= Capacity  BY <1>1
    <3>4. CASE queue' = queue  BY <1>1, <3>4
    <3>5. CASE queue' = Tail(queue)  BY <3>1, <3>2, <3>5, Zenon
    <3>6. CASE queue' = <<>>  BY <1>2, <3>3, <3>6
    <3>7. queue' = queue \/ queue' = Tail(queue) \/ queue' = <<>>  BY Zenon
    <3> QED  BY <3>4, <3>5, <3>6, <3>7, Zenon
  <2>2. CASE queue = <<>>  BY <1>1, <1>2, <2>2
  <2> QED  BY <2>1, <2>2
<1>4. queue # <<>> => Head(queue).id \in 1 .. Len(said)
  <2> SUFFICES ASSUME queue # <<>> PROVE Head(queue).id \in 1 .. Len(said)  OBVIOUS
  <2>1. Genuine(<<Head(queue)>>)  BY <1>1, TailIds
  <2>2. 1 \in 1 .. Len(<<Head(queue)>>) /\ <<Head(queue)>>[1] = Head(queue)  OBVIOUS
  <2> QED  BY <2>1, <2>2 DEF Genuine
<1>5. skipped' \subseteq 1 .. Len(said)  BY <1>1, <1>4
<1>6. late' \subseteq skipped'  BY <1>1
<1> QED  BY <1>1, <1>3, <1>5, <1>6 DEF IInv, StateTypes, flags

(* All that a failing spool held is dropped. *)
LEMMA SpoolFailsStep ==
  ASSUME IInv, SpoolFails
  PROVE  IInv'
<1>1. /\ Listening /\ spool' = "failed" /\ queue' = <<>> /\ chunker' = Fresh
      /\ dropped' = dropped \cup Ids(queue) \cup Ids(chunker.active) \cup Ids(chunker.pre)
      /\ stream' = stream /\ stored' = stored /\ noticed' = noticed /\ UNCHANGED flags
      /\ said' = said /\ skipped' = skipped /\ late' = late /\ Spend("fault")
  BY DEF SpoolFails
<1>2. Ids(<<>>) = {} /\ Increasing(<<>>) /\ Genuine(<<>>)  BY EmptyIds
<1>3. Kept(Fresh) = <<>>  BY DEF Kept, Fresh
<1>4. Held' = {}  BY <1>1, <1>2, <1>3 DEF Held
<1>5. Held \subseteq dropped'  BY <1>1 DEF Held, Kept
<1>6. Held' \subseteq Held /\ ~Listening'  BY <1>1, <1>4 DEF Listening
<1>7. /\ StoreTypes' /\ InStock' /\ Unbroken' /\ Covered' /\ LittleLost'
      /\ \A n \in 1 .. Len(stored') : Genuine(stored[n].frames)'
  BY <1>1, <1>4, <1>5, <1>6, NoTurnEnds
<1>8. Kept(chunker)' = <<>> /\ queue' = <<>>  BY <1>1, <1>3
<1>9. Authentic'
  <2>1. Genuine(queue)' /\ Genuine(Kept(chunker))'  BY <1>2, <1>8 DEF Genuine
  <2>2. Genuine(said)'  BY <1>1 DEF IInv, Authentic, Genuine
  <2> QED  BY <1>7, <2>1, <2>2 DEF Authentic
<1>10. InLine'  BY <1>2, <1>8 DEF InLine, Below
<1>11. StateTypes'
  <2>1. spent' \in [Kinds -> Nat]
    <3>1. spent \in [Kinds -> Nat] /\ "fault" \in Kinds  BY DEF IInv, StateTypes, Kinds
    <3> QED  BY <1>1, <3>1 DEF Spend
  <2>2. Ids(chunker.active) \cup Ids(chunker.pre) \subseteq 1 .. Len(said)
    <3>1. CASE chunker.started
      <4>1. Kept(chunker) = chunker.active /\ chunker.pre = <<>>
        BY <3>1 DEF IInv, Working, Valid, Counted, Kept
      <4>2. Ids(Kept(chunker)) \subseteq 1 .. Len(said)  BY HeldFacts DEF Held
      <4> QED  BY <1>2, <4>1, <4>2
    <3>2. CASE ~chunker.started
      <4>1. Kept(chunker) = chunker.pre /\ chunker.active = <<>>
        BY <3>2 DEF IInv, Working, Valid, Counted, Kept
      <4>2. Ids(Kept(chunker)) \subseteq 1 .. Len(said)  BY HeldFacts DEF Held
      <4> QED  BY <1>2, <4>1, <4>2
    <3> QED  BY <3>1, <3>2
  <2>3. Ids(queue) \subseteq 1 .. Len(said) /\ dropped \subseteq 1 .. Len(said)
    BY HeldFacts DEF Held, IInv, StateTypes
  <2>4. dropped' \subseteq 1 .. Len(said)  BY <1>1, <2>2, <2>3
  <2>5. spool' \in Steps /\ noticed' \in BOOLEAN  BY <1>1 DEF Steps, IInv, StateTypes
  <2> QED  BY <1>1, <2>1, <2>4, <2>5, TypesStay
<1>12. Working'  BY <1>1, FreshValid DEF Working, Listening
<1> QED  BY <1>7, <1>9, <1>10, <1>11, <1>12 DEF IInv

(* The last turn ends with the spool, and nobody loses speech after it. *)
LEMMA EndSpoolStep ==
  ASSUME IInv, EndSpool
  PROVE  IInv'
<1> DEFINE q == chunker.active
<1>1. /\ Listening /\ queue = <<>> /\ Take(Flush(chunker)) /\ spool' = "ended"
      /\ stream' = stream /\ queue' = queue /\ noticed' = noticed /\ UNCHANGED flags
      /\ said' = said /\ dropped' = dropped /\ skipped' = skipped /\ late' = late
      /\ spent' = spent
  BY DEF EndSpool, Listening, history
<1>2. Ids(<<>>) = {} /\ Increasing(<<>>) /\ Genuine(<<>>)  BY EmptyIds
<1>3. Kept(Fresh) = <<>>  BY DEF Kept, Fresh
<1>4. Valid(chunker)  BY DEF IInv, Working
<1>5. /\ q \in Seq(Frames) /\ Increasing(q) /\ Genuine(q) /\ Ids(q) \subseteq Held
      /\ \A x \in Held \ Ids(q) : ~said[x].speech
      /\ Below(Ids(q), Held \ Ids(q))
  <2>1. CASE chunker.started
    <3>1. Kept(chunker) = q  BY <2>1 DEF Kept
    <3>2. Held = Ids(q)  BY <1>1, <1>2, <3>1 DEF Held
    <3> QED  BY <3>1, <3>2, HeldFacts DEF IInv, InLine, Authentic, Below
  <2>2. CASE ~chunker.started
    <3>1. q = <<>>  BY <1>4, <2>2 DEF Valid, Counted
    <3>2. Held = Ids(Kept(chunker))  BY <1>1, <1>2 DEF Held
    <3>3. \A x \in Held : ~said[x].speech  BY <2>2, <3>2, HeldFacts
    <3>4. <<>> \in Seq(Frames)  BY EmptyIds
    <3> QED  BY <1>2, <3>1, <3>3, <3>4 DEF Below
  <2> QED  BY <2>1, <2>2
<1>6. Ended(q, Flush(chunker))  BY <1>4, FlushCases
<1>7. chunker' = Fresh  BY <1>1, <1>6 DEF Take, Ended
<1>8. Held' = {}  BY <1>1, <1>2, <1>3, <1>7 DEF Held
<1>9. ~Listening'  BY <1>1 DEF Listening
<1>10. /\ StoreTypes' /\ InStock' /\ Unbroken' /\ Covered' /\ LittleLost'
       /\ \A n \in 1 .. Len(stored') : Genuine(stored[n].frames)'
  <2>1. late' \subseteq skipped'  BY <1>1 DEF IInv, StateTypes
  <2> HIDE DEF q
  <2> QED  BY <1>1, <1>5, <1>6, <1>8, <1>9, <2>1, TurnEnds
<1>11. Kept(chunker)' = <<>> /\ queue' = <<>>  BY <1>1, <1>3, <1>7
<1>12. Authentic'
  <2>1. Genuine(queue)' /\ Genuine(Kept(chunker))'  BY <1>2, <1>11 DEF Genuine
  <2>2. Genuine(said)'  BY <1>1 DEF IInv, Authentic, Genuine
  <2> QED  BY <1>10, <2>1, <2>2 DEF Authentic
<1>13. InLine'  BY <1>2, <1>11 DEF InLine, Below
<1>14. StateTypes'
  <2>1. spool' \in Steps /\ noticed' \in BOOLEAN /\ dropped' \subseteq 1 .. Len(said)
        /\ spent' \in [Kinds -> Nat]
    BY <1>1 DEF Steps, IInv, StateTypes
  <2> QED  BY <1>1, <2>1, TypesStay
<1>15. Working'  BY <1>1, <1>7, FreshValid DEF Working, Listening
<1> QED  BY <1>10, <1>12, <1>13, <1>14, <1>15 DEF IInv

(* The frame that is read. *)
LEMMA HeadFacts ==
  ASSUME IInv, queue # <<>>
  PROVE  /\ Head(queue) \in Frames /\ Head(queue).id \in Ids(queue)
         /\ said[Head(queue).id] = Head(queue) /\ Head(queue).id \in 1 .. Len(said)
         /\ Tail(queue) \in Seq(Frames) /\ Increasing(Tail(queue)) /\ Genuine(Tail(queue))
         /\ Genuine(<<Head(queue)>>)
         /\ Ids(queue) = {Head(queue).id} \cup Ids(Tail(queue))
         /\ \A y \in Ids(Tail(queue)) : Head(queue).id < y
         /\ \A x \in Ids(Kept(chunker)) : x < Head(queue).id
<1>1. queue \in Seq(Frames) /\ Increasing(queue) /\ Genuine(queue)
  BY DEF IInv, StateTypes, InLine, Authentic
<1>2. /\ Head(queue) \in Frames /\ Genuine(<<Head(queue)>>)
      /\ Tail(queue) \in Seq(Frames) /\ Increasing(Tail(queue)) /\ Genuine(Tail(queue))
      /\ Ids(queue) = {Head(queue).id} \cup Ids(Tail(queue))
      /\ Below({Head(queue).id}, Ids(Tail(queue)))
  BY <1>1, TailIds
<1>3. said[Head(queue).id] = Head(queue) /\ Head(queue).id \in 1 .. Len(said)
  <2>1. 1 \in 1 .. Len(<<Head(queue)>>) /\ <<Head(queue)>>[1] = Head(queue)  OBVIOUS
  <2> QED  BY <1>2, <2>1 DEF Genuine
<1>4. \A x \in Ids(Kept(chunker)) : x < Head(queue).id  BY <1>2, HeldFacts
<1> QED  BY <1>2, <1>3, <1>4 DEF Below

(* What makes up the invariant when nothing new is said. *)
LEMMA Together ==
  ASSUME IInv, said' = said, NEW W, Kept(chunker)' = W, NEW Q, queue' = Q,
         Increasing(W), Genuine(W), Increasing(Q), Genuine(Q), Below(Ids(W), Ids(Q)),
         \A n \in 1 .. Len(stored') : Genuine(stored[n].frames)'
  PROVE  Authentic' /\ InLine'
<1>1. Genuine(said)'  BY DEF IInv, Authentic, Genuine
<1>2. Genuine(queue)' /\ Genuine(Kept(chunker))'  BY DEF Genuine
<1>3. Authentic'  BY <1>1, <1>2 DEF Authentic
<1>4. InLine'  BY DEF InLine
<1> QED  BY <1>3, <1>4

(* A turn ends at a noticed pause: the paused frame is between it and all  *)
(* that is still to come.                                                  *)
LEMMA ReadPausedStep ==
  ASSUME IInv, ReadPaused
  PROVE  IInv'
<1> DEFINE q == chunker.active
           h == Head(queue).id
           Q == Tail(queue)
<1>1. /\ spool = "running" /\ queue # <<>> /\ queue' = Q /\ noticed' = TRUE
      /\ skipped' = skipped \cup {h} /\ stream' = stream /\ spool' = spool /\ UNCHANGED flags
      /\ said' = said /\ dropped' = dropped /\ late' = late /\ spent' = spent
      /\ IF noticed THEN UNCHANGED <<chunker, stored>> ELSE Take(Flush(chunker))
  BY DEF ReadPaused
<1>2. Ids(<<>>) = {} /\ Increasing(<<>>) /\ Genuine(<<>>) /\ <<>> \in Seq(Frames)  BY EmptyIds
<1>3. Kept(Fresh) = <<>>  BY DEF Kept, Fresh
<1>4. /\ h \in Ids(queue) /\ h \in 1 .. Len(said) /\ Q \in Seq(Frames) /\ Increasing(Q)
      /\ Genuine(Q) /\ Ids(queue) = {h} \cup Ids(Q) /\ \A y \in Ids(Q) : h < y
      /\ \A x \in Ids(Kept(chunker)) : x < h
  BY <1>1, HeadFacts
<1>5. Held = Ids(Kept(chunker)) \cup {h} \cup Ids(Q)  BY <1>4 DEF Held
<1>6. \A x \in Ids(Kept(chunker)), y \in Ids(Q) : x < y  BY <1>4, HeldFacts
<1>7. Listening /\ Listening'  BY <1>1 DEF Listening
<1>8. Valid(chunker)  BY DEF IInv, Working
<1>9. Held \subseteq Nat /\ h \in Nat  BY <1>5, HeldFacts
<1> HIDE DEF h, Q
<1>10. /\ chunker' = Fresh
       /\ StoreTypes' /\ InStock' /\ Unbroken' /\ Covered' /\ LittleLost'
       /\ \A n \in 1 .. Len(stored') : Genuine(stored[n].frames)'
  <2>1. CASE noticed
    <3>1. chunker = Fresh  BY <1>1, <2>1 DEF IInv, Working
    <3>2. chunker' = Fresh /\ stored' = stored  BY <1>1, <2>1, <3>1
    <3>3. Held = {h} \cup Ids(Q) /\ Held' = Ids(Q)
      BY <1>1, <1>2, <1>3, <1>5, <3>1, <3>2 DEF Held
    <3>4. /\ \A x \in Held \ Held' : \A y \in Held' : x < y
          /\ \A x \in Held \ Held' : x \in skipped'
      BY <1>1, <1>4, <3>3
    <3>5. Held' \subseteq Held  BY <3>3
    <3> QED  BY <1>1, <1>7, <3>2, <3>4, <3>5, NoTurnEnds
  <2>2. CASE ~noticed
    <3>1. Take(Flush(chunker)) /\ Ended(q, Flush(chunker))  BY <1>1, <1>8, <2>2, FlushCases
    <3>2. chunker' = Fresh  BY <3>1 DEF Take, Ended
    <3>3. Held' = Ids(Q)  BY <1>1, <1>2, <1>3, <3>2 DEF Held
    <3>4. /\ q \in Seq(Frames) /\ Increasing(q) /\ Genuine(q)
          /\ Ids(q) \subseteq Ids(Kept(chunker))
          /\ \A x \in Ids(Kept(chunker)) \ Ids(q) : ~said[x].speech
          /\ Ids(Kept(chunker)) = Ids(q) \/ Ids(q) = {}
      <4>1. CASE chunker.started
        <5>1. Kept(chunker) = q  BY <4>1 DEF Kept
        <5> QED  BY <5>1, HeldFacts DEF IInv, InLine, Authentic
      <4>2. CASE ~chunker.started
        <5>1. q = <<>>  BY <1>8, <4>2 DEF Valid, Counted
        <5>2. \A x \in Ids(Kept(chunker)) : ~said[x].speech  BY <4>2, HeldFacts
        <5> QED  BY <1>2, <5>1, <5>2
      <4> QED  BY <4>1, <4>2
    <3> HIDE DEF q
    <3>5. Below(Ids(q), Held \ Ids(q))
      <4>1. CASE Ids(q) = {}  BY <4>1 DEF Below
      <4>2. CASE Ids(Kept(chunker)) = Ids(q)  BY <1>4, <1>5, <1>6, <4>2 DEF Below
      <4> QED  BY <3>4, <4>1, <4>2
    <3>6. h \notin Ids(q) /\ \A y \in Ids(Q) : y \notin Ids(q)
      <4>1. \A x \in Ids(q) : x < h /\ x \in Nat  BY <1>4, <1>5, <1>9, <3>4
      <4>2. \A y \in Ids(Q) : h < y /\ y \in Nat  BY <1>4, <1>5, <1>9
      <4>3. ~(h < h) /\ \A y \in Nat : ~(h < y /\ y < h)  BY <1>9
      <4> QED  BY <4>1, <4>2, <4>3
    <3>7. Ids(q) \subseteq Held /\ Held' \subseteq Held \ Ids(q)  BY <1>5, <3>3, <3>4, <3>6
    <3>8. \A x \in Held \ Held' : \A y \in Held' : x < y  BY <1>4, <1>5, <1>6, <3>3
    <3>9. \A x \in Held \ Ids(q) : x \in Held' \cup skipped' \/ ~said[x].speech
      BY <1>1, <1>5, <3>3, <3>4
    <3>10. \E x \in Held \ Ids(q) : \A y \in Held' : x < y
      BY <1>4, <1>5, <3>3, <3>6
    <3>11. late' \subseteq skipped' /\ late \subseteq late' /\ skipped \subseteq skipped'
      BY <1>1 DEF IInv, StateTypes
    <3> QED  BY <1>1, <1>7, <3>1, <3>4, <3>5, <3>7, <3>8, <3>9, <3>10, <3>11, TurnEnds
  <2> QED  BY <2>1, <2>2
<1>11. Kept(chunker)' = <<>>  BY <1>3, <1>10
<1>12. Below(Ids(<<>>), Ids(Q))  BY <1>2 DEF Below
<1>13. Authentic' /\ InLine'
  BY <1>1, <1>2, <1>4, <1>10, <1>11, <1>12, Together
<1>14. StateTypes'
  <2>1. spool' \in Steps /\ noticed' \in BOOLEAN /\ dropped' \subseteq 1 .. Len(said)
        /\ spent' \in [Kinds -> Nat]
    BY <1>1 DEF IInv, StateTypes
  <2> QED  BY <1>1, <2>1, TypesStay DEF h, Q
<1>15. Working'  BY <1>1, <1>7, <1>10, FreshValid DEF Working
<1> QED  BY <1>10, <1>13, <1>14, <1>15 DEF IInv

(* A paused frame that is drained is late: a turn may reach over it. *)
LEMMA DrainPausedStep ==
  ASSUME IInv, Drain, paused
  PROVE  IInv'
<1> DEFINE h == Head(queue).id
           Q == Tail(queue)
           W == Kept(chunker)
<1>1. /\ spool = "draining" /\ queue # <<>> /\ queue' = Q
      /\ skipped' = skipped \cup {h} /\ late' = late \cup {h}
      /\ chunker' = chunker /\ stored' = stored
      /\ stream' = stream /\ spool' = spool /\ noticed' = noticed /\ UNCHANGED flags
      /\ said' = said /\ dropped' = dropped /\ spent' = spent
  BY DEF Drain
<1>2. /\ h \in Ids(queue) /\ Increasing(Q) /\ Genuine(Q) /\ Ids(queue) = {h} \cup Ids(Q)
  BY <1>1, HeadFacts
<1>3. \A x \in Ids(W), y \in Ids(Q) : x < y  BY <1>2, HeldFacts
<1>4. Kept(chunker)' = W  BY <1>1
<1> HIDE DEF h, Q, W
<1>5. Held = Ids(W) \cup {h} \cup Ids(Q) /\ Held' = Ids(W) \cup Ids(Q)
  BY <1>1, <1>2, <1>4 DEF Held, W
<1>6. Listening /\ Listening'  BY <1>1 DEF Listening
<1>7. /\ StoreTypes' /\ InStock' /\ Unbroken' /\ Covered' /\ LittleLost'
      /\ \A n \in 1 .. Len(stored') : Genuine(stored[n].frames)'
  <2>1. \A x \in Held \ Held' : x \in late' /\ x \in skipped'  BY <1>1, <1>5
  <2>2. Held' \subseteq Held  BY <1>5
  <2> QED  BY <1>1, <1>6, <2>1, <2>2, NoTurnEnds
<1>8. Authentic' /\ InLine'
  <2>1. Below(Ids(W), Ids(Q))  BY <1>3 DEF Below
  <2>2. Increasing(W) /\ Genuine(W)  BY DEF IInv, InLine, Authentic, W
  <2> QED  BY <1>1, <1>2, <1>4, <1>7, <2>1, <2>2, Together
<1>9. StateTypes'
  <2>1. spool' \in Steps /\ noticed' \in BOOLEAN /\ dropped' \subseteq 1 .. Len(said)
        /\ spent' \in [Kinds -> Nat]
    BY <1>1 DEF IInv, StateTypes
  <2> QED  BY <1>1, <2>1, TypesStay DEF h, Q
<1>10. Working'  BY <1>1, <1>6 DEF IInv, Working
<1> QED  BY <1>7, <1>8, <1>9, <1>10 DEF IInv

(* A frame that goes through the chunker. *)
LEMMA PushedStep ==
  ASSUME IInv, Listening, Listening', queue # <<>>, queue' = Tail(queue),
         Take(Push(chunker, Head(queue))), UNCHANGED history
  PROVE  /\ Valid(chunker)' /\ Authentic' /\ InLine'
         /\ StoreTypes' /\ InStock' /\ Unbroken' /\ Covered' /\ LittleLost'
<1> DEFINE c == chunker
           f == Head(queue)
           h == f.id
           Q == Tail(queue)
           W == Kept(chunker)
           A == Append(W, f)
           p == Push(c, f)
<1>1. said' = said /\ dropped' = dropped /\ skipped' = skipped /\ late' = late  BY DEF history
<1>2. /\ f \in Frames /\ h \in Ids(queue) /\ said[h] = f /\ h \in 1 .. Len(said)
      /\ Q \in Seq(Frames) /\ Increasing(Q) /\ Genuine(Q) /\ Genuine(<<f>>)
      /\ Ids(queue) = {h} \cup Ids(Q) /\ \A y \in Ids(Q) : h < y
      /\ \A x \in Ids(W) : x < h
  BY HeadFacts
<1>3. Valid(c)  BY DEF IInv, Working
<1>4. /\ W \in Seq(Frames) /\ Increasing(W) /\ Genuine(W) /\ Held \subseteq Nat
      /\ \A x \in Ids(W), y \in Ids(queue) : x < y
      /\ \A x \in Ids(W) : ~chunker.started => ~said[x].speech
  BY HeldFacts DEF IInv, InLine, Authentic
<1>5. A = Turn(c, f)  BY DEF Turn, Kept
<1>6. p = Push(chunker, Head(queue))  OBVIOUS
<1>7. /\ Valid(p.chunker)
      /\ \/ /\ ~c.started /\ ~f.speech /\ p.out = <<>> /\ ~p.chunker.started
            /\ \E k \in 1 .. Len(c.pre) + 2 :
                 p.chunker.pre = SubSeq(Append(c.pre, f), k, Len(c.pre) + 1)
         \/ /\ c.started \/ f.speech
            /\ p.out = <<>> /\ p.chunker.started /\ p.chunker.active = A
         \/ /\ c.started \/ f.speech
            /\ Ended(A, p)
            /\ ~f.speech \/ Length(A) >= MaxTurn
  <2>1. f \in Frames /\ Valid(c)  BY <1>2, <1>3
  <2> HIDE DEF f, c, A
  <2> QED  BY <1>5, <2>1, PushCases DEF p
<1>8. chunker' = p.chunker /\ stored' = stored \o p.out  BY <1>6 DEF Take
<1>9. queue' = Q /\ Held = Ids(W) \cup Ids(queue)  BY DEF Held
<1>10. c = chunker  OBVIOUS
<1>11. Len(A) = Len(W) + 1 /\ A[Len(A)] = f /\ Len(W) \in Nat
  <2>1. W \in Seq(Frames)  BY <1>4
  <2> HIDE DEF W, f
  <2> QED  BY <2>1
<1>12. ~c.started => W = c.pre  BY DEF Kept
<1> HIDE DEF p, c, f, h, Q, W
<1>13. /\ A \in Seq(Frames) /\ Ids(A) = Ids(W) \cup {h} /\ Increasing(A) /\ Genuine(A)
  <2>1. Below(Ids(W), {f.id})  BY <1>2 DEF Below, h
  <2> QED  BY <1>2, <1>4, <2>1, AppendIds DEF h
<1>14. Held = Ids(A) \cup Ids(Q)  BY <1>2, <1>9, <1>13
<1>15. \A x \in Ids(A), y \in Ids(Q) : x < y  BY <1>2, <1>4, <1>13
<1>16. Valid(chunker)'  BY <1>7, <1>8
<1> HIDE DEF A
<1>17. stored \in Seq([frames : Seq(Frames), len : Nat])  BY DEF IInv, StoreTypes
<1>18. CASE /\ ~c.started /\ ~f.speech /\ p.out = <<>> /\ ~p.chunker.started
            /\ \E k \in 1 .. Len(c.pre) + 2 :
                 p.chunker.pre = SubSeq(Append(c.pre, f), k, Len(c.pre) + 1)
  <2>1. PICK k \in 1 .. Len(c.pre) + 2 :
          p.chunker.pre = SubSeq(Append(c.pre, f), k, Len(c.pre) + 1)
    BY <1>18
  <2> DEFINE r == SubSeq(A, k, Len(A))
  <2>2. k \in 1 .. Len(A) + 1 /\ p.chunker.pre = r
    <3>1. Len(A) = Len(c.pre) + 1 /\ Append(c.pre, f) = A  BY <1>11, <1>12, <1>18 DEF A
    <3>2. Len(c.pre) \in Nat  BY <1>11, <1>12, <1>18
    <3>3. Len(A) + 1 = Len(c.pre) + 2  BY <3>1, <3>2
    <3> QED  BY <2>1, <3>1, <3>3
  <2>3. /\ r \in Seq(Frames) /\ Increasing(r) /\ Genuine(r)
        /\ Ids(r) \subseteq Ids(A) /\ Below(Ids(A) \ Ids(r), Ids(r))
    BY <1>13, <2>2, SuffixIds
  <2> HIDE DEF r
  <2>4. Kept(chunker)' = r  BY <1>8, <1>18, <2>2 DEF Kept
  <2>5. Held' = Ids(r) \cup Ids(Q)  BY <1>9, <2>4 DEF Held
  <2>6. stored' = stored  BY <1>8, <1>17, <1>18
  <2>7. \A x \in Held \ Held' : \A y \in Held' : x < y
    BY <1>14, <1>15, <2>3, <2>5 DEF Below
  <2>8. \A x \in Held \ Held' : ~said[x].speech
    <3>1. \A x \in Ids(A) : ~said[x].speech  BY <1>2, <1>4, <1>10, <1>13, <1>18
    <3> QED  BY <1>14, <2>5, <3>1
  <2>9. Held' \subseteq Held  BY <1>14, <2>3, <2>5
  <2>10. /\ StoreTypes' /\ InStock' /\ Unbroken' /\ Covered' /\ LittleLost'
         /\ \A n \in 1 .. Len(stored') : Genuine(stored[n].frames)'
    BY <1>1, <2>6, <2>7, <2>8, <2>9, NoTurnEnds
  <2>11. Below(Ids(r), Ids(Q))  BY <1>15, <2>3 DEF Below
  <2>12. Authentic' /\ InLine'
    BY <1>1, <1>2, <1>9, <2>3, <2>4, <2>10, <2>11, Together
  <2> QED  BY <1>16, <2>10, <2>12
<1>19. CASE p.out = <<>> /\ p.chunker.started /\ p.chunker.active = A
  <2>1. Kept(chunker)' = A  BY <1>8, <1>19 DEF Kept
  <2>2. Held' = Held  BY <1>9, <1>14, <2>1 DEF Held
  <2>3. stored' = stored  BY <1>8, <1>17, <1>19
  <2>4. /\ StoreTypes' /\ InStock' /\ Unbroken' /\ Covered' /\ LittleLost'
        /\ \A n \in 1 .. Len(stored') : Genuine(stored[n].frames)'
    BY <1>1, <2>2, <2>3, NoTurnEnds
  <2>5. Below(Ids(A), Ids(Q))  BY <1>15 DEF Below
  <2>6. Authentic' /\ InLine'
    BY <1>1, <1>2, <1>9, <1>13, <2>1, <2>4, <2>5, Together
  <2> QED  BY <1>16, <2>4, <2>6
<1>20. CASE Ended(A, p) /\ (~f.speech \/ Length(A) >= MaxTurn)
  <2>1. Kept(chunker)' = <<>>  BY <1>8, <1>20 DEF Kept, Fresh, Ended
  <2>2. Ids(<<>>) = {} /\ Increasing(<<>>) /\ Genuine(<<>>)  BY EmptyIds
  <2>3. Held' = Ids(Q)  BY <1>9, <2>1, <2>2 DEF Held
  <2>4. Held \subseteq Nat  BY HeldFacts
  <2>5. \A y \in Ids(Q) : y \notin Ids(A)
    <3>1. \A x \in Ids(A) : x \in Nat  BY <1>14, <2>4
    <3>2. \A x \in Nat : ~(x < x)  OBVIOUS
    <3> QED  BY <1>15, <3>1, <3>2
  <2>6. Below(Ids(A), Held \ Ids(A))  BY <1>14, <1>15 DEF Below
  <2>7. Ids(A) \subseteq Held /\ Held' \subseteq Held \ Ids(A)  BY <1>14, <2>3, <2>5
  <2>8. \A x \in Held \ Held' : \A y \in Held' : x < y  BY <1>14, <1>15, <2>3
  <2>9. \A x \in Held \ Ids(A) : x \in Held'  BY <1>14, <2>3
  <2>10. \/ \E i \in 1 .. Len(A) : ~A[i].speech
         \/ Length(A) >= MaxTurn
    <3>1. Len(A) \in 1 .. Len(A)  BY <1>11
    <3> QED  BY <1>11, <1>20, <3>1
  <2>11. late' \subseteq skipped'  BY <1>1 DEF IInv, StateTypes
  <2>12. Take(p)  BY <1>8 DEF Take
  <2>13. /\ StoreTypes' /\ InStock' /\ Unbroken' /\ Covered' /\ LittleLost'
         /\ \A n \in 1 .. Len(stored') : Genuine(stored[n].frames)'
    BY <1>1, <1>13, <1>20, <2>6, <2>7, <2>8, <2>9, <2>10, <2>11, <2>12, TurnEnds
  <2>14. Below(Ids(<<>>), Ids(Q))  BY <2>2 DEF Below
  <2>15. Authentic' /\ InLine'
    BY <1>1, <1>2, <1>9, <2>1, <2>2, <2>13, <2>14, Together
  <2> QED  BY <1>16, <2>13, <2>15
<1> QED  BY <1>7, <1>18, <1>19, <1>20

(* A frame that the loop reads. *)
LEMMA ReadStep ==
  ASSUME IInv, Read
  PROVE  IInv'
<1>1. /\ spool = "running" /\ queue # <<>> /\ queue' = Tail(queue)
      /\ Take(Push(chunker, Head(queue))) /\ noticed' = FALSE /\ UNCHANGED history
      /\ stream' = stream /\ spool' = spool /\ UNCHANGED flags /\ spent' = spent
  BY DEF Read
<1>2. Listening /\ Listening'  BY <1>1 DEF Listening
<1>3. /\ Valid(chunker)' /\ Authentic' /\ InLine'
      /\ StoreTypes' /\ InStock' /\ Unbroken' /\ Covered' /\ LittleLost'
  BY <1>1, <1>2, PushedStep
<1>4. StateTypes'
  <2>1. spool' \in Steps /\ noticed' \in BOOLEAN /\ dropped' \subseteq 1 .. Len(said)
        /\ spent' \in [Kinds -> Nat] /\ skipped' = skipped /\ late' = late /\ said' = said
    BY <1>1 DEF IInv, StateTypes, history
  <2> QED  BY <1>1, <2>1, TypesStay
<1>5. Working'  BY <1>1, <1>2, <1>3 DEF Working
<1> QED  BY <1>3, <1>4, <1>5 DEF IInv

(* A frame that is left in the channel, paused or not. *)
LEMMA DrainStep ==
  ASSUME IInv, Drain
  PROVE  IInv'
<1>1. CASE paused  BY <1>1, DrainPausedStep
<1>2. CASE ~paused
  <2>1. /\ spool = "draining" /\ queue # <<>> /\ queue' = Tail(queue)
        /\ Take(Push(chunker, Head(queue))) /\ noticed' = noticed /\ UNCHANGED history
        /\ stream' = stream /\ spool' = spool /\ UNCHANGED flags /\ spent' = spent
    BY <1>2 DEF Drain, history
  <2>2. Listening /\ Listening'  BY <2>1 DEF Listening
  <2>3. /\ Valid(chunker)' /\ Authentic' /\ InLine'
        /\ StoreTypes' /\ InStock' /\ Unbroken' /\ Covered' /\ LittleLost'
    BY <2>1, <2>2, PushedStep
  <2>4. StateTypes'
    <3>1. spool' \in Steps /\ noticed' \in BOOLEAN /\ dropped' \subseteq 1 .. Len(said)
          /\ spent' \in [Kinds -> Nat] /\ skipped' = skipped /\ late' = late /\ said' = said
      BY <2>1 DEF IInv, StateTypes, history
    <3> QED  BY <2>1, <3>1, TypesStay
  <2>5. Working'  BY <2>1, <2>2, <2>3 DEF Working
  <2> QED  BY <2>3, <2>4, <2>5 DEF IInv
<1> QED  BY <1>1, <1>2

(* Nothing happens. *)
LEMMA StutterStep ==
  ASSUME IInv, UNCHANGED vars
  PROVE  IInv'
<1>1. UNCHANGED <<buffers, history, flags, stream, spool, noticed, spent>>
  BY DEF vars
<1>2. Listening' <=> Listening  BY <1>1 DEF Listening
<1>3. Authentic' /\ InLine' /\ StoreTypes' /\ InStock' /\ Covered' /\ Unbroken' /\ LittleLost'
  BY <1>1, <1>2, FramesStay
<1>4. StateTypes' /\ Working'
  BY <1>1, <1>2 DEF IInv, StateTypes, Working, buffers, history, flags
<1> QED  BY <1>3, <1>4 DEF IInv

-----------------------------------------------------------------------------
(* Theorems *)

(* All actions keep the invariant. *)
THEOREM Inductive == Spec => []IInv
<1>1. ASSUME IInv, [Next]_vars
      PROVE  IInv'
  <2>1. CASE \E sound \in Sounds : Capture(sound)  BY <1>1, <2>1, CaptureStep
  <2>2. CASE StreamEnds \/ LeaveLoop \/ Pause \/ Resume \/ Stop  BY <1>1, <2>2, FlagSteps
  <2>3. CASE Reopen  BY <1>1, <2>3, ReopenStep
  <2>4. CASE ReadPaused  BY <1>1, <2>4, ReadPausedStep
  <2>5. CASE Read  BY <1>1, <2>5, ReadStep
  <2>6. CASE Drain  BY <1>1, <2>6, DrainStep
  <2>7. CASE EndSpool  BY <1>1, <2>7, EndSpoolStep
  <2>8. CASE SpoolFails  BY <1>1, <2>8, SpoolFailsStep
  <2>9. CASE UNCHANGED vars  BY <1>1, <2>9, StutterStep
  <2> QED
    BY <1>1, <2>1, <2>2, <2>3, <2>4, <2>5, <2>6, <2>7, <2>8, <2>9 DEF Next, Serve
<1> QED  BY <1>1, InitHolds, PTL DEF Spec

(* UtterancesWhole: every variable has its type, what is stored was cut    *)
(* where the chunker says, and of frames heard one after the other.        *)
THEOREM Whole == Spec => []UtterancesWhole
<1>1. ASSUME IInv
      PROVE  TypeOK
  <2>1. Len(said) \in Nat /\ MaxFrames \in Nat /\ Len(said) <= MaxFrames
    BY <1>1, SizesAssumption DEF IInv, StateTypes
  <2>2. \A x \in 1 .. Len(said) : x \in 1 .. MaxFrames  BY <2>1
  <2>3. dropped \subseteq 1 .. MaxFrames /\ skipped \subseteq 1 .. MaxFrames
    BY <1>1, <2>2 DEF IInv, StateTypes
  <2>4. chunker \in [pre : Seq(Frames), preLen : 0 .. PreRoll, active : Seq(Frames),
                     len : 0 .. MaxTurn - 1, started : BOOLEAN,
                     silence : 0 .. Silence - 1, speech : Nat]
    BY <1>1 DEF IInv, Working, Valid, ChunkerStates
  <2>5. stored \in Seq([frames : Seq(Frames), len : Nat])  BY <1>1 DEF IInv, StoreTypes
  <2>6. StateTypes  BY <1>1 DEF IInv
  <2> QED  BY <2>3, <2>4, <2>5, <2>6 DEF StateTypes, TypeOK
<1>2. ASSUME IInv
      PROVE  UtterancesUnbroken
  <2> SUFFICES ASSUME NEW n \in 1 .. Len(stored), NEW i \in 1 .. Len(stored[n].frames) - 1,
                      NEW x \in stored[n].frames[i].id + 1 .. stored[n].frames[i + 1].id - 1
               PROVE  x \in dropped \cup late
    BY DEF UtterancesUnbroken
  <2> DEFINE q == stored[n].frames
  <2>1. q \in Seq(Frames) /\ Increasing(q) /\ Genuine(q)
    <3> DEFINE R == [frames : Seq(Frames), len : Nat]
    <3>1. stored \in Seq(R)  BY <1>2 DEF IInv, StoreTypes
    <3>2. \A u \in R : u.frames \in Seq(Frames)  OBVIOUS
    <3> HIDE DEF R, q
    <3>3. stored[n] \in R  BY <3>1
    <3> USE DEF q
    <3>4. q \in Seq(Frames)  BY <3>2, <3>3
    <3> QED  BY <1>2, <3>4 DEF IInv, InStock, Authentic
  <2> DEFINE a == q[i].id
             b == q[i + 1].id
  <2>2. i \in 1 .. Len(q) /\ i + 1 \in 1 .. Len(q) /\ Len(q) \in Nat
    <3>1. Len(q) \in Nat  BY <2>1
    <3> QED  BY <3>1
  <2>3. a \in Ids(q) /\ b \in Ids(q)  BY <2>2 DEF Ids
  <2>4. \A k \in 1 .. Len(q) : q[k].id \in Nat
    <3>1. \A k \in 1 .. Len(q) : q[k] \in Frames  BY <2>1
    <3> QED  BY <3>1, FrameParts, SizesAssumption
  <2>5. a \in Nat /\ b \in Nat  BY <2>2, <2>4
  <2>6. x \in a .. b /\ a < x /\ x < b
    <3>1. x \in a + 1 .. b - 1  OBVIOUS
    <3> HIDE DEF a, b
    <3> QED  BY <2>5, <3>1
  <2> HIDE DEF q, a, b
  <2>7. x \in Ids(q) \cup dropped \cup late  BY <1>2, <2>3, <2>6 DEF IInv, Unbroken, q
  <2>8. ASSUME x \in Ids(q)
        PROVE  FALSE
    <3>1. PICK k \in 1 .. Len(q) : q[k].id = x  BY <2>8, IdsOf
    <3>2. CASE k <= i
      <4>1. k = i \/ q[k].id < a  BY <2>1, <2>2, <3>2 DEF Increasing, a
      <4> QED  BY <2>5, <2>6, <3>1, <4>1, <2>4 DEF a
    <3>3. CASE k > i
      <4>1. k = i + 1 \/ b < q[k].id  BY <2>1, <2>2, <3>3 DEF Increasing, b
      <4> QED  BY <2>5, <2>6, <3>1, <4>1, <2>4 DEF b
    <3> QED  BY <2>2, <3>2, <3>3
  <2> QED  BY <2>7, <2>8
<1>3. IInv => UtterancesWhole
  BY <1>1, <1>2 DEF UtterancesWhole, IInv, StoreTypes
<1> QED  BY <1>3, Inductive, PTL

(* OnceInOrder: no frame is repeated and no two are swapped between the    *)
(* stream and the store, by the pre-roll, cuts, pauses or new streams.     *)
THEOREM InOrder == Spec => []OnceInOrder
<1>1. ASSUME IInv
      PROVE  OnceInOrder
  <2> DEFINE N == Len(stored)
             S == [n \in 1 .. N |-> stored[n].frames]
             E == <<chunker.active, chunker.pre, queue>>
             P == Pieces
  <2>1. N \in Nat  BY <1>1 DEF IInv, StoreTypes
  <2>2. P = S \o E  BY DEF Pieces
  <2>3. /\ Len(P) = N + 3
        /\ \A n \in 1 .. N : P[n] = stored[n].frames
        /\ P[N + 1] = chunker.active /\ P[N + 2] = chunker.pre /\ P[N + 3] = queue
    BY <2>1, <2>2
  <2>4. \A n \in 1 .. N + 3 : n \in 1 .. N \/ n = N + 1 \/ n = N + 2 \/ n = N + 3  BY <2>1
  <2>5. Valid(chunker)  BY <1>1 DEF IInv, Working
  <2>6. /\ Ids(chunker.active) \cup Ids(chunker.pre) = Ids(Kept(chunker))
        /\ chunker.active = <<>> \/ chunker.pre = <<>>
        /\ Increasing(chunker.active) /\ Increasing(chunker.pre)
    <3>1. Ids(<<>>) = {} /\ Increasing(<<>>)  BY EmptyIds
    <3>2. Increasing(Kept(chunker))  BY <1>1 DEF IInv, InLine
    <3>3. CASE chunker.started
      <4>1. chunker.pre = <<>> /\ Kept(chunker) = chunker.active
        BY <2>5, <3>3 DEF Valid, Counted, Kept
      <4> QED  BY <3>1, <3>2, <4>1
    <3>4. CASE ~chunker.started
      <4>1. chunker.active = <<>> /\ Kept(chunker) = chunker.pre
        BY <2>5, <3>4 DEF Valid, Counted, Kept
      <4> QED  BY <3>1, <3>2, <4>1
    <3> QED  BY <3>3, <3>4
  <2>7. Ids(chunker.active) = {} \/ Ids(chunker.pre) = {}  BY <2>6, EmptyIds
  <2>8. \A n \in 1 .. N : /\ Increasing(stored[n].frames) /\ Below(Ids(stored[n].frames), Held)
                          /\ \A m \in 1 .. n - 1 :
                               Below(Ids(stored[m].frames), Ids(stored[n].frames))
    BY <1>1 DEF IInv, InStock
  <2>9. Below(Ids(Kept(chunker)), Ids(queue)) /\ Increasing(queue)
    BY <1>1 DEF IInv, InLine
  <2> HIDE DEF N, P
  <2>10. \A n \in 1 .. N + 3 : Increasing(P[n])
    BY <2>3, <2>4, <2>6, <2>8, <2>9
  <2>11. ASSUME NEW m \in 1 .. N + 3, NEW n \in 1 .. N + 3, m < n
         PROVE  Below(Ids(P[m]), Ids(P[n]))
    <3>1. CASE n \in 1 .. N
      <4>1. m \in 1 .. N /\ m \in 1 .. n - 1  BY <2>1, <2>11, <3>1
      <4> QED  BY <2>3, <2>8, <3>1, <4>1
    <3>2. CASE n = N + 1 \/ n = N + 2 \/ n = N + 3
      <4>1. CASE m \in 1 .. N
        <5>1. Below(Ids(P[m]), Held)  BY <2>3, <2>8, <4>1
        <5>2. Ids(P[n]) \subseteq Held  BY <2>3, <2>6, <3>2 DEF Held
        <5> QED  BY <5>1, <5>2 DEF Below
      <4>2. CASE m = N + 1 /\ n = N + 2  BY <2>3, <2>7, <4>2 DEF Below
      <4>3. CASE m \in {N + 1, N + 2} /\ n = N + 3
        <5>1. P[n] = queue /\ Ids(P[m]) \subseteq Ids(Kept(chunker))  BY <2>3, <2>6, <4>3
        <5> QED  BY <2>9, <5>1 DEF Below
      <4>4. m \in 1 .. N \/ (m = N + 1 /\ n = N + 2) \/ (m \in {N + 1, N + 2} /\ n = N + 3)
        BY <2>1, <2>4, <2>11, <3>2
      <4> QED  BY <4>1, <4>2, <4>3, <4>4
    <3> QED  BY <2>4, <3>1, <3>2
  <2>12. ASSUME NEW m \in 1 .. N + 3, NEW n \in 1 .. N + 3,
                NEW i \in 1 .. Len(P[m]), NEW j \in 1 .. Len(P[n]),
                m < n \/ (m = n /\ i < j)
         PROVE  P[m][i].id < P[n][j].id
    <3>1. P[m][i].id \in Ids(P[m]) /\ P[n][j].id \in Ids(P[n])  BY DEF Ids
    <3>2. CASE m < n  BY <2>11, <3>1, <3>2 DEF Below
    <3>3. CASE m = n /\ i < j  BY <2>10, <3>3 DEF Increasing
    <3> QED  BY <2>12, <3>2, <3>3
  <2> QED  BY <2>3, <2>12 DEF OnceInOrder, P
<1> QED  BY <1>1, Inductive, PTL

(* SpeechKept: of what the spool has read only silence and speech too      *)
(* short for an utterance are lost, never twice MinSpeech in a row.        *)
THEOREM NotLost == Spec => []SpeechKept
<1>1. ASSUME IInv
      PROVE  SpeechKept
  <2> DEFINE kept == StoredIds \cup Ids(chunker.active) \cup Ids(queue)
             gone == {i \in 1 .. Len(said) : said[i].speech} \ (kept \cup dropped \cup skipped)
  <2>1. gone \subseteq Gone
    <3> SUFFICES ASSUME NEW x \in gone, x \in Ids(Kept(chunker)) PROVE FALSE
      BY DEF Gone, Held
    <3>1. CASE chunker.started  BY <3>1 DEF Kept
    <3>2. CASE ~chunker.started  BY <1>1, <3>2, HeldFacts
    <3> QED  BY <3>1, <3>2
  <2> HIDE DEF gone
  <2>2. \A i, j \in gone : i <= j /\ i .. j \subseteq gone =>
          Ends(said)[j] - Ends(said)[i - 1] < 2 * MinSpeech
    BY <1>1, <2>1 DEF IInv, LittleLost
  <2> QED  BY <2>2 DEF SpeechKept, gone
<1> QED  BY <1>1, Inductive, PTL
=============================================================================
