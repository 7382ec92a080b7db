-------------------------- MODULE PushContentProofs --------------------------
(* Theorems about PushContent, for any users, relays, processes, times to  *)
(* live and time-outs: the types, how old the names in a notification are  *)
(* at most, and where they stand in its body, whatever the content.        *)
EXTENDS PushContent, WellFoundedInduction, TLAPS

-----------------------------------------------------------------------------
(* Natural numbers, by the well-foundedness of their order.                *)

LEMMA LeastNat ==
  ASSUME NEW T \in SUBSET Nat, T # {}
  PROVE  \E n \in T : \A m \in T : n <= m
<1> DEFINE Less == {p \in Nat \X Nat : p[1] < p[2]}
<1>1. IsWellFoundedOn(Less, Nat)
  BY NatLessThanWellFounded DEF OpToRel
<1> HIDE DEF Less
<1>2. PICK n \in T : \A m \in T : <<m, n>> \notin Less
  BY <1>1, WFMin
<1>3. ASSUME NEW m \in T PROVE n <= m
  <2>1. m \in Nat /\ n \in Nat /\ <<m, n>> \notin Less
    BY <1>2
  <2>2. ~(m < n)
    BY <2>1 DEF Less
  <2> QED BY <2>1, <2>2
<1> QED BY <1>3

LEMMA Induction ==
  ASSUME NEW T, 0 \in T, \A n \in Nat : n \in T => n + 1 \in T
  PROVE  Nat \subseteq T
<1> DEFINE S == Nat \ T
<1> SUFFICES ASSUME S # {} PROVE FALSE
  OBVIOUS
<1>1. S \in SUBSET Nat
  OBVIOUS
<1>2. PICK n \in S : \A m \in S : n <= m
  <2> HIDE DEF S
  <2> QED BY <1>1, LeastNat
<1>3. n # 0 /\ n - 1 \in Nat /\ n - 1 \notin S
  BY <1>2
<1> QED BY <1>2, <1>3

-----------------------------------------------------------------------------
(* Sequences put together, over the function FlattenSeq chooses.           *)
Flattening(s, n, g) == g = [i \in 1..n |-> IF i = 1 THEN s[i] ELSE g[i - 1] \o s[i]]

LEMMA FlattenIs ==
  ASSUME NEW s
  PROVE FlattenSeq(s) = IF Len(s) = 0 THEN s
                        ELSE (CHOOSE g : Flattening(s, Len(s), g))[Len(s)]
  BY Zenon DEF FlattenSeq, Flattening

LEMMA FlatteningExists ==
  ASSUME NEW s, NEW n \in Nat PROVE \E g : Flattening(s, n, g)
<1> DEFINE T == {k \in Nat : \E g : Flattening(s, k, g)}
<1>1. 0 \in T
  <2>1. Flattening(s, 0, [i \in 1..0 |-> 0])
    BY DEF Flattening
  <2> QED BY <2>1
<1>2. ASSUME NEW k \in Nat, k \in T PROVE k + 1 \in T
  <2>1. PICK g : Flattening(s, k, g)
    BY <1>2
  <2> DEFINE e == IF k = 0 THEN s[k + 1] ELSE g[k] \o s[k + 1]
             h == [i \in 1..(k + 1) |-> IF i = k + 1 THEN e ELSE g[i]]
  <2>2. ASSUME NEW i \in 1..k PROVE h[i] = IF i = 1 THEN s[i] ELSE h[i - 1] \o s[i]
    <3>1. h[i] = g[i] /\ (i # 1 => h[i - 1] = g[i - 1])
      OBVIOUS
    <3>2. g[i] = IF i = 1 THEN s[i] ELSE g[i - 1] \o s[i]
      BY <2>1 DEF Flattening
    <3> HIDE DEF h
    <3> QED BY <3>1, <3>2
  <2>3. h[k + 1] = IF k + 1 = 1 THEN s[k + 1] ELSE h[k + 1 - 1] \o s[k + 1]
    <3>1. h[k + 1] = e /\ (k # 0 => h[k + 1 - 1] = g[k])
      OBVIOUS
    <3> HIDE DEF h
    <3> QED BY <3>1
  <2>4. h = [i \in 1..(k + 1) |-> h[i]]
    OBVIOUS
  <2>5. \A i \in 1..(k + 1) : h[i] = IF i = 1 THEN s[i] ELSE h[i - 1] \o s[i]
    <3> HIDE DEF h
    <3>1. \A i \in 1..(k + 1) : i \in 1..k \/ i = k + 1
      OBVIOUS
    <3> QED BY <2>2, <2>3, <3>1
  <2>6. Flattening(s, k + 1, h)
    <3> HIDE DEF h
    <3> QED BY <2>4, <2>5 DEF Flattening
  <2> QED BY <2>6
<1> HIDE DEF T
<1>3. n \in T
  BY <1>1, <1>2, Induction
<1> QED BY <1>3 DEF T

LEMMA FlatteningUnique ==
  ASSUME NEW s, NEW t, NEW n \in Nat, NEW m \in Nat, n <= m, NEW g, NEW h,
         Flattening(s, n, g), Flattening(t, m, h), \A i \in 1..n : s[i] = t[i]
  PROVE  \A i \in 1..n : g[i] = h[i]
<1> DEFINE T == {i \in Nat : i \in 1..n => g[i] = h[i]}
<1>0. /\ \A j \in 1..n : g[j] = IF j = 1 THEN s[j] ELSE g[j - 1] \o s[j]
      /\ \A j \in 1..m : h[j] = IF j = 1 THEN t[j] ELSE h[j - 1] \o t[j]
  BY DEF Flattening
<1>1. 0 \in T
  OBVIOUS
<1>2. ASSUME NEW i \in Nat, i \in T PROVE i + 1 \in T
  <2> SUFFICES ASSUME i + 1 \in 1..n PROVE g[i + 1] = h[i + 1]
    OBVIOUS
  <2>1. PICK j \in 1..n : j = i + 1 /\ j - 1 = i /\ j \in 1..m /\ s[j] = t[j]
    OBVIOUS
  <2>2. j # 1 => g[j - 1] = h[j - 1]
    BY <1>2, <2>1
  <2> QED BY <1>0, <2>1, <2>2
<1> HIDE DEF T
<1>3. Nat \subseteq T
  BY <1>1, <1>2, Induction
<1> QED BY <1>3 DEF T

(* The sequence of the first k elements.                                   *)
First(s, k) == [i \in 1..k |-> s[i]]

LEMMA Concat ==
  ASSUME NEW S, NEW p \in Seq(S), NEW q \in Seq(S) PROVE p \o q \in Seq(S)
OBVIOUS

LEMMA FlattenFirst ==
  ASSUME NEW S, NEW s, NEW n \in Nat, \A i \in 1..n : s[i] \in Seq(S)
  PROVE  /\ FlattenSeq(First(s, 0)) = <<>>
         /\ \A k \in 1..n : FlattenSeq(First(s, k)) = FlattenSeq(First(s, k - 1)) \o s[k]
         /\ \A k \in 0..n : FlattenSeq(First(s, k)) \in Seq(S)
<1>1. \A k \in Nat : Len(First(s, k)) = k /\ DOMAIN First(s, k) = 1..k
  BY DEF First
<1>2. FlattenSeq(First(s, 0)) = <<>>
  BY <1>1, FlattenIs DEF First
<1>3. ASSUME NEW k \in 1..n
      PROVE  FlattenSeq(First(s, k)) =
               IF k = 1 THEN s[k] ELSE FlattenSeq(First(s, k - 1)) \o s[k]
  <2> DEFINE g == CHOOSE g : Flattening(First(s, k), k, g)
             h == CHOOSE h : Flattening(First(s, k - 1), k - 1, h)
  <2>1. Flattening(First(s, k), k, g) /\ Flattening(First(s, k - 1), k - 1, h)
    <3>1. k \in Nat /\ k - 1 \in Nat
      OBVIOUS
    <3>2. /\ \E x : Flattening(First(s, k), k, x)
          /\ \E x : Flattening(First(s, k - 1), k - 1, x)
      BY <3>1, FlatteningExists
    <3> QED BY <3>2
  <2>2. FlattenSeq(First(s, k)) = g[k]
    BY <1>1, FlattenIs
  <2>3. k # 1 => FlattenSeq(First(s, k - 1)) = h[k - 1]
    BY <1>1, FlattenIs
  <2> HIDE DEF g, h
  <2>4. g[k] = IF k = 1 THEN s[k] ELSE g[k - 1] \o s[k]
    <3>1. \A j \in 1..k : g[j] = IF j = 1 THEN First(s, k)[j] ELSE g[j - 1] \o First(s, k)[j]
      BY <2>1 DEF Flattening
    <3>2. k \in 1..k /\ First(s, k)[k] = s[k]
      BY DEF First
    <3> QED BY <3>1, <3>2
  <2>5. k # 1 => h[k - 1] = g[k - 1]
    <3>1. \A i \in 1..(k - 1) : First(s, k - 1)[i] = First(s, k)[i]
      BY DEF First
    <3>2. k - 1 \in Nat /\ k \in Nat /\ k - 1 <= k
      OBVIOUS
    <3>3. \A i \in 1..(k - 1) : h[i] = g[i]
      BY <2>1, <3>1, <3>2, FlatteningUnique, SMTT(30)
    <3> QED BY <3>3
  <2> QED BY <2>2, <2>3, <2>4, <2>5
<1>4. \A k \in 1..n : FlattenSeq(First(s, k)) = FlattenSeq(First(s, k - 1)) \o s[k]
  <2> SUFFICES ASSUME NEW k \in 1..n, k = 1
               PROVE  FlattenSeq(First(s, k)) = FlattenSeq(First(s, k - 1)) \o s[k]
    BY <1>3
  <2>1. s[k] \in Seq(S) /\ <<>> \o s[k] = s[k] /\ k - 1 = 0
    OBVIOUS
  <2> QED BY <1>2, <1>3, <2>1
<1>5. \A k \in 0..n : FlattenSeq(First(s, k)) \in Seq(S)
  <2> DEFINE T == {k \in Nat : k \in 0..n => FlattenSeq(First(s, k)) \in Seq(S)}
  <2>1. 0 \in T
    <3>1. <<>> \in Seq(S)
      OBVIOUS
    <3> QED BY <1>2, <3>1
  <2>2. ASSUME NEW k \in Nat, k \in T PROVE k + 1 \in T
    <3> SUFFICES ASSUME k + 1 \in 1..n PROVE FlattenSeq(First(s, k + 1)) \in Seq(S)
      OBVIOUS
    <3>1. FlattenSeq(First(s, k)) \in Seq(S) /\ s[k + 1] \in Seq(S)
      BY <2>2
    <3>2. PICK m \in 1..n : m = k + 1 /\ m - 1 = k
      OBVIOUS
    <3>3. FlattenSeq(First(s, m)) = FlattenSeq(First(s, k)) \o s[m]
      BY <1>4, <3>2
    <3>4. FlattenSeq(First(s, k)) \o s[m] \in Seq(S)
      BY <3>1, <3>2, Concat
    <3> QED BY <3>2, <3>3, <3>4
  <2> HIDE DEF T
  <2>3. Nat \subseteq T
    BY <2>1, <2>2, Induction
  <2> QED BY <2>3 DEF T
<1> QED BY <1>2, <1>4, <1>5

LEMMA SubSeqTail ==
  ASSUME NEW S, NEW t \in Seq(S), NEW r \in Seq(S), NEW m \in Nat,
         Len(t) = m + Len(r), \A i \in 1..Len(r) : t[m + i] = r[i]
  PROVE  SubSeq(t, m + 1, Len(t)) = r
<1> DEFINE q == SubSeq(t, m + 1, Len(t))
<1>1. Len(t) \in Nat /\ Len(r) \in Nat
  OBVIOUS
<1>2. q \in Seq(S) /\ Len(q) = Len(r)
  BY <1>1
<1>3. \A i \in 1..Len(r) : q[i] = t[m + i]
  BY <1>1
<1> HIDE DEF q
<1>4. q = r
  BY <1>2, <1>3
<1> QED BY <1>4 DEF q

(* What is put in behind a prefix leaves the rest as it was.               *)
AreSeqs(S, p, c, r, w) ==
  p \in Seq(S) /\ c \in Seq(S) /\ r \in Seq(S) /\ w \in Seq(S)

LEMMA Splice ==
  ASSUME NEW S, NEW p, NEW c, NEW r, NEW w, AreSeqs(S, p, c, r, w)
  PROVE  ReplaceSubSeqAt(Len(p) + 1, w, c, (p \o c) \o r) = p \o (w \o r)
<1> DEFINE text == (p \o c) \o r
           at == Len(p) + 1
<1>0. p \in Seq(S) /\ c \in Seq(S) /\ r \in Seq(S) /\ w \in Seq(S)
  BY DEF AreSeqs
<1>1. /\ Len(text) = Len(p) + Len(c) + Len(r)
      /\ \A i \in 1..Len(p) : text[i] = p[i]
      /\ \A i \in 1..Len(r) : text[Len(p) + Len(c) + i] = r[i]
      /\ text \in Seq(S)
  BY <1>0
<1>2. /\ at \in Nat /\ at - 1 = Len(p) /\ at = Len(p) + 1
      /\ Len(p) \in Nat /\ Len(c) \in Nat /\ Len(r) \in Nat
  BY <1>0
<1> HIDE DEF text, at
<1>3. SubSeq(text, 1, at - 1) = p
  BY <1>0, <1>1, <1>2
<1>4. SubSeq(text, at + Len(c), Len(text)) = r
  <2>1. PICK m \in Nat : m = Len(p) + Len(c)
    BY <1>2
  <2>2. Len(text) = m + Len(r) /\ \A i \in 1..Len(r) : text[m + i] = r[i]
    BY <1>1, <2>1
  <2>3. SubSeq(text, m + 1, Len(text)) = r
    BY <1>0, <1>1, <2>2, SubSeqTail
  <2>4. at + Len(c) = m + 1
    BY <1>2, <2>1
  <2> QED BY <2>3, <2>4
<1>5. ReplaceSubSeqAt(at, w, c, text) = p \o w \o r
  BY <1>3, <1>4 DEF ReplaceSubSeqAt
<1>6. p \o w \o r = p \o (w \o r)
  BY <1>0
<1> QED BY <1>5, <1>6 DEF text, at

-----------------------------------------------------------------------------
(* The text of a content, over the function ReplaceMentions chooses.       *)
Replacing(content, nameOf, g) ==
  g = [i \in 1..(Len(content) + 1) |->
         IF i > Len(content) THEN Text(content) ELSE Put(content, nameOf, i, g[i + 1])]

LEMMA ReplaceMentionsIs ==
  ASSUME NEW content, NEW nameOf
  PROVE  ReplaceMentions(content, nameOf) = (CHOOSE g : Replacing(content, nameOf, g))[1]
BY Zenon DEF ReplaceMentions, Replacing

LEMMA ReplacingExists ==
  ASSUME NEW content, Len(content) \in Nat, NEW nameOf
  PROVE  \E g : Replacing(content, nameOf, g)
<1> DEFINE n == Len(content)
           Value(g, i) == IF i > n THEN Text(content) ELSE Put(content, nameOf, i, g[i + 1])
           Fits(g, k) == \A i \in (n + 1 - k)..(n + 1) : g[i] = Value(g, i)
           T == {k \in Nat : k <= n => \E g : Fits(g, k)}
<1>0. n \in Nat
  OBVIOUS
<1> HIDE DEF n
<1>1. 0 \in T
  <2> DEFINE g == [i \in (n + 1 - 0)..(n + 1) |-> Text(content)]
  <2>1. Fits(g, 0)
    BY <1>0
  <2> HIDE DEF Fits
  <2> QED BY <2>1
<1>2. ASSUME NEW k \in Nat, k \in T PROVE k + 1 \in T
  <2> SUFFICES ASSUME k + 1 <= n PROVE \E g : Fits(g, k + 1)
    OBVIOUS
  <2>1. PICK g : Fits(g, k)
    BY <1>0, <1>2
  <2> DEFINE at == n + 1 - (k + 1)
             e == Value(g, at)
             h == [i \in at..(n + 1) |-> IF i = at THEN e ELSE g[i]]
  <2>2. /\ at \in 1..n /\ at + 1 = n + 1 - k
        /\ \A i \in at..(n + 1) : i = at \/ i \in (at + 1)..(n + 1)
    BY <1>0
  <2>3. /\ h[at] = e /\ h[at + 1] = g[at + 1]
        /\ \A i \in (at + 1)..(n + 1) : h[i] = g[i] /\ (i <= n => h[i + 1] = g[i + 1])
    BY <1>0, <2>2
  <2> HIDE DEF at, h
  <2>4. h[at] = Value(h, at)
    BY <2>3
  <2>5. ASSUME NEW i \in (at + 1)..(n + 1) PROVE h[i] = Value(h, i)
    <3>1. g[i] = Value(g, i)
      BY <2>1, <2>2
    <3> QED BY <1>0, <2>2, <2>3, <3>1
  <2>6. \A i \in at..(n + 1) : h[i] = Value(h, i)
    <3> HIDE DEF Value
    <3> QED BY <2>2, <2>4, <2>5
  <2>7. Fits(h, k + 1)
    BY <2>6 DEF at
  <2> HIDE DEF Fits
  <2> QED BY <2>7
<1> HIDE DEF T
<1>3. n \in T
  BY <1>0, <1>1, <1>2, Induction
<1>4. PICK g : Fits(g, n)
  BY <1>0, <1>3 DEF T
<1> DEFINE h == [i \in 1..(n + 1) |-> g[i]]
<1>5. \A i \in 1..(n + 1) : h[i] = Value(h, i)
  BY <1>0, <1>4
<1>6. h = [i \in 1..(n + 1) |-> h[i]]
  OBVIOUS
<1> HIDE DEF h
<1>7. Replacing(content, nameOf, h)
  BY <1>5, <1>6 DEF Replacing, n
<1> QED BY <1>7

Alphabet(names) == Tokens \cup (Users \X Nat) \cup names

LEMMA CharactersOf ==
  ASSUME NEW names, NEW token \in Tokens
  PROVE  Characters(token) \in Seq(Alphabet(names))
<1>1. MentionLength \in Nat
  BY MentionFormatAssumption
<1>2. CASE token \in Users
  <2>1. \A n \in 1..MentionLength : <<token, n>> \in Alphabet(names)
    BY <1>1, <1>2 DEF Alphabet
  <2> QED BY <1>1, <1>2, <2>1 DEF Characters
<1>3. CASE token \notin Users
  BY <1>3 DEF Characters, Alphabet
<1> QED BY <1>2, <1>3

(* The text of a content, and of what is before a place in it.             *)
LEMMA TextOf ==
  ASSUME NEW content \in Seq(Tokens), NEW k \in 0..Len(content)
  PROVE  Text(SubSeq(content, 1, k)) =
           FlattenSeq(First([i \in DOMAIN content |-> Characters(content[i])], k))
<1>1. DOMAIN SubSeq(content, 1, k) = 1..k /\ \A i \in 1..k : SubSeq(content, 1, k)[i] = content[i]
  OBVIOUS
<1>2. [i \in DOMAIN SubSeq(content, 1, k) |-> Characters(SubSeq(content, 1, k)[i])] =
        First([i \in DOMAIN content |-> Characters(content[i])], k)
  BY <1>1 DEF First
<1> QED BY <1>2 DEF Text

(* The text old[k] is that of the first k of n pieces C, and new[k] of the *)
(* first k of those that are to take their places, W; g[k] is what the     *)
(* text has become when the pieces from the k-th on have been dealt with.  *)
Pieces(S, n, R, C, W, old, new, g) ==
  /\ \A k \in 1..n : C[k] \in Seq(S) /\ W[k] \in Seq(S) /\ (k \notin R => W[k] = C[k])
  /\ \A k \in 0..n : old[k] \in Seq(S) /\ new[k] \in Seq(S)
  /\ old[0] = <<>> /\ new[0] = <<>>
  /\ \A k \in 1..n : old[k] = old[k - 1] \o C[k] /\ new[k] = new[k - 1] \o W[k]
  /\ g[n + 1] = old[n]
  /\ \A k \in 1..n :
       g[k] = IF k \in R THEN ReplaceSubSeqAt(Len(old[k - 1]) + 1, W[k], C[k], g[k + 1])
              ELSE g[k + 1]

(* Pieces of a text are replaced from the last to the first: what is       *)
(* replaced is the piece that is still there, since those before it are    *)
(* as they were.                                                           *)
LEMMA FromTheEnd ==
  ASSUME NEW S, NEW n \in Nat, NEW R, NEW C, NEW W, NEW old, NEW new, NEW g,
         Pieces(S, n, R, C, W, old, new, g)
  PROVE  g[1] = new[n]
<1> DEFINE T == {k \in Nat : \A i \in 0..n : i = n - k =>
                   \E r \in Seq(S) : g[i + 1] = old[i] \o r /\ new[n] = new[i] \o r}
<1>1. 0 \in T
  <2>1. n \in 0..n /\ n - 0 = n /\ old[n] \in Seq(S) /\ new[n] \in Seq(S) /\ g[n + 1] = old[n]
    BY DEF Pieces
  <2>2. <<>> \in Seq(S) /\ g[n + 1] = old[n] \o <<>> /\ new[n] = new[n] \o <<>>
    BY <2>1
  <2> QED BY <2>1, <2>2
<1>2. ASSUME NEW k \in Nat, k \in T PROVE k + 1 \in T
  <2>1. ASSUME NEW i \in 0..n, i = n - (k + 1)
        PROVE  \E r \in Seq(S) : g[i + 1] = old[i] \o r /\ new[n] = new[i] \o r
    <3>1. PICK at \in 1..n : at = i + 1 /\ at - 1 = i /\ at \in 0..n /\ at = n - k
      BY <2>1
    <3>2. PICK r \in Seq(S) : g[at + 1] = old[at] \o r /\ new[n] = new[at] \o r
      BY <1>2, <3>1
    <3>3. PICK p \in Seq(S), q \in Seq(S), c \in Seq(S), w \in Seq(S) :
            p = old[i] /\ q = new[i] /\ c = C[at] /\ w = W[at]
      BY <3>1 DEF Pieces
    <3>4. /\ old[at] = p \o c /\ new[at] = q \o w
          /\ at \notin R => w = c
          /\ g[at] = IF at \in R THEN ReplaceSubSeqAt(Len(p) + 1, w, c, g[at + 1])
                                 ELSE g[at + 1]
      BY <3>1, <3>3 DEF Pieces
    <3>5. g[at + 1] = (p \o c) \o r /\ new[n] = (q \o w) \o r
      BY <3>2, <3>4
    <3>6. /\ r \in Seq(S) /\ p \in Seq(S) /\ q \in Seq(S) /\ c \in Seq(S) /\ w \in Seq(S)
      BY <3>2, <3>3
    <3>7. w \o r \in Seq(S)
      BY <3>6, Concat
    <3>8. (p \o c) \o r = p \o (c \o r)
      BY <3>6, SMTT(30)
    <3>9. (q \o w) \o r = q \o (w \o r)
      BY <3>6, SMTT(30)
    <3>10. ReplaceSubSeqAt(Len(p) + 1, w, c, (p \o c) \o r) = p \o (w \o r)
      <4>1. AreSeqs(S, p, c, r, w)
        BY <3>6 DEF AreSeqs
      <4> QED BY <4>1, Splice
    <3>11. g[at] = p \o (w \o r)
      BY <3>4, <3>5, <3>8, <3>10
    <3> QED BY <3>1, <3>3, <3>5, <3>7, <3>9, <3>11
  <2>2. k + 1 \in Nat
    OBVIOUS
  <2> QED BY <2>1, <2>2, Zenon
<1> HIDE DEF T
<1>3. n \in T
  BY <1>1, <1>2, Induction
<1>4. 0 \in 0..n /\ 0 = n - n /\ 0 + 1 = 1
  OBVIOUS
<1>5. PICK r \in Seq(S) : g[0 + 1] = old[0] \o r /\ new[n] = new[0] \o r
  BY <1>3, <1>4 DEF T
<1>6. old[0] = <<>> /\ new[0] = <<>>
  BY DEF Pieces
<1> QED BY <1>4, <1>5, <1>6

LEMMA MentionsReplaced ==
  ASSUME NEW content \in Seq(Tokens), NEW names,
         NEW nameOf, \A u \in MentionedIn(content) : nameOf[u] \in Seq(names)
  PROVE  ReplaceMentions(content, nameOf) = WithNames(content, nameOf)
<1> DEFINE n == Len(content)
           C == [i \in DOMAIN content |-> Characters(content[i])]
           W == [i \in DOMAIN content |->
                   IF i \in Recognised(content) THEN nameOf[content[i]] ELSE Characters(content[i])]
           S == Alphabet(names)
           Old(k) == FlattenSeq(First(C, k))
           New(k) == FlattenSeq(First(W, k))
<1>1. n \in Nat /\ DOMAIN content = 1..n /\ (\A i \in 1..n : content[i] \in Tokens)
  OBVIOUS
<1>2. \A i \in 1..n : C[i] \in Seq(S)
  BY <1>1, CharactersOf
<1>3. \A i \in 1..n : W[i] \in Seq(S)
  <2>1. ASSUME NEW i \in Recognised(content) PROVE nameOf[content[i]] \in Seq(S)
    <3>1. nameOf[content[i]] \in Seq(names)
      BY <2>1 DEF MentionedIn
    <3>2. names \subseteq S
      BY DEF Alphabet
    <3> HIDE DEF S
    <3> QED BY <3>1, <3>2
  <2> QED BY <1>1, <1>2, <2>1
<1>4. /\ Old(0) = <<>> /\ New(0) = <<>>
      /\ \A k \in 1..n : Old(k) = Old(k - 1) \o C[k] /\ New(k) = New(k - 1) \o W[k]
      /\ \A k \in 0..n : Old(k) \in Seq(S) /\ New(k) \in Seq(S)
  <2> HIDE DEF C, W, S, n
  <2> QED BY <1>1, <1>2, <1>3, FlattenFirst
<1>5. Text(content) = Old(n)
  <2>1. C = First(C, n)
    BY <1>1 DEF First
  <2> QED BY <2>1 DEF Text
<1>6. WithNames(content, nameOf) = New(n)
  <2>1. W = First(W, n)
    BY <1>1 DEF First
  <2> QED BY <2>1 DEF WithNames
<1>7. \A i \in 1..n : Position(content, i) = Len(Old(i - 1)) + 1
  <2>1. \A i \in 1..n : i - 1 \in 0..n
    OBVIOUS
  <2> QED BY <2>1, TextOf DEF Position
<1> DEFINE g == CHOOSE g : Replacing(content, nameOf, g)
<1>8. Replacing(content, nameOf, g)
  BY <1>1, ReplacingExists
<1> HIDE DEF g
<1>9. /\ g[n + 1] = Text(content)
      /\ \A i \in 1..n : g[i] = Put(content, nameOf, i, g[i + 1])
  BY <1>1, <1>8 DEF Replacing
<1>10. \A i \in 1..n : i \notin Recognised(content) => W[i] = C[i]
  BY <1>1
<1>11. \A i \in Recognised(content) : W[i] = nameOf[content[i]] /\ C[i] = Characters(content[i])
  BY DEF Recognised, Matches
<1> HIDE DEF C, W, S, n, Old, New
<1> DEFINE old == [k \in 0..n |-> Old(k)]
           new == [k \in 0..n |-> New(k)]
<1>12. \A k \in 0..n : old[k] = Old(k) /\ new[k] = New(k)
  OBVIOUS
<1> HIDE DEF old, new
<1>13. \A k \in 1..n : k \in 0..n /\ k - 1 \in 0..n
  BY <1>1
<1>14. 0 \in 0..n /\ n \in 0..n
  BY <1>1
<1>15. \A k \in 1..n :
         g[k] = IF k \in Recognised(content)
                THEN ReplaceSubSeqAt(Len(old[k - 1]) + 1, W[k], C[k], g[k + 1])
                ELSE g[k + 1]
  BY <1>7, <1>9, <1>11, <1>12, <1>13 DEF Put
<1>16. g[1] = new[n]
  <2>1. \A k \in 1..n : C[k] \in Seq(S) /\ W[k] \in Seq(S)
                        /\ (k \notin Recognised(content) => W[k] = C[k])
    BY <1>2, <1>3, <1>10
  <2>2. \A k \in 0..n : old[k] \in Seq(S) /\ new[k] \in Seq(S)
    BY <1>4, <1>12
  <2>3. old[0] = <<>> /\ new[0] = <<>>
    BY <1>4, <1>12, <1>14
  <2>4. \A k \in 1..n : old[k] = old[k - 1] \o C[k] /\ new[k] = new[k - 1] \o W[k]
    BY <1>4, <1>12, <1>13
  <2>5. g[n + 1] = old[n]
    BY <1>5, <1>9, <1>12, <1>14
  <2>6. Pieces(S, n, Recognised(content), C, W, old, new, g)
    BY <1>15, <2>1, <2>2, <2>3, <2>4, <2>5, Zenon DEF Pieces
  <2> QED BY <1>1, <2>6, FromTheEnd
<1>17. g[1] = New(n)
  BY <1>12, <1>14, <1>16
<1> QED BY <1>6, <1>17, ReplaceMentionsIs DEF g

-----------------------------------------------------------------------------
(* The lookups.                                                            *)
USE DEF KindOf, SubjectOf

LEMMA KeysOfEvent ==
  ASSUME NEW e \in Events, NEW kind \in Kinds
  PROVE  /\ KeysOf(e, kind) \subseteq Keys
         /\ \A k \in KeysOf(e, kind) : KindOf(k) = kind /\ SubjectOf(k) \in Subjects
         /\ After(e, kind) \in Kinds \cup {"done"}
<1>1. e.author \in Users /\ e.group \in Groups \cup {NoGroup}
  BY PushContentAssumption
<1>2. MentionedIn(e.content) \subseteq Users
  BY DEF MentionedIn, Recognised, Matches, IsMention
<1> QED BY <1>1, <1>2 DEF KeysOf, After, Keys, Kinds, Subjects

LEMMA KeyTypes ==
  ASSUME NEW k \in Keys
  PROVE  /\ KindOf(k) \in Kinds /\ SubjectOf(k) \in Subjects /\ k = <<KindOf(k), SubjectOf(k)>>
         /\ Ttl[KindOf(k)] \in Nat /\ Timeout[KindOf(k)] \in Nat
BY PushContentAssumption DEF Keys, Kinds, Subjects

LEMMA Times ==
  /\ \A kind \in Kinds : Timeout[kind] \in Nat /\ Ttl[kind] \in Nat /\ MaxAge(kind) \in Nat
  /\ Forgotten \in Nat
<1>1. \A kind \in Kinds : Timeout[kind] \in Nat /\ Ttl[kind] \in Nat
  BY PushContentAssumption
<1>2. "profile" \in Kinds /\ "group_meta" \in Kinds /\ "mention" \in Kinds
  BY DEF Kinds
<1>3. \A kind \in Kinds : MaxAge(kind) \in Nat
  BY <1>1, <1>2 DEF MaxAge, Kinds
<1> QED BY <1>1, <1>2, <1>3 DEF Forgotten

LEMMA GreatestVersion ==
  ASSUME NEW S \in SUBSET Versions, S # {}
  PROVE  \E v \in S : \A x \in S : v >= x
<1> DEFINE below == {MaxVersion - v : v \in S}
<1>1. MaxVersion \in Nat /\ S \subseteq 1..MaxVersion
  BY PushContentAssumption DEF Versions
<1>2. below \in SUBSET Nat /\ below # {}
  <2>1. \A v \in S : v \in 1..MaxVersion
    BY <1>1
  <2>2. \A v \in S : MaxVersion - v \in Nat
    BY <1>1, <2>1
  <2> QED BY <2>2
<1>3. PICK d \in below : \A x \in below : d <= x
  BY <1>2, LeastNat
<1>4. PICK v \in S : d = MaxVersion - v
  BY <1>3
<1>5. \A x \in S : v >= x
  BY <1>1, <1>3, <1>4
<1> QED BY <1>5

LEMMA AnswerType ==
  ASSUME NEW k, NEW answers
  PROVE  /\ Answer(k, answers) \in Versions \cup {NoVersion}
         /\ Answer(k, answers) # NoVersion => <<SubjectOf(k), Answer(k, answers)>> \in answers
<1> DEFINE versions == {v \in Versions : <<k[2], v>> \in answers}
<1>1. versions \in SUBSET Versions /\ Versions \subseteq Nat
  BY PushContentAssumption DEF Versions
<1>2. CASE versions = {}
  BY <1>2 DEF Answer
<1>3. CASE versions # {}
  <2>1. Choice(k[1], versions) \in versions
    <3>1. \E v \in versions : \A x \in versions : v <= x
      BY <1>1, <1>3, LeastNat
    <3>2. \E v \in versions : \A x \in versions : v >= x
      BY <1>1, <1>3, GreatestVersion
    <3> HIDE DEF versions
    <3> QED BY <3>1, <3>2 DEF Choice
  <2> QED BY <2>1 DEF Answer
<1> QED BY <1>2, <1>3

-----------------------------------------------------------------------------
(* How old the names and answers of a notification in the making are: the  *)
(* lookups after that of a kind add the time-outs of their queries.        *)
Spent(kind, stage) ==
  CASE kind = "profile" /\ stage = "mention" -> Timeout["group_meta"]
    [] kind = "profile" /\ stage = "done"    -> Timeout["group_meta"] + Timeout["mention"]
    [] kind # "profile" /\ stage = "done"    -> Timeout["mention"]
    [] OTHER -> 0

LookedUp(kind, stage) ==
  /\ kind = "profile" => stage # "profile"
  /\ kind = "group_meta" => stage \in {"mention", "done"}
  /\ kind = "mention" => stage \in {"mention", "done"}

Age(un, k, v) == un[SubjectOf(k)][v]

(* Over a job and a history, so that a lemma can speak of a step's new     *)
(* values.                                                                 *)
JobRecent(j, un) ==
  /\ j.stage \in Kinds => j.elapsed <= Timeout[j.stage]
  /\ j.stage = "done" => j.elapsed = 0
  /\ \A k \in j.wanted : KindOf(k) = j.stage
  /\ \A a \in j.answers : un[a[1]][a[2]] <= j.elapsed
  /\ \A k \in Keys :
       j.names[k] # NoVersion =>
         /\ LookedUp(KindOf(k), j.stage)
         /\ Age(un, k, j.names[k]) <=
              Ttl[KindOf(k)] + Timeout[KindOf(k)] + Spent(KindOf(k), j.stage) + j.elapsed

CacheRecent(c, un) ==
  \A k \in Keys :
    c[k].version # NoVersion =>
      Age(un, k, c[k].version) + c[k].ttl <= Ttl[KindOf(k)] + Timeout[KindOf(k)]

HeldNow(h, un) ==
  \A r \in Relays, s \in Subjects : h[r][s] # NoVersion => un[s][h[r][s]] = 0

IInv ==
  /\ TypeOK
  /\ HeldNow(held, unheld)
  /\ CacheRecent(cache, unheld)
  /\ \A w \in Workers : Busy(w) => JobRecent(job[w], unheld)

Histories == [Subjects -> [Versions -> 0..Forgotten]]

LEMMA SpentTypes ==
  \A kind \in Kinds, stage \in Kinds \cup {"done"} : Spent(kind, stage) \in Nat
BY Times DEF Spent, Kinds

LEMMA MaxAgeIs ==
  \A kind \in Kinds : MaxAge(kind) = Ttl[kind] + Timeout[kind] + Spent(kind, "done")
BY Times DEF MaxAge, Spent, Kinds

LEMMA LaterStage ==
  ASSUME NEW e \in Events, NEW stage \in Kinds, NEW kind \in Kinds
  PROVE  /\ LookedUp(kind, stage) =>
              /\ LookedUp(kind, After(e, stage))
              /\ Spent(kind, stage) + Timeout[stage] <= Spent(kind, After(e, stage))
         /\ LookedUp(stage, After(e, stage))
BY Times DEF After, LookedUp, Spent, Kinds

-----------------------------------------------------------------------------
(* What the steps do to one job.                                           *)

LEMMA JobTypes ==
  ASSUME NEW j \in Jobs
  PROVE  /\ j.event \in Events /\ j.stage \in Kinds \cup {"done"}
         /\ j.names \in [Keys -> Versions \cup {NoVersion}]
         /\ j.wanted \subseteq Keys /\ j.elapsed \in Nat
         /\ j.heard \subseteq Relays /\ j.answers \subseteq Subjects \X Versions
BY DEF Jobs

LEMMA AgeType ==
  ASSUME NEW un \in Histories, NEW k \in Keys, NEW v \in Versions
  PROVE  Age(un, k, v) \in Nat
BY KeyTypes, Times DEF Histories, Age

\* When a lookup is over, what it found is younger than its time to live and its time-out
\* together, and what was there before is no older than the next lookup allows.
LEMMA LeaveRecent ==
  ASSUME NEW un \in Histories, NEW j \in Jobs, j.stage \in Kinds, JobRecent(j, un),
         NEW names \in [Keys -> Versions \cup {NoVersion}],
         NEW changed \in SUBSET Keys,
         \A k \in Keys \ changed : names[k] = j.names[k],
         \A k \in changed : KindOf(k) = j.stage,
         \A k \in changed : names[k] # NoVersion =>
            Age(un, k, names[k]) <= Ttl[KindOf(k)] + Timeout[KindOf(k)]
  PROVE  Leave(j, names) \in Jobs /\ JobRecent(Leave(j, names), un)
<1> DEFINE next == After(j.event, j.stage)
           l == Leave(j, names)
<1>1. j.event \in Events /\ next \in Kinds \cup {"done"}
  BY JobTypes DEF After, Kinds
<1>2. /\ l \in [event : Events, stage : Kinds \cup {"done"},
               names : [Keys -> Versions \cup {NoVersion}], wanted : SUBSET Keys,
               elapsed : Nat, heard : SUBSET Relays, answers : SUBSET (Subjects \X Versions)]
      /\ l.stage = next /\ l.elapsed = 0 /\ l.wanted = {} /\ l.answers = {} /\ l.names = names
  <2> HIDE DEF next
  <2>1. l = [j EXCEPT !.stage = next, !.names = names, !.wanted = {}, !.elapsed = 0,
                      !.heard = {}, !.answers = {}]
    BY DEF Leave, next
  <2> HIDE DEF l
  <2> QED BY <1>1, <2>1 DEF Jobs
<1>3. l \in Jobs
  BY <1>2 DEF Jobs
<1>4. ASSUME NEW k \in Keys, names[k] # NoVersion
      PROVE  /\ LookedUp(KindOf(k), next)
             /\ Age(un, k, names[k]) <=
                  Ttl[KindOf(k)] + Timeout[KindOf(k)] + Spent(KindOf(k), next)
  <2>0. /\ KindOf(k) \in Kinds /\ Ttl[KindOf(k)] \in Nat /\ Timeout[KindOf(k)] \in Nat
        /\ Timeout[j.stage] \in Nat
        /\ Spent(KindOf(k), next) \in Nat /\ Spent(KindOf(k), j.stage) \in Nat
    BY <1>1, KeyTypes, Times, SpentTypes
  <2>1. names[k] \in Versions /\ Age(un, k, names[k]) \in Nat
    BY <1>4, AgeType
  <2>2. CASE k \in changed
    <3>1. LookedUp(KindOf(k), next)
      BY <1>1, <2>2, LaterStage
    <3> QED BY <1>4, <2>0, <2>1, <2>2, <3>1
  <2>3. CASE k \notin changed
    <3>1. /\ j.names[k] = names[k]
          /\ LookedUp(KindOf(k), j.stage)
          /\ Age(un, k, names[k]) <=
               Ttl[KindOf(k)] + Timeout[KindOf(k)] + Spent(KindOf(k), j.stage) + j.elapsed
      BY <1>4, <2>3 DEF JobRecent
    <3>2. /\ LookedUp(KindOf(k), next)
          /\ Spent(KindOf(k), j.stage) + Timeout[j.stage] <= Spent(KindOf(k), next)
      BY <1>1, <2>0, <3>1, LaterStage
    <3>3. j.elapsed \in Nat /\ j.elapsed <= Timeout[j.stage]
      BY JobTypes DEF JobRecent
    <3> HIDE DEF next
    <3> QED BY <2>0, <2>1, <3>1, <3>2, <3>3
  <2> QED BY <2>2, <2>3
<1>5. JobRecent(l, un)
  <2>1. /\ l.stage = next /\ l.elapsed = 0 /\ l.wanted = {} /\ l.answers = {} /\ l.names = names
    BY <1>2
  <2>2. next \in Kinds => 0 <= Timeout[next]
    BY Times
  <2>3. ASSUME NEW k \in Keys, names[k] # NoVersion
        PROVE  /\ LookedUp(KindOf(k), next)
               /\ Age(un, k, names[k]) <=
                    Ttl[KindOf(k)] + Timeout[KindOf(k)] + Spent(KindOf(k), next) + 0
    <3>1. /\ Ttl[KindOf(k)] \in Nat /\ Timeout[KindOf(k)] \in Nat
          /\ Spent(KindOf(k), next) \in Nat
      BY <1>1, KeyTypes, Times, SpentTypes
    <3> HIDE DEF next
    <3> QED BY <1>4, <2>3, <3>1
  <2> HIDE DEF next, l
  <2> QED BY <2>1, <2>2, <2>3 DEF JobRecent
<1> QED BY <1>3, <1>5

\* A tick during a query that is in time.
LEMMA TickRecent ==
  ASSUME NEW un \in Histories, NEW un2 \in Histories,
         \A s \in Subjects, v \in Versions : un2[s][v] <= un[s][v] + 1,
         NEW j \in Jobs, j.stage \in Kinds, JobRecent(j, un), ~(j.elapsed >= Timeout[j.stage])
  PROVE  /\ [j EXCEPT !.elapsed = @ + 1] \in Jobs
         /\ JobRecent([j EXCEPT !.elapsed = @ + 1], un2)
<1> DEFINE l == [j EXCEPT !.elapsed = @ + 1]
<1>1. /\ l \in Jobs
      /\ l.stage = j.stage /\ l.wanted = j.wanted /\ l.answers = j.answers
      /\ l.names = j.names /\ l.elapsed = j.elapsed + 1
  BY DEF Jobs
<1>2. j.elapsed \in Nat /\ Timeout[j.stage] \in Nat
  BY JobTypes, Times
<1>3. ASSUME NEW a \in j.answers  PROVE un2[a[1]][a[2]] <= j.elapsed + 1
  <2>1. a[1] \in Subjects /\ a[2] \in Versions
    BY JobTypes
  <2>2. un[a[1]][a[2]] \in Nat /\ un2[a[1]][a[2]] \in Nat
    BY <2>1, Times DEF Histories
  <2>3. un[a[1]][a[2]] <= j.elapsed /\ un2[a[1]][a[2]] <= un[a[1]][a[2]] + 1
    BY <2>1 DEF JobRecent
  <2> QED BY <1>2, <2>2, <2>3
<1>4. ASSUME NEW k \in Keys, j.names[k] # NoVersion
      PROVE  /\ LookedUp(KindOf(k), j.stage)
             /\ Age(un2, k, j.names[k]) <=
                  Ttl[KindOf(k)] + Timeout[KindOf(k)] + Spent(KindOf(k), j.stage)
                  + (j.elapsed + 1)
  <2>1. j.names[k] \in Versions /\ SubjectOf(k) \in Subjects
    BY <1>4, JobTypes, KeyTypes
  <2>2. Age(un, k, j.names[k]) \in Nat /\ Age(un2, k, j.names[k]) \in Nat
    BY <2>1, AgeType
  <2>3. Age(un2, k, j.names[k]) <= Age(un, k, j.names[k]) + 1
    BY <2>1 DEF Age
  <2>4. Ttl[KindOf(k)] \in Nat /\ Timeout[KindOf(k)] \in Nat /\ Spent(KindOf(k), j.stage) \in Nat
    BY KeyTypes, Times, SpentTypes
  <2>5. /\ LookedUp(KindOf(k), j.stage)
        /\ Age(un, k, j.names[k]) <=
             Ttl[KindOf(k)] + Timeout[KindOf(k)] + Spent(KindOf(k), j.stage) + j.elapsed
    BY <1>4 DEF JobRecent
  <2> QED BY <1>2, <2>2, <2>3, <2>4, <2>5
<1>5. JobRecent(l, un2)
  <2>1. j.stage # "done" /\ \A k \in j.wanted : KindOf(k) = j.stage
    BY DEF JobRecent, Kinds
  <2>2. j.elapsed + 1 <= Timeout[j.stage]
    BY <1>2
  <2> HIDE DEF l
  <2> QED BY <1>1, <1>3, <1>4, <2>1, <2>2 DEF JobRecent
<1> QED BY <1>1, <1>5

\* No version is older than before.
LEMMA YoungerRecent ==
  ASSUME NEW un \in Histories, NEW un2 \in Histories,
         \A s \in Subjects, v \in Versions : un2[s][v] <= un[s][v],
         NEW j \in Jobs, JobRecent(j, un)
  PROVE  JobRecent(j, un2)
<1>1. j.elapsed \in Nat
  BY JobTypes
<1>2. ASSUME NEW a \in j.answers  PROVE un2[a[1]][a[2]] <= j.elapsed
  <2>1. a[1] \in Subjects /\ a[2] \in Versions
    BY JobTypes
  <2>2. un[a[1]][a[2]] \in Nat /\ un2[a[1]][a[2]] \in Nat
    BY <2>1, Times DEF Histories
  <2>3. un[a[1]][a[2]] <= j.elapsed /\ un2[a[1]][a[2]] <= un[a[1]][a[2]]
    BY <2>1 DEF JobRecent
  <2> QED BY <1>1, <2>2, <2>3
<1>3. ASSUME NEW k \in Keys, j.names[k] # NoVersion
      PROVE  Age(un2, k, j.names[k]) <=
               Ttl[KindOf(k)] + Timeout[KindOf(k)] + Spent(KindOf(k), j.stage) + j.elapsed
  <2>1. j.names[k] \in Versions /\ SubjectOf(k) \in Subjects
    BY <1>3, JobTypes, KeyTypes
  <2>2. Age(un, k, j.names[k]) \in Nat /\ Age(un2, k, j.names[k]) \in Nat
    BY <2>1, AgeType
  <2>3. Age(un2, k, j.names[k]) <= Age(un, k, j.names[k])
    BY <2>1 DEF Age
  <2>4. Ttl[KindOf(k)] \in Nat /\ Timeout[KindOf(k)] \in Nat /\ Spent(KindOf(k), j.stage) \in Nat
    BY JobTypes, KeyTypes, Times, SpentTypes
  <2>5. Age(un, k, j.names[k]) <=
          Ttl[KindOf(k)] + Timeout[KindOf(k)] + Spent(KindOf(k), j.stage) + j.elapsed
    BY <1>3 DEF JobRecent
  <2> QED BY <1>1, <2>2, <2>3, <2>4, <2>5
<1> QED BY <1>2, <1>3 DEF JobRecent

-----------------------------------------------------------------------------
(* The invariant is inductive.                                             *)

LEMMA BusyJobs ==
  ASSUME NEW w \in Workers, TypeOK
  PROVE  /\ Busy(w) <=> job[w] \in Jobs
         /\ job[w].stage \in Kinds \cup {"done"} => Busy(w)
         /\ ~Busy(w) => job[w] = Idle
BY DEF TypeOK, Busy, Jobs, Idle, Kinds

\* One process goes on, with a job whose names are young enough, or with none.
LEMMA ContinueKeeps ==
  ASSUME IInv, NEW w \in Workers, NEW j \in Jobs \cup {Idle}, Continue(w, j),
         j \in Jobs => JobRecent(j, unheld),
         UNCHANGED <<held, unheld>>,
         cache' \in [Keys -> [version : Versions, ttl : Nat \ {0}] \cup {NoEntry}],
         CacheRecent(cache', unheld)
  PROVE  IInv'
<1>1. job' \in [Workers -> Jobs \cup {Idle}]
  BY DEF IInv, TypeOK, Continue
<1>2. TypeOK'
  BY <1>1 DEF IInv, TypeOK
<1>3. ASSUME NEW x \in Workers, job'[x].stage # "idle"  PROVE JobRecent(job'[x], unheld)
  <2>1. CASE x = w
    <3>1. job'[x] = j
      BY <2>1 DEF Continue, IInv, TypeOK
    <3>2. j \in Jobs
      BY <1>3, <3>1 DEF Idle
    <3> QED BY <3>1, <3>2
  <2>2. CASE x # w
    BY <1>3, <2>2 DEF Continue, IInv, TypeOK, Busy
  <2> QED BY <2>1, <2>2
<1> QED BY <1>2, <1>3 DEF IInv, Busy

LEMMA InitKeeps == Init => IInv
<1> SUFFICES ASSUME Init PROVE IInv
  OBVIOUS
<1>1. MaxVersion \in Nat /\ Forgotten \in Nat
  BY PushContentAssumption, Times
<1>2. TypeOK
  BY <1>1 DEF Init, TypeOK
<1>3. HeldNow(held, unheld)
  BY DEF Init, HeldNow
<1>4. CacheRecent(cache, unheld)
  BY DEF Init, CacheRecent, NoEntry
<1>5. \A w \in Workers : ~Busy(w)
  BY DEF Init, Busy, Idle
<1> QED BY <1>2, <1>3, <1>4, <1>5 DEF IInv

LEMMA PublishKeeps ==
  ASSUME IInv, NEW r \in Relays, NEW s \in Subjects, NEW v \in Versions, Publish(r, s, v)
  PROVE  IInv'
<1>1. /\ held \in [Relays -> [Subjects -> Versions \cup {NoVersion}]] /\ unheld \in Histories
      /\ cache \in [Keys -> [version : Versions, ttl : Nat \ {0}] \cup {NoEntry}]
      /\ job \in [Workers -> Jobs \cup {Idle}]
      /\ HeldNow(held, unheld) /\ CacheRecent(cache, unheld)
      /\ \A w \in Workers : Busy(w) => JobRecent(job[w], unheld)
  BY DEF IInv, TypeOK, Histories
<1>2. /\ held' = [held EXCEPT ![r][s] = v] /\ unheld' = [unheld EXCEPT ![s][v] = 0]
      /\ cache' = cache /\ job' = job
  BY DEF Publish
<1>3. held' \in [Relays -> [Subjects -> Versions \cup {NoVersion}]] /\ unheld' \in Histories
  BY <1>1, <1>2, Times DEF Histories
<1>4. \A t \in Subjects, x \in Versions : unheld'[t][x] <= unheld[t][x]
  <2> SUFFICES ASSUME NEW t \in Subjects, NEW x \in Versions
               PROVE  unheld'[t][x] <= unheld[t][x]
    OBVIOUS
  <2>1. unheld[t][x] \in Nat
    BY <1>1, Times DEF Histories
  <2>2. unheld'[t][x] = IF t = s /\ x = v THEN 0 ELSE unheld[t][x]
    BY <1>1, <1>2 DEF Histories
  <2> QED BY <2>1, <2>2
<1>5. TypeOK'
  BY <1>1, <1>2, <1>3 DEF TypeOK, Histories
<1>6. HeldNow(held', unheld')
  <2> SUFFICES ASSUME NEW x \in Relays, NEW t \in Subjects, held'[x][t] # NoVersion
               PROVE  unheld'[t][held'[x][t]] = 0
    BY DEF HeldNow
  <2>1. held'[x][t] = IF x = r /\ t = s THEN v ELSE held[x][t]
    BY <1>1, <1>2
  <2>2. held'[x][t] \in Versions
    BY <1>3
  <2>3. unheld'[t][held'[x][t]] =
          IF t = s /\ held'[x][t] = v THEN 0 ELSE unheld[t][held'[x][t]]
    BY <1>1, <1>2, <2>2 DEF Histories
  <2>4. CASE x = r /\ t = s
    BY <2>1, <2>3, <2>4
  <2>5. CASE ~(x = r /\ t = s)
    <3>1. unheld[t][held[x][t]] = 0
      BY <1>1, <2>1, <2>5 DEF HeldNow
    <3> QED BY <2>1, <2>3, <2>5, <3>1
  <2> QED BY <2>4, <2>5
<1>7. CacheRecent(cache', unheld')
  <2> SUFFICES ASSUME NEW k \in Keys, cache[k].version # NoVersion
               PROVE  Age(unheld', k, cache[k].version) + cache[k].ttl
                        <= Ttl[KindOf(k)] + Timeout[KindOf(k)]
    BY <1>2 DEF CacheRecent
  <2>1. cache[k].version \in Versions /\ cache[k].ttl \in Nat
    BY <1>1 DEF NoEntry
  <2>2. Age(unheld', k, cache[k].version) <= Age(unheld, k, cache[k].version)
    BY <1>4, <2>1, KeyTypes DEF Age
  <2>3. Age(unheld', k, cache[k].version) \in Nat /\ Age(unheld, k, cache[k].version) \in Nat
    BY <1>1, <1>3, <2>1, AgeType
  <2>4. Age(unheld, k, cache[k].version) + cache[k].ttl <= Ttl[KindOf(k)] + Timeout[KindOf(k)]
    BY <1>1 DEF CacheRecent
  <2>5. Ttl[KindOf(k)] \in Nat /\ Timeout[KindOf(k)] \in Nat
    BY KeyTypes
  <2> QED BY <2>1, <2>2, <2>3, <2>4, <2>5
<1>8. \A w \in Workers : Busy(w) => JobRecent(job[w], unheld')
  <2> SUFFICES ASSUME NEW w \in Workers, Busy(w)
               PROVE  JobRecent(job[w], unheld')
    OBVIOUS
  <2>1. job[w] \in Jobs /\ JobRecent(job[w], unheld)
    BY <1>1, BusyJobs DEF IInv
  <2> QED BY <1>1, <1>3, <1>4, <2>1, YoungerRecent
<1> QED BY <1>2, <1>5, <1>6, <1>7, <1>8 DEF IInv, Busy

LEMMA TickKeeps ==
  ASSUME IInv, Tick
  PROVE  IInv'
<1>1. /\ held \in [Relays -> [Subjects -> Versions \cup {NoVersion}]] /\ unheld \in Histories
      /\ cache \in [Keys -> [version : Versions, ttl : Nat \ {0}] \cup {NoEntry}]
      /\ job \in [Workers -> Jobs \cup {Idle}]
      /\ HeldNow(held, unheld) /\ CacheRecent(cache, unheld)
      /\ \A w \in Workers : Busy(w) => JobRecent(job[w], unheld)
  BY DEF IInv, TypeOK, Histories
<1>2. /\ \A w \in Workers : Busy(w) => Querying(w) /\ ~TimedOut(w)
      /\ unheld' = [s \in Subjects |-> [v \in Versions |->
           IF \E r \in Relays : held[r][s] = v THEN 0
           ELSE IF unheld[s][v] < Forgotten THEN unheld[s][v] + 1 ELSE Forgotten]]
      /\ cache' = [k \in Keys |-> Expire(cache[k])]
      /\ job' = [w \in Workers |-> IF Querying(w) THEN [job[w] EXCEPT !.elapsed = @ + 1]
                                   ELSE job[w]]
      /\ held' = held
  BY DEF Tick
<1>3. ASSUME NEW s \in Subjects, NEW v \in Versions
      PROVE  unheld'[s][v] \in 0..Forgotten /\ unheld'[s][v] <= unheld[s][v] + 1
  <2>1. unheld[s][v] \in 0..Forgotten /\ Forgotten \in Nat
    BY <1>1, Times DEF Histories
  <2>2. unheld'[s][v] = IF \E r \in Relays : held[r][s] = v THEN 0
                        ELSE IF unheld[s][v] < Forgotten THEN unheld[s][v] + 1 ELSE Forgotten
    BY <1>2
  <2>3. CASE \E r \in Relays : held[r][s] = v
    BY <2>1, <2>2, <2>3
  <2>4. CASE ~\E r \in Relays : held[r][s] = v
    <3>1. unheld'[s][v] = IF unheld[s][v] < Forgotten THEN unheld[s][v] + 1 ELSE Forgotten
      BY <2>2, <2>4
    <3> QED BY <2>1, <3>1
  <2> QED BY <2>3, <2>4
<1>4. unheld' \in Histories
  BY <1>2, <1>3 DEF Histories
<1>5. ASSUME NEW k \in Keys
      PROVE  /\ cache'[k] \in [version : Versions, ttl : Nat \ {0}] \cup {NoEntry}
             /\ cache'[k].version # NoVersion =>
                  /\ cache[k].version = cache'[k].version
                  /\ cache[k].version \in Versions /\ cache[k].ttl \in Nat
                  /\ cache'[k].ttl = cache[k].ttl - 1 /\ cache'[k].ttl \in Nat
  <2>1. cache'[k] = Expire(cache[k])
    BY <1>2
  <2>2. CASE cache[k] = NoEntry
    BY <2>1, <2>2 DEF Expire, NoEntry
  <2>3. CASE cache[k] \in [version : Versions, ttl : Nat \ {0}]
    BY <2>1, <2>3 DEF Expire, NoEntry
  <2> QED BY <1>1, <2>2, <2>3
<1>6. ASSUME NEW w \in Workers
      PROVE  /\ job'[w] \in Jobs \cup {Idle}
             /\ job'[w].stage # "idle" => JobRecent(job'[w], unheld')
  <2>1. CASE Busy(w)
    <3>1. /\ job[w] \in Jobs /\ JobRecent(job[w], unheld) /\ job[w].stage \in Kinds
          /\ ~(job[w].elapsed >= Timeout[job[w].stage]) /\ Querying(w)
      BY <1>1, <1>2, <2>1, BusyJobs DEF IInv, Querying, TimedOut
    <3>2. job'[w] = [job[w] EXCEPT !.elapsed = @ + 1]
      BY <1>2, <3>1
    <3>3. /\ [job[w] EXCEPT !.elapsed = @ + 1] \in Jobs
          /\ JobRecent([job[w] EXCEPT !.elapsed = @ + 1], unheld')
      BY <1>1, <1>3, <1>4, <3>1, TickRecent
    <3> QED BY <3>2, <3>3
  <2>2. CASE ~Busy(w)
    <3>1. job[w] = Idle /\ ~Querying(w)
      BY <2>2, BusyJobs DEF IInv, Querying
    <3> QED BY <1>2, <3>1 DEF Idle
  <2> QED BY <2>1, <2>2
<1>7. TypeOK'
  <2>1. cache' \in [Keys -> [version : Versions, ttl : Nat \ {0}] \cup {NoEntry}]
    BY <1>2, <1>5
  <2>2. job' \in [Workers -> Jobs \cup {Idle}]
    BY <1>2, <1>6
  <2> QED BY <1>1, <1>2, <1>4, <2>1, <2>2 DEF TypeOK, Histories
<1>8. HeldNow(held', unheld')
  <2> SUFFICES ASSUME NEW r \in Relays, NEW s \in Subjects, held[r][s] # NoVersion
               PROVE  unheld'[s][held[r][s]] = 0
    BY <1>2 DEF HeldNow
  <2>1. held[r][s] \in Versions
    BY <1>1
  <2> QED BY <1>2, <2>1
<1>9. CacheRecent(cache', unheld')
  <2> SUFFICES ASSUME NEW k \in Keys, cache'[k].version # NoVersion
               PROVE  Age(unheld', k, cache'[k].version) + cache'[k].ttl
                        <= Ttl[KindOf(k)] + Timeout[KindOf(k)]
    BY DEF CacheRecent
  <2>1. /\ cache[k].version = cache'[k].version /\ cache[k].version \in Versions
        /\ cache[k].ttl \in Nat /\ cache'[k].ttl = cache[k].ttl - 1 /\ cache'[k].ttl \in Nat
    BY <1>5
  <2>2. Age(unheld', k, cache[k].version) <= Age(unheld, k, cache[k].version) + 1
    BY <1>3, <2>1, KeyTypes DEF Age
  <2>3. Age(unheld', k, cache[k].version) \in Nat /\ Age(unheld, k, cache[k].version) \in Nat
    BY <1>1, <1>4, <2>1, AgeType
  <2>4. Age(unheld, k, cache[k].version) + cache[k].ttl <= Ttl[KindOf(k)] + Timeout[KindOf(k)]
    BY <1>1, <2>1 DEF CacheRecent
  <2>5. Ttl[KindOf(k)] \in Nat /\ Timeout[KindOf(k)] \in Nat
    BY KeyTypes
  <2> QED BY <2>1, <2>2, <2>3, <2>4, <2>5
<1> QED BY <1>6, <1>7, <1>8, <1>9 DEF IInv, Busy

\* A job that ends, is sent or is given up.
LEMMA IdleKeeps ==
  ASSUME IInv, NEW w \in Workers, Continue(w, Idle), UNCHANGED <<held, unheld, cache>>
  PROVE  IInv'
<1>1. Idle \notin Jobs
  BY DEF Jobs, Idle, Kinds
<1> QED BY <1>1, ContinueKeeps DEF IInv, TypeOK

LEMMA BeginKeeps ==
  ASSUME IInv, NEW w \in Workers, NEW e \in Events, Begin(w, e)
  PROVE  IInv'
<1> DEFINE j == [event |-> e, stage |-> "profile", names |-> [k \in Keys |-> NoVersion],
                 wanted |-> {}, elapsed |-> 0, heard |-> {}, answers |-> {}]
<1>1. j \in Jobs
  BY DEF Jobs, Kinds
<1>2. "profile" \in Kinds /\ Timeout["profile"] \in Nat
  BY Times DEF Kinds
<1>3. JobRecent(j, unheld)
  BY <1>2 DEF JobRecent
<1> QED BY <1>1, <1>3, ContinueKeeps DEF Begin, IInv, TypeOK

LEMMA HearKeeps ==
  ASSUME IInv, NEW w \in Workers, NEW r \in Relays, Hear(w, r)
  PROVE  IInv'
<1> DEFINE asked == {s \in Subjects : held[r][s] # NoVersion /\ <<job[w].stage, s>> \in job[w].wanted}
           said == {<<s, held[r][s]>> : s \in asked}
           j == [job[w] EXCEPT !.heard = @ \cup {r}, !.answers = @ \cup said]
<1>1. job[w] \in Jobs /\ JobRecent(job[w], unheld)
  BY BusyJobs DEF Hear, Querying, IInv
<1>2. said \subseteq Subjects \X Versions /\ \A a \in said : unheld[a[1]][a[2]] = 0
  <2>1. ASSUME NEW s \in asked
        PROVE  held[r][s] \in Versions /\ unheld[s][held[r][s]] = 0
    BY DEF IInv, TypeOK, HeldNow
  <2>2. ASSUME NEW a \in said
        PROVE  a \in Subjects \X Versions /\ unheld[a[1]][a[2]] = 0
    <3>1. PICK s \in asked : a = <<s, held[r][s]>>
      OBVIOUS
    <3>2. s \in Subjects /\ a[1] = s /\ a[2] = held[r][s]
      BY <3>1
    <3> QED BY <2>1, <3>1, <3>2
  <2> HIDE DEF said
  <2> QED BY <2>2
<1>3. /\ j \in Jobs
      /\ j.stage = job[w].stage /\ j.wanted = job[w].wanted /\ j.names = job[w].names
      /\ j.elapsed = job[w].elapsed /\ j.answers = job[w].answers \cup said
  <2> HIDE DEF said
  <2> QED BY <1>1, <1>2 DEF Jobs
<1>4. JobRecent(j, unheld)
  <2>1. \A a \in j.answers : unheld[a[1]][a[2]] <= j.elapsed
    <3> HIDE DEF j, said
    <3>1. job[w].elapsed \in Nat
      BY <1>1, JobTypes
    <3>2. \A a \in said : unheld[a[1]][a[2]] <= job[w].elapsed
      BY <1>2, <3>1
    <3> QED BY <1>1, <1>3, <3>2 DEF JobRecent
  <2> HIDE DEF j, said
  <2> QED BY <1>1, <1>3, <2>1 DEF JobRecent
<1>5. Continue(w, j) /\ UNCHANGED <<held, unheld, cache>>
  BY DEF Hear
<1> HIDE DEF j
<1> QED BY <1>3, <1>4, <1>5, ContinueKeeps DEF IInv, TypeOK

LEMMA ReadKeeps ==
  ASSUME IInv, NEW w \in Workers, ReadCache(w)
  PROVE  IInv'
<1>1. job[w] \in Jobs /\ JobRecent(job[w], unheld)
  BY BusyJobs DEF ReadCache, IInv
<1>2. PICK j : j = job[w]
  OBVIOUS
<1> DEFINE keys == KeysOf(j.event, j.stage)
           namesOf(hits) == [k \in Keys |-> IF k \in hits THEN cache[k].version ELSE j.names[k]]
<1>3. /\ j.stage \in Kinds /\ j.wanted = {} /\ UNCHANGED <<held, unheld, cache>>
      /\ \E hits \in SUBSET {k \in keys : cache[k] # NoEntry} :
           Continue(w, IF hits = keys THEN Leave(j, namesOf(hits))
                       ELSE [j EXCEPT !.names = namesOf(hits), !.wanted = keys \ hits])
  BY <1>2 DEF ReadCache
<1>4. PICK hits \in SUBSET {k \in keys : cache[k] # NoEntry} :
         Continue(w, IF hits = keys THEN Leave(j, namesOf(hits))
                     ELSE [j EXCEPT !.names = namesOf(hits), !.wanted = keys \ hits])
  BY <1>3
<1>5. j \in Jobs /\ JobRecent(j, unheld) /\ j.event \in Events
      /\ j.names \in [Keys -> Versions \cup {NoVersion}]
  BY <1>1, <1>2, JobTypes
<1>6. keys \subseteq Keys /\ \A k \in keys : KindOf(k) = j.stage
  BY <1>3, <1>5, KeysOfEvent
<1>7. /\ namesOf(hits) \in [Keys -> Versions \cup {NoVersion}]
      /\ \A k \in Keys \ hits : namesOf(hits)[k] = j.names[k]
      /\ \A k \in hits : /\ KindOf(k) = j.stage
                         /\ namesOf(hits)[k] = cache[k].version
                         /\ namesOf(hits)[k] \in Versions
  <2>1. \A k \in hits : k \in keys /\ k \in Keys /\ cache[k].version \in Versions
    BY <1>6 DEF IInv, TypeOK
  <2> HIDE DEF keys
  <2> QED BY <1>5, <1>6, <2>1
<1>8. ASSUME NEW k \in hits
      PROVE  Age(unheld, k, namesOf(hits)[k]) <= Ttl[KindOf(k)] + Timeout[KindOf(k)]
  <2>1. k \in Keys /\ cache[k] \in [version : Versions, ttl : Nat \ {0}]
    BY <1>6 DEF IInv, TypeOK
  <2>2. Age(unheld, k, cache[k].version) + cache[k].ttl <= Ttl[KindOf(k)] + Timeout[KindOf(k)]
    <3>1. cache[k].version # NoVersion
      BY <2>1, PushContentAssumption DEF Versions, NoVersion
    <3> QED BY <2>1, <3>1 DEF IInv, CacheRecent
  <2>3. Age(unheld, k, cache[k].version) \in Nat
    BY <2>1, AgeType DEF IInv, TypeOK, Histories
  <2>4. Ttl[KindOf(k)] \in Nat /\ Timeout[KindOf(k)] \in Nat
    BY <2>1, KeyTypes
  <2> QED BY <1>7, <2>1, <2>2, <2>3, <2>4
<1>9. CASE hits = keys
  <2>1. hits \in SUBSET Keys
    BY <1>6
  <2>2. /\ Leave(j, namesOf(hits)) \in Jobs
        /\ JobRecent(Leave(j, namesOf(hits)), unheld)
    <3>1. unheld \in Histories
      BY DEF IInv, TypeOK, Histories
    <3> HIDE DEF namesOf, keys
    <3> QED BY <1>3, <1>5, <1>7, <1>8, <2>1, <3>1, LeaveRecent
  <2>3. Continue(w, Leave(j, namesOf(hits)))
    BY <1>4, <1>9
  <2> HIDE DEF namesOf, keys
  <2> QED BY <1>3, <2>2, <2>3, ContinueKeeps DEF IInv, TypeOK
<1>10. CASE hits # keys
  <2> DEFINE l == [j EXCEPT !.names = namesOf(hits), !.wanted = keys \ hits]
  <2>1. /\ l \in Jobs
        /\ l.stage = j.stage /\ l.wanted = keys \ hits /\ l.names = namesOf(hits)
        /\ l.elapsed = j.elapsed /\ l.answers = j.answers
    <3> HIDE DEF namesOf, keys
    <3> QED BY <1>5, <1>6, <1>7 DEF Jobs
  <2>2. ASSUME NEW k \in hits
        PROVE  /\ LookedUp(KindOf(k), j.stage)
               /\ Age(unheld, k, namesOf(hits)[k]) <=
                    Ttl[KindOf(k)] + Timeout[KindOf(k)] + Spent(KindOf(k), j.stage) + j.elapsed
    <3>1. k \in keys /\ k \in Keys /\ KindOf(k) = j.stage
      BY <1>6
    <3>2. j.stage = "mention"
      <4>1. \A x \in keys : x = k \/ j.stage = "mention"
        BY <1>3, <3>1 DEF KeysOf, Kinds
      <4> QED BY <1>10, <4>1
    <3>3. Age(unheld, k, namesOf(hits)[k]) \in Nat
      BY <1>7, <3>1, AgeType DEF IInv, TypeOK, Histories
    <3>4. /\ Ttl[KindOf(k)] \in Nat /\ Timeout[KindOf(k)] \in Nat /\ j.elapsed \in Nat
          /\ Spent(KindOf(k), j.stage) \in Nat
      BY <1>3, <1>5, <3>1, KeyTypes, SpentTypes, JobTypes
    <3>5. LookedUp(KindOf(k), j.stage)
      BY <3>1, <3>2 DEF LookedUp
    <3> HIDE DEF namesOf, keys
    <3> QED BY <1>8, <3>3, <3>4, <3>5
  <2>3. JobRecent(l, unheld)
    <3>1. ASSUME NEW k \in Keys, namesOf(hits)[k] # NoVersion
          PROVE  /\ LookedUp(KindOf(k), j.stage)
                 /\ Age(unheld, k, namesOf(hits)[k]) <=
                      Ttl[KindOf(k)] + Timeout[KindOf(k)] + Spent(KindOf(k), j.stage) + j.elapsed
      <4> HIDE DEF namesOf, keys
      <4>1. CASE k \in hits
        BY <2>2, <4>1
      <4>2. CASE k \notin hits
        BY <1>5, <1>7, <3>1, <4>2 DEF JobRecent
      <4> QED BY <4>1, <4>2
    <3> HIDE DEF namesOf, keys, l
    <3> QED BY <1>5, <1>6, <2>1, <3>1 DEF JobRecent
  <2>4. Continue(w, l)
    BY <1>4, <1>10
  <2> HIDE DEF namesOf, keys, l
  <2> QED BY <1>3, <2>1, <2>3, <2>4, ContinueKeeps DEF IInv, TypeOK
<1> QED BY <1>9, <1>10

\* What a query has heard is no older than the query, and what it saves is not either.
LEMMA EndKeeps ==
  ASSUME IInv, NEW w \in Workers, Querying(w), NEW answers \in SUBSET job[w].answers,
         EndQuery(w, answers)
  PROVE  IInv'
<1>1. PICK j : j = job[w]
  OBVIOUS
<1>2. /\ j \in Jobs /\ JobRecent(j, unheld) /\ j.stage \in Kinds
      /\ j.names \in [Keys -> Versions \cup {NoVersion}]
      /\ j.wanted \subseteq Keys /\ j.elapsed \in Nat /\ answers \subseteq Subjects \X Versions
  BY <1>1, BusyJobs, JobTypes DEF Querying, IInv
<1> DEFINE found == {k \in j.wanted : Answer(k, answers) # NoVersion}
           names == [k \in Keys |-> IF k \in found THEN Answer(k, answers) ELSE j.names[k]]
<1>3. /\ Continue(w, Leave(j, names)) /\ UNCHANGED <<held, unheld>>
      /\ \E saved \in SUBSET found :
           cache' = [k \in Keys |-> IF k \in saved THEN Saved(k, answers) ELSE cache[k]]
  BY <1>1 DEF EndQuery
<1>4. PICK saved \in SUBSET found :
        cache' = [k \in Keys |-> IF k \in saved THEN Saved(k, answers) ELSE cache[k]]
  BY <1>3
<1>5. unheld \in Histories
  BY DEF IInv, TypeOK, Histories
<1>6. ASSUME NEW k \in found
      PROVE  /\ k \in Keys /\ KindOf(k) = j.stage /\ Answer(k, answers) \in Versions
             /\ Age(unheld, k, Answer(k, answers)) \in Nat
             /\ Age(unheld, k, Answer(k, answers)) <= Timeout[KindOf(k)]
  <2>1. k \in Keys /\ KindOf(k) = j.stage
    BY <1>2 DEF JobRecent
  <2>2. PICK v : v = Answer(k, answers)
    OBVIOUS
  <2>3. v \in Versions /\ <<SubjectOf(k), v>> \in answers
    BY <2>2, AnswerType
  <2>4. <<SubjectOf(k), v>> \in j.answers
    BY <1>1, <2>3
  <2>5. unheld[SubjectOf(k)][v] <= j.elapsed
    BY <1>2, <2>4 DEF JobRecent
  <2>6. j.elapsed <= Timeout[j.stage] /\ Timeout[j.stage] \in Nat
    BY <1>2, Times DEF JobRecent
  <2>7. Age(unheld, k, v) \in Nat
    BY <1>5, <2>1, <2>3, AgeType
  <2>8. Age(unheld, k, v) <= Timeout[KindOf(k)]
    BY <1>2, <2>1, <2>5, <2>6, <2>7 DEF Age
  <2> QED BY <2>1, <2>2, <2>3, <2>7, <2>8
<1>7. /\ names \in [Keys -> Versions \cup {NoVersion}]
      /\ \A k \in found : names[k] = Answer(k, answers)
      /\ \A k \in Keys \ found : names[k] = j.names[k]
  <2> HIDE DEF found
  <2> QED BY <1>2, <1>6
<1>8. /\ Leave(j, names) \in Jobs
      /\ JobRecent(Leave(j, names), unheld)
  <2>1. \A k \in found : KindOf(k) = j.stage
    BY <1>6
  <2>2. \A k \in found : Age(unheld, k, names[k]) <= Ttl[KindOf(k)] + Timeout[KindOf(k)]
    <3> SUFFICES ASSUME NEW k \in found
                 PROVE  Age(unheld, k, names[k]) <= Ttl[KindOf(k)] + Timeout[KindOf(k)]
      OBVIOUS
    <3>1. Ttl[KindOf(k)] \in Nat /\ Timeout[KindOf(k)] \in Nat
      BY <1>6, KeyTypes
    <3> HIDE DEF names, found
    <3> QED BY <1>6, <1>7, <3>1
  <2>3. found \in SUBSET Keys
    BY <1>2
  <2> HIDE DEF names, found
  <2> QED BY <1>2, <1>5, <1>7, <2>1, <2>2, <2>3, LeaveRecent
<1>9. ASSUME NEW k \in Keys
      PROVE  /\ cache'[k] \in [version : Versions, ttl : Nat \ {0}] \cup {NoEntry}
             /\ cache'[k].version # NoVersion =>
                  Age(unheld, k, cache'[k].version) + cache'[k].ttl
                    <= Ttl[KindOf(k)] + Timeout[KindOf(k)]
  <2>1. /\ cache[k] \in [version : Versions, ttl : Nat \ {0}] \cup {NoEntry}
        /\ cache[k].version # NoVersion =>
             Age(unheld, k, cache[k].version) + cache[k].ttl <= Ttl[KindOf(k)] + Timeout[KindOf(k)]
    BY DEF IInv, TypeOK, CacheRecent
  <2>2. CASE cache'[k] = cache[k]
    BY <2>1, <2>2
  <2>3. CASE k \in saved /\ Ttl[KindOf(k)] # 0
    <3>1. cache'[k] = [version |-> Answer(k, answers), ttl |-> Ttl[KindOf(k)]]
      BY <1>4, <2>3 DEF Saved
    <3>2. /\ Answer(k, answers) \in Versions /\ Age(unheld, k, Answer(k, answers)) \in Nat
          /\ Age(unheld, k, Answer(k, answers)) <= Timeout[KindOf(k)]
      BY <1>6, <2>3
    <3>3. Ttl[KindOf(k)] \in Nat \ {0} /\ Timeout[KindOf(k)] \in Nat
      BY <2>3, KeyTypes
    <3> QED BY <3>1, <3>2, <3>3
  <2>4. cache'[k] = cache[k] \/ (k \in saved /\ Ttl[KindOf(k)] # 0)
    BY <1>4 DEF Saved
  <2> QED BY <2>2, <2>3, <2>4
<1>10. cache' \in [Keys -> [version : Versions, ttl : Nat \ {0}] \cup {NoEntry}]
  BY <1>4, <1>9
<1>11. CacheRecent(cache', unheld)
  BY <1>9 DEF CacheRecent
<1> HIDE DEF names, found
<1> QED BY <1>3, <1>8, <1>10, <1>11, ContinueKeeps

LEMMA StepKeeps == IInv /\ [Next]_vars => IInv'
<1> SUFFICES ASSUME IInv, [Next]_vars PROVE IInv'
  OBVIOUS
<1>1. CASE Tick
  BY <1>1, TickKeeps
<1>2. ASSUME NEW r \in Relays, NEW s \in Subjects, NEW v \in Versions, Publish(r, s, v)
      PROVE  IInv'
  BY <1>2, PublishKeeps
<1>3. ASSUME NEW w \in Workers, NEW e \in Events, Begin(w, e)  PROVE IInv'
  BY <1>3, BeginKeeps
<1>4. ASSUME NEW w \in Workers, NEW r \in Relays, Hear(w, r)  PROVE IInv'
  BY <1>4, HearKeeps
<1>5. ASSUME NEW w \in Workers, ReadCache(w)  PROVE IInv'
  BY <1>5, ReadKeeps
<1>6. ASSUME NEW w \in Workers, Answered(w)  PROVE IInv'
  BY <1>6, EndKeeps DEF Answered
<1>7. ASSUME NEW w \in Workers, Failed(w)  PROVE IInv'
  BY <1>7, EndKeeps DEF Failed
<1>8. ASSUME NEW w \in Workers, Send(w) \/ Unformatted(w) \/ Crash(w)  PROVE IInv'
  BY <1>8, IdleKeeps DEF Send, Unformatted, Crash
<1>9. CASE UNCHANGED vars
  BY <1>9 DEF vars, IInv, TypeOK, Busy
<1> QED BY <1>1, <1>2, <1>3, <1>4, <1>5, <1>6, <1>7, <1>8, <1>9 DEF Next, Make

-----------------------------------------------------------------------------
(* The types of create_fcm_payload's lookups, its caches and the relays.   *)
THEOREM TypeCorrect == Spec => []TypeOK
<1>1. IInv => TypeOK
  BY DEF IInv
<1> QED BY <1>1, InitKeeps, StepKeeps, PTL DEF Spec

(* The names and metadata create_fcm_payload puts into a notification were *)
(* at a relay no longer ago than their time to live and the time-outs of   *)
(* the queries up to the end, whatever other processes save meanwhile.     *)
THEOREM NamesCorrect == Spec => []NamesRecent
<1>1. IInv => NamesRecent
  <2> SUFFICES ASSUME IInv, NEW w \in Workers, job[w].stage = "done", NEW k \in Keys,
                      job[w].names[k] # NoVersion
               PROVE  unheld[SubjectOf(k)][job[w].names[k]] <= MaxAge(KindOf(k))
    BY DEF NamesRecent
  <2>1. JobRecent(job[w], unheld) /\ job[w].elapsed = 0
    BY BusyJobs DEF IInv, JobRecent
  <2>2. Age(unheld, k, job[w].names[k]) <=
          Ttl[KindOf(k)] + Timeout[KindOf(k)] + Spent(KindOf(k), "done") + 0
    BY <2>1 DEF JobRecent
  <2>3. KindOf(k) \in Kinds /\ MaxAge(KindOf(k)) \in Nat
        /\ MaxAge(KindOf(k)) = Ttl[KindOf(k)] + Timeout[KindOf(k)] + Spent(KindOf(k), "done")
    BY KeyTypes, Times, MaxAgeIs
  <2> QED BY <2>2, <2>3 DEF Age
<1> QED BY <1>1, InitKeeps, StepKeeps, PTL DEF Spec

(* format_content_for_push puts every name in the place of its mention and *)
(* leaves the rest of the content as it was, whatever stands in it and     *)
(* however long the names are: replaced from the end to the start, the     *)
(* places of the mentions before stay what they were.                      *)
THEOREM BodyCorrect == Spec => []BodyReadsRight
<1>1. TypeOK => BodyReadsRight
  <2> SUFFICES ASSUME TypeOK, NEW w \in Workers, job[w].stage = "done"
               PROVE  Body(job[w]) = Cut(WithNames(job[w].event.content, Shown(job[w])))
    BY DEF BodyReadsRight
  <2> DEFINE content == job[w].event.content
             names == job[w].names
  <2>1. job[w] \in Jobs
    BY DEF TypeOK, Idle
  <2>2. content \in Seq(Tokens) /\ names \in [Keys -> Versions \cup {NoVersion}]
    <3>1. job[w].event \in Events
      BY <2>1 DEF Jobs
    <3> QED BY <2>1, <3>1, PushContentAssumption DEF Jobs
  <2>3. ASSUME NEW x \in MentionedIn(content) PROVE Shown(job[w])[x] \in Seq(Glyphs)
    <3>1. x \in Users
      BY DEF MentionedIn, Recognised, Matches, IsMention
    <3>2. names[<<"mention", x>>] \in 0..MaxVersion
      <4>1. <<"mention", x>> \in Keys
        BY <3>1 DEF Keys
      <4>2. Versions \cup {NoVersion} = 0..MaxVersion
        BY PushContentAssumption DEF Versions, NoVersion
      <4> QED BY <2>2, <4>1, <4>2
    <3>3. NameOf[x][names[<<"mention", x>>]] \in Seq(Glyphs)
      BY <3>1, <3>2, PushContentAssumption
    <3> QED BY <3>3 DEF Shown
  <2> HIDE DEF content, names
  <2>4. ReplaceMentions(content, Shown(job[w])) = WithNames(content, Shown(job[w]))
    BY <2>2, <2>3, MentionsReplaced
  <2> QED BY <2>4 DEF Body, content
<1> QED BY <1>1, TypeCorrect, PTL
=============================================================================
