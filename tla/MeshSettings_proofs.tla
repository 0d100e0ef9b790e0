------------------------- MODULE MeshSettings_proofs -------------------------
(***************************************************************************)
(* Proofs about MeshSettings, for any answers of a server and any limit.   *)
(***************************************************************************)
EXTENDS MeshSettings, Positions_proofs, SequenceTheorems, FiniteSetTheorems

(***************************************************************************)
(* Windows.  A window of a text holds the characters of the text, moved,   *)
(* and what spans some positions of the window spans them in the text.     *)
(***************************************************************************)
\* A window of t: nonempty, or the empty one before its ith character.
LEMMA Window ==
  ASSUME NEW S, NEW t \in Seq(S), NEW n \in Nat, Len(t) = n,
         NEW i \in 1 .. n + 1, NEW j \in 0 .. n, i <= j + 1
  PROVE  /\ SubSeq(t, i, j) \in Seq(S)
         /\ Len(SubSeq(t, i, j)) = j - i + 1
         /\ DOMAIN SubSeq(t, i, j) = 1 .. j - i + 1
         /\ \A k \in 1 .. j - i + 1 : SubSeq(t, i, j)[k] = t[k + i - 1]
<1>1. \A k \in i .. j : t[k] \in S
  <2> SUFFICES ASSUME NEW k \in i .. j PROVE t[k] \in S
    OBVIOUS
  <2>1. k \in 1 .. Len(t)
    OBVIOUS
  <2>2. QED
    BY <2>1, ElementOfSeq
<1>2. /\ SubSeq(t, i, j) \in Seq(S)
      /\ Len(SubSeq(t, i, j)) = IF i <= j THEN j - i + 1 ELSE 0
      /\ \A k \in 1 .. j - i + 1 : SubSeq(t, i, j)[k] = t[i + k - 1]
  BY <1>1, SubSeqProperties
<1>3. (IF i <= j THEN j - i + 1 ELSE 0) = j - i + 1
  OBVIOUS
<1>4. \A k \in 1 .. j - i + 1 : i + k - 1 = k + i - 1
  OBVIOUS
<1>5. Len(SubSeq(t, i, j)) = j - i + 1
  BY <1>2, <1>3
<1>6. DOMAIN SubSeq(t, i, j) = 1 .. j - i + 1
  BY <1>2, <1>5, LenProperties
<1>7. QED
  BY <1>2, <1>4, <1>5, <1>6

\* The span of some positions is a window, between two of them.
LEMMA SpanIsWindow ==
  ASSUME NEW t, NEW n \in Nat, NEW K, K \subseteq 1 .. n
  PROVE  \/ K = {} /\ Span(t, K) = <<>>
         \/ \E a \in K, b \in K :
              /\ \A k \in K : a <= k /\ k <= b
              /\ Min(K) = a /\ Max(K) = b
              /\ Span(t, K) = SubSeq(t, a, b)
<1>1. CASE K = {}
  BY <1>1 DEF Span
<1>2. CASE K # {}
  <2>1. K \subseteq Nat /\ K \subseteq 0 .. n
    OBVIOUS
  <2>2. Min(K) \in K /\ \A k \in K : Min(K) <= k
    BY <1>2, <2>1, MinIsMember
  <2>3. Max(K) \in K /\ \A k \in K : Max(K) >= k
    BY <1>2, <2>1, MaxIsMember
  <2>4. \A k \in K : k <= Max(K)
    BY <2>1, <2>3
  <2>5. Span(t, K) = SubSeq(t, Min(K), Max(K))
    BY <1>2 DEF Span
  <2>6. QED
    BY <2>2, <2>3, <2>4, <2>5
<1>3. QED
  BY <1>1, <1>2

\* A window of a window is a window.
LEMMA WindowOfWindow ==
  ASSUME NEW S, NEW t \in Seq(S), NEW n \in Nat, Len(t) = n,
         NEW i \in 1 .. n, NEW j \in i .. n,
         NEW x \in 1 .. j - i + 2, NEW y \in 0 .. j - i + 1
  PROVE  SubSeq(SubSeq(t, i, j), x, y) = SubSeq(t, x + i - 1, y + i - 1)
<1>1. CASE x <= y
  <2>1. x \in 1 .. j - i + 1 /\ y \in 1 .. j - i + 1
    BY <1>1
  <2>2. i \in 1 .. Len(t) /\ j \in 1 .. Len(t)
    OBVIOUS
  <2>3. SubSeq(SubSeq(t, i, j), x, y) = SubSeq(t, i + x - 1, i + y - 1)
    BY <2>1, <2>2, SubSeqOfSubSeq
  <2>4. i + x - 1 = x + i - 1 /\ i + y - 1 = y + i - 1
    OBVIOUS
  <2>5. QED
    BY <2>3, <2>4
<1>2. CASE y < x
  <2>1. y + i - 1 < x + i - 1 /\ y + i - 1 \in Int /\ x + i - 1 \in Int
    BY <1>2
  <2>2. SubSeq(t, x + i - 1, y + i - 1) = <<>>
    BY <2>1, SubSeqEmpty
  <2>3. SubSeq(SubSeq(t, i, j), x, y) = <<>>
    BY <1>2, SubSeqEmpty
  <2>4. QED
    BY <2>2, <2>3
<1>3. QED
  BY <1>1, <1>2

-----------------------------------------------------------------------------
(***************************************************************************)
(* A line.  Splitting a trimmed line and trimming its parts gives the same *)
(* as splitting the line and trimming, which is how Sets reads it.         *)
(***************************************************************************)
\* The visible ones of the positions i .. j.
Visible(t, i, j) == {k \in i .. j : t[k] \notin Blank}

LEMMA SignsVisible == "=" \notin Blank /\ "#" \notin Blank /\ "\n" # "="
BY Zenon DEF Blank, Space

LEMMA TrimWindow ==
  ASSUME NEW S, NEW t \in Seq(S), NEW n \in Nat, Len(t) = n,
         NEW i \in 1 .. n + 1, NEW j \in 0 .. n, i <= j + 1
  PROVE  TrimSpace(SubSeq(t, i, j)) = Span(t, Visible(t, i, j))
<1> DEFINE w == SubSeq(t, i, j)
           K == DOMAIN w \ At(w, Blank)
           L == Visible(t, i, j)
<1>1. DOMAIN w = 1 .. j - i + 1 /\ \A k \in 1 .. j - i + 1 : w[k] = t[k + i - 1]
  BY Window
<1>2. K = {k \in 1 .. j - i + 1 : t[k + i - 1] \notin Blank}
  BY <1>1 DEF At
<1>3. K \subseteq 1 .. j - i + 1 /\ L \subseteq i .. j
  BY <1>2 DEF Visible
<1>4. \A k \in K : k + i - 1 \in L
  BY <1>2 DEF Visible
<1>5. \A l \in L : l - i + 1 \in K
  <2> SUFFICES ASSUME NEW l \in L PROVE l - i + 1 \in K
    OBVIOUS
  <2>1. l \in i .. j /\ t[l] \notin Blank
    BY DEF Visible
  <2>2. l - i + 1 \in 1 .. j - i + 1 /\ (l - i + 1) + i - 1 = l
    BY <2>1
  <2>3. QED
    BY <1>2, <2>1, <2>2
<1>6. TrimSpace(w) = Span(w, K)
  BY DEF TrimSpace
<1> HIDE DEF K, L
<1>7. CASE K = {}
  <2>1. L = {}
    BY <1>5, <1>7
  <2>2. QED
    BY <1>6, <1>7, <2>1 DEF Span, L
<1>8. CASE K # {}
  <2>1. j - i + 1 \in Nat
    OBVIOUS
  <2>2. PICK a \in K, b \in K :
          /\ \A k \in K : a <= k /\ k <= b
          /\ Span(w, K) = SubSeq(w, a, b)
    BY <1>3, <1>8, <2>1, SpanIsWindow
  <2>3. L # {} /\ L \subseteq 1 .. n
    BY <1>3, <1>4, <1>8
  <2>4. PICK c \in L, d \in L :
          /\ \A l \in L : c <= l /\ l <= d
          /\ Span(t, L) = SubSeq(t, c, d)
    BY <2>3, SpanIsWindow
  <2>5. a <= c - i + 1 /\ c <= a + i - 1 /\ d - i + 1 <= b /\ b + i - 1 <= d
    BY <1>4, <1>5, <2>2, <2>4
  <2>6. a \in 1 .. j - i + 1 /\ b \in 1 .. j - i + 1 /\ c \in i .. j /\ d \in i .. j
    BY <1>3
  <2>7. c = a + i - 1
    BY <2>5, <2>6
  <2>8. d = b + i - 1
    BY <2>5, <2>6
  <2>9. /\ i \in 1 .. n /\ j \in i .. n
        /\ a \in 1 .. j - i + 2 /\ b \in 0 .. j - i + 1
    BY <2>6
  <2>10. SubSeq(w, a, b) = SubSeq(t, a + i - 1, b + i - 1)
    BY <2>9, WindowOfWindow
  <2>11. QED
    BY <1>6, <2>2, <2>4, <2>7, <2>8, <2>10 DEF L
<1>9. QED
  BY <1>7, <1>8

\* A text begins with one character if that is its first.
LEMMA BeginsWith ==
  ASSUME NEW S, NEW t \in Seq(S), NEW n \in Nat, Len(t) = n, n >= 1, NEW c
  PROVE  HasPrefix(t, <<c>>) <=> t[1] = c
<1>1. /\ <<c>> \in Seq({c}) /\ Len(<<c>>) = 1 /\ <<c>>[1] = c
  OBVIOUS
<1>2. SubSeq(<<c>>, 1, 1) = <<c>>
  BY <1>1, SubSeqFull
<1>3. /\ SubSeq(t, 1, 1) \in Seq(S) /\ Len(SubSeq(t, 1, 1)) = 1 - 1 + 1
      /\ \A k \in 1 .. 1 - 1 + 1 : SubSeq(t, 1, 1)[k] = t[k + 1 - 1]
  <2>1. 1 \in 1 .. n + 1 /\ 1 \in 0 .. n /\ 1 <= 1 + 1
    OBVIOUS
  <2>2. QED
    BY <2>1, Window
<1>4. Len(SubSeq(t, 1, 1)) = 1 /\ SubSeq(t, 1, 1)[1] = t[1]
  BY <1>3
<1>5. t[1] = c => SubSeq(t, 1, 1) = <<c>>
  <2>1. \A k \in 1 .. 1 : k = 1
    OBVIOUS
  <2>2. t[1] = c => \A k \in 1 .. 1 : SubSeq(t, 1, 1)[k] = <<c>>[k]
    BY <1>1, <1>4, <2>1
  <2>3. <<c>> \in Seq(S \cup {c}) /\ SubSeq(t, 1, 1) \in Seq(S \cup {c})
    BY <1>3, SeqMonotonic
  <2>4. QED
    BY <1>1, <1>4, <2>2, <2>3, SeqEqual
<1>6. SubSeq(t, 1, 1) = <<c>> => t[1] = c
  BY <1>1, <1>4
<1>7. HasPrefix(t, <<c>>) <=> SubSeq(t, 1, 1) = <<c>>
  BY <1>1, <1>2 DEF HasPrefix, IsPrefix
<1>8. QED
  BY <1>5, <1>6, <1>7

\* What splitPair answers, by what it looks at.
LEMMA SplitPairIs ==
  ASSUME NEW line
  PROVE  /\ splitPair(line).ok <=>
              /\ TrimSpace(line) # <<>>
              /\ ~HasPrefix(TrimSpace(line), <<"#">>)
              /\ Cut(TrimSpace(line), "=").found
         /\ splitPair(line).ok =>
              /\ splitPair(line).key = TrimSpace(Cut(TrimSpace(line), "=").before)
              /\ splitPair(line).value = TrimSpace(Cut(TrimSpace(line), "=").after)
<1> DEFINE skip == \/ TrimSpace(line) = <<>>
                   \/ HasPrefix(TrimSpace(line), <<"#">>)
                   \/ ~Cut(TrimSpace(line), "=").found
           pair == [key |-> TrimSpace(Cut(TrimSpace(line), "=").before),
                    value |-> TrimSpace(Cut(TrimSpace(line), "=").after),
                    ok |-> TRUE]
<1>1. splitPair(line) = IF skip THEN NoPair ELSE pair
  BY DEF splitPair
<1>2. /\ pair.key = TrimSpace(Cut(TrimSpace(line), "=").before)
      /\ pair.value = TrimSpace(Cut(TrimSpace(line), "=").after)
      /\ pair.ok = TRUE
  OBVIOUS
<1>3. NoPair.ok = FALSE
  BY DEF NoPair
<1>4. CASE skip
  BY <1>1, <1>3, <1>4
<1>5. CASE ~skip
  BY <1>1, <1>2, <1>5
<1>6. QED
  BY <1>4, <1>5

\* Where Cut cuts, and into what.
LEMMA CutIs ==
  ASSUME NEW S, NEW t \in Seq(S), NEW n \in Nat, Len(t) = n, NEW c
  PROVE  /\ Cut(t, c).found <=> \E i \in 1 .. n : t[i] = c
         /\ \A i \in 1 .. n :
              (t[i] = c /\ \A j \in 1 .. n : t[j] = c => i <= j) =>
                /\ Cut(t, c).before = SubSeq(t, 1, i - 1)
                /\ Cut(t, c).after = SubSeq(t, i + 1, n)
<1> DEFINE hits == At(t, {c})
           at == IF hits # {} THEN Min(hits) ELSE n + 1
<1>1. hits = {i \in 1 .. n : t[i] = c}
  <2>1. DOMAIN t = 1 .. n
    BY LenProperties
  <2>2. QED
    BY <2>1 DEF At
<1>2. /\ Cut(t, c).found <=> hits # {}
      /\ Cut(t, c).before = SubSeq(t, 1, at - 1)
      /\ Cut(t, c).after = SubSeq(t, at + 1, n)
  BY DEF Cut
<1>3. ASSUME NEW i \in 1 .. n, t[i] = c, \A j \in 1 .. n : t[j] = c => i <= j
      PROVE  at = i
  <2>1. i \in hits /\ hits \subseteq Int
    <3>1. t[i] = c
      BY <1>3
    <3>2. i \in hits
      BY <1>1, <3>1
    <3>3. \A j \in hits : j \in Int
      BY <1>1
    <3>4. QED
      BY <3>2, <3>3
  <2>2. \A j \in hits : i <= j
    <3> SUFFICES ASSUME NEW j \in hits PROVE i <= j
      OBVIOUS
    <3>1. j \in 1 .. n /\ t[j] = c
      BY <1>1
    <3>2. QED
      BY <1>3, <3>1
  <2>3. Min(hits) = i
    <3> HIDE DEF hits
    <3>1. QED
      BY <2>1, <2>2, MinIs
  <2>4. QED
    BY <2>1, <2>3
<1> HIDE DEF at
<1>4. Cut(t, c).found <=> \E i \in 1 .. n : t[i] = c
  BY <1>1, <1>2
<1>5. QED
  BY <1>2, <1>3, <1>4

(***************************************************************************)
(* The parser and the reference agree on every line: what splitPair finds  *)
(* is what the line sets.                                                  *)
(***************************************************************************)
LEMMA PairIsSetting ==
  ASSUME NEW S, NEW line \in Seq(S), NEW n \in Nat, Len(line) = n,
         NEW k, NEW v
  PROVE  Sets(line, k, v) <=>
           /\ splitPair(line).ok
           /\ k = splitPair(line).key
           /\ v = splitPair(line).value
<1> DEFINE V == Visible(line, 1, n)
           T == TrimSpace(line)
           Uncommented ==
             \A i \in 1 .. n : line[i] = "#" => \E j \in 1 .. i - 1 : line[j] \notin Blank
           First(i) == line[i] = "=" /\ \A j \in 1 .. n : line[j] = "=" => i <= j
           Before(i) == TrimSpace(SubSeq(line, 1, i - 1))
           After(i) == TrimSpace(SubSeq(line, i + 1, n))
<1>1. \A c : At(line, {c}) = {i \in 1 .. n : line[i] = c}
  <2>1. DOMAIN line = 1 .. n
    BY LenProperties
  <2>2. QED
    BY <2>1 DEF At
<1>2. Sets(line, k, v) <=>
        /\ \E i \in 1 .. n : First(i) /\ k = Before(i) /\ v = After(i)
        /\ Uncommented
  BY <1>1 DEF Sets
<1>3. \A i \in 1 .. n : line[i] \in {"=", "#"} => i \in V
  BY SignsVisible DEF Visible
<1>4. T = Span(line, V)
  <2>1. 1 \in 1 .. n + 1 /\ n \in 0 .. n /\ 1 <= n + 1
    OBVIOUS
  <2>2. SubSeq(line, 1, n) = line
    BY SubSeqFull
  <2>3. TrimSpace(SubSeq(line, 1, n)) = Span(line, Visible(line, 1, n))
    BY <2>1, TrimWindow
  <2>4. QED
    BY <2>2, <2>3
<1>5. V \subseteq 1 .. n
  BY DEF Visible
<1> HIDE DEF V, T, First, Before, After
<1>6. CASE V = {}
  <2>1. T = <<>>
    BY <1>4, <1>6 DEF Span
  <2>2. ~splitPair(line).ok
    BY <2>1, SplitPairIs DEF T
  <2>3. ~Sets(line, k, v)
    BY <1>2, <1>3, <1>6 DEF First
  <2>4. QED
    BY <2>2, <2>3
<1>7. CASE V # {}
  <2>1. PICK a \in V, b \in V :
          /\ \A i \in V : a <= i /\ i <= b
          /\ T = SubSeq(line, a, b)
    BY <1>4, <1>5, <1>7, SpanIsWindow
  <2>2. a \in 1 .. n /\ b \in a .. n /\ a <= b + 1 /\ b \in 0 .. n
    BY <1>5, <2>1
  <2>3. PICK m \in Nat : m = b - a + 1 /\ m >= 1
    BY <2>2
  <2>4. /\ T \in Seq(S) /\ Len(T) = m /\ T # <<>>
        /\ \A i \in 1 .. m : T[i] = line[i + a - 1]
    <3>1. a \in 1 .. n + 1
      BY <2>2
    <3>2. /\ T \in Seq(S) /\ Len(T) = b - a + 1
          /\ \A i \in 1 .. b - a + 1 : T[i] = line[i + a - 1]
      BY <2>1, <2>2, <3>1, Window
    <3>3. QED
      BY <2>3, <3>2
  <2>5. HasPrefix(T, <<"#">>) <=> line[a] = "#"
    <3>1. T[1] = line[1 + a - 1] /\ 1 + a - 1 = a
      BY <2>2, <2>3, <2>4
    <3>2. HasPrefix(T, <<"#">>) <=> T[1] = "#"
      BY <2>3, <2>4, BeginsWith
    <3>3. QED
      BY <3>1, <3>2
  <2>6. Uncommented <=> line[a] # "#"
    <3>1. ASSUME line[a] = "#" PROVE ~Uncommented
      <4>1. \A j \in 1 .. a - 1 : line[j] \in Blank
        <5> SUFFICES ASSUME NEW j \in 1 .. a - 1, line[j] \notin Blank
                     PROVE  FALSE
          OBVIOUS
        <5>1. j \in V /\ ~(a <= j)
          BY <2>2 DEF V, Visible
        <5>2. QED
          BY <2>1, <5>1
      <4>2. QED
        BY <2>2, <3>1, <4>1
    <3>2. ASSUME line[a] # "#" PROVE Uncommented
      <4> SUFFICES ASSUME NEW i \in 1 .. n, line[i] = "#"
                   PROVE  \E j \in 1 .. i - 1 : line[j] \notin Blank
        OBVIOUS
      <4>1. a <= i /\ a # i
        BY <1>3, <2>1, <3>2
      <4>2. a \in 1 .. i - 1 /\ line[a] \notin Blank
        BY <2>2, <4>1 DEF V, Visible
      <4>3. QED
        BY <4>2
    <3>3. QED
      BY <3>1, <3>2
  <2>7. splitPair(line).ok <=> Cut(T, "=").found /\ Uncommented
    BY <2>4, <2>5, <2>6, SplitPairIs DEF T
  <2>8. Cut(T, "=").found <=> \E i \in 1 .. n : First(i)
    <3>1. Cut(T, "=").found <=> \E i \in 1 .. m : T[i] = "="
      BY <2>4, CutIs
    <3>2. ASSUME NEW i \in 1 .. m, T[i] = "=" PROVE \E j \in 1 .. n : First(j)
      <4> DEFINE equals == {j \in 1 .. n : line[j] = "="}
      <4>1. i + a - 1 \in 1 .. n
        BY <2>2, <2>3
      <4>2. equals \subseteq Nat /\ equals # {}
        BY <2>4, <3>2, <4>1
      <4>3. PICK x \in equals : \A y \in equals : x <= y
        <5> HIDE DEF equals
        <5>1. QED
          BY <4>2, LeastExists
      <4>4. QED
        BY <4>3 DEF First
    <3>3. ASSUME NEW j \in 1 .. n, First(j) PROVE \E i \in 1 .. m : T[i] = "="
      <4>1. j \in V /\ line[j] = "="
        BY <1>3, <3>3 DEF First
      <4>2. j - a + 1 \in 1 .. m /\ (j - a + 1) + a - 1 = j
        BY <2>1, <2>2, <2>3, <4>1
      <4>3. T[j - a + 1] = line[j]
        BY <2>4, <4>2
      <4>4. QED
        BY <4>1, <4>2, <4>3
    <3>4. QED
      BY <3>1, <3>2, <3>3
  <2>9. ASSUME NEW e \in 1 .. n, First(e)
        PROVE  /\ TrimSpace(Cut(T, "=").before) = Before(e)
               /\ TrimSpace(Cut(T, "=").after) = After(e)
    <3>1. e \in V /\ line[e] = "="
      BY <1>3, <2>9 DEF First
    <3>2. PICK f \in 1 .. m : f = e - a + 1
      BY <2>1, <2>2, <2>3, <3>1
    <3>3. T[f] = "=" /\ f + a - 1 = e
      BY <2>2, <2>4, <3>1, <3>2
    <3>4. \A j \in 1 .. m : T[j] = "=" => f <= j
      <4> SUFFICES ASSUME NEW j \in 1 .. m, T[j] = "=" PROVE f <= j
        OBVIOUS
      <4>1. j + a - 1 \in 1 .. n /\ line[j + a - 1] = "="
        BY <2>2, <2>3, <2>4
      <4>2. e <= j + a - 1
        BY <2>9, <4>1 DEF First
      <4>3. QED
        BY <2>2, <3>2, <4>2
    <3>5. /\ Cut(T, "=").before = SubSeq(T, 1, f - 1)
          /\ Cut(T, "=").after = SubSeq(T, f + 1, m)
      BY <2>4, <3>3, <3>4, CutIs
    <3>6. SubSeq(T, 1, f - 1) = SubSeq(line, a, e - 1)
      <4>1. 1 \in 1 .. b - a + 2 /\ f - 1 \in 0 .. b - a + 1
        BY <2>2, <2>3
      <4>2. SubSeq(T, 1, f - 1) = SubSeq(line, 1 + a - 1, f - 1 + a - 1)
        BY <2>1, <2>2, <4>1, WindowOfWindow
      <4>3. 1 + a - 1 = a /\ f - 1 + a - 1 = e - 1
        BY <2>2, <3>2
      <4>4. QED
        BY <4>2, <4>3
    <3>7. SubSeq(T, f + 1, m) = SubSeq(line, e + 1, b)
      <4>1. f + 1 \in 1 .. b - a + 2 /\ m \in 0 .. b - a + 1
        BY <2>2, <2>3
      <4>2. SubSeq(T, f + 1, m) = SubSeq(line, f + 1 + a - 1, m + a - 1)
        BY <2>1, <2>2, <4>1, WindowOfWindow
      <4>3. f + 1 + a - 1 = e + 1 /\ m + a - 1 = b
        BY <2>2, <2>3, <3>2
      <4>4. QED
        BY <4>2, <4>3
    <3>8. TrimSpace(SubSeq(line, a, e - 1)) = Before(e)
      <4>1. a \in 1 .. n + 1 /\ e - 1 \in 0 .. n /\ a <= e - 1 + 1
        BY <2>1, <2>2, <3>1
      <4>2. 1 \in 1 .. n + 1 /\ 1 <= e - 1 + 1
        OBVIOUS
      <4>3. Visible(line, a, e - 1) = Visible(line, 1, e - 1)
        <5>1. \A x \in Visible(line, 1, e - 1) : x \in V
          BY DEF V, Visible
        <5>2. \A x \in Visible(line, 1, e - 1) : x \in a .. e - 1
          BY <2>1, <2>2, <5>1 DEF Visible
        <5>3. QED
          BY <2>2, <5>2 DEF Visible
      <4>4. TrimSpace(SubSeq(line, a, e - 1)) = Span(line, Visible(line, a, e - 1))
        BY <4>1, TrimWindow
      <4>5. TrimSpace(SubSeq(line, 1, e - 1)) = Span(line, Visible(line, 1, e - 1))
        BY <4>1, <4>2, TrimWindow
      <4>6. QED
        BY <4>3, <4>4, <4>5 DEF Before
    <3>9. TrimSpace(SubSeq(line, e + 1, b)) = After(e)
      <4>1. e + 1 \in 1 .. n + 1 /\ b \in 0 .. n /\ e + 1 <= b + 1
        BY <2>1, <2>2, <3>1
      <4>2. n \in 0 .. n /\ e + 1 <= n + 1
        OBVIOUS
      <4>3. Visible(line, e + 1, b) = Visible(line, e + 1, n)
        <5>1. \A x \in Visible(line, e + 1, n) : x \in V
          BY DEF V, Visible
        <5>2. \A x \in Visible(line, e + 1, n) : x \in e + 1 .. b
          BY <2>1, <2>2, <5>1 DEF Visible
        <5>3. QED
          BY <2>2, <5>2 DEF Visible
      <4>4. TrimSpace(SubSeq(line, e + 1, b)) = Span(line, Visible(line, e + 1, b))
        BY <4>1, TrimWindow
      <4>5. TrimSpace(SubSeq(line, e + 1, n)) = Span(line, Visible(line, e + 1, n))
        BY <4>1, <4>2, TrimWindow
      <4>6. QED
        BY <4>3, <4>4, <4>5 DEF After
    <3>10. QED
      BY <3>5, <3>6, <3>7, <3>8, <3>9
  <2>10. QED
    BY <1>2, <2>7, <2>8, <2>9, SplitPairIs DEF T
<1>8. QED
  BY <1>6, <1>7

-----------------------------------------------------------------------------
(***************************************************************************)
(* The parser.  The fold of Pairs obeys its recursive equation, and what   *)
(* obeys it gives every key the value of the last line that sets it.       *)
(***************************************************************************)
\* One more line.
Add(pairs, line) ==
  LET pair == splitPair(line)
  IN  IF pair.ok THEN put(pairs, pair.key, pair.value) ELSE pairs

\* g[s] folds the lines of s, the last of them last.
IsFold(g, lines) ==
  g = [s \in SUBSET DOMAIN lines |->
         IF s = {} THEN NoPairs ELSE Add(g[s \ {Max(s)}], lines[Max(s)])]

\* Those lines of s that set something, and that set k ...
Setters(lines, s) == {n \in s : splitPair(lines[n]).ok}

SettersOf(lines, s, k) ==
  {n \in Setters(lines, s) : splitPair(lines[n]).key = k}

\* ... and what the lines of s say between them.
Given(lines, s) ==
  [k \in {splitPair(lines[n]).key : n \in Setters(lines, s)} |->
     splitPair(lines[Max(SettersOf(lines, s, k))]).value]

LEMMA PairsFold ==
  ASSUME NEW raw, NEW h, IsFold(h, Split(raw, "\n"))
  PROVE  \E g : /\ IsFold(g, Split(raw, "\n"))
                /\ Pairs(raw) = g[DOMAIN Split(raw, "\n")]
<1> DEFINE g == CHOOSE f : IsFold(f, Split(raw, "\n"))
<1>1. IsFold(g, Split(raw, "\n"))
  OBVIOUS
<1>2. Pairs(raw) = g[DOMAIN Split(raw, "\n")]
  BY Zenon DEF Pairs, FoldLeft, MapThenFoldSet, IsFold, Add
<1>3. QED
  BY <1>1, <1>2

\* The last line of s added to what the others say.
LEMMA GivenOneMore ==
  ASSUME NEW lines, NEW N \in Nat, DOMAIN lines = 1 .. N,
         NEW s \in SUBSET DOMAIN lines, s # {}
  PROVE  Given(lines, s) = Add(Given(lines, s \ {Max(s)}), lines[Max(s)])
<1> DEFINE last == Max(s)
           pair == splitPair(lines[last])
           rest == s \ {last}
<1>1. last \in s /\ \A y \in s : last >= y
  <2>1. s \subseteq 0 .. N
    OBVIOUS
  <2>2. QED
    BY <2>1, MaxIsMember
<1>2. s \subseteq Int
  OBVIOUS
<1> HIDE DEF last
<1>3. CASE ~pair.ok
  <2>1. Setters(lines, rest) = Setters(lines, s)
    BY <1>1, <1>3 DEF Setters
  <2>2. \A k : SettersOf(lines, rest, k) = SettersOf(lines, s, k)
    BY <2>1 DEF SettersOf
  <2>3. Given(lines, rest) = Given(lines, s)
    BY <2>1, <2>2 DEF Given
  <2>4. QED
    BY <1>3, <2>3 DEF Add, last
<1>4. CASE pair.ok
  <2> DEFINE keys(r) == {splitPair(lines[n]).key : n \in Setters(lines, r)}
             old == Given(lines, rest)
  <2>1. Setters(lines, s) = Setters(lines, rest) \cup {last}
    BY <1>1, <1>4 DEF Setters
  <2>2. keys(s) = keys(rest) \cup {pair.key}
    BY <2>1
  <2>3. DOMAIN old = keys(rest) /\ DOMAIN Given(lines, s) = keys(s)
    BY DEF Given
  <2>4. Given(lines, s)[pair.key] = pair.value
    <3>1. last \in SettersOf(lines, s, pair.key)
      BY <2>1 DEF SettersOf
    <3>2. /\ SettersOf(lines, s, pair.key) \subseteq Int
          /\ \A y \in SettersOf(lines, s, pair.key) : last >= y
      BY <1>1, <1>2 DEF SettersOf, Setters
    <3>3. Max(SettersOf(lines, s, pair.key)) = last
      BY <3>1, <3>2, MaxIs
    <3>4. pair.key \in keys(s)
      BY <2>2
    <3>5. QED
      BY <3>3, <3>4 DEF Given
  <2>5. ASSUME NEW k \in keys(s), k # pair.key
        PROVE  k \in keys(rest) /\ Given(lines, s)[k] = old[k]
    <3>1. k \in keys(rest)
      BY <2>2, <2>5
    <3>2. SettersOf(lines, s, k) = SettersOf(lines, rest, k)
      BY <2>1, <2>5 DEF SettersOf
    <3>3. QED
      BY <3>1, <3>2 DEF Given
  <2>6. Given(lines, s) =
          [k \in DOMAIN old \cup {pair.key} |->
             IF k = pair.key THEN pair.value ELSE old[k]]
    <3>1. Given(lines, s) = [k \in keys(s) |-> Given(lines, s)[k]]
      BY DEF Given
    <3>2. QED
      BY <2>2, <2>3, <2>4, <2>5, <3>1
  <2>7. QED
    BY <1>4, <2>6 DEF Add, put, last
<1>5. QED
  BY <1>3, <1>4

\* There is such a fold ...
LEMMA GivenIsFold ==
  ASSUME NEW lines, NEW N \in Nat, DOMAIN lines = 1 .. N
  PROVE  IsFold([s \in SUBSET DOMAIN lines |-> Given(lines, s)], lines)
<1> DEFINE g == [s \in SUBSET DOMAIN lines |-> Given(lines, s)]
<1>1. Given(lines, {}) = NoPairs
  BY DEF Given, Setters, NoPairs
<1>2. ASSUME NEW s \in SUBSET DOMAIN lines
      PROVE  Given(lines, s) =
               IF s = {} THEN NoPairs
               ELSE Add(g[s \ {Max(s)}], lines[Max(s)])
  <2>1. g[s \ {Max(s)}] = Given(lines, s \ {Max(s)})
    OBVIOUS
  <2>2. QED
    BY <1>1, <2>1, GivenOneMore
<1>3. QED
  BY <1>2 DEF IsFold

\* ... and no other: the shortest lines on which two differ do not exist.
LEMMA FoldIsGiven ==
  ASSUME NEW lines, NEW N \in Nat, DOMAIN lines = 1 .. N,
         NEW g, IsFold(g, lines)
  PROVE  \A s \in SUBSET DOMAIN lines : g[s] = Given(lines, s)
<1> DEFINE Differ(m) == \E s \in SUBSET (1 .. m) :
                          s \subseteq 1 .. N /\ g[s] # Given(lines, s)
           wrong == {m \in Nat : Differ(m)}
<1>1. \A s \in SUBSET (1 .. N) :
        g[s] = IF s = {} THEN NoPairs ELSE Add(g[s \ {Max(s)}], lines[Max(s)])
  BY DEF IsFold
<1>2. Given(lines, {}) = NoPairs
  BY DEF Given, Setters, NoPairs
<1>3. ASSUME wrong # {} PROVE FALSE
  <2>1. PICK m \in wrong : \A y \in wrong : m <= y
    <3>1. wrong \subseteq Nat
      OBVIOUS
    <3>2. QED
      <4> HIDE DEF wrong
      <4>1. QED
        BY <1>3, <3>1, LeastExists
  <2>2. PICK s \in SUBSET (1 .. m) : s \subseteq 1 .. N /\ g[s] # Given(lines, s)
    BY <2>1
  <2>3. s # {}
    BY <1>1, <1>2, <2>2
  <2>4. Max(s) \in s /\ \A y \in s : Max(s) >= y
    <3>1. s \subseteq 0 .. N
      BY <2>2
    <3>2. QED
      BY <2>3, <3>1, MaxIsMember
  <2>5. Max(s) \in 1 .. m /\ Max(s) \in 1 .. N /\ Max(s) - 1 \in Nat
    <3>1. PICK x \in s : x = Max(s)
      BY <2>4
    <3>2. x \in 1 .. m /\ x \in 1 .. N /\ x - 1 \in Nat
      BY <2>1, <2>2
    <3>3. QED
      BY <3>1, <3>2
  <2>6. s \ {Max(s)} \subseteq 1 .. Max(s) - 1
    <3> SUFFICES ASSUME NEW y \in s, y # Max(s) PROVE y \in 1 .. Max(s) - 1
      OBVIOUS
    <3>1. y \in 1 .. N /\ Max(s) >= y
      BY <2>2, <2>4
    <3>2. QED
      BY <2>5, <3>1
  <2>7. ~Differ(Max(s) - 1)
    <3>1. ~(m <= Max(s) - 1)
      BY <2>1, <2>5
    <3>2. Max(s) - 1 \notin wrong
      BY <2>1, <3>1
    <3>3. QED
      BY <2>5, <3>2
  <2>8. g[s \ {Max(s)}] = Given(lines, s \ {Max(s)})
    BY <2>2, <2>6, <2>7
  <2>9. Given(lines, s) = Add(Given(lines, s \ {Max(s)}), lines[Max(s)])
    BY <2>2, <2>3, GivenOneMore
  <2>10. QED
    BY <1>1, <2>2, <2>3, <2>8, <2>9
<1>4. \A s \in SUBSET (1 .. N) : ~Differ(N) => g[s] = Given(lines, s)
  OBVIOUS
<1>5. ~Differ(N)
  BY <1>3
<1>6. QED
  BY <1>4, <1>5

\* The lines of a text: at least one, each of them the span of its piece.
Piece(t, c, i) ==
  {k \in DOMAIN t \ At(t, {c}) : Cardinality(At(t, {c}) \cap 1 .. k) = i - 1}

LEMMA LinesOf ==
  ASSUME NEW S, NEW t \in Seq(S), NEW c
  PROVE  /\ IsFiniteSet(At(t, {c})) /\ Cardinality(At(t, {c})) \in Nat
         /\ DOMAIN Split(t, c) = 1 .. Cardinality(At(t, {c})) + 1
         /\ \A i \in DOMAIN Split(t, c) : Split(t, c)[i] = Span(t, Piece(t, c, i))
<1>1. IsFiniteSet(DOMAIN t)
  <2>1. Len(t) \in Int /\ DOMAIN t = 1 .. Len(t)
    BY LenProperties
  <2>2. QED
    BY <2>1, FS_Interval
<1>2. IsFiniteSet(At(t, {c}))
  <2>1. At(t, {c}) \in SUBSET DOMAIN t
    BY DEF At
  <2>2. QED
    BY <1>1, <2>1, FS_Subset
<1>3. Cardinality(At(t, {c})) \in Nat
  BY <1>2, FS_CardinalityType
<1>4. Split(t, c) =
        [i \in 1 .. Cardinality(At(t, {c})) + 1 |-> Span(t, Piece(t, c, i))]
  BY DEF Split, Piece
<1>5. QED
  BY <1>2, <1>3, <1>4

\* Pairs is what its lines give between them.
LEMMA PairsAreGiven ==
  ASSUME NEW S, NEW t \in Seq(S)
  PROVE  Pairs(t) = Given(Split(t, "\n"), DOMAIN Split(t, "\n"))
<1>1. PICK N \in Nat : DOMAIN Split(t, "\n") = 1 .. N
  <2>1. PICK m \in Nat : m = Cardinality(At(t, {"\n"}))
    BY LinesOf
  <2>2. m + 1 \in Nat /\ DOMAIN Split(t, "\n") = 1 .. m + 1
    BY <2>1, LinesOf
  <2>3. QED
    BY <2>2
<1>2. PICK g : /\ IsFold(g, Split(t, "\n"))
               /\ Pairs(t) = g[DOMAIN Split(t, "\n")]
  BY <1>1, GivenIsFold, PairsFold
<1>3. QED
  BY <1>1, <1>2, FoldIsGiven

\* A substring lies somewhere.
LEMMA PartsOf ==
  ASSUME NEW t, NEW x \in Substrings(t)
  PROVE  \E i \in 1 .. Len(t) + 1 : \E j \in 0 .. Len(t) : x = SubSeq(t, i, j)
<1>1. ASSUME NEW A, NEW B, NEW y \in {SubSeq(t, i, j) : i \in A, j \in B}
      PROVE  \E i \in A : \E j \in B : y = SubSeq(t, i, j)
  OBVIOUS
<1>2. QED
  BY <1>1, SMT DEF Substrings

\* A span of a text is one of its substrings, and so is any part of a span.
LEMMA SpanIsPart ==
  ASSUME NEW S, NEW t \in Seq(S), NEW n \in Nat, Len(t) = n,
         NEW K, K \subseteq 1 .. n
  PROVE  /\ Span(t, K) \in Seq(S)
         /\ Span(t, K) \in Substrings(t)
         /\ Substrings(Span(t, K)) \subseteq Substrings(t)
<1>1. \A i \in 1 .. n + 1, j \in 0 .. n : SubSeq(t, i, j) \in Substrings(t)
  <2>1. Substrings(t) = {SubSeq(t, i, j) : i \in 1 .. n + 1, j \in 0 .. n}
    BY DEF Substrings
  <2>2. QED
    BY <2>1
<1>2. <<>> \in Substrings(t)
  <2>1. SubSeq(t, 1, 0) = <<>>
    BY SubSeqEmpty
  <2>2. 1 \in 1 .. n + 1 /\ 0 \in 0 .. n
    OBVIOUS
  <2>3. QED
    BY <1>1, <2>1, <2>2
<1>3. CASE Span(t, K) = <<>>
  <2>1. <<>> \in Seq(S) /\ Len(<<>>) = 0
    BY EmptySeq
  <2>2. ASSUME NEW x \in Substrings(<<>>) PROVE x = <<>>
    <3>1. PICK i \in 1 .. 0 + 1, j \in 0 .. 0 : x = SubSeq(<<>>, i, j)
      BY <2>1 DEF Substrings
    <3>2. i \in Int /\ j \in Int /\ j < i
      OBVIOUS
    <3>3. QED
      BY <3>1, <3>2, SubSeqEmpty
  <2>3. QED
    BY <1>2, <1>3, <2>1, <2>2
<1>4. CASE Span(t, K) # <<>>
  <2>1. PICK a \in K, b \in K :
          /\ \A k \in K : a <= k /\ k <= b
          /\ Span(t, K) = SubSeq(t, a, b)
    <3>1. K # {}
      BY <1>4 DEF Span
    <3>2. QED
      BY <3>1, SpanIsWindow
  <2>2. a \in 1 .. n /\ b \in a .. n
    BY <2>1
  <2>3. SubSeq(t, a, b) \in Seq(S) /\ Len(SubSeq(t, a, b)) = b - a + 1
    <3>1. a \in 1 .. n + 1 /\ b \in 0 .. n /\ a <= b + 1
      BY <2>2
    <3>2. QED
      BY <3>1, Window
  <2>4. SubSeq(t, a, b) \in Substrings(t)
    <3>1. a \in 1 .. n + 1 /\ b \in 0 .. n
      BY <2>2
    <3>2. QED
      BY <1>1, <3>1
  <2>5. ASSUME NEW x \in Substrings(SubSeq(t, a, b)) PROVE x \in Substrings(t)
    <3>1. PICK m \in Nat : m = b - a + 1
      BY <2>2
    <3>2. PICK w : w = SubSeq(t, a, b) /\ Len(w) = m
      BY <2>3, <3>1
    <3>3. PICK i \in 1 .. m + 1, j \in 0 .. m : x = SubSeq(w, i, j)
      <4>1. x \in Substrings(w)
        BY <2>5, <3>2
      <4>2. QED
        BY <3>2, <4>1, PartsOf
    <3>4. i \in 1 .. b - a + 2 /\ j \in 0 .. b - a + 1
      BY <2>2, <3>1
    <3>5. x = SubSeq(t, i + a - 1, j + a - 1)
      BY <2>2, <3>2, <3>3, <3>4, WindowOfWindow
    <3>6. i + a - 1 \in 1 .. n + 1 /\ j + a - 1 \in 0 .. n
      BY <2>2, <3>4
    <3>7. QED
      BY <1>1, <3>5, <3>6
  <2>6. QED
    BY <2>1, <2>3, <2>4, <2>5
<1>5. QED
  BY <1>3, <1>4

\* A line sets a substring of itself to another.
LEMMA SetsInLine ==
  ASSUME NEW S, NEW line \in Seq(S), NEW k, NEW v, Sets(line, k, v)
  PROVE  k \in Substrings(line) /\ v \in Substrings(line)
<1>1. PICK n \in Nat : Len(line) = n
  BY LenProperties
<1>2. PICK i \in DOMAIN line : /\ k = TrimSpace(SubSeq(line, 1, i - 1))
                               /\ v = TrimSpace(SubSeq(line, i + 1, n))
  BY <1>1 DEF Sets, At
<1>3. i \in 1 .. n
  BY <1>1, LenProperties
<1>4. k = Span(line, Visible(line, 1, i - 1))
  <2>1. 1 \in 1 .. n + 1 /\ i - 1 \in 0 .. n /\ 1 <= i - 1 + 1
    BY <1>3
  <2>2. QED
    BY <1>1, <1>2, <2>1, TrimWindow
<1>5. v = Span(line, Visible(line, i + 1, n))
  <2>1. i + 1 \in 1 .. n + 1 /\ n \in 0 .. n /\ i + 1 <= n + 1
    BY <1>3
  <2>2. QED
    BY <1>1, <1>2, <2>1, TrimWindow
<1>6. Visible(line, 1, i - 1) \subseteq 1 .. n
  BY <1>3 DEF Visible
<1>7. Visible(line, i + 1, n) \subseteq 1 .. n
  BY <1>3 DEF Visible
<1>8. QED
  BY <1>1, <1>4, <1>5, <1>6, <1>7, SpanIsPart

\* The lines of a text are texts, and what they hold the text holds.
LEMMA LinesArePart ==
  ASSUME NEW S, NEW t \in Seq(S), NEW c, NEW i \in DOMAIN Split(t, c)
  PROVE  /\ Split(t, c)[i] \in Seq(S)
         /\ Substrings(Split(t, c)[i]) \subseteq Substrings(t)
<1>1. PICK n \in Nat : Len(t) = n
  BY LenProperties
<1>2. Split(t, c)[i] = Span(t, Piece(t, c, i))
  BY <1>1, LinesOf
<1>3. Piece(t, c, i) \subseteq 1 .. n
  BY <1>1, LenProperties DEF Piece
<1>4. QED
  BY <1>1, <1>2, <1>3, SpanIsPart

(***************************************************************************)
(* The reference, too, is what the lines give between them.                *)
(***************************************************************************)
LEMMA MeaningIsGiven ==
  ASSUME NEW S, NEW t \in Seq(S)
  PROVE  Meaning(t) = Given(Split(t, "\n"), DOMAIN Split(t, "\n"))
<1> DEFINE lines == Split(t, "\n")
           Setting(n, k) == {v \in Substrings(lines[n]) : Sets(lines[n], k, v)}
           LinesWith(k) == {n \in DOMAIN lines : Setting(n, k) # {}}
           pair(n) == splitPair(lines[n])
           keys == {pair(n).key : n \in Setters(lines, DOMAIN lines)}
<1>1. ASSUME NEW n \in DOMAIN lines, NEW k, NEW v
      PROVE  Sets(lines[n], k, v) <=> pair(n).ok /\ k = pair(n).key /\ v = pair(n).value
  <2>1. lines[n] \in Seq(S) /\ Len(lines[n]) \in Nat
    BY LinesArePart, LenProperties
  <2>2. QED
    BY <2>1, PairIsSetting
<1>2. ASSUME NEW n \in DOMAIN lines, NEW k, NEW v, Sets(lines[n], k, v)
      PROVE  v \in Substrings(lines[n]) /\ k \in Substrings(t)
  <2>1. lines[n] \in Seq(S) /\ Substrings(lines[n]) \subseteq Substrings(t)
    BY LinesArePart
  <2>2. QED
    BY <1>2, <2>1, SetsInLine
<1> HIDE DEF lines
<1>3. \A n \in DOMAIN lines : \A k :
        Setting(n, k) = IF pair(n).ok /\ k = pair(n).key THEN {pair(n).value} ELSE {}
  BY <1>1, <1>2
<1>4. \A k : LinesWith(k) = SettersOf(lines, DOMAIN lines, k)
  BY <1>3 DEF SettersOf, Setters
<1>5. {k \in Substrings(t) : LinesWith(k) # {}} = keys
  <2>1. ASSUME NEW k, LinesWith(k) # {} PROVE k \in keys
    BY <1>4, <2>1 DEF SettersOf
  <2>2. ASSUME NEW k \in keys PROVE k \in Substrings(t) /\ LinesWith(k) # {}
    <3>1. PICK n \in Setters(lines, DOMAIN lines) : k = pair(n).key
      OBVIOUS
    <3>2. n \in DOMAIN lines /\ pair(n).ok
      BY DEF Setters
    <3>3. Sets(lines[n], k, pair(n).value)
      BY <1>1, <3>1, <3>2
    <3>4. n \in SettersOf(lines, DOMAIN lines, k)
      BY <3>1 DEF SettersOf
    <3>5. QED
      BY <1>2, <1>4, <3>2, <3>3, <3>4
  <2>3. QED
    BY <2>1, <2>2
<1>6. ASSUME NEW k \in keys
      PROVE  (CHOOSE v \in Setting(Max(LinesWith(k)), k) : TRUE) =
               pair(Max(SettersOf(lines, DOMAIN lines, k))).value
  <2>1. LinesWith(k) # {}
    BY <1>5
  <2>2. PICK N \in Nat : DOMAIN lines = 1 .. N
    <3>1. Len(t) \in Nat
      BY LenProperties
    <3>2. PICK m \in Nat : m = Cardinality(At(t, {"\n"}))
      BY <3>1, LinesOf
    <3>3. m + 1 \in Nat /\ DOMAIN lines = 1 .. m + 1
      BY <3>1, <3>2, LinesOf DEF lines
    <3>4. QED
      BY <3>3
  <2>3. LinesWith(k) \subseteq 0 .. N
    BY <2>2
  <2>4. PICK x \in LinesWith(k) : x = Max(LinesWith(k))
    <3> HIDE DEF LinesWith
    <3>1. QED
      BY <2>1, <2>2, <2>3, MaxIsMember
  <2>5. Setting(x, k) = {pair(x).value}
    BY <1>3, <2>4
  <2>6. QED
    BY <1>4, <2>4, <2>5
<1>7. Meaning(t) =
        [k \in {x \in Substrings(t) : LinesWith(x) # {}} |->
           CHOOSE v \in Setting(Max(LinesWith(k)), k) : TRUE]
  BY DEF Meaning, lines
<1>8. QED
  BY <1>5, <1>6, <1>7 DEF Given, lines

(***************************************************************************)
(* The parser gives every text its meaning: every key that a line sets,    *)
(* and no other, with the value of the last line that sets it, whatever    *)
(* the blanks, comments, repeated keys and further separators around it.   *)
(***************************************************************************)
THEOREM ParserIsRight ==
  ASSUME NEW S, NEW t \in Seq(S)
  PROVE  Pairs(t) = Meaning(t)
BY PairsAreGiven, MeaningIsGiven

-----------------------------------------------------------------------------
(***************************************************************************)
(* A cut answer.  What precedes its last line has the same lines, but for  *)
(* that one, which is empty; so the two can differ in one key only.        *)
(***************************************************************************)
LEMMA SpanOfPrefix ==
  ASSUME NEW S, NEW t \in Seq(S), NEW n \in Nat, Len(t) = n,
         NEW m \in 0 .. n, NEW K, K \subseteq 1 .. m
  PROVE  Span(SubSeq(t, 1, m), K) = Span(t, K)
<1>1. CASE K = {}
  BY <1>1 DEF Span
<1>2. CASE K # {}
  <2>1. PICK a \in K, b \in K : Min(K) = a /\ Max(K) = b
    <3>1. m \in Nat
      OBVIOUS
    <3>2. QED
      BY <1>2, <3>1, SpanIsWindow
  <2>2. /\ 1 \in 1 .. n /\ m \in 1 .. n
        /\ a \in 1 .. m - 1 + 2 /\ b \in 0 .. m - 1 + 1
    BY <2>1
  <2>3. SubSeq(SubSeq(t, 1, m), a, b) = SubSeq(t, a + 1 - 1, b + 1 - 1)
    BY <2>2, WindowOfWindow
  <2>4. a + 1 - 1 = a /\ b + 1 - 1 = b
    BY <2>2
  <2>5. QED
    BY <1>2, <2>1, <2>3, <2>4 DEF Span
<1>3. QED
  BY <1>1, <1>2

LEMMA SpanOfRest ==
  ASSUME NEW t, NEW n \in Nat, NEW m \in 0 .. n
  PROVE  Span(t, m + 1 .. n) = SubSeq(t, m + 1, n)
<1>1. CASE m = n
  <2>1. m + 1 .. n = {} /\ m + 1 \in Int /\ n < m + 1
    BY <1>1
  <2>2. QED
    BY <2>1, SubSeqEmpty DEF Span
<1>2. CASE m # n
  <2>1. PICK K : K = m + 1 .. n
    OBVIOUS
  <2>2. K \subseteq Int /\ m + 1 \in K /\ n \in K
    BY <1>2, <2>1
  <2>3. (\A k \in K : m + 1 <= k) /\ (\A k \in K : n >= k)
    BY <2>1
  <2>4. Min(K) = m + 1
    BY <2>2, <2>3, MinIs
  <2>5. Max(K) = n
    BY <2>2, <2>3, MaxIs
  <2>6. QED
    BY <2>1, <2>2, <2>4, <2>5 DEF Span
<1>3. QED
  BY <1>1, <1>2

\* The Nth line of t, the last, begins after m characters of t.
EndsAt(t, c, N, m) ==
  /\ Split(t, c)[N] = SubSeq(t, m + 1, Len(t))
  /\ DOMAIN Split(SubSeq(t, 1, m), c) = 1 .. N
  /\ Split(SubSeq(t, 1, m), c)[N] = <<>>
  /\ \A i \in 1 .. N - 1 : Split(SubSeq(t, 1, m), c)[i] = Split(t, c)[i]

LEMMA LastLine ==
  ASSUME NEW S, NEW t \in Seq(S), NEW n \in Nat, Len(t) = n, NEW c,
         NEW N, N = Cardinality(At(t, {c})) + 1
  PROVE  \E m \in 0 .. n : EndsAt(t, c, N, m)
<1> DEFINE C == At(t, {c})
           m == IF C = {} THEN 0 ELSE Max(C)
           u == SubSeq(t, 1, m)
<1>1. DOMAIN t = 1 .. n /\ C = {k \in 1 .. n : t[k] = c}
  <2>1. DOMAIN t = 1 .. n
    BY LenProperties
  <2>2. QED
    BY <2>1 DEF At
<1> HIDE DEF C
<1>2. m \in 0 .. n /\ (\A k \in C : k \in 1 .. m) /\ (m # 0 => m \in C)
  <2>1. CASE C = {}
    <3>1. m = 0
      BY <2>1
    <3>2. QED
      BY <2>1, <3>1
  <2>2. CASE C # {}
    <3>1. \A k \in C : k \in 1 .. n
      BY <1>1
    <3>2. C \subseteq 0 .. n
      BY <3>1
    <3>3. Max(C) \in C /\ \A k \in C : Max(C) >= k
      BY <2>2, <3>2, MaxIsMember
    <3>4. m = Max(C)
      BY <2>2
    <3> HIDE DEF m
    <3>5. m \in 1 .. n /\ \A k \in C : k \in 1 .. n /\ m >= k
      BY <3>1, <3>3, <3>4
    <3>6. \A k \in C : k \in 1 .. m
      BY <3>5
    <3>7. QED
      BY <3>3, <3>4, <3>5, <3>6
  <2>3. QED
    BY <2>1, <2>2
<1> HIDE DEF m
<1>3. u \in Seq(S) /\ DOMAIN u = 1 .. m /\ \A k \in 1 .. m : u[k] = t[k]
  <2>1. 1 \in 1 .. n + 1 /\ m \in 0 .. n /\ 1 <= m + 1 /\ m - 1 + 1 = m
    BY <1>2
  <2>2. /\ u \in Seq(S) /\ DOMAIN u = 1 .. m - 1 + 1
        /\ \A k \in 1 .. m - 1 + 1 : u[k] = t[k + 1 - 1]
    BY <2>1, Window
  <2>3. \A k \in 1 .. m : k + 1 - 1 = k
    OBVIOUS
  <2>4. QED
    BY <2>1, <2>2, <2>3
<1>4. At(u, {c}) = C
  <2>1. At(u, {c}) = {k \in 1 .. m : u[k] = c}
    BY <1>3 DEF At
  <2>2. \A k \in 1 .. m : k \in 1 .. n
    BY <1>2
  <2>3. \A k : k \in {x \in 1 .. m : u[x] = c} <=> k \in C
    BY <1>1, <1>2, <1>3, <2>2
  <2>4. QED
    BY <2>1, <2>3
<1>5. /\ IsFiniteSet(C) /\ Cardinality(C) \in Nat
      /\ DOMAIN Split(t, c) = 1 .. N /\ DOMAIN Split(u, c) = 1 .. N
      /\ \A i \in 1 .. N : Split(t, c)[i] = Span(t, Piece(t, c, i))
      /\ \A i \in 1 .. N : Split(u, c)[i] = Span(u, Piece(u, c, i))
  BY <1>3, <1>4, LinesOf DEF C
<1> DEFINE before(k) == Cardinality(C \cap 1 .. k)
<1>6. ASSUME NEW k \in 1 .. m, k \notin C PROVE before(k) # Cardinality(C)
  <2>1. m \in C /\ m \notin C \cap 1 .. k
    BY <1>2, <1>6
  <2>2. C \cap 1 .. k \in SUBSET C /\ C \cap 1 .. k # C
    BY <2>1
  <2>3. QED
    BY <1>5, <2>2, FS_Subset
<1>7. ASSUME NEW k \in m + 1 .. n PROVE k \notin C /\ before(k) = Cardinality(C)
  <2>1. C \cap 1 .. k = C
    <3>1. \A x \in 1 .. m : x \in 1 .. k
      BY <1>2
    <3>2. QED
      BY <1>2, <3>1
  <2>2. k \notin C
    <3>1. k \notin 1 .. m
      BY <1>2
    <3>2. QED
      BY <1>2, <3>1
  <2>3. QED
    BY <2>1, <2>2
<1>8. /\ \A i : Piece(t, c, i) = {k \in 1 .. n : k \notin C /\ before(k) = i - 1}
      /\ \A i : Piece(u, c, i) = {k \in 1 .. m : k \notin C /\ before(k) = i - 1}
  BY <1>1, <1>3, <1>4 DEF Piece, C
<1>9. N - 1 = Cardinality(C) /\ N \in Nat /\ N \in 1 .. N
  BY <1>5 DEF C
<1> HIDE DEF u, before
<1>10. Piece(t, c, N) = m + 1 .. n
  <2>1. \A k \in 1 .. n : k \in 1 .. m \/ k \in m + 1 .. n
    BY <1>2
  <2>2. m + 1 .. n \subseteq 1 .. n
    BY <1>2
  <2>3. QED
    BY <1>6, <1>7, <1>8, <1>9, <2>1, <2>2
<1>11. Piece(u, c, N) = {}
  BY <1>6, <1>8, <1>9
<1>12. ASSUME NEW i \in 1 .. N - 1
       PROVE  Piece(u, c, i) = Piece(t, c, i) /\ Piece(u, c, i) \subseteq 1 .. m
  <2>1. i - 1 # N - 1
    BY <1>9
  <2>2. \A k \in 1 .. n : before(k) = i - 1 => k \in 1 .. m
    <3> SUFFICES ASSUME NEW k \in 1 .. n, k \notin 1 .. m PROVE before(k) # i - 1
      OBVIOUS
    <3>1. k \in m + 1 .. n
      BY <1>2
    <3>2. QED
      BY <1>7, <1>9, <2>1, <3>1
  <2>3. 1 .. m \subseteq 1 .. n
    BY <1>2
  <2>4. QED
    BY <1>8, <2>2, <2>3
<1>13. Split(t, c)[N] = SubSeq(t, m + 1, n)
  BY <1>2, <1>5, <1>9, <1>10, SpanOfRest
<1>14. Split(u, c)[N] = <<>>
  BY <1>5, <1>9, <1>11 DEF Span
<1>15. \A i \in 1 .. N - 1 : Split(u, c)[i] = Split(t, c)[i]
  <2> SUFFICES ASSUME NEW i \in 1 .. N - 1 PROVE Split(u, c)[i] = Split(t, c)[i]
    OBVIOUS
  <2>1. i \in 1 .. N
    BY <1>9
  <2>2. Split(u, c)[i] = Span(u, Piece(t, c, i))
    BY <1>5, <1>12, <2>1
  <2>3. Span(u, Piece(t, c, i)) = Span(t, Piece(t, c, i))
    BY <1>2, <1>12, SpanOfPrefix DEF u
  <2>4. QED
    BY <1>5, <2>1, <2>2, <2>3
<1>16. QED
  BY <1>2, <1>5, <1>13, <1>14, <1>15 DEF EndsAt, u

\* What lines say depends on the lines alone.
LEMMA GivenAlike ==
  ASSUME NEW lines, NEW others, NEW N \in Nat, NEW s \in SUBSET (1 .. N),
         \A n \in s : lines[n] = others[n]
  PROVE  Given(lines, s) = Given(others, s)
<1>1. Setters(lines, s) = Setters(others, s)
  BY DEF Setters
<1>2. \A k : SettersOf(lines, s, k) = SettersOf(others, s, k)
  BY <1>1 DEF SettersOf, Setters
<1> DEFINE keys(ls) == {splitPair(ls[n]).key : n \in Setters(ls, s)}
<1>3. keys(lines) = keys(others)
  BY <1>1 DEF Setters
<1>4. ASSUME NEW k \in keys(lines)
      PROVE  lines[Max(SettersOf(lines, s, k))] = others[Max(SettersOf(others, s, k))]
  <2>1. SettersOf(lines, s, k) # {}
    BY DEF SettersOf
  <2>2. \A n \in SettersOf(lines, s, k) : n \in s
    BY DEF SettersOf, Setters
  <2>3. SettersOf(lines, s, k) \subseteq 0 .. N
    <3>1. \A n \in s : n \in 0 .. N
      OBVIOUS
    <3>2. QED
      BY <2>2, <3>1
  <2>4. Max(SettersOf(lines, s, k)) \in SettersOf(lines, s, k)
    BY <2>1, <2>3, MaxIsMember
  <2>5. QED
    BY <1>2, <2>2, <2>4
<1>5. QED
  BY <1>3, <1>4 DEF Given

(***************************************************************************)
(* The last line that was read is the only one that a cut can misread.     *)
(***************************************************************************)
LEMMA CutMisleadsOnce ==
  ASSUME NEW S, NEW read \in Seq(S), NEW lines, lines = Split(read, "\n"),
         NEW cut, cut = lines[Len(lines)],
         NEW whole, whole = Meaning(SubSeq(read, 1, Len(read) - Len(cut)))
  PROVE  \E hit \in Substrings(cut) :
           \A k \in (DOMAIN Pairs(read) \cup DOMAIN whole) \ {hit} :
             /\ k \in DOMAIN Pairs(read) \cap DOMAIN whole
             /\ Pairs(read)[k] = whole[k]
<1>1. PICK n \in Nat : Len(read) = n
  BY LenProperties
<1>2. PICK N \in Nat : N = Cardinality(At(read, {"\n"})) + 1 /\ N >= 1
  <2>1. PICK p \in Nat : p = Cardinality(At(read, {"\n"}))
    BY LinesOf
  <2>2. p + 1 \in Nat /\ p + 1 >= 1
    OBVIOUS
  <2>3. QED
    BY <2>1, <2>2
<1>3. DOMAIN lines = 1 .. N /\ Len(lines) = N
  <2>1. DOMAIN lines = 1 .. N
    BY <1>2, LinesOf
  <2>2. lines = [i \in 1 .. N |-> lines[i]]
    BY <2>1 DEF Split
  <2>3. lines \in Seq(Seq(S))
    <3>1. \A i \in 1 .. N : lines[i] \in Seq(S)
      BY <2>1, LinesArePart
    <3>2. QED
      BY <2>2, <3>1, IsASeq
  <2>4. QED
    BY <2>1, <2>3, LenProperties
<1>4. PICK m \in 0 .. n : EndsAt(read, "\n", N, m)
  BY <1>1, <1>2, LastLine
<1>5. cut = SubSeq(read, m + 1, n)
  BY <1>1, <1>3, <1>4 DEF EndsAt
<1>6. cut \in Seq(S) /\ Len(cut) = n - m
  <2>1. m + 1 \in 1 .. n + 1 /\ n \in 0 .. n /\ m + 1 <= n + 1
    BY <1>1
  <2>2. PICK i \in 1 .. n + 1 : i = m + 1
    BY <2>1
  <2>3. cut \in Seq(S) /\ Len(cut) = n - i + 1
    <3>1. cut = SubSeq(read, i, n) /\ n \in 0 .. n /\ i <= n + 1
      BY <1>5, <2>1, <2>2
    <3>2. SubSeq(read, i, n) \in Seq(S) /\ Len(SubSeq(read, i, n)) = n - i + 1
      BY <1>1, <3>1, Window
    <3>3. QED
      BY <3>1, <3>2
  <2>4. n - i + 1 = n - m
    BY <1>1, <2>2
  <2>5. QED
    BY <2>3, <2>4
<1>7. PICK kept : kept = SubSeq(read, 1, m) /\ kept \in Seq(S)
  <2>1. 1 \in 1 .. n + 1 /\ m \in 0 .. n /\ 1 <= m + 1
    BY <1>1
  <2>2. QED
    BY <1>1, <2>1, Window
<1>8. whole = Meaning(kept)
  <2>1. n - (n - m) = m
    BY <1>1, <1>4
  <2>2. QED
    BY <1>1, <1>6, <1>7, <2>1
<1>9. PICK others : others = Split(kept, "\n")
  OBVIOUS
<1>10. /\ DOMAIN others = 1 .. N /\ others[N] = <<>>
       /\ \A i \in 1 .. N - 1 : others[i] = lines[i]
  BY <1>4, <1>7, <1>9 DEF EndsAt
<1>11. whole = Given(others, 1 .. N)
  BY <1>7, <1>8, <1>9, <1>10, MeaningIsGiven
<1>12. Pairs(read) = Given(lines, 1 .. N)
  BY <1>3, PairsAreGiven
<1>13. PICK rest : rest = 1 .. N - 1
  OBVIOUS
<1>14. PICK all : all = 1 .. N
  OBVIOUS
<1>15. Max(all) = N /\ all \ {N} = rest /\ all # {}
  <2>1. N \in all /\ all \subseteq Int /\ \A y \in all : N >= y
    BY <1>2, <1>14
  <2>2. \A y : y \in all \ {N} <=> y \in rest
    BY <1>2, <1>13, <1>14
  <2>3. QED
    BY <2>1, <2>2, MaxIs
<1>16. Given(others, rest) = Given(lines, rest)
  <2>1. N - 1 \in Nat /\ rest \in SUBSET (1 .. N - 1)
    BY <1>2, <1>13
  <2>2. \A i \in rest : others[i] = lines[i]
    BY <1>10, <1>13
  <2>3. QED
    BY <2>1, <2>2, GivenAlike
<1>17. whole = Given(lines, rest)
  <2>1. Given(others, all) = Add(Given(others, all \ {Max(all)}), others[Max(all)])
    BY <1>10, <1>14, <1>15, GivenOneMore
  <2>2. ~splitPair(<<>>).ok
    <3>1. TrimSpace(<<>>) = <<>>
      <4>1. <<>> \in Seq({}) /\ Len(<<>>) = 0
        BY EmptySeq
      <4>2. DOMAIN <<>> \ At(<<>>, Blank) = {}
        BY <4>1, LenProperties DEF At
      <4>3. QED
        BY <4>2 DEF TrimSpace, Span
    <3>2. QED
      BY <3>1, SplitPairIs
  <2>3. Add(Given(others, rest), <<>>) = Given(others, rest)
    BY <2>2 DEF Add
  <2>4. QED
    BY <1>10, <1>11, <1>14, <1>15, <1>16, <2>1, <2>3
<1>18. Pairs(read) = Add(whole, cut)
  <2>1. Given(lines, all) = Add(Given(lines, all \ {Max(all)}), lines[Max(all)])
    BY <1>3, <1>14, <1>15, GivenOneMore
  <2>2. QED
    BY <1>3, <1>12, <1>14, <1>15, <1>17, <2>1
<1>19. CASE splitPair(cut).ok
  <2>1. splitPair(cut).key \in Substrings(cut)
    <3>1. Sets(cut, splitPair(cut).key, splitPair(cut).value)
      BY <1>6, <1>19, LenProperties, PairIsSetting
    <3>2. QED
      BY <1>6, <3>1, SetsInLine
  <2>2. Pairs(read) = put(whole, splitPair(cut).key, splitPair(cut).value)
    BY <1>18, <1>19 DEF Add
  <2>3. \A k \in (DOMAIN Pairs(read) \cup DOMAIN whole) \ {splitPair(cut).key} :
          /\ k \in DOMAIN Pairs(read) \cap DOMAIN whole
          /\ Pairs(read)[k] = whole[k]
    BY <2>2 DEF put
  <2>4. QED
    BY <2>1, <2>3
<1>20. CASE ~splitPair(cut).ok
  <2>1. Pairs(read) = whole
    BY <1>18, <1>20 DEF Add
  <2>2. \E hit : hit \in Substrings(cut)
    <3>1. n - m \in Nat
      BY <1>1, <1>4
    <3>2. 1 \in 1 .. Len(cut) + 1 /\ 0 \in 0 .. Len(cut)
      BY <1>6, <3>1
    <3>3. SubSeq(cut, 1, 0) \in Substrings(cut)
      BY <3>2 DEF Substrings
    <3>4. QED
      BY <3>3
  <2>3. QED
    BY <2>1, <2>2
<1>21. QED
  BY <1>19, <1>20

-----------------------------------------------------------------------------
(***************************************************************************)
(* The strengthening.  The body is open from the answer to drainClose, a   *)
(* step before the drain has no error and only an "ok" is read, and a body *)
(* that has ended has arrived whole.                                       *)
(***************************************************************************)
StepFits ==
  /\ pc \in {"idle", "send", "status", "read"} => errs = {}
  /\ body = "open" <=> pc \in {"status", "read", "drain"}
  /\ pc \in {"read", "drain", "done"} /\ errs = {} => reply = "ok"

StreamFits ==
  /\ stream = "ended" => arrived = Len(text)
  /\ pc \in {"idle", "send"} => arrived = 0 /\ stream = "none"
  /\ pc = "done" /\ errs = {} => stream = "ended" /\ body = "closed"

IInv == TypeOK /\ StepFits /\ StreamFits

\* The length of an answer is a number.
LEMMA TextLength == TypeOK => Len(text) \in Nat
<1>1. \A t \in Texts \cup {<<>>} : Len(t) \in Nat
  BY SettingsAssumption
<1>2. QED
  BY <1>1 DEF TypeOK

LEMMA InitIInv == Init => IInv
BY SettingsAssumption
   DEF Init, IInv, TypeOK, StepFits, StreamFits

LEMMA SettingsKeeps == IInv /\ Settings => IInv'
BY DEF IInv, Settings, TypeOK, StepFits, StreamFits

LEMMA RespondsKeeps == IInv /\ Responds => IInv'
<1> SUFFICES ASSUME IInv, Responds PROVE IInv'
  OBVIOUS
<1>1. arrived' = 0 /\ text' \in Texts \cup {<<>>} /\ Len(text') \in Nat
  BY SettingsAssumption DEF IInv, Responds, StreamFits
<1>2. TypeOK'
  <2>1. arrived' \in 0 .. Len(text')
    BY <1>1
  <2>2. reply' \in Kinds \cup {"none"} /\ UNCHANGED <<ctx, errs>>
    BY DEF Responds
  <2>3. pc' = "status" /\ stream' = "flowing" /\ body' = "open"
    BY DEF Responds
  <2>4. QED
    BY <1>1, <2>1, <2>2, <2>3 DEF IInv, TypeOK
<1>3. StepFits' /\ StreamFits'
  BY DEF IInv, Responds, TypeOK, StepFits, StreamFits
<1>4. QED
  BY <1>2, <1>3 DEF IInv

\* A step that fails, or goes on, without a word from the server.
LEMMA CallKeeps ==
  IInv /\ (SendFails \/ checkStatus \/ readSettings) => IInv'
<1> SUFFICES ASSUME IInv, SendFails \/ checkStatus \/ readSettings PROVE IInv'
  OBVIOUS
<1>1. UNCHANGED <<ctx, reply, text, arrived, stream, body>>
  BY DEF SendFails, checkStatus, readSettings, net
<1>2. TypeOK'
  BY <1>1 DEF IInv, TypeOK, SendFails, checkStatus, readSettings, Fail, refused,
              afterRead, Errors
<1>3. StepFits'
  BY <1>1 DEF IInv, TypeOK, StepFits, SendFails, checkStatus, readSettings, Fail,
              refused, afterRead, Kinds
<1>4. StreamFits'
  BY <1>1 DEF IInv, StepFits, StreamFits, SendFails, checkStatus, readSettings,
              Fail, refused, afterRead
<1>5. QED
  BY <1>2, <1>3, <1>4 DEF IInv

LEMMA drainCloseKeeps == IInv /\ drainClose => IInv'
<1> SUFFICES ASSUME IInv, drainClose PROVE IInv'
  OBVIOUS
<1>1. PICK new \in {{}, {"drain"}, {"close body"}} :
        /\ IF new = {"drain"} THEN ReadFails ELSE stream = "ended"
        /\ errs' = errs \cup new
  BY DEF drainClose, joined
<1>2. /\ pc = "drain" /\ pc' = "done" /\ body' = "closed"
      /\ UNCHANGED <<ctx, reply, text, arrived, stream>>
  BY DEF drainClose
<1>3. errs' = {} => errs = {} /\ stream = "ended"
  BY <1>1
<1>4. TypeOK'
  BY <1>1, <1>2 DEF IInv, TypeOK, Errors
<1>5. StepFits' /\ StreamFits'
  BY <1>2, <1>3 DEF IInv, StepFits, StreamFits
<1>6. QED
  BY <1>4, <1>5 DEF IInv

LEMMA ReturnKeeps == IInv /\ Return => IInv'
BY DEF IInv, Return, TypeOK, StepFits, StreamFits

LEMMA OutsideKeeps == IInv /\ (ServerSends \/ ContextEnds) => IInv'
<1> SUFFICES ASSUME IInv, ServerSends \/ ContextEnds PROVE IInv'
  OBVIOUS
<1>1. Len(text) \in Nat /\ arrived \in 0 .. Len(text)
  BY TextLength DEF IInv, TypeOK
<1>2. UNCHANGED <<pc, reply, text, body, errs>>
  BY DEF ServerSends, ContextEnds
<1>3. CASE ServerSends
  BY <1>1, <1>2, <1>3 DEF IInv, ServerSends, TypeOK, StepFits, StreamFits
<1>4. CASE ContextEnds
  BY <1>1, <1>2, <1>4 DEF IInv, ContextEnds, TypeOK, StepFits, StreamFits
<1>5. QED
  BY <1>3, <1>4

LEMMA Inductive == IInv /\ [Next]_vars => IInv'
<1> SUFFICES ASSUME IInv, [Next]_vars PROVE IInv'
  OBVIOUS
<1>1. CASE UNCHANGED vars
  BY <1>1 DEF vars, net, IInv, TypeOK, StepFits, StreamFits
<1>2. QED
  BY <1>1, SettingsKeeps, RespondsKeeps, CallKeeps, drainCloseKeeps,
     ReturnKeeps, OutsideKeeps DEF Next

LEMMA Invariance == Spec => []IInv
  BY InitIInv, Inductive, PTL DEF Spec

-----------------------------------------------------------------------------
(***************************************************************************)
(* The variables of a call of Settings keep their types, for any answers   *)
(* and any limit.                                                          *)
(***************************************************************************)
THEOREM TypeCorrect == Spec => []TypeOK
<1>1. IInv => TypeOK
  BY DEF IInv
<1>2. QED
  BY <1>1, Invariance, PTL

(***************************************************************************)
(* Settings are returned only when all of the server's answer has arrived  *)
(* and the body is closed, however long the answer and whatever the limit. *)
(***************************************************************************)
THEOREM NothingPartial == Spec => []AllOrNothing
<1>1. IInv => AllOrNothing
  BY DEF IInv, StepFits, StreamFits, AllOrNothing, Returned
<1>2. QED
  BY <1>1, Invariance, PTL

-----------------------------------------------------------------------------
(***************************************************************************)
(* From the read on, a call without an error holds what the parser made of *)
(* the answer up to the limit, whatever has arrived since.                 *)
(***************************************************************************)
ParsedFits ==
  pc \in {"drain", "done"} /\ errs = {} =>
    settings = Pairs(SubSeq(text, 1, limited(Len(text))))

LEMMA ReadsToTheLimit ==
  IInv /\ atEnd => limited(arrived) = limited(Len(text))
<1> SUFFICES ASSUME IInv, atEnd PROVE limited(arrived) = limited(Len(text))
  OBVIOUS
<1>1. PICK n \in Nat : n = Len(text)
  BY TextLength DEF IInv
<1>2. arrived \in 0 .. n /\ (arrived >= Limit \/ arrived = n)
  BY <1>1 DEF IInv, TypeOK, StreamFits, atEnd
<1>3. limited(arrived) = limited(n)
  BY <1>2, SettingsAssumption DEF limited
<1>4. QED
  BY <1>1, <1>3

LEMMA ParsedInductive == IInv /\ ParsedFits /\ [Next]_vars => ParsedFits'
<1> SUFFICES ASSUME IInv, ParsedFits, [Next]_vars PROVE ParsedFits'
  OBVIOUS
<1>1. CASE UNCHANGED vars
  BY <1>1 DEF vars, net, ParsedFits
<1>2. CASE Settings \/ Responds \/ Return
  BY <1>2 DEF Settings, Responds, Return, ParsedFits
<1>3. CASE SendFails \/ checkStatus
  BY <1>3 DEF SendFails, checkStatus, refused, Fail, ParsedFits
<1>4. CASE readSettings
  <2>1. errs' = {} => atEnd
    BY <1>4 DEF readSettings, afterRead, Fail
  <2>2. text' = text /\ settings' = Pairs(SubSeq(text, 1, limited(arrived)))
    BY <1>4 DEF readSettings, net
  <2>3. QED
    BY <2>1, <2>2, ReadsToTheLimit DEF ParsedFits
<1>5. CASE drainClose
  <2>1. pc = "drain" /\ UNCHANGED <<text, settings>>
    BY <1>5 DEF drainClose
  <2>2. errs' = {} => errs = {}
    BY <1>5 DEF drainClose, joined
  <2>3. QED
    BY <2>1, <2>2 DEF ParsedFits
<1>6. CASE ServerSends \/ ContextEnds
  <2>1. UNCHANGED <<pc, text, settings, errs>>
    BY <1>6 DEF ServerSends, ContextEnds
  <2>2. QED
    BY <2>1 DEF ParsedFits
<1>7. QED
  BY <1>1, <1>2, <1>3, <1>4, <1>5, <1>6 DEF Next

(***************************************************************************)
(* Settings that fit the limit are returned as the server wrote them, and  *)
(* of longer ones only the setting of the last line read can be wrong, for *)
(* any answer, of any length and in any characters, and for any limit.     *)
(***************************************************************************)
THEOREM SettingsAsSent == Spec => []SettingsSent
<1>1. Init => ParsedFits
  BY DEF Init, ParsedFits
<1>2. IInv /\ ParsedFits => SettingsSent
  <2> SUFFICES ASSUME IInv, ParsedFits, Returned PROVE SettingsSent
    BY DEF SettingsSent
  <2>1. text \in Seq(STRING)
    <3>1. text \in Texts \cup {<<>>}
      BY DEF IInv, TypeOK
    <3>2. CASE text \in Texts
      BY <3>2, SettingsAssumption
    <3>3. CASE text = <<>>
      <4>1. <<>> \in Seq(STRING)
        OBVIOUS
      <4>2. QED
        BY <3>3, <4>1
    <3>4. QED
      BY <3>1, <3>2, <3>3
  <2>2. PICK n \in Nat : n = Len(text)
    BY <2>1, LenProperties
  <2>3. settings = Pairs(SubSeq(text, 1, limited(n)))
    BY <2>2 DEF ParsedFits, Returned
  <2>4. CASE Len(text) <= Limit
    <3>1. limited(n) = n
      BY <2>2, <2>4, SettingsAssumption DEF limited
    <3>2. SubSeq(text, 1, n) = text
      BY <2>1, <2>2, SubSeqFull
    <3>3. settings = Meaning(text)
      BY <2>1, <2>3, <3>1, <3>2, ParserIsRight
    <3>4. QED
      BY <2>4, <3>3 DEF SettingsSent
  <2>5. CASE ~(Len(text) <= Limit)
    <3>1. limited(n) = Limit /\ Limit \in 0 .. n /\ Limit - 1 + 1 = Limit
      BY <2>2, <2>5, SettingsAssumption DEF limited
    <3>2. PICK read : read = SubSeq(text, 1, Limit)
      OBVIOUS
    <3>3. read \in Seq(STRING) /\ Len(read) = Limit
      <4>1. 1 \in 1 .. n + 1 /\ 1 <= Limit + 1
        BY SettingsAssumption
      <4>2. /\ SubSeq(text, 1, Limit) \in Seq(STRING)
            /\ Len(SubSeq(text, 1, Limit)) = Limit - 1 + 1
        BY <2>1, <2>2, <3>1, <4>1, Window
      <4>3. QED
        BY <3>1, <3>2, <4>2
    <3>4. settings = Pairs(read)
      BY <2>3, <3>1, <3>2
    <3> DEFINE lines == Split(read, "\n")
               cut == lines[Len(lines)]
               whole == Meaning(SubSeq(read, 1, Limit - Len(cut)))
               Misread == \E hit \in Substrings(cut) :
                            \A k \in (DOMAIN settings \cup DOMAIN whole) \ {hit} :
                              /\ k \in DOMAIN settings \cap DOMAIN whole
                              /\ settings[k] = whole[k]
    <3>5. Misread
      BY <3>3, <3>4, CutMisleadsOnce
    <3>6. QED
      BY <2>5, <3>2, <3>5 DEF SettingsSent
  <2>6. QED
    BY <2>4, <2>5
<1>3. QED
  BY <1>1, <1>2, Invariance, InitIInv, Inductive, ParsedInductive, PTL DEF Spec
=============================================================================
