---------------------------- MODULE Facade_proofs ----------------------------
(***************************************************************************)
(* Proofs about Facade, for any server URLs and any architectures.         *)
(***************************************************************************)
EXTENDS Facade, Positions_proofs, SequenceTheorems

\* A request to one of the two endpoints with a query.
Sent(endpoint, query) ==
  [endpoint |-> endpoint,
   scheme |-> client.serverURL.scheme,
   host |-> client.serverURL.host,
   path |-> Endpoint(client.serverURL, endpoint),
   query |-> query,
   cookie |-> client.authCookie]

(***************************************************************************)
(* The strengthening: the client is the one New makes of this very         *)
(* configuration, after every check has passed; a request is one of the    *)
(* two that such a client sends; and an answer hands on what its adapter   *)
(* reported, with no path but the one cut out of a registration.           *)
(***************************************************************************)
ConfigFits == goarch \in {"386", "amd64", "arm64"} /\ config \in Configs

ClientFits ==
  /\ result \in {"none", firstProblem(config)}
  /\ client = IF result = "nil" THEN newClient(config) ELSE NoClient

RequestFits ==
  request # NoRequest =>
    /\ result = "nil"
    /\ request \in {Sent("meshagents", agents), Sent("meshsettings", settings)}

Located(method, err, r, path) ==
  /\ path # <<>> =>
       r \in Registrations /\ path = ExecutableFrom(CommandLine(r))
  /\ (method = "Uninstall" /\ err = "nil") => path # <<>>

AnswerFits ==
  answer # NoAnswer =>
    /\ answer.err \in PortErrors
    /\ Located(answer.method, answer.err, answer.registered, answer.path)

IInv == ConfigFits /\ ClientFits /\ RequestFits /\ AnswerFits

-----------------------------------------------------------------------------
(***************************************************************************)
(* Texts.  TrimSpace takes nothing off a line up to its last word, a cut   *)
(* ends at the first separator, and trimming twice is trimming once.       *)
(***************************************************************************)
\* The characters of the constants, and those that a command line adds.
Char == STRING \cup {quoteMark, Space}

LEMMA KnownChars ==
  quoteMark \in Char /\ Space \in Char /\ STRING \subseteq Char
BY DEF Char

LEMMA OneChar ==
  ASSUME NEW c \in Char
  PROVE  /\ <<c>> \in Seq(Char) /\ Len(<<c>>) = 1 /\ <<c>>[1] = c
         /\ SubSeq(<<c>>, 1, 1) = <<c>>
<1>1. <<c>> \in Seq(Char) /\ Len(<<c>>) = 1 /\ <<c>>[1] = c
  OBVIOUS
<1>2. QED
  BY <1>1, SubSeqFull

LEMMA TrimSpaceKeeps ==
  ASSUME NEW line \in Seq(Char), NEW n \in 1 .. Len(line),
         line[1] \notin Blank, line[n] \notin Blank
  PROVE  \E m \in n .. Len(line) :
           /\ TrimSpace(line) = SubSeq(line, 1, m)
           /\ TrimSpace(line) \in Seq(Char)
           /\ Len(TrimSpace(line)) = m
           /\ \A i \in 1 .. m : TrimSpace(line)[i] = line[i]
<1> DEFINE kept == DOMAIN line \ At(line, Blank)
<1>1. DOMAIN line = 1 .. Len(line) /\ Len(line) \in Nat
  BY LenProperties
<1>2. kept \subseteq 0 .. Len(line) /\ 1 \in kept /\ n \in kept
  BY <1>1 DEF At
<1>3. Min(kept) = 1
  <2>1. kept \subseteq Int /\ \A y \in kept : 1 <= y
    BY <1>1
  <2>2. QED
    <3> HIDE DEF kept
    <3>1. QED
      BY <1>2, <2>1, MinIs
<1>4. Max(kept) \in kept /\ Max(kept) >= n
  <2> HIDE DEF kept
  <2>1. QED
    BY <1>1, <1>2, MaxIsMember
<1>5. Max(kept) \in n .. Len(line)
  BY <1>1, <1>4
<1>6. TrimSpace(line) = SubSeq(line, 1, Max(kept))
  BY <1>2, <1>3 DEF TrimSpace, Span
<1>7. \A i \in 1 .. Max(kept) : line[i] \in Char
  BY <1>5, ElementOfSeq
<1>8. /\ SubSeq(line, 1, Max(kept)) \in Seq(Char)
      /\ Len(SubSeq(line, 1, Max(kept))) = Max(kept)
      /\ \A i \in 1 .. Max(kept) : SubSeq(line, 1, Max(kept))[i] = line[i]
  <2> HIDE DEF kept
  <2>1. Max(kept) \in Int /\ 1 <= Max(kept) /\ Max(kept) - 1 + 1 = Max(kept)
    BY <1>5
  <2>2. \A i \in 1 .. Max(kept) : 1 + i - 1 = i
    BY <2>1
  <2>3. QED
    BY <1>7, <2>1, <2>2, SubSeqProperties
<1>9. QED
  BY <1>5, <1>6, <1>8

\* A text that begins with p begins with p.
LEMMA PrefixIs ==
  ASSUME NEW t \in Seq(Char), NEW p \in Seq(Char), Len(p) <= Len(t),
         \A i \in 1 .. Len(p) : t[i] = p[i]
  PROVE  SubSeq(t, 1, Len(p)) = p
<1> DEFINE n == Len(p)
<1>1. n \in Nat /\ Len(t) \in Nat
  BY LenProperties
<1>2. \A i \in 1 .. n : t[i] \in Char
  BY <1>1, ElementOfSeq
<1>3. /\ SubSeq(t, 1, n) \in Seq(Char)
      /\ Len(SubSeq(t, 1, n)) = IF 1 <= n THEN n - 1 + 1 ELSE 0
      /\ \A i \in 1 .. n - 1 + 1 : SubSeq(t, 1, n)[i] = t[1 + i - 1]
  <2> HIDE DEF n
  <2>1. QED
    BY <1>1, <1>2, SubSeqProperties
<1>4. n - 1 + 1 = n /\ (~(1 <= n) => n = 0) /\ \A i \in 1 .. n : 1 + i - 1 = i
  BY <1>1
<1>5. Len(SubSeq(t, 1, n)) = n
  <2> HIDE DEF n
  <2>1. QED
    BY <1>1, <1>3, <1>4
<1>6. \A i \in 1 .. n : SubSeq(t, 1, n)[i] = p[i]
  BY <1>3, <1>4
<1>7. QED
  BY <1>3, <1>5, <1>6, SeqEqual

\* What Cut leaves before a character that the first n do not hold.
LEMMA CutBefore ==
  ASSUME NEW t \in Seq(Char), NEW char, NEW n \in Nat,
         n <= Len(t), \A i \in 1 .. n : t[i] # char,
         n = Len(t) \/ t[n + 1] = char
  PROVE  Cut(t, char).before = SubSeq(t, 1, n)
<1> DEFINE hits == At(t, {char})
<1>1. DOMAIN t = 1 .. Len(t)
  BY LenProperties
<1> DEFINE m == Len(t)
<1>4. m \in Nat
  BY LenProperties
<1>2. CASE n = Len(t)
  <2>1. hits = {}
    BY <1>1, <1>2 DEF At
  <2>2. Cut(t, char).before = SubSeq(t, 1, Len(t) + 1 - 1)
    <3> HIDE DEF hits
    <3>1. Cut(t, char).before =
            SubSeq(t, 1, (IF hits # {} THEN Min(hits) ELSE Len(t) + 1) - 1)
      BY DEF Cut, hits
    <3>2. QED
      BY <2>1, <3>1
  <2>3. QED
    BY <1>2, <2>2, <1>4
<1>3. CASE n # Len(t)
  <2>1. n + 1 \in hits
    <3>1. n + 1 \in 1 .. m
      <4>1. n <= m /\ n # m
        BY <1>3
      <4>2. QED
        <5> HIDE DEF m
        <5>1. QED
          BY <1>4, <4>1
    <3>2. QED
      BY <1>1, <1>3, <3>1 DEF At
  <2>2. hits \subseteq Int /\ \A y \in hits : n + 1 <= y
    <3> SUFFICES ASSUME NEW y \in hits PROVE y \in Int /\ n + 1 <= y
      OBVIOUS
    <3>1. y \in 1 .. Len(t) /\ t[y] = char
      BY <1>1 DEF At
    <3>2. ~(y \in 1 .. n)
      BY <3>1
    <3>3. QED
      BY <3>1, <3>2
  <2>3. Min(hits) = n + 1
    <3> HIDE DEF hits
    <3>1. QED
      BY <2>1, <2>2, MinIs
  <2>4. Cut(t, char).before = SubSeq(t, 1, n + 1 - 1)
    <3> HIDE DEF hits
    <3>1. Cut(t, char).before =
            SubSeq(t, 1, (IF hits # {} THEN Min(hits) ELSE Len(t) + 1) - 1)
      BY DEF Cut, hits
    <3>2. QED
      BY <2>1, <2>3, <3>1
  <2>5. QED
    BY <2>4
<1>5. QED
  BY <1>2, <1>3

\* The characters of s \o t.
LEMMA Joined ==
  ASSUME NEW s \in Seq(Char), NEW t \in Seq(Char),
         NEW m \in Nat, NEW k \in Nat, Len(s) = m, Len(t) = k
  PROVE  /\ s \o t \in Seq(Char) /\ Len(s \o t) = m + k
         /\ \A i \in 1 .. m : (s \o t)[i] = s[i]
         /\ \A i \in 1 .. k : (s \o t)[m + i] = t[i]
<1>1. /\ s \o t \in Seq(Char) /\ Len(s \o t) = Len(s) + Len(t)
      /\ \A i \in 1 .. Len(s) + Len(t) :
           (s \o t)[i] = IF i <= Len(s) THEN s[i] ELSE t[i - Len(s)]
  BY ConcatProperties
<1>2. \A i \in 1 .. m + k : (s \o t)[i] = IF i <= m THEN s[i] ELSE t[i - m]
  BY <1>1
<1>3. \A i \in 1 .. m : i \in 1 .. m + k /\ i <= m
  OBVIOUS
<1>4. \A i \in 1 .. k : m + i \in 1 .. m + k /\ ~(m + i <= m) /\ (m + i) - m = i
  OBVIOUS
<1>5. \A i \in 1 .. m : (s \o t)[i] = s[i]
  BY <1>2, <1>3
<1>6. \A i \in 1 .. k : (s \o t)[m + i] = t[i]
  BY <1>2, <1>4
<1>7. QED
  BY <1>1, <1>5, <1>6

\* A quoted path is what stands between the first two quotes ...
LEMMA QuotedFound ==
  ASSUME NEW p \in Seq(Char), NEW n \in Nat, Len(p) = n,
         NEW t \in Seq(Char), NEW m \in Nat, Len(t) = m, n + 2 <= m,
         t[1] = quoteMark, t[n + 2] = quoteMark,
         \A i \in 1 .. n : t[i + 1] = p[i] /\ p[i] # quoteMark
  PROVE  HasPrefix(t, <<quoteMark>>) /\ quotedExecutable(t) = p
<1>1. \A i \in 1 .. m : t[i] \in Char
  BY ElementOfSeq
<1>2. SubSeq(t, 1, 1) = <<quoteMark>>
  <2>1. \A i \in 1 .. 1 : t[i] \in Char
    BY <1>1
  <2>2. /\ SubSeq(t, 1, 1) \in Seq(Char)
        /\ Len(SubSeq(t, 1, 1)) = 1
        /\ \A i \in 1 .. 1 - 1 + 1 : SubSeq(t, 1, 1)[i] = t[1 + i - 1]
    BY <2>1, SubSeqProperties
  <2>3. SubSeq(t, 1, 1)[1] = t[1]
    BY <2>2
  <2>4. /\ <<quoteMark>> \in Seq(Char) /\ Len(<<quoteMark>>) = 1
        /\ <<quoteMark>>[1] = quoteMark
    BY OneChar, KnownChars
  <2>5. \A i \in 1 .. 1 : SubSeq(t, 1, 1)[i] = <<quoteMark>>[i]
    BY <2>3, <2>4
  <2>6. QED
    BY <2>2, <2>4, <2>5, SeqEqual
<1>3. HasPrefix(t, <<quoteMark>>)
  <2>1. SubSeq(<<quoteMark>>, 1, 1) = <<quoteMark>> /\ Len(<<quoteMark>>) = 1
    BY OneChar, KnownChars
  <2>2. QED
    BY <1>2, <2>1 DEF HasPrefix, IsPrefix
<1> DEFINE rest == SubSeq(t, 2, m)
<1>4. /\ rest \in Seq(Char) /\ Len(rest) = m - 1
      /\ \A i \in 1 .. m - 1 : rest[i] = t[i + 1]
  <2>1. \A i \in 2 .. m : t[i] \in Char
    BY <1>1
  <2>2. /\ rest \in Seq(Char) /\ Len(rest) = (IF 2 <= m THEN m - 2 + 1 ELSE 0)
        /\ \A i \in 1 .. m - 2 + 1 : rest[i] = t[2 + i - 1]
    BY <2>1, SubSeqProperties
  <2> HIDE DEF rest
  <2>3. 2 <= m /\ m - 2 + 1 = m - 1 /\ \A i \in 1 .. m - 1 : 2 + i - 1 = i + 1
    OBVIOUS
  <2>4. QED
    BY <2>2, <2>3
<1>5. quotedExecutable(t) = Cut(rest, quoteMark).before
  BY DEF quotedExecutable
<1> HIDE DEF rest
<1>6. \A i \in 1 .. n : i \in 1 .. m - 1
  OBVIOUS
<1>7. \A i \in 1 .. n : rest[i] = p[i]
  BY <1>4, <1>6
<1>8. rest[n + 1] = quoteMark
  <2>1. n + 1 \in 1 .. m - 1 /\ (n + 1) + 1 = n + 2
    OBVIOUS
  <2>2. rest[n + 1] = t[(n + 1) + 1]
    BY <1>4, <2>1
  <2>3. QED
    BY <2>1, <2>2
<1>9. n <= Len(rest)
  BY <1>4
<1>10. Cut(rest, quoteMark).before = SubSeq(rest, 1, n)
  <2>1. \A i \in 1 .. n : rest[i] # quoteMark
    BY <1>7
  <2>2. QED
    BY <1>4, <1>8, <1>9, <2>1, CutBefore
<1>11. SubSeq(rest, 1, n) = p
  BY <1>4, <1>7, <1>9, PrefixIs
<1>12. QED
  BY <1>3, <1>5, <1>10, <1>11

\* ... and one that is not ends before the first blank.
LEMMA UnquotedFound ==
  ASSUME NEW p \in Seq(Char), NEW n \in Nat, Len(p) = n, n >= 1,
         NEW t \in Seq(Char), NEW m \in Nat, Len(t) = m, n <= m,
         \A i \in 1 .. n : t[i] = p[i] /\ p[i] # quoteMark /\ p[i] # Space,
         n = m \/ t[n + 1] = Space
  PROVE  ~HasPrefix(t, <<quoteMark>>) /\ unquotedExecutable(t) = p
<1>1. \A i \in 1 .. m : t[i] \in Char
  BY ElementOfSeq
<1>2. SubSeq(t, 1, 1)[1] = t[1]
  <2>1. \A i \in 1 .. 1 : t[i] \in Char
    BY <1>1
  <2>2. \A i \in 1 .. 1 - 1 + 1 : SubSeq(t, 1, 1)[i] = t[1 + i - 1]
    BY <2>1, SubSeqProperties
  <2>3. QED
    BY <2>2
<1>3. ~HasPrefix(t, <<quoteMark>>)
  <2>1. /\ SubSeq(<<quoteMark>>, 1, 1) = <<quoteMark>> /\ Len(<<quoteMark>>) = 1
        /\ <<quoteMark>>[1] = quoteMark
    BY OneChar, KnownChars
  <2>2. t[1] # quoteMark
    <3>1. 1 \in 1 .. n
      OBVIOUS
    <3>2. QED
      BY <3>1
  <2>3. SubSeq(t, 1, 1) # <<quoteMark>>
    BY <1>2, <2>1, <2>2
  <2>4. QED
    BY <2>1, <2>3 DEF HasPrefix, IsPrefix
<1>4. Cut(t, Space).before = SubSeq(t, 1, n)
  <2>1. n <= Len(t) /\ \A i \in 1 .. n : t[i] # Space
    OBVIOUS
  <2>2. n = Len(t) \/ t[n + 1] = Space
    OBVIOUS
  <2>3. QED
    BY <2>1, <2>2, CutBefore
<1>5. SubSeq(t, 1, n) = p
  BY PrefixIs
<1>6. QED
  BY <1>3, <1>4, <1>5 DEF unquotedExecutable

(***************************************************************************)
(* The path of a registered service is found again, whatever follows it:   *)
(* what is trimmed off its command line comes after the path and its       *)
(* closing quote.                                                          *)
(***************************************************************************)
LEMMA ExecutableFound ==
  ASSUME NEW r \in Registrations, Unambiguous(r)
  PROVE  ExecutableFrom(CommandLine(r)) = r.path
<1>1. PICK p \in Seq(Char) : p = r.path
  BY ServicePathAssumption, SeqMonotonic, KnownChars DEF Registrations
<1> DEFINE more == IF r.args = <<>> THEN <<>> ELSE <<Space>> \o r.args
<1>2. more \in Seq(Char) /\ (Len(more) = 0 \/ (Len(more) >= 1 /\ more[1] = Space))
  <2>1. CASE r.args = <<>>
    <3>1. more = <<>>
      BY <2>1
    <3>2. QED
      <4> HIDE DEF more
      <4>1. QED
        BY <3>1, EmptySeq
  <2>2. CASE r.args # <<>>
    <3>1. more = <<Space>> \o r.args
      BY <2>2
    <3>2. r.args \in Seq(Char)
      BY ServicePathAssumption, SeqMonotonic, KnownChars DEF Registrations
    <3>3. PICK k \in Nat : Len(r.args) = k
      BY <3>2, LenProperties
    <3>4. <<Space>> \in Seq(Char) /\ Len(<<Space>>) = 1 /\ <<Space>>[1] = Space
      BY OneChar, KnownChars
    <3>5. /\ <<Space>> \o r.args \in Seq(Char)
          /\ Len(<<Space>> \o r.args) = 1 + k
          /\ \A i \in 1 .. 1 : (<<Space>> \o r.args)[i] = <<Space>>[i]
      BY <3>2, <3>3, <3>4, Joined
    <3>6. Len(<<Space>> \o r.args) >= 1 /\ (<<Space>> \o r.args)[1] = Space
      BY <3>4, <3>5
    <3>7. QED
      <4> HIDE DEF more
      <4>1. QED
        BY <3>1, <3>5, <3>6
  <2>3. QED
    BY <2>1, <2>2
<1>3. CommandLine(r) =
         (IF r.quoted THEN <<quoteMark>> \o r.path \o <<quoteMark>> ELSE r.path)
           \o more
  BY DEF CommandLine
<1> HIDE DEF more
<1>4. PICK n \in Nat : Len(p) = n
  BY LenProperties
<1>5. PICK k \in Nat : Len(more) = k
  BY LenProperties
<1>6. n >= 1 /\ \A i \in 1 .. n : p[i] # quoteMark
  <2>1. p # <<>> /\ At(p, {quoteMark}) = {}
    BY <1>1, ServicePathAssumption DEF Registrations
  <2>2. DOMAIN p = 1 .. n /\ n # 0
    BY <1>4, <2>1, LenProperties, EmptySeq
  <2>3. n >= 1
    BY <2>2
  <2>4. QED
    BY <2>1, <2>2, <2>3 DEF At
<1>7. p[1] \notin Blank /\ p[n] \notin Blank
  BY <1>1, <1>4, ServicePathAssumption DEF Registrations
<1>8. CASE r.quoted
  <2>1. PICK q \in Seq(Char) : q = <<quoteMark>> /\ Len(q) = 1 /\ q[1] = quoteMark
    BY OneChar, KnownChars
  <2>2. /\ q \o p \in Seq(Char) /\ Len(q \o p) = 1 + n
        /\ \A i \in 1 .. 1 : (q \o p)[i] = q[i]
        /\ \A i \in 1 .. n : (q \o p)[1 + i] = p[i]
    BY <1>4, <2>1, Joined
  <2>3. PICK w \in Seq(Char) : w = q \o p
    BY <2>2
  <2>4. /\ w \o q \in Seq(Char) /\ Len(w \o q) = (1 + n) + 1
        /\ \A i \in 1 .. 1 + n : (w \o q)[i] = w[i]
        /\ (w \o q)[(1 + n) + 1] = quoteMark
    <3>1. Len(w) = 1 + n
      BY <2>2, <2>3
    <3>2. Append(w, quoteMark) = w \o q
      BY <2>1, KnownChars, AppendIsConcat
    <3>3. QED
      BY <3>1, <3>2, KnownChars, AppendProperties
  <2>5. PICK v \in Seq(Char) :
          /\ v = w \o q /\ Len(v) = n + 2
          /\ v[1] = quoteMark /\ v[n + 2] = quoteMark
          /\ \A i \in 1 .. n : v[i + 1] = p[i]
    <3>1. Len(w \o q) = n + 2
      BY <2>4
    <3>2. (w \o q)[1] = quoteMark
      BY <2>1, <2>2, <2>3, <2>4
    <3>3. (w \o q)[n + 2] = quoteMark
      <4>1. (w \o q)[(1 + n) + 1] = quoteMark /\ (1 + n) + 1 = n + 2
        BY <2>1, <2>4
      <4>2. QED
        BY <4>1
    <3>4. ASSUME NEW i \in 1 .. n PROVE (w \o q)[i + 1] = p[i]
      <4>1. i + 1 \in 1 .. 1 + n /\ i + 1 = 1 + i
        OBVIOUS
      <4>2. (w \o q)[i + 1] = w[i + 1] /\ w[1 + i] = p[i]
        BY <2>2, <2>3, <2>4, <4>1
      <4>3. QED
        BY <4>1, <4>2
    <3>5. QED
      BY <2>4, <3>1, <3>2, <3>3, <3>4
  <2>6. PICK line \in Seq(Char) :
          /\ line = v \o more /\ Len(line) = (n + 2) + k
          /\ \A i \in 1 .. n + 2 : line[i] = v[i]
    <3>1. PICK j \in Nat : j = n + 2
      OBVIOUS
    <3>2. Len(v) = j
      BY <2>5, <3>1
    <3>3. /\ v \o more \in Seq(Char) /\ Len(v \o more) = j + k
          /\ \A i \in 1 .. j : (v \o more)[i] = v[i]
      BY <1>2, <1>5, <3>2, Joined
    <3>4. QED
      BY <3>1, <3>3
  <2>7. CommandLine(r) = line
    BY <1>1, <1>8, <1>3, <2>1, <2>3, <2>5, <2>6
  <2>8. /\ n + 2 \in 1 .. Len(line) /\ line[1] = quoteMark /\ line[n + 2] = quoteMark
        /\ \A i \in 1 .. n : line[i + 1] = p[i]
    <3>1. 1 \in 1 .. n + 2 /\ n + 2 \in 1 .. n + 2 /\ n + 2 \in 1 .. (n + 2) + k
      OBVIOUS
    <3>2. \A i \in 1 .. n : i + 1 \in 1 .. n + 2
      OBVIOUS
    <3>3. QED
      BY <2>5, <2>6, <3>1, <3>2
  <2>9. quoteMark \notin Blank
    BY DEF Blank, Space, quoteMark
  <2>10. PICK m \in n + 2 .. Len(line) :
           /\ TrimSpace(line) \in Seq(Char) /\ Len(TrimSpace(line)) = m
           /\ \A i \in 1 .. m : TrimSpace(line)[i] = line[i]
    BY <2>8, <2>9, TrimSpaceKeeps
  <2>11. m \in Nat /\ n + 2 <= m
    BY <2>6, <2>10
  <2>12. PICK t \in Seq(Char) : t = TrimSpace(line)
    BY <2>10
  <2>13. /\ t[1] = quoteMark /\ t[n + 2] = quoteMark /\ Len(t) = m
         /\ \A i \in 1 .. n : t[i + 1] = p[i]
    <3>1. /\ 1 \in 1 .. m /\ n + 2 \in 1 .. m
          /\ \A i \in 1 .. n : i + 1 \in 1 .. m
      BY <2>11
    <3>2. QED
      BY <2>8, <2>10, <2>12, <3>1
  <2>14. HasPrefix(t, <<quoteMark>>) /\ quotedExecutable(t) = p
    <3>1. \A i \in 1 .. n : t[i + 1] = p[i] /\ p[i] # quoteMark
      BY <1>6, <2>13
    <3>2. QED
      BY <1>4, <2>11, <2>13, <3>1, QuotedFound
  <2>15. QED
    BY <1>1, <2>7, <2>12, <2>14 DEF ExecutableFrom
<1>9. CASE ~r.quoted
  <2>1. PICK line \in Seq(Char) :
          /\ line = p \o more /\ Len(line) = n + k
          /\ \A i \in 1 .. n : line[i] = p[i]
          /\ \A i \in 1 .. k : line[n + i] = more[i]
    <3>1. /\ p \o more \in Seq(Char) /\ Len(p \o more) = n + k
          /\ \A i \in 1 .. n : (p \o more)[i] = p[i]
          /\ \A i \in 1 .. k : (p \o more)[n + i] = more[i]
      <4>1. \A i \in 1 .. k : (p \o more)[n + i] = more[i]
        BY <1>2, <1>4, <1>5, Joined
      <4>2. QED
        BY <1>2, <1>4, <1>5, <4>1, Joined
    <3>2. QED
      BY <3>1
  <2>2. CommandLine(r) = line
    BY <1>1, <1>9, <1>3, <2>1
  <2>3. \A i \in 1 .. n : p[i] # Space
    <3>1. At(p, {Space}) = {} /\ DOMAIN p = 1 .. n
      BY <1>1, <1>4, <1>9, LenProperties DEF Unambiguous
    <3>2. QED
      BY <3>1 DEF At
  <2>4. n \in 1 .. Len(line) /\ line[1] \notin Blank /\ line[n] \notin Blank
    <3>1. 1 \in 1 .. n /\ n \in 1 .. n /\ n \in 1 .. n + k
      BY <1>6
    <3>2. QED
      BY <1>7, <2>1, <3>1
  <2>5. PICK m \in n .. Len(line) :
          /\ TrimSpace(line) \in Seq(Char) /\ Len(TrimSpace(line)) = m
          /\ \A i \in 1 .. m : TrimSpace(line)[i] = line[i]
    BY <2>4, TrimSpaceKeeps
  <2>6. m \in Nat /\ n <= m /\ m <= n + k
    BY <2>1, <2>5
  <2>7. PICK t \in Seq(Char) : t = TrimSpace(line)
    BY <2>5
  <2>8. Len(t) = m /\ \A i \in 1 .. n : t[i] = p[i]
    <3>1. \A i \in 1 .. n : i \in 1 .. m
      BY <2>6
    <3>2. QED
      BY <2>1, <2>5, <2>7, <3>1
  <2>9. n = m \/ t[n + 1] = Space
    <3> SUFFICES ASSUME n # m PROVE t[n + 1] = Space
      OBVIOUS
    <3>1. n + 1 \in 1 .. m /\ k # 0 /\ k >= 1 /\ 1 \in 1 .. k
      BY <2>6
    <3>2. more[1] = Space
      BY <1>2, <1>5, <3>1
    <3>3. t[n + 1] = line[n + 1]
      BY <2>5, <2>7, <3>1
    <3>4. QED
      BY <2>1, <3>1, <3>2, <3>3
  <2>10. ~HasPrefix(t, <<quoteMark>>) /\ unquotedExecutable(t) = p
    BY <1>4, <1>6, <2>3, <2>6, <2>8, <2>9, UnquotedFound
  <2>11. QED
    BY <1>1, <2>2, <2>7, <2>10 DEF ExecutableFrom
<1>10. QED
  BY <1>8, <1>9

\* What TrimRight leaves: all up to the last character that is another.
LEMMA TrimRightKeeps ==
  ASSUME NEW S, NEW t \in Seq(S), NEW c
  PROVE  \E m \in 0 .. Len(t) :
           /\ TrimRight(t, c) \in Seq(S) /\ Len(TrimRight(t, c)) = m
           /\ \A i \in 1 .. m : TrimRight(t, c)[i] = t[i]
           /\ m = 0 \/ t[m] # c
<1> DEFINE kept == DOMAIN t \ At(t, {c})
<1>1. DOMAIN t = 1 .. Len(t) /\ Len(t) \in Nat
  BY LenProperties
<1>2. kept \subseteq 0 .. Len(t)
  BY <1>1
<1>3. CASE kept = {}
  <2>1. TrimRight(t, c) = <<>>
    BY <1>3 DEF TrimRight
  <2>2. <<>> \in Seq(S) /\ Len(<<>>) = 0
    BY EmptySeq
  <2>3. 0 \in 0 .. Len(t) /\ 1 .. 0 = {}
    BY <1>1
  <2>4. QED
    BY <2>1, <2>2, <2>3
<1>4. CASE kept # {}
  <2>1. TrimRight(t, c) = SubSeq(t, 1, Max(kept))
    BY <1>4 DEF TrimRight
  <2>2. Max(kept) \in kept
    <3> HIDE DEF kept
    <3>1. QED
      BY <1>1, <1>2, <1>4, MaxIsMember
  <2>3. PICK m \in 1 .. Len(t) : m = Max(kept) /\ t[m] # c
    BY <1>1, <2>2 DEF At
  <2>4. \A i \in 1 .. m : t[i] \in S
    BY <1>1, <2>3, ElementOfSeq
  <2>5. /\ SubSeq(t, 1, m) \in Seq(S)
        /\ Len(SubSeq(t, 1, m)) = IF 1 <= m THEN m - 1 + 1 ELSE 0
        /\ \A i \in 1 .. m - 1 + 1 : SubSeq(t, 1, m)[i] = t[1 + i - 1]
    BY <2>4, SubSeqProperties
  <2>6. 1 <= m /\ m - 1 + 1 = m /\ \A i \in 1 .. m : 1 + i - 1 = i
    BY <1>1
  <2>7. /\ SubSeq(t, 1, m) \in Seq(S) /\ Len(SubSeq(t, 1, m)) = m
        /\ \A i \in 1 .. m : SubSeq(t, 1, m)[i] = t[i]
    BY <2>5, <2>6
  <2>8. TrimRight(t, c) = SubSeq(t, 1, m) /\ m \in 0 .. Len(t)
    BY <1>1, <2>1, <2>3
  <2>9. QED
    BY <2>3, <2>7, <2>8
<1>5. QED
  BY <1>3, <1>4

LEMMA TrimmedTwice ==
  ASSUME NEW S, NEW t \in Seq(S), NEW c
  PROVE  /\ TrimRight(t, c) \in Seq(S)
         /\ TrimRight(TrimRight(t, c), c) = TrimRight(t, c)
<1>1. PICK m \in 0 .. Len(t) :
        /\ TrimRight(t, c) \in Seq(S) /\ Len(TrimRight(t, c)) = m
        /\ \A i \in 1 .. m : TrimRight(t, c)[i] = t[i]
        /\ m = 0 \/ t[m] # c
  BY TrimRightKeeps
<1>2. PICK u \in Seq(S) : u = TrimRight(t, c)
  BY <1>1
<1>3. m \in Nat
  BY <1>1, LenProperties
<1> DEFINE kept == DOMAIN u \ At(u, {c})
<1>4. DOMAIN u = 1 .. m
  BY <1>1, <1>2, LenProperties
<1>5. CASE m = 0
  <2>1. kept = {}
    BY <1>4, <1>5
  <2>2. TrimRight(u, c) = <<>>
    BY <2>1 DEF TrimRight
  <2>3. u = <<>>
    BY <1>1, <1>2, <1>5, EmptySeq
  <2>4. QED
    BY <1>1, <1>2, <2>2, <2>3
<1>6. CASE m # 0
  <2>1. m \in 1 .. m
    BY <1>3, <1>6
  <2>2. u[m] # c
    BY <1>1, <1>2, <1>6, <2>1
  <2>3. m \in kept /\ kept \subseteq Int /\ \A y \in kept : m >= y
    BY <1>3, <1>4, <2>1, <2>2 DEF At
  <2>4. Max(kept) = m
    <3> HIDE DEF kept
    <3>1. QED
      BY <2>3, MaxIs
  <2>5. TrimRight(u, c) = SubSeq(u, 1, m)
    BY <2>3, <2>4 DEF TrimRight
  <2>6. SubSeq(u, 1, m) = u
    BY <1>1, <1>2, SubSeqFull
  <2>7. QED
    BY <1>1, <1>2, <2>5, <2>6
<1>7. QED
  BY <1>5, <1>6

\* A path without an escaped slash is its own decoded form, trimmed or not.
LEMMA PlainStays ==
  ASSUME NEW p \in Seq(STRING), At(p, {"%2F"}) = {}
  PROVE  decoded(p) = p /\ decoded(TrimRight(p, "/")) = TrimRight(p, "/")
<1>1. \A i \in DOMAIN p : p[i] # "%2F"
  BY DEF At
<1>2. ASSUME NEW q \in Seq(STRING), \A i \in DOMAIN q : q[i] # "%2F"
      PROVE  decoded(q) = q
  <2>1. q = [i \in DOMAIN q |-> q[i]]
    BY LenProperties
  <2>2. decoded(q) = [i \in DOMAIN q |-> q[i]]
    BY <1>2 DEF decoded
  <2>3. QED
    BY <2>1, <2>2
<1>3. PICK m \in 0 .. Len(p) :
        /\ TrimRight(p, "/") \in Seq(STRING) /\ Len(TrimRight(p, "/")) = m
        /\ \A i \in 1 .. m : TrimRight(p, "/")[i] = p[i]
  BY TrimRightKeeps
<1>4. DOMAIN p = 1 .. Len(p) /\ Len(p) \in Nat
  BY LenProperties
<1>5. DOMAIN TrimRight(p, "/") = 1 .. m /\ \A i \in 1 .. m : i \in 1 .. Len(p)
  BY <1>3, <1>4, LenProperties
<1>6. \A i \in DOMAIN TrimRight(p, "/") : TrimRight(p, "/")[i] # "%2F"
  BY <1>1, <1>3, <1>4, <1>5
<1>7. QED
  BY <1>1, <1>2, <1>3, <1>6

-----------------------------------------------------------------------------
LEMMA SevenChecks ==
  ASSUME NEW cfg
  PROVE  /\ DOMAIN checks(cfg) = 1 .. 7
         /\ \A n \in 1 .. 7 : n \in {1, 2, 3, 4, 5, 6, 7}
BY DEF checks

\* New's answer is one of its problems; without one every check has passed.
LEMMA FirstProblem ==
  ASSUME NEW cfg
  PROVE  /\ firstProblem(cfg) \in Problems \cup {"nil"}
         /\ firstProblem(cfg) = "nil" =>
              /\ ~blank(cfg.url) /\ cfg.group # Space
              /\ Valid(resolveArch(cfg.arch))
              /\ resolveFlags(cfg.flags) \in Flags
              /\ cfg.url.host # "malformed"
              /\ cfg.url.scheme \in {"http", "https"}
              /\ cfg.url.host # ""
<1> DEFINE c == checks(cfg)
           failed == {n \in DOMAIN c : ~c[n].ok}
<1>1. DOMAIN c = 1 .. 7
  BY SevenChecks
<1>2. \A n \in 1 .. 7 : c[n].err \in Problems
  <2>1. /\ c[1].err \in Problems /\ c[2].err \in Problems
        /\ c[3].err \in Problems /\ c[4].err \in Problems
        /\ c[5].err \in Problems /\ c[6].err \in Problems
        /\ c[7].err \in Problems
    BY DEF checks, Problems
  <2>2. QED
    <3> HIDE DEF c
    <3>1. QED
      BY <2>1
<1>3. CASE failed = {}
  <2>1. firstProblem(cfg) = "nil"
    BY <1>3 DEF firstProblem
  <2>2. \A n \in 1 .. 7 : c[n].ok
    BY <1>1, <1>3
  <2>3. /\ c[1].ok /\ c[2].ok /\ c[3].ok /\ c[4].ok /\ c[5].ok
        /\ c[6].ok /\ c[7].ok
    <3> HIDE DEF c
    <3>1. QED
      BY <2>2
  <2>4. QED
    BY <2>1, <2>3 DEF checks
<1>4. CASE failed # {}
  <2>1. firstProblem(cfg) = c[Min(failed)].err
    BY <1>4 DEF firstProblem
  <2>2. Min(failed) \in failed
    <3>1. failed \subseteq Nat
      BY <1>1
    <3>2. QED
      <4> HIDE DEF failed
      <4>1. QED
        BY <1>4, <3>1, MinIsMember
  <2>3. c[Min(failed)].err \in Problems
    BY <1>1, <1>2, <2>2
  <2>4. QED
    BY <2>1, <2>3 DEF Problems
<1>5. QED
  BY <1>3, <1>4

LEMMA NoProblem ==
  ASSUME NEW cfg,
         ~blank(cfg.url), cfg.group # Space, Valid(resolveArch(cfg.arch)),
         resolveFlags(cfg.flags) \in Flags, cfg.url.host # "malformed",
         cfg.url.scheme \in {"http", "https"}, cfg.url.host # ""
  PROVE  firstProblem(cfg) = "nil"
<1> DEFINE c == checks(cfg)
<1>1. DOMAIN c = 1 .. 7
  BY SevenChecks
<1>2. /\ c[1].ok /\ c[2].ok /\ c[3].ok /\ c[4].ok /\ c[5].ok
      /\ c[6].ok /\ c[7].ok
  BY DEF checks
<1>3. {n \in DOMAIN c : ~c[n].ok} = {}
  <2> HIDE DEF c
  <2>1. \A n \in 1 .. 7 : n \in {1, 2, 3, 4, 5, 6, 7}
    BY SevenChecks
  <2>2. \A n \in 1 .. 7 : c[n].ok
    BY <1>2, <2>1
  <2>3. QED
    BY <1>1, <2>2
<1>4. QED
  BY <1>3 DEF firstProblem

LEMMA ClientIsOne == ConfigFits /\ result = "nil" /\ ClientFits => client # NoClient
<1> SUFFICES ASSUME ConfigFits, result = "nil", ClientFits PROVE client # NoClient
  OBVIOUS
<1>1. Valid(resolveArch(config.arch))
  BY FirstProblem DEF ClientFits
<1>2. client.arch # 0
  BY <1>1 DEF ClientFits, newClient, Valid, ArchWindows32, ArchWindows64,
              ArchWindowsARM64
<1>3. QED
  BY <1>2 DEF NoClient

LEMMA InitIInv == Init => IInv
<1> SUFFICES ASSUME Init PROVE IInv
  OBVIOUS
<1>1. firstProblem(config) \in Problems \cup {"nil"}
  BY FirstProblem
<1>2. QED
  BY <1>1 DEF Init, IInv, ConfigFits, ClientFits, RequestFits, AnswerFits

LEMMA NewKeeps == IInv /\ New => IInv'
<1> SUFFICES ASSUME IInv, New PROVE IInv'
  OBVIOUS
<1>1. UNCHANGED <<goarch, config, request, answer>> /\ request = NoRequest
  BY DEF New, IInv, RequestFits
<1>2. firstProblem(config)' = firstProblem(config)
  BY <1>1 DEF firstProblem, checks, resolveArch, archForGOARCH
<1>3. newClient(config)' = newClient(config)
  BY <1>1 DEF newClient, resolveArch, archForGOARCH
<1>4. ClientFits'
  BY <1>2, <1>3 DEF New, ClientFits
<1>5. QED
  BY <1>1, <1>4 DEF IInv, ConfigFits, RequestFits, AnswerFits

\* What a method leaves alone.
LEMMA ClientStays ==
  ASSUME IInv, UNCHANGED <<goarch, config, result, client>>
  PROVE  /\ ConfigFits' /\ ClientFits'
         /\ Sent("meshagents", agents)' = Sent("meshagents", agents)
         /\ Sent("meshsettings", settings)' = Sent("meshsettings", settings)
<1>1. firstProblem(config)' = firstProblem(config)
  BY DEF firstProblem, checks, resolveArch, archForGOARCH
<1>2. newClient(config)' = newClient(config)
  BY DEF newClient, resolveArch, archForGOARCH
<1>3. ConfigFits' /\ ClientFits'
  BY <1>1, <1>2 DEF IInv, ConfigFits, ClientFits
<1>4. agents' = agents /\ settings' = settings
  BY DEF agents, settings
<1>5. QED
  BY <1>3, <1>4 DEF Sent

LEMMA Answered ==
  ASSUME NEW method \in Methods, NEW e \in PortErrors, NEW r, NEW path,
         Answer(method, e, r, path), Located(method, e, r, path)
  PROVE  AnswerFits'
<1>1. /\ answer'.err = e
      /\ answer'.method = method /\ answer'.registered = r /\ answer'.path = path
  BY DEF Answer
<1>2. Located(answer'.method, answer'.err, answer'.registered, answer'.path)
  BY <1>1
<1>3. QED
  BY <1>1, <1>2 DEF AnswerFits, Located

LEMMA MethodKeeps ==
  ASSUME IInv, NEW method \in Methods, NEW e \in PortErrors, NEW r, NEW path,
         Answer(method, e, r, path), Located(method, e, r, path),
         UNCHANGED <<goarch, config, result, client>>,
         client # NoClient,
         \/ request' \in {Sent("meshagents", agents), Sent("meshsettings", settings)}
         \/ request' = request
  PROVE  IInv'
<1>1. result = "nil"
  BY DEF IInv, ClientFits
<1>2. ConfigFits' /\ ClientFits'
  BY ClientStays
<1>3. RequestFits'
  BY <1>1, ClientStays DEF IInv, RequestFits
<1>4. AnswerFits'
  BY Answered
<1>5. QED
  BY <1>2, <1>3, <1>4 DEF IInv


LEMMA Inductive == IInv /\ [Next]_vars => IInv'
<1> SUFFICES ASSUME IInv, [Next]_vars PROVE IInv'
  OBVIOUS
<1>1. CASE New
  BY <1>1, NewKeeps
<1>2. CASE Return
  <2>1. UNCHANGED <<goarch, config, result, client>>
    BY <1>2 DEF Return
  <2>2. RequestFits' /\ AnswerFits'
    BY <1>2 DEF Return, RequestFits, AnswerFits
  <2>3. QED
    BY <2>1, <2>2, ClientStays DEF IInv
<1>3. ASSUME NEW e \in PortErrors, Download(e) \/ Settings(e)
      PROVE  IInv'
  <2>1. CASE Download(e)
    <3>1. request' = Sent("meshagents", agents)
      BY <2>1 DEF Download, send, Sent
    <3>2. "Download" \in Methods /\ Located("Download", e, NotRegistered, <<>>)
      BY DEF Methods, Located
    <3>3. QED
      BY <2>1, <3>1, <3>2, MethodKeeps DEF Download
  <2>2. CASE Settings(e)
    <3>1. request' = Sent("meshsettings", settings)
      BY <2>2 DEF Settings, send, Sent
    <3>2. "Settings" \in Methods /\ Located("Settings", e, NotRegistered, <<>>)
      BY DEF Methods, Located
    <3>3. QED
      BY <2>2, <3>1, <3>2, MethodKeeps DEF Settings
  <2>3. QED
    BY <1>3, <2>1, <2>2
<1>4. ASSUME NEW e \in PortErrors,
             NEW method \in {"Install", "Connect", "Disconnect", "Status",
                             "Uninstall"},
             Local(method, e), method # "Uninstall" \/ e # "nil"
      PROVE  IInv'
  <2>1. method \in Methods /\ Located(method, e, NotRegistered, <<>>)
    BY <1>4 DEF Methods, Located
  <2>2. QED
    BY <1>4, <2>1, MethodKeeps DEF Local
<1>5. ASSUME NEW r \in Registrations \cup {NotRegistered}, NEW readable \in BOOLEAN,
             Status(r, readable) \/ Uninstall(r, readable)
      PROVE  IInv'
  <2>1. "Status" \in Methods /\ "Uninstall" \in Methods
    BY DEF Methods
  <2>2. CASE Status(r, readable)
    <3>1. "nil" \in PortErrors /\ Located("Status", "nil", r, binaryPath(r, readable))
      BY DEF PortErrors, Located, binaryPath
    <3>2. QED
      BY <2>1, <2>2, <3>1, MethodKeeps DEF Status
  <2>3. CASE Uninstall(r, readable)
    <3> DEFINE found == binaryPath(r, readable)
               problem == installedBinary(r, found)
    <3>1. PICK e, path :
            /\ e \in PortErrors
            /\ Answer("Uninstall", e, r, path) /\ Located("Uninstall", e, r, path)
      <4>1. CASE problem # "nil"
        <5>1. Answer("Uninstall", problem, r, <<>>) /\ problem \in PortErrors
          BY <2>3, <4>1 DEF Uninstall, installedBinary, PortErrors
        <5>2. Located("Uninstall", problem, r, <<>>)
          BY <4>1 DEF Located
        <5>3. QED
          BY <5>1, <5>2
      <4>2. CASE problem = "nil"
        <5>1. PICK e \in {"nil", "failed"} : Answer("Uninstall", e, r, found)
          BY <2>3, <4>2 DEF Uninstall
        <5>2. r # NotRegistered /\ found # <<>>
          BY <4>2 DEF installedBinary
        <5>3. Located("Uninstall", e, r, found)
          BY <5>2 DEF Located, binaryPath
        <5>4. QED
          BY <5>1, <5>3 DEF PortErrors
      <4>3. QED
        BY <4>1, <4>2
    <3>2. QED
      BY <2>1, <2>3, <3>1, MethodKeeps DEF Uninstall
  <2>4. QED
    BY <1>5, <2>2, <2>3
<1>6. CASE UNCHANGED vars
  BY <1>6, ClientStays DEF vars, IInv, RequestFits, AnswerFits
<1>7. QED
  BY <1>1, <1>2, <1>3, <1>4, <1>5, <1>6 DEF Next

LEMMA Invariance == Spec => []IInv
  BY InitIInv, Inductive, PTL DEF Spec

-----------------------------------------------------------------------------
(***************************************************************************)
(* New refuses nothing for a field that was left out, whatever the path of *)
(* the server's URL.                                                       *)
(***************************************************************************)
THEOREM RequiresNoMore == Spec => []OnlyRequiredFields
<1>1. IInv => OnlyRequiredFields
  <2> SUFFICES ASSUME IInv, result # "none",
                      config.url.scheme = "https", config.url.host = "h",
                      config.group = "g", config.arch = 0, config.flags = ""
               PROVE  result = "nil" /\ client # NoClient
    BY DEF OnlyRequiredFields
  <2>1. Valid(resolveArch(config.arch)) /\ resolveFlags(config.flags) \in Flags
    BY DEF Valid, resolveArch, archForGOARCH, resolveFlags, Flags, IInv, ConfigFits
  <2>2. ~blank(config.url) /\ config.group # Space
    BY DEF blank, Space
  <2>3. firstProblem(config) = "nil"
    BY <2>1, <2>2, NoProblem
  <2>4. QED
    BY <2>3, ClientIsOne DEF IInv, ClientFits
<1>2. QED
  BY <1>1, Invariance, PTL

(***************************************************************************)
(* A server that is asked for an agent finds in the request what the       *)
(* caller configured, for any server and any architecture.                 *)
(***************************************************************************)
THEOREM AsksAsConfigured == Spec => []RequestMeansConfig
<1>1. IInv => RequestMeansConfig
  <2> SUFFICES ASSUME IInv, request.endpoint = "meshagents"
               PROVE  RequestMeansConfig
    BY DEF RequestMeansConfig
  <2>1. result = "nil" /\ request = Sent("meshagents", agents)
    BY DEF IInv, RequestFits, NoRequest, Sent
  <2>2. client = newClient(config)
    BY <2>1 DEF IInv, ClientFits
  <2>3. /\ Valid(resolveArch(config.arch)) /\ resolveFlags(config.flags) \in Flags
        /\ config.url.scheme \in {"http", "https"}
    BY <2>1, FirstProblem DEF IInv, ClientFits
  <2>4. /\ request.scheme = config.url.scheme /\ request.host = config.url.host
        /\ request.cookie = config.cookie
    BY <2>1, <2>2 DEF Sent, newClient, parse, trimmed
  <2>5. /\ request.query.meshid = config.group
        /\ request.query.id = resolveArch(config.arch)
        /\ flagsReceived = Wire(resolveFlags(config.flags))
    BY <2>1, <2>2 DEF Sent, agents, newClient, flagsReceived
  <2>6. goarch \in {"386", "amd64", "arm64"}
    BY DEF IInv, ConfigFits
  <2>7. /\ config.arch # 0 => request.query.id = config.arch
        /\ config.arch = 0 =>
             request.query.id = (CASE goarch = "386" -> 3
                                   [] goarch = "amd64" -> 4
                                   [] goarch = "arm64" -> 43)
    BY <2>5, <2>6 DEF resolveArch, archForGOARCH, ArchWindows32, ArchWindows64,
                      ArchWindowsARM64
  <2>8. flagsReceived =
          (CASE config.flags \in {"", "background"} -> 2
             [] config.flags = "interactive" -> 1
             [] config.flags = "both" -> 0)
    BY <2>3, <2>5 DEF Wire, resolveFlags, Flags
  <2>9. \A other \in {3, 4, 43} \ {request.query.id} :
          BinaryName(other) # BinaryName(request.query.id)
    BY <2>3, <2>5 DEF BinaryName, Valid, ArchWindows32, ArchWindows64,
                      ArchWindowsARM64
  <2>10. QED
    BY <2>3, <2>4, <2>5, <2>6, <2>7, <2>8, <2>9 DEF RequestMeansConfig
<1>2. QED
  BY <1>1, Invariance, PTL

(***************************************************************************)
(* The program that Uninstall runs and Status shows is the registered one, *)
(* for any paths and whatever follows them in the command line.            *)
(***************************************************************************)
THEOREM FindsExecutable == Spec => []LocatesExecutable
<1>1. IInv => LocatesExecutable
  <2> SUFFICES ASSUME IInv, answer # NoAnswer PROVE LocatesExecutable
    BY DEF LocatesExecutable
  <2>1. Located(answer.method, answer.err, answer.registered, answer.path)
    BY DEF IInv, AnswerFits
  <2>2. \A r \in Registrations : r # NotRegistered
    BY ServicePathAssumption DEF Registrations, NotRegistered
  <2>3. QED
    BY <2>1, <2>2, ExecutableFound DEF Located, LocatesExecutable
<1>2. QED
  BY <1>1, Invariance, PTL

(***************************************************************************)
(* The path prefix of the server's URL is kept, for any URL whose prefix   *)
(* has no escaped slash in it.                                             *)
(***************************************************************************)
THEOREM KeepsPrefix == Spec => []PrefixKept
<1>1. IInv => PrefixKept
  <2> SUFFICES ASSUME IInv, request # NoRequest, At(config.url.path, {"%2F"}) = {}
               PROVE  request.path = Prefixed(request.endpoint)
    BY DEF PrefixKept
  <2>1. PICK name \in {"meshagents", "meshsettings"} :
          request.endpoint = name /\ request.path = Endpoint(client.serverURL, name)
    BY DEF IInv, RequestFits, Sent
  <2>2. client.serverURL = parse(trimmed(config.url))
    BY DEF IInv, RequestFits, ClientFits, newClient
  <2>3. PICK p \in Seq(STRING) : p = config.url.path
    BY FacadeAssumption DEF IInv, ConfigFits, Configs
  <2>4. PICK raw : raw = trimmed(config.url).path
    OBVIOUS
  <2>5. raw \in {p, TrimRight(p, "/")}
    BY <2>3, <2>4, FacadeAssumption DEF trimmed, IInv, ConfigFits, Configs
  <2>6. /\ raw \in Seq(STRING) /\ decoded(raw) = raw
        /\ TrimRight(raw, "/") = TrimRight(p, "/")
    BY <2>3, <2>5, PlainStays, TrimmedTwice
  <2>7. parse(trimmed(config.url)).path = raw
        /\ parse(trimmed(config.url)).rawPath = raw
    BY <2>4, <2>6 DEF parse
  <2>8. Endpoint(client.serverURL, name) = joinPath(raw, name)
    BY <2>2, <2>6, <2>7 DEF Endpoint, escapedPath, parse
  <2>9. QED
    BY <2>1, <2>3, <2>6, <2>8 DEF joinPath, Prefixed
<1>2. QED
  BY <1>1, Invariance, PTL

(***************************************************************************)
(* The variables keep their types, for any configurations and paths.       *)
(***************************************************************************)
THEOREM TypeCorrect == Spec => []TypeOK
<1>1. IInv => TypeOK
  <2> SUFFICES ASSUME IInv PROVE TypeOK
    OBVIOUS
  <2>1. config \in Configs /\ result \in Problems \cup {"none", "nil"}
    BY FirstProblem DEF IInv, ConfigFits, ClientFits
  <2>2. ASSUME client # NoClient
        PROVE  /\ result = "nil" /\ client.arch \in {3, 4, 43}
               /\ client.installFlags \in Flags \ {""}
    <3>1. result = "nil" /\ client = newClient(config)
      BY <2>2 DEF IInv, ClientFits
    <3>2. Valid(resolveArch(config.arch)) /\ resolveFlags(config.flags) \in Flags
      BY <3>1, FirstProblem DEF IInv, ClientFits
    <3>3. client.arch = resolveArch(config.arch)
          /\ client.installFlags = resolveFlags(config.flags)
      BY <3>1 DEF newClient
    <3>4. client.arch \in {3, 4, 43}
      BY <3>2, <3>3 DEF Valid, ArchWindows32, ArchWindows64, ArchWindowsARM64
    <3>5. resolveFlags(config.flags) # ""
      BY DEF resolveFlags
    <3>6. QED
      BY <3>1, <3>2, <3>3, <3>4, <3>5
  <2>3. request # NoRequest => request.query \in Queries
    <3> SUFFICES ASSUME request # NoRequest PROVE request.query \in Queries
      OBVIOUS
    <3>1. result = "nil" /\ request.query \in {agents, settings}
      BY DEF IInv, RequestFits, Sent
    <3>2. client = newClient(config) /\ client # NoClient
      BY <3>1, ClientIsOne DEF IInv, ClientFits
    <3>3. config.group = "g"
      <4>1. config.group # Space
        BY <3>1, FirstProblem DEF IInv, ClientFits
      <4>2. config.group \in {Space, "g"}
        BY DEF IInv, ConfigFits, Configs
      <4>3. QED
        BY <4>1, <4>2
    <3>4. client.group = "g" /\ client.arch \in {3, 4, 43}
      BY <2>2, <3>2, <3>3 DEF newClient
    <3>5. Wire(client.installFlags) \in {0, 1, 2}
      BY DEF Wire
    <3>6. agents \in Queries
      <4>1. CASE Wire(client.installFlags) = 0
        <5>1. agents = [id |-> client.arch, meshid |-> "g"]
          BY <3>4, <4>1 DEF agents
        <5>2. agents \in [id : {3, 4, 43}, meshid : {"g"}]
          BY <3>4, <5>1
        <5>3. QED
          BY <5>2 DEF Queries
      <4>2. CASE Wire(client.installFlags) \in {1, 2}
        <5>1. agents = [id |-> client.arch, meshid |-> "g",
                        installflags |-> Wire(client.installFlags)]
          BY <3>4, <4>2 DEF agents
        <5>2. agents \in [id : {3, 4, 43}, meshid : {"g"}, installflags : {1, 2}]
          BY <3>4, <4>2, <5>1
        <5>3. QED
          BY <5>2 DEF Queries
      <4>3. QED
        BY <3>5, <4>1, <4>2
    <3>7. settings \in Queries
      BY <3>4 DEF settings, Queries
    <3>8. QED
      BY <3>1, <3>6, <3>7
  <2>4. answer # NoAnswer => answer.err \in PortErrors
    BY DEF IInv, AnswerFits
  <2>5. QED
    BY <2>1, <2>2, <2>3, <2>4 DEF TypeOK
<1>2. QED
  BY <1>1, Invariance, PTL
=============================================================================
