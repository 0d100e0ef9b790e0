------------------------------ MODULE MshParse ------------------------------
(***************************************************************************)
(* internal/shared/mshparse/funcs.go, which reads the "key=value" lines of *)
(* a .msh file, and what such a file means, stated without the parser.     *)
(***************************************************************************)
EXTENDS Text

NoPairs == [k \in {} |-> <<>>]

NoPair == [key |-> <<>>, value |-> <<>>, ok |-> FALSE]

\* Mutant: the comment sign is looked for before the line is trimmed.
splitPair_Untrimmed(line) ==
  LET pair == Cut(TrimSpace(line), "=")
  IN  IF HasPrefix(line, <<"#">>) \/ ~pair.found
        THEN NoPair
        ELSE [key |-> TrimSpace(pair.before),
              value |-> TrimSpace(pair.after),
              ok |-> TRUE]

\* A line that is blank, a comment or without a separator is no pair.
splitPair(line) ==
  LET trimmed == TrimSpace(line)
      pair == Cut(trimmed, "=")
  IN  IF trimmed = <<>> \/ HasPrefix(trimmed, <<"#">>) \/ ~pair.found
        THEN NoPair
        ELSE [key |-> TrimSpace(pair.before),
              value |-> TrimSpace(pair.after),
              ok |-> TRUE]

\* pairs[key] = value
put(pairs, key, value) ==
  [k \in DOMAIN pairs \cup {key} |-> IF k = key THEN value ELSE pairs[k]]

Pairs(raw) ==
  LET add(pairs, line) ==
        LET pair == splitPair(line)
        IN  IF pair.ok THEN put(pairs, pair.key, pair.value) ELSE pairs
  IN  FoldLeft(add, NoPairs, Split(raw, "\n"))

-----------------------------------------------------------------------------
(***************************************************************************)
(* The reference: a line sets k to v when its first "=" stands between the *)
(* two and "#" is not the first of its visible characters; the last line   *)
(* that sets k decides.                                                    *)
(***************************************************************************)
Sets(line, k, v) ==
  /\ \E i \in At(line, {"="}) :
       /\ \A j \in At(line, {"="}) : i <= j
       /\ k = TrimSpace(SubSeq(line, 1, i - 1))
       /\ v = TrimSpace(SubSeq(line, i + 1, Len(line)))
  /\ \A i \in At(line, {"#"}) : \E j \in 1 .. i - 1 : line[j] \notin Blank

\* The substrings of a text, of which its keys and its values are some.
Substrings(t) == {SubSeq(t, i, j) : i \in 1 .. Len(t) + 1, j \in 0 .. Len(t)}

Meaning(t) ==
  LET lines == Split(t, "\n")
      Setting(n, k) == {v \in Substrings(lines[n]) : Sets(lines[n], k, v)}
      LinesOf(k) == {n \in DOMAIN lines : Setting(n, k) # {}}
      keys == {k \in Substrings(t) : LinesOf(k) # {}}
  IN  [k \in keys |-> CHOOSE v \in Setting(Max(LinesOf(k)), k) : TRUE]
=============================================================================
