-------------------------------- MODULE Text --------------------------------
(***************************************************************************)
(* The operations of Go's package strings that the code relies on.  A text *)
(* is a sequence of characters, a character a string of length one.        *)
(***************************************************************************)
EXTENDS Naturals, SequencesExt

Space == " "

Blank == {Space, "\n"}

\* The positions of t that hold one of chars.
At(t, chars) == {i \in DOMAIN t : t[i] \in chars}

\* t between the first and the last of the positions kept.
Span(t, kept) == IF kept = {} THEN <<>> ELSE SubSeq(t, Min(kept), Max(kept))

TrimSpace(t) == Span(t, DOMAIN t \ At(t, Blank))

TrimRight(t, char) ==
  LET kept == DOMAIN t \ At(t, {char})
  IN  IF kept = {} THEN <<>> ELSE SubSeq(t, 1, Max(kept))

HasPrefix(t, prefix) == IsPrefix(prefix, t)

\* Around the first char; without one, all of t is before it.
Cut(t, char) ==
  LET found == At(t, {char}) # {}
      i == IF found THEN Min(At(t, {char})) ELSE Len(t) + 1
  IN  [before |-> SubSeq(t, 1, i - 1),
       after |-> SubSeq(t, i + 1, Len(t)),
       found |-> found]

\* The pieces of t between the separators: the nth comes after n - 1 of them.
Split(t, char) ==
  LET cuts == At(t, {char})
      Piece(n) == {i \in DOMAIN t \ cuts : Cardinality(cuts \cap 1 .. i) = n - 1}
  IN  [n \in 1 .. Cardinality(cuts) + 1 |-> Span(t, Piece(n))]
=============================================================================
