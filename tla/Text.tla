-------------------------------- MODULE Text --------------------------------
(***************************************************************************)
(* The str methods the parsers use, over strings that are sequences of     *)
(* tokens: split_once, rsplit_once, split, trim and to_lowercase.          *)
(***************************************************************************)
EXTENDS Integers, Sequences, SequencesExt

CONSTANT Lower   \* to_ascii_lowercase, where it changes a token

\* Cut at position i, leaving out the n tokens of the delimiter.
CutAt(s, i, n) ==
  IF i = 0 THEN {} ELSE {<<SubSeq(s, 1, i - 1), SubSeq(s, i + n, Len(s))>>}
SplitOnce(s, d) == CutAt(s, SelectInSeq(s, LAMBDA t : t = d), 1)
RSplitOnce(s, d) == CutAt(s, SelectLastInSeq(s, LAMBDA t : t = d), 1)
Split(s, d) ==
  LET cuts == <<0>> \o SetToSortSeq({i \in DOMAIN s : s[i] = d}, <) \o <<Len(s) + 1>>
  IN  [k \in 1 .. Len(cuts) - 1 |-> SubSeq(s, cuts[k] + 1, cuts[k + 1] - 1)]

\* trim_matches: without the leading and trailing tokens of a set.
TrimMatches(s, tokens) ==
  LET kept == {i \in DOMAIN s : s[i] \notin tokens}
  IN  IF kept = {} THEN <<>> ELSE SubSeq(s, Min(kept), Max(kept))
Trim(s) == TrimMatches(s, {" "})

Lowered(s) == [i \in DOMAIN s |-> IF s[i] \in DOMAIN Lower THEN Lower[s[i]] ELSE s[i]]
=============================================================================
