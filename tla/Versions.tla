-------------------------------- MODULE Versions --------------------------------
(***************************************************************************)
(* Version numbers of the updater (src/internal/client/update.go).  A      *)
(* version is the sequence of the parts between its dots.  A part has the  *)
(* number that stands before its first "-" or "+" (NaN if Atoi refuses     *)
(* that) and says whether there is such a suffix.  "1.2-rc.3" is           *)
(* <<Part(1, FALSE), Part(2, TRUE), Part(3, FALSE)>>.                      *)
(***************************************************************************)
EXTENDS Integers, Sequences

CONSTANT NaN

Part(n, suffix) == [num |-> n, suffix |-> suffix]

Parsable(v) == v # <<>> /\ \A i \in DOMAIN v : v[i].num # NaN

\* parseVersion, where it succeeds: the suffix of each part is cut.
parseVersion(v) == [i \in DOMAIN v |-> v[i].num]

\* The i-th number, 0 past the end.
Nth(s, i) == IF i <= Len(s) THEN s[i] ELSE 0

\* Faulty variant of isNewer: only the numbers both versions have are compared.
ShortIsNewer(a, b) ==
  IF ~Parsable(a) \/ ~Parsable(b) THEN a # <<>> /\ a # b
  ELSE LET x == parseVersion(a)
           y == parseVersion(b)
       IN  \E i \in DOMAIN x \cap DOMAIN y :
             x[i] > y[i] /\ \A j \in 1 .. i - 1 : x[j] = y[j]

\* The first difference decides; what cannot be parsed is newer if it differs.
isNewer(a, b) ==
  IF ~Parsable(a) \/ ~Parsable(b) THEN a # <<>> /\ a # b
  ELSE LET x == parseVersion(a)
           y == parseVersion(b)
       IN  \E i \in DOMAIN x \cup DOMAIN y :
             Nth(x, i) > Nth(y, i) /\ \A j \in 1 .. i - 1 : Nth(x, j) = Nth(y, j)
=============================================================================
