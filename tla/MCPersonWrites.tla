----------------------------- MODULE MCPersonWrites -----------------------------
EXTENDS PersonWrites, TLC

CONSTANTS a, b, c, k1, k2, n1, n2

Row(father, mother, gen) ==
  [state |-> "live", father |-> father, mother |-> mother, note |-> n1, gen |-> gen,
   photo |-> NoKey, version |-> 1]

Grown(rows) == [p \in Persons |-> IF p \in DOMAIN rows THEN rows[p] ELSE Unsaved]

\* parent and child, and an id not used yet
ParentAndChild ==
  {Grown([p \in {a, b} |-> IF p = a THEN Row(NoPerson, NoPerson, 1) ELSE Row(a, NoPerson, 2)])}

\* two unrelated persons, one with a photo
TwoPersons ==
  {Grown([p \in {a, b} |-> IF p = a THEN [Row(NoPerson, NoPerson, 1) EXCEPT !.photo = k1]
                                    ELSE Row(NoPerson, NoPerson, 1)])}

WorkerSymmetry == Permutations(Workers)

PhotosOfA == [k \in Keys |-> a]
=================================================================================
