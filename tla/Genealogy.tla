------------------------------- MODULE Genealogy -------------------------------
(***************************************************************************)
(* The pure tree algorithms of the clan: what services/tree.py and         *)
(* services/person_rules.py compute from `edges`.  A graph here is a       *)
(* function from the ids of the live persons (clan_edges) to the set of    *)
(* the parents on the row; a parent need not be in the domain.             *)
(*                                                                         *)
(* Both walks of the code carry an iteration cap of 2 * len(edges) + 10    *)
(* and enqueue an id at most twice (the root once more when it lies on a   *)
(* cycle), so the cap never cuts them short and is left out.               *)
(***************************************************************************)
EXTENDS Naturals, FiniteSets, FiniteSetsExt

Children(g, p) == {c \in DOMAIN g : p \in g[c]}

(* person_rules.descendants: the ids found walking parent -> child from    *)
(* root; root itself only when it lies on a cycle.  After as many rounds   *)
(* as there are rows nothing new can be found.                             *)
Descendants(g, root) ==
  LET below(S) == S \cup UNION {Children(g, c) : c \in S}
      found[n \in 0..Cardinality(DOMAIN g)] ==
        IF n = 0 THEN Children(g, root) ELSE below(found[n - 1])
  IN found[Cardinality(DOMAIN g)]

BelowHighest(gens) == 1 + Max({0} \cup gens)

(* tree.compute_generations: an id is settled once all of its known        *)
(* parents are, at one more than the highest of them; a root at 1.  What a *)
(* cycle keeps from settling (0 below) falls back to 1.                    *)
Generations(g) ==
  LET ids == DOMAIN g
      known(p) == g[p] \cap ids
      settle(gen) ==
        [p \in ids |-> IF \A q \in known(p) : gen[q] > 0
                       THEN BelowHighest({gen[q] : q \in known(p)})
                       ELSE 0]
      round[n \in 0..Cardinality(ids)] ==
        IF n = 0 THEN [p \in ids |-> 0] ELSE settle(round[n - 1])
      settled == round[Cardinality(ids)]
  IN [p \in ids |-> IF settled[p] = 0 THEN 1 ELSE settled[p]]
================================================================================
