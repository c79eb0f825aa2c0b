-------------------------------- MODULE Kinship --------------------------------
(***************************************************************************)
(* The calculator of forms of address (xung ho): what two persons of a     *)
(* clan call each other, from the live rows of the clan                    *)
(* (clan_kinship_rows: rows[p] has gender, order, father, mother; order 0  *)
(* and parent 0 are NULL) and its marriages (clan_spouse_pairs).           *)
(*                                                                         *)
(* A word is its set of alternatives: {"chu"} is a plain word,             *)
(* {"bac", "chu"} the hedge "bac/chu", {} no word; `sure` is the           *)
(* `confident` flag.  The sentences of kinship_explain are left out.       *)
(***************************************************************************)
EXTENDS Integers, FiniteSets, FiniteSetsExt, SequencesExt

Null == "any"     \* a None slot of a key

(***************************************************************************)
(* kinship_graph: everyone above a person, breadth first.  An entry says   *)
(* how many generations up, on which side the first step went, and which   *)
(* child of the ancestor the path came through.                            *)
(***************************************************************************)
\* Mutant: every step up sets the side.
SideOfLastStep(entry, slot) == slot
SideOf(entry, slot) == IF entry.side # Null THEN entry.side ELSE slot

Visit(rows, index, entry) ==
  LET meet(found, parent, slot) ==
        IF parent = 0 \/ \E e \in ToSet(found) : e.id = parent THEN found
        ELSE Append(found, [id |-> parent, depth |-> entry.depth + 1,
                            side |-> SideOf(entry, slot), via |-> entry.id])
  IN IF entry.id \notin DOMAIN rows THEN index
     ELSE meet(meet(index, rows[entry.id].father, "noi"), rows[entry.id].mother, "ngoai")

\* The queue is popped at most once per person met, and only the persons of
\* rows add to it: the iteration cap of the code (2 * rows + 10) never bites.
AncestorIndex(rows, p) ==
  LET pops == 2 * Cardinality(DOMAIN rows) + 1
      pop(index, n) == IF n > Len(index) THEN index ELSE Visit(rows, index, index[n])
      walk[n \in 0..pops] ==
        IF n = 0 THEN <<[id |-> p, depth |-> 0, side |-> Null, via |-> 0]>>
        ELSE pop(walk[n - 1], n)
  IN ToSet(walk[pops])

Shared(indexA, indexB) == {pair \in indexA \X indexB : pair[1].id = pair[2].id}

Before(x, y) ==      \* Python's order of tuples of numbers
  \E i \in DOMAIN x : x[i] < y[i] /\ \A j \in 1..(i - 1) : x[j] = y[j]

\* The shared ancestor with the least (depth_a + depth_b, depth_a, id).
Distance(pair) == <<pair[1].depth + pair[2].depth, pair[1].depth, pair[1].id>>
NearestOf(shared) ==
  CHOOSE pair \in shared : \A other \in shared \ {pair} : Before(Distance(pair), Distance(other))
BestCommonAncestor(indexA, indexB) == NearestOf(Shared(indexA, indexB))

(***************************************************************************)
(* kinship_lookup and kinship_terms: from the facts to a word.             *)
(***************************************************************************)
GenderOf(rows, p) == IF p \in DOMAIN rows THEN rows[p].gender ELSE "?"

\* Mutant: a missing or equal birth order counts as the younger branch.
IsElderOrYounger(rows, mine, theirs) ==
  IF {mine, theirs} \subseteq DOMAIN rows
  THEN IF rows[theirs].order < rows[mine].order THEN "elder" ELSE "younger"
  ELSE Null
IsElder(rows, mine, theirs) ==
  IF {mine, theirs} \subseteq DOMAIN rows /\ rows[mine].order # 0 /\ rows[theirs].order # 0
     /\ rows[mine].order # rows[theirs].order
  THEN IF rows[theirs].order < rows[mine].order THEN "elder" ELSE "younger"
  ELSE Null

Table(rowset) == [key \in {row[1] : row \in rowset} |->
                    (CHOOSE row \in rowset : row[1] = key)[2]]

\* <<kind, gap, side, gender, elder>>: gap is how many generations B is above A.
TERMS == Table(
  {<< <<"bang", 0, Null, "nam", "elder">>, {"anh"} >>,
   << <<"bang", 0, Null, "nu", "elder">>, {"chi"} >>,
   << <<"bang", 0, Null, Null, "younger">>, {"em"} >>,
   << <<"bang", 1, "noi", "nam", "younger">>, {"chu"} >>,
   << <<"bang", 1, "noi", "nu", "younger">>, {"co"} >>,
   << <<"bang", 1, "ngoai", "nam", "younger">>, {"cau"} >>,
   << <<"bang", 1, "ngoai", "nu", "younger">>, {"di"} >>,
   << <<"bang", 2, Null, "nam", Null>>, {"ong"} >>,
   << <<"bang", 2, Null, "nu", Null>>, {"ba"} >>,
   << <<"bang", 3, Null, Null, Null>>, {"cu"} >>,
   << <<"bang", 4, Null, Null, Null>>, {"ky"} >>,
   << <<"truc", 1, Null, "nam", Null>>, {"bo"} >>,
   << <<"truc", 1, Null, "nu", Null>>, {"me"} >>,
   << <<"truc", 2, "noi", "nam", Null>>, {"ong noi"} >>,
   << <<"truc", 2, "noi", "nu", Null>>, {"ba noi"} >>,
   << <<"truc", 2, "ngoai", "nam", Null>>, {"ong ngoai"} >>,
   << <<"truc", 2, "ngoai", "nu", Null>>, {"ba ngoai"} >>,
   << <<"truc", 3, Null, "nam", Null>>, {"cu ong"} >>,
   << <<"truc", 3, Null, "nu", Null>>, {"cu ba"} >>,
   << <<"truc", 4, Null, "nam", Null>>, {"ky ong"} >>,
   << <<"truc", 4, Null, "nu", Null>>, {"ky ba"} >>}
  \cup {<< <<"bang", 1, side, gender, "elder">>, {"bac"} >> :
          side \in {"noi", "ngoai"}, gender \in {"nam", "nu", Null}}
  \cup {<< <<"bang", -n, Null, Null, Null>>, {<<"chau", "chau", "chat", "chut", "chit">>[n]} >> :
          n \in 1..5}
  \cup {<< <<"truc", -n, Null, Null, Null>>, {<<"con", "chau", "chat", "chut", "chit">>[n]} >> :
          n \in 1..5})

AMBIGUOUS_TERMS == Table(
  {<< <<"bang", 0, Null, "nam", Null>>, {"anh", "em"} >>,
   << <<"bang", 0, Null, "nu", Null>>, {"chi", "em"} >>,
   << <<"bang", 0, Null, Null, Null>>, {"anh", "chi", "em"} >>,
   << <<"bang", 0, Null, Null, "elder">>, {"anh", "chi"} >>,
   << <<"bang", 1, "noi", "nam", Null>>, {"bac", "chu"} >>,
   << <<"bang", 1, "noi", "nu", Null>>, {"bac", "co"} >>,
   << <<"bang", 1, "noi", Null, Null>>, {"bac", "chu", "co"} >>,
   << <<"bang", 1, "noi", Null, "younger">>, {"chu", "co"} >>,
   << <<"bang", 1, "ngoai", "nam", Null>>, {"bac", "cau"} >>,
   << <<"bang", 1, "ngoai", "nu", Null>>, {"bac", "di"} >>,
   << <<"bang", 1, "ngoai", Null, Null>>, {"bac", "cau", "di"} >>,
   << <<"bang", 1, "ngoai", Null, "younger">>, {"cau", "di"} >>})

Sure(words) == [words |-> words, sure |-> TRUE]
Hedge(words) == [words |-> words, sure |-> FALSE]

\* The keys from the most to the least specific: the elder slot is dropped
\* first, then the side, then the gender.
CandidateKeys(kind, gap, side, gender, elder) ==
  << <<kind, gap, side, gender, elder>>, <<kind, gap, side, gender, Null>>,
     <<kind, gap, Null, gender, elder>>, <<kind, gap, Null, gender, Null>>,
     <<kind, gap, side, Null, elder>>, <<kind, gap, side, Null, Null>>,
     <<kind, gap, Null, Null, elder>>, <<kind, gap, Null, Null, Null>> >>

FirstIn(table, keys) == table[keys[Min({i \in DOMAIN keys : keys[i] \in DOMAIN table})]]
TermAt(keys, gap) ==
  IF ToSet(keys) \cap DOMAIN TERMS # {} THEN Sure(FirstIn(TERMS, keys))
  ELSE IF ToSet(keys) \cap DOMAIN AMBIGUOUS_TERMS # {} THEN Hedge(FirstIn(AMBIGUOUS_TERMS, keys))
  ELSE IF gap > 4 THEN Sure({"to tien"})
  ELSE IF gap < -4 THEN Sure({"hau due"})
  ELSE Hedge({})

ResolveTerm(kind, gap, side, gender, elder) ==
  TermAt(CandidateKeys(kind, gap, side, IF gender = "?" THEN Null ELSE gender, elder), gap)

(***************************************************************************)
(* kinship_blood: the answer for two persons with a shared ancestor, from  *)
(* the entry of that ancestor in the index of each.                        *)
(***************************************************************************)
BloodAnswer(rows, a, b, up) ==
  LET x == up[1]
      y == up[2]
      kind == IF x.depth = 0 \/ y.depth = 0 THEN "truc" ELSE "bang"
  IN [ab |-> ResolveTerm(kind, x.depth - y.depth, x.side, GenderOf(rows, b),
                         IsElder(rows, x.via, y.via)),
      ba |-> ResolveTerm(kind, y.depth - x.depth, y.side, GenderOf(rows, a),
                         IsElder(rows, y.via, x.via))]

Unrelated == [ab |-> Sure({}), ba |-> Sure({})]

(***************************************************************************)
(* kinship_affinal_terms, kinship_marriage_rows and kinship_affinal: the   *)
(* answer through one marriage, when there is no blood link.  marriages is *)
(* a set of records with husband, wife, status and order.                  *)
(***************************************************************************)
AFFINAL_TERMS == Table(
  {<< <<{"chu"}, "nu">>, {"thim"} >>, << <<{"cau"}, "nu">>, {"mo"} >>,
   << <<{"co"}, "nam">>, {"chu"} >>, << <<{"di"}, "nam">>, {"duong"} >>,
   << <<{"bac"}, "nam">>, {"bac"} >>, << <<{"bac"}, "nu">>, {"bac gai"} >>,
   << <<{"anh"}, "nu">>, {"chi"} >>, << <<{"chi"}, "nam">>, {"anh"} >>,
   << <<{"bac", "chu"}, "nu">>, {"bac gai", "thim"} >>,
   << <<{"bac", "co"}, "nam">>, {"bac", "chu"} >>,
   << <<{"bac", "chu", "co"}, "nam">>, {"bac", "chu"} >>,
   << <<{"bac", "chu", "co"}, "nu">>, {"bac gai", "thim"} >>,
   << <<{"bac", "cau"}, "nu">>, {"bac gai", "mo"} >>,
   << <<{"bac", "di"}, "nam">>, {"bac", "duong"} >>,
   << <<{"bac", "cau", "di"}, "nam">>, {"bac", "duong"} >>,
   << <<{"bac", "cau", "di"}, "nu">>, {"bac gai", "mo"} >>,
   << <<{"anh", "em"}, "nu">>, {"chi", "em"} >>, << <<{"chi", "em"}, "nam">>, {"anh", "em"} >>,
   << <<{"anh", "chi", "em"}, "nam">>, {"anh", "em"} >>,
   << <<{"anh", "chi", "em"}, "nu">>, {"chi", "em"} >>,
   << <<{"anh", "chi"}, "nam">>, {"anh"} >>, << <<{"anh", "chi"}, "nu">>, {"chi"} >>,
   << <<{"chu", "co"}, "nam">>, {"chu"} >>, << <<{"chu", "co"}, "nu">>, {"thim"} >>,
   << <<{"cau", "di"}, "nam">>, {"duong"} >>, << <<{"cau", "di"}, "nu">>, {"mo"} >>}
  \cup {<< <<{word}, gender>>, {word} >> : gender \in {"nam", "nu"},
          word \in {"em", "con", "chau", "chat", "chut", "chit", "cu", "ky"}}
  \cup {<< <<{word}, "nu">>, {"ba"} >> : word \in {"ong", "ong noi", "ong ngoai"}}
  \cup {<< <<{word}, "nam">>, {"ong"} >> : word \in {"ba", "ba noi", "ba ngoai"}}
  \cup {<< <<{"cu ong"}, "nu">>, {"cu"} >>, << <<{"cu ba"}, "nam">>, {"cu"} >>,
        << <<{"ky ong"}, "nu">>, {"ky"} >>, << <<{"ky ba"}, "nam">>, {"ky"} >>})

\* By what the one who married in calls a relative of the spouse: without
\* the claim of descent in "noi" and "ngoai".
MarriedIn(entry) ==
  IF entry.words \in {{"ong noi"}, {"ong ngoai"}} THEN [entry EXCEPT !.words = {"ong"}]
  ELSE IF entry.words \in {{"ba noi"}, {"ba ngoai"}} THEN [entry EXCEPT !.words = {"ba"}]
  ELSE entry

SpouseTerm(rows, p) ==
  CASE GenderOf(rows, p) = "nam" -> Sure({"chong"})
    [] GenderOf(rows, p) = "nu" -> Sure({"vo"})
    [] OTHER -> Hedge({})

Partner(m, p) == IF m.husband = p THEN m.wife ELSE m.husband
Rank(m) == <<IF m.status = "goa" THEN 1 ELSE 0, m.order>>

\* The marriages of p, the one to answer through first: current before
\* widowed, then by order, then by the id of the spouse.
RankedSpouses(marriages, p) ==
  LET ranked == {Append(Rank(m), Partner(m, p)) : m \in {n \in marriages : p \in {n.husband, n.wife}}}
  IN SetToSortSeq(ranked, Before)

\* What a and b call each other through a spouse of b with the answer `blood`.
InLaw(blood, gender) ==
  [ab |-> IF <<blood.ab.words, gender>> \in DOMAIN AFFINAL_TERMS
          THEN [words |-> AFFINAL_TERMS[<<blood.ab.words, gender>>], sure |-> blood.ab.sure]
          ELSE Hedge({}),
   ba |-> MarriedIn(blood.ba)]
ThroughSpouse(rows, a, b, s, up) == InLaw(BloodAnswer(rows, a, s, up), GenderOf(rows, b))

\* kinship_affinal._candidates: [rank, answer] per spouse of b who is a blood
\* relative of a.
RelatedSpouse(rows, r, indexA) ==
  r[3] \in DOMAIN rows /\ Shared(indexA, AncestorIndex(rows, r[3])) # {}
CandidatesAmong(rows, marriages, a, b, indexA) ==
  LET candidate(r) ==
        [rank |-> <<r[1], r[2]>>,
         answer |-> ThroughSpouse(rows, a, b, r[3],
                                  BestCommonAncestor(indexA, AncestorIndex(rows, r[3])))]
      related == SelectSeq(RankedSpouses(marriages, b), LAMBDA r : RelatedSpouse(rows, r, indexA))
  IN FoldLeft(LAMBDA found, r : Append(found, candidate(r)), <<>>, related)
Candidates(rows, marriages, a, b) ==
  CandidatesAmong(rows, marriages, a, b, AncestorIndex(rows, a))

None == [found |-> FALSE, answer |-> Unrelated]

\* _through_marriage: the first spouse with a word, else the first; in doubt
\* when another marriage of the same rank would give another word.
FirstNamed(found) ==
  IF \E i \in DOMAIN found : found[i].answer.ab.words # {}
  THEN found[Min({i \in DOMAIN found : found[i].answer.ab.words # {}})] ELSE found[1]
Doubted(found, chosen) ==
  \E i \in DOMAIN found :
    found[i].rank = chosen.rank /\ found[i].answer.ab.words # chosen.answer.ab.words
Told(answer, doubted) ==
  IF doubted THEN [ab |-> Hedge(answer.ab.words), ba |-> Hedge(answer.ba.words)] ELSE answer
Choice(found, chosen) == [found |-> TRUE, answer |-> Told(chosen.answer, Doubted(found, chosen))]
ChoiceOf(found) == IF found = <<>> THEN None ELSE Choice(found, FirstNamed(found))
ThroughMarriage(rows, marriages, a, b) == ChoiceOf(Candidates(rows, marriages, a, b))

Mirrored(answer) == [ab |-> answer.ba, ba |-> answer.ab]
Named(way) == way.found /\ way.answer.ab.words # {} /\ way.answer.ba.words # {}

\* affinal: the marriages of b, then those of a; a fully named answer wins.
BetterOf(ofB, ofA) ==
  IF Named(ofB) THEN ofB.answer
  ELSE IF Named(ofA) THEN Mirrored(ofA.answer)
  ELSE IF ofB.found THEN ofB.answer
  ELSE Mirrored(ofA.answer)
Affinal(rows, marriages, a, b) ==
  BetterOf(ThroughMarriage(rows, marriages, a, b), ThroughMarriage(rows, marriages, b, a))

(***************************************************************************)
(* kinship.resolve_kinship, asked by the view a second time with the       *)
(* marriages when there is no blood link.                                  *)
(***************************************************************************)
Resolve(rows, marriages, a, b, shared) ==
  IF a = b THEN Unrelated
  ELSE IF shared # {} THEN BloodAnswer(rows, a, b, NearestOf(shared))
  ELSE IF \E m \in marriages : {m.husband, m.wife} = {a, b}
  THEN [ab |-> SpouseTerm(rows, b), ba |-> SpouseTerm(rows, a)]
  ELSE Affinal(rows, marriages, a, b)

ResolveKinship(rows, marriages, a, b) ==
  Resolve(rows, marriages, a, b, Shared(AncestorIndex(rows, a), AncestorIndex(rows, b)))
================================================================================
