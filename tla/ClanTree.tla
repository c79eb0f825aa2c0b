------------------------------- MODULE ClanTree -------------------------------
(***************************************************************************)
(* The tree of a clan as its members see and write it: who may write whom  *)
(* (permissions_scope, services/family_scope.py), the marriages, written   *)
(* without a lock by several workers (views/marriage.py,                   *)
(* selectors/marriage_write.py), and the forms of address the tree gives   *)
(* (views/kinship.py).                                                     *)
(*                                                                         *)
(* The writes of persons and of members are those of PersonWrites and      *)
(* ClanMembership; here both only change through the links of FamilyLinks. *)
(***************************************************************************)
EXTENDS Kinship, Genealogy

CONSTANTS
  MaxPersons,     \* bound: persons ever created in the clans
  MaxMarriages,   \* bound: marriages ever created
  MaxOrder,       \* bound: the orders given in a request
  Statuses,       \* bound: the statuses given in a request
  Clans, Users,
  Clerks          \* workers serving marriage requests

ASSUME ClansAssumption == MaxPersons \in Nat /\ MaxMarriages \in Nat

Persons == 1..MaxPersons
Marriages == 1..MaxMarriages
NoPerson == 0
Nowhere == "nowhere"

VARIABLES
  person,     \* giapha_person of all clans
  marriage,   \* giapha_marriage
  member,     \* giapha_clanmember: the membership of a user in a clan
  wed,        \* the marriage request each clerk serves
  crossed,    \* husbands on whom two marriage requests were in flight at once
  answer      \* the last answer of the kinship calculator

clanVars == <<person, marriage, member, wed, crossed, answer>>

UnbornPerson == [there |-> "unborn", clan |-> Nowhere, gender |-> "?", order |-> 0,
                 father |-> NoPerson, mother |-> NoPerson, value |-> "new", version |-> 0]
NoMarriage == [there |-> "none", husband |-> NoPerson, wife |-> NoPerson, order |-> 0,
               status |-> "dang_ket_hon"]
NotAMember == [role |-> "none", root |-> NoPerson, node |-> NoPerson, verified |-> FALSE]
PersonsOf(c) == {p \in Persons : person[p].there = "live" /\ person[p].clan = c}
Married == {m \in Marriages : marriage[m].there = "live"}
LiveMarriages(c) == {m \in Married : {marriage[m].husband, marriage[m].wife} \subseteq PersonsOf(c)}

(***************************************************************************)
(* selectors/scope.scope_graph and services/family_scope.                  *)
(***************************************************************************)
TreeOf(c) == [p \in PersonsOf(c) |-> {person[p].father, person[p].mother} \ {NoPerson}]
SubtreeIds(tree, root) == {root} \cup Descendants(tree, root)

Partners(p) ==
  {Partner(marriage[m], p) : m \in {n \in Married : p \in {marriage[n].husband, marriage[n].wife}}}
WithSpouses(ids) == ids \cup UNION {Partners(p) : p \in ids}

VerifiedNodes(c) ==
  {member[u][c].node : u \in {v \in Users : member[v][c].verified}} \ {NoPerson}

BranchScope(tree, root) ==
  IF root \in DOMAIN tree THEN WithSpouses(SubtreeIds(tree, root)) ELSE {}

FamilyScope(tree, p, verified) ==
  IF p \notin DOMAIN tree THEN {}
  ELSE LET parents == tree[p] \cap DOMAIN tree
           siblings == {q \in DOMAIN tree \ {p} : tree[q] \cap parents # {}}
       IN WithSpouses(SubtreeIds(tree, p)) \cup parents \cup (siblings \ verified)

(* permissions_scope.writable_ids_for_member; the whole clan is everybody. *)
WholeClan(m) == m.role \in {"owner", "manager"} \/ (m.role = "editor" /\ m.root = NoPerson)
ScopeOf(m, c) ==
  (IF m.role = "editor" THEN BranchScope(TreeOf(c), m.root) ELSE {})
  \cup (IF m.role # "none" /\ m.verified /\ m.node # NoPerson
        THEN FamilyScope(TreeOf(c), m.node, VerifiedNodes(c)) ELSE {})
CanWrite(u, c, p) == WholeClan(member[u][c]) \/ p \in ScopeOf(member[u][c], c)
CanWriteAny(u, c, ids) == WholeClan(member[u][c]) \/ ids \cap ScopeOf(member[u][c], c) # {}

\* selectors/scope.is_unattached.
IsUnattached(p) ==
  /\ person[p].there = "live"
  /\ person[p].father = NoPerson /\ person[p].mother = NoPerson
  /\ Partners(p) = {}

\* Mutant: one partner within the scope is enough.
MayMarryAny(u, c, husband, wife) == CanWriteAny(u, c, {husband, wife})
\* require_marriage_write.
MayMarry(u, c, husband, wife) ==
  \/ WholeClan(member[u][c])
  \/ LET inside == {husband, wife} \cap ScopeOf(member[u][c], c)
     IN inside # {} /\ \A p \in {husband, wife} \ inside : IsUnattached(p)

(***************************************************************************)
(* The marriage requests: what a request reads and checks is one step,     *)
(* its write another.                                                      *)
(***************************************************************************)
NoRequest == [op |-> "idle", by |-> "nobody", m |-> 0, row |-> NoMarriage, alone |-> TRUE]
InFlight == {k \in Clerks : wed[k] # NoRequest}
InFlightOn(h) == {k \in InFlight : wed[k].row.husband = h}

\* Mutant: only the marriages that still hold are looked at.
OrdersOfCurrent(h) ==
  {marriage[m].order : m \in {n \in Married : marriage[n].husband = h
                                              /\ marriage[n].status # "ly_hon"}}
OrdersOf(h) == {marriage[m].order : m \in {n \in Married : marriage[n].husband = h}}

NextOrder(h) == 1 + Max({0} \cup OrdersOf(h))
OrdersOfOthers(m) ==
  {marriage[n].order : n \in {o \in Married \ {m} : marriage[o].husband = marriage[m].husband}}

Receive(k, op, u, m, row) ==
  /\ wed[k] = NoRequest
  /\ wed' = [j \in Clerks |->
               IF j = k THEN [op |-> op, by |-> u, m |-> m, row |-> row, alone |-> InFlight = {}]
               ELSE IF wed[j] = NoRequest THEN NoRequest ELSE [wed[j] EXCEPT !.alone = FALSE]]
  /\ crossed' = crossed \cup (IF InFlightOn(row.husband) # {} THEN {row.husband} ELSE {})
  /\ UNCHANGED <<person, marriage, member, answer>>

ReceiveCreate(k) ==
  \E u \in Users, c \in Clans, status \in Statuses :
  \E h, w \in PersonsOf(c), order \in 0..MaxOrder :
    LET given == IF order = 0 THEN NextOrder(h) ELSE order
    IN /\ h # w
       /\ member[u][c].role # "none"
       /\ MayMarry(u, c, h, w)
       /\ given \notin OrdersOf(h)
       /\ Receive(k, "create", u, 0, [there |-> "live", husband |-> h, wife |-> w,
                                      order |-> given, status |-> status])

ReceiveUpdate(k) ==
  \E u \in Users, c \in Clans, status \in Statuses :
  \E m \in LiveMarriages(c), order \in 0..MaxOrder :
    /\ CanWriteAny(u, c, {marriage[m].husband, marriage[m].wife})
    /\ order # 0 => order \notin OrdersOfOthers(m)
    /\ Receive(k, "update", u, m,
               [marriage[m] EXCEPT !.status = status, !.order = IF order = 0 THEN @ ELSE order])

ReceiveDelete(k) ==
  \E u \in Users, c \in Clans : \E m \in LiveMarriages(c) :
    /\ CanWriteAny(u, c, {marriage[m].husband, marriage[m].wife})
    /\ Receive(k, "delete", u, m, marriage[m])

Finished(k) == wed' = [wed EXCEPT ![k] = NoRequest] /\ UNCHANGED <<person, member, crossed, answer>>

FreshMarriages == {m \in Marriages : marriage[m].there = "none"}
SamePair(row, except) ==     \* unique_together = ('husband', 'wife')
  \E m \in Married \ {except} : marriage[m].husband = row.husband /\ marriage[m].wife = row.wife

InsertMarriage(k) ==
  /\ wed[k].op = "create"
  /\ IF SamePair(wed[k].row, 0) THEN UNCHANGED marriage      \* 400
     ELSE /\ FreshMarriages # {}
          /\ marriage' = [marriage EXCEPT ![Min(FreshMarriages)] = wed[k].row]
  /\ Finished(k)

\* marriage.save() writes every column of the row it read, and inserts the
\* row again when it was deleted meanwhile.
SaveMarriage(k) ==
  /\ wed[k].op = "update"
  /\ IF SamePair(wed[k].row, wed[k].m) THEN UNCHANGED marriage
     ELSE marriage' = [marriage EXCEPT ![wed[k].m] = wed[k].row]
  /\ Finished(k)

DropMarriage(k) ==
  /\ wed[k].op = "delete"
  /\ marriage' = [marriage EXCEPT ![wed[k].m] = [NoMarriage EXCEPT !.there = "gone"]]
  /\ Finished(k)

(***************************************************************************)
(* views/kinship.py: clan_kinship_rows, clan_spouse_pairs and the answer.  *)
(***************************************************************************)
NoAnswer == [a |-> NoPerson, b |-> NoPerson, ab |-> Hedge({}), ba |-> Hedge({})]

KinshipRows(c) ==
  [p \in PersonsOf(c) |-> [gender |-> person[p].gender, order |-> person[p].order,
                           father |-> person[p].father, mother |-> person[p].mother]]
SpousePairs(c) == {marriage[m] : m \in {n \in LiveMarriages(c) : marriage[n].status # "ly_hon"}}

Ask ==
  /\ \E c \in Clans : \E a, b \in PersonsOf(c) :
       answer' = [a |-> a, b |-> b] @@ ResolveKinship(KinshipRows(c), SpousePairs(c), a, b)
  /\ UNCHANGED <<person, marriage, member, wed, crossed>>

-----------------------------------------------------------------------------
(***************************************************************************)
(* Two marriages of one husband never share an order (1 is the first       *)
(* wife): the kinship answers are ranked by it.  Divorced wives keep       *)
(* theirs.  Only when two marriage requests of the husband overlap can     *)
(* both pass the check (selectors/marriage_write.py).                      *)
(***************************************************************************)
WivesInOrder ==
  \A m, n \in Married :
    /\ m # n
    /\ marriage[m].husband = marriage[n].husband
    /\ marriage[m].husband \notin crossed
    => marriage[m].order # marriage[n].order

(***************************************************************************)
(* A member whose writes are limited to a scope widens it, by a marriage,  *)
(* only with somebody who had no tie in the clan: "a marriage must never   *)
(* pull an existing relative into scope" (permissions_scope.py) -- unless  *)
(* another marriage request came in between.                               *)
(***************************************************************************)
NewInScope(u, c) == ScopeOf(member[u][c], c)' \ ScopeOf(member[u][c], c)
MarriageAddsOnlyNewcomers ==
  [][\A k \in Clerks, c \in Clans, u \in Users :
       /\ wed[k].op = "create" /\ wed[k].by = u /\ wed[k].alone
       /\ wed'[k] = NoRequest
       /\ member[u][c].role # "none" /\ ~WholeClan(member[u][c])
       => \A p \in NewInScope(u, c) : IsUnattached(p)]_<<wed, marriage>>

(***************************************************************************)
(* The words are those of the family tree itself: for blood relatives, of  *)
(* a nearest pair of lines of descent that meet; otherwise of a marriage   *)
(* of one of the two, a current one before a widowed one, the first wife   *)
(* before the second, as long as it has a word.  Hazard: the breadth-first *)
(* walk keeps side and branch of one path to an ancestor reached by many.  *)
(***************************************************************************)
LinesUp(rows, p) ==
  LET above(line) == IF Last(line) \notin DOMAIN rows THEN {}
                     ELSE {rows[Last(line)].father, rows[Last(line)].mother} \ (ToSet(line) \cup {0})
      lines[n \in 0..Cardinality(DOMAIN rows)] ==
        IF n = 0 THEN {<<p>>}
        ELSE LET known == lines[n - 1]
             IN known \cup {Append(pair[1], pair[2]) :
                              pair \in {lq \in known \X UNION {above(l) : l \in known} :
                                          lq[2] \in above(lq[1])}}
  IN lines[Cardinality(DOMAIN rows)]

LineEntry(rows, line) ==
  [id |-> Last(line), depth |-> Len(line) - 1,
   side |-> IF Len(line) = 1 THEN Null
            ELSE IF rows[line[1]].father = line[2] THEN "noi" ELSE "ngoai",
   via |-> IF Len(line) = 1 THEN 0 ELSE line[Len(line) - 1]]

EntriesUp(rows, p) == {LineEntry(rows, line) : line \in LinesUp(rows, p)}
Nearest(meeting) ==
  {up \in meeting : \A other \in meeting : up[1].depth + up[2].depth <= other[1].depth + other[2].depth}
BloodLinks(rows, a, b) == Nearest(Shared(EntriesUp(rows, a), EntriesUp(rows, b)))

ThroughMarriagesOf(rows, marriages, a, b) ==
  LET ways == UNION {{[rank |-> Rank(m), answer |-> ThroughSpouse(rows, a, b, Partner(m, b), up)] :
                         up \in BloodLinks(rows, a, Partner(m, b))} :
                       m \in {n \in marriages : b \in {n.husband, n.wife}}}
      worded == {way \in ways : way.answer.ab.words # {}}
      choice == IF worded = {} THEN ways ELSE worded
  IN {way.answer : way \in {w \in choice : \A other \in choice : ~Before(other.rank, w.rank)}}

Words(ans) == <<ans.ab.words, ans.ba.words>>
WordsOfTree(rows, marriages, a, b) ==
  IF a = b THEN {<<{}, {}>>}
  ELSE IF BloodLinks(rows, a, b) # {}
  THEN {Words(BloodAnswer(rows, a, b, up)) : up \in BloodLinks(rows, a, b)}
  ELSE IF \E m \in marriages : {m.husband, m.wife} = {a, b}
  THEN {<<SpouseTerm(rows, b).words, SpouseTerm(rows, a).words>>}
  ELSE {Words(w) : w \in ThroughMarriagesOf(rows, marriages, a, b)}
       \cup {Words(Mirrored(w)) : w \in ThroughMarriagesOf(rows, marriages, b, a)}

AskedIn(c) == answer # NoAnswer /\ answer.a \in PersonsOf(c)
KinshipMatchesTree ==
  \A c \in Clans : AskedIn(c) =>
    LET told == WordsOfTree(KinshipRows(c), SpousePairs(c), answer.a, answer.b)
    IN IF told = {} THEN Words(answer) = <<{}, {}>> ELSE Words(answer) \in told

(***************************************************************************)
(* "Never guess" and "an honest hedge" (kinship_lookup.py): a sure word    *)
(* stays the word whatever the missing genders and birth orders turn out   *)
(* to be, and a hedge lists exactly the words that could then come out.    *)
(* An equal birth order of two siblings counts as missing.                 *)
(***************************************************************************)
CONSTANT BirthOrders     \* the birth orders a missing one may turn out to be

Siblings(rows, p, q) ==
  p # q /\ ({rows[p].father, rows[p].mother} \cap {rows[q].father, rows[q].mother}) \ {0} # {}
OpenOrders(rows) ==
  {p \in DOMAIN rows : \E q \in DOMAIN rows :
     Siblings(rows, p, q) /\ (rows[p].order = 0 \/ rows[p].order = rows[q].order)}
OpenGenders(rows) == {p \in DOMAIN rows : rows[p].gender = "?"}
Completions(rows) ==
  LET filled(gender, order) ==
        [p \in DOMAIN rows |->
           [rows[p] EXCEPT !.gender = IF p \in DOMAIN gender THEN gender[p] ELSE @,
                           !.order = IF p \in DOMAIN order THEN order[p] ELSE @]]
  IN {full \in {filled(gender, order) : gender \in [OpenGenders(rows) -> {"nam", "nu"}],
                                        order \in [OpenOrders(rows) -> BirthOrders]} :
        OpenOrders(full) = {}}

Honest(entry, outcomes) ==
  entry.words # {} =>
    IF entry.sure THEN \A e \in outcomes : e.words = entry.words
    ELSE entry.words = UNION {e.words : e \in outcomes}

HedgesAreHonest ==
  \A c \in Clans : AskedIn(c) =>
    LET rows == KinshipRows(c)
        answers == {ResolveKinship(full, SpousePairs(c), answer.a, answer.b) :
                      full \in Completions(rows)}
    IN /\ Honest(answer.ab, {ans.ab : ans \in answers})
       /\ Honest(answer.ba, {ans.ba : ans \in answers})
================================================================================
