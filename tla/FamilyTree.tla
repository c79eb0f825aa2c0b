------------------------------ MODULE FamilyTree ------------------------------
(***************************************************************************)
(* The personal tree of one user (/v1/family): services/family_graph.py    *)
(* and family_rules.py decide, views/family_link_flow.py composes,         *)
(* selectors/family_write.py writes.                                       *)
(*                                                                         *)
(* A relation request loads the whole tree, works on the loaded graph and  *)
(* commits the writes it planned in one transaction, with no lock: other   *)
(* requests may commit between its load and its commit.  A request that    *)
(* the rules reject writes nothing and is left out.                        *)
(***************************************************************************)
EXTENDS Integers, FiniteSets, Sequences, SequencesExt, Genealogy

CONSTANTS
  MaxKin,               \* bound: persons ever created in the tree
  FAMILY_MAX_PERSONS,   \* settings: persons in a tree
  Values,               \* the other shared fields of a person
  Relaters,             \* requests on the tree that may be in flight at once
  RawTrees              \* on-device trees uploaded once: sequences of persons

ASSUME KinAssumption == MaxKin \in Nat
ASSUME UploadAssumption ==      \* an upload has room in the tree
  \A raw \in RawTrees : Len(raw) \in 0..MaxKin /\ DOMAIN raw = 1..Len(raw)

Kin == 1..MaxKin
NoKin == 0
Slots == {"father", "mother"}
Genders == {"male", "female", "unknown"}

VARIABLES
  kin,       \* giapha_familyperson, in creation order
  pairs,     \* giapha_familyspouse
  self,      \* Family.self_person
  work,      \* the writes each relation request in flight has planned
  raced,     \* two relation requests have been in flight at once
  left       \* bound: requests still to come

treeVars == <<kin, pairs, self, work, raced>>

Unborn == [there |-> "unborn", gender |-> "unknown", value |-> CHOOSE v \in Values : TRUE,
           father |-> NoKin, mother |-> NoKin]
LiveKin == {p \in Kin : kin[p].there = "live"}

(***************************************************************************)
(* family_graph.FamilyGraph of the loaded rows, with what the request has  *)
(* planned so far: `sets` the parent slots, `joined` and `parted` the      *)
(* spouse pairs, `born` the persons to insert.                             *)
(***************************************************************************)
EmptyFn == [x \in {} |-> NoKin]
Over(f, g) == [x \in DOMAIN f \cup DOMAIN g |-> IF x \in DOMAIN f THEN f[x] ELSE g[x]]
Graph(rows, spouses) ==
  [kin |-> rows, pairs |-> spouses, sets |-> EmptyFn, joined |-> {}, parted |-> {}, born |-> {},
   ok |-> TRUE]
Loaded == Graph([p \in LiveKin |-> kin[p]], pairs)

OtherSlot(slot) == IF slot = "father" THEN "mother" ELSE "father"
SlotForParent(gender) == IF gender = "female" THEN "mother" ELSE "father"
Fits(gender, slot) == gender # (IF slot = "father" THEN "female" ELSE "male")

Has(g, p) == p \in DOMAIN g.kin
HasAnyParent(g, p) == g.kin[p].father # NoKin \/ g.kin[p].mother # NoKin
Kids(g, p) == {c \in DOMAIN g.kin : p \in {g.kin[c].father, g.kin[c].mother}}
SpousesIn(g, p) == UNION {pair \ {p} : pair \in {q \in g.pairs : p \in q}}
CoParents(g, p) ==
  UNION {{g.kin[c].father, g.kin[c].mother} : c \in Kids(g, p)} \ {p, NoKin}
PartnersOf(g, p) == SpousesIn(g, p) \cup CoParents(g, p)

ParentSets(g) == [p \in DOMAIN g.kin |-> {g.kin[p].father, g.kin[p].mother} \ {NoKin}]
DescendantsOf(g, p) == Descendants(ParentSets(g), p)

WithParent(g, c, slot, p) ==
  [g EXCEPT !.kin[c][slot] = p, !.sets = Over([s \in {<<c, slot>>} |-> p], @)]
Rejected(g) == [g EXCEPT !.ok = FALSE]
Require(g, allowed, next) == IF g.ok /\ allowed THEN next ELSE Rejected(g)

(***************************************************************************)
(* family_rules.                                                           *)
(***************************************************************************)
\* Mutant: a descendant is accepted as a parent.
CheckSetParentOnly(g, c, slot, p) == c # p /\ Has(g, p) /\ Fits(g.kin[p].gender, slot)
CheckSetParent(g, c, slot, p) ==
  c # p /\ Has(g, p) /\ Fits(g.kin[p].gender, slot) /\ p \notin DescendantsOf(g, c)

CheckSlotFree(g, c, slot, p) == g.kin[c][slot] \in {NoKin, p}

OtherParentCandidates(g, parent, c, slot) ==
  {p \in PartnersOf(g, parent) :
     p # c /\ Fits(g.kin[p].gender, slot) /\ p \notin DescendantsOf(g, c)}

\* pick_other_parent: as a set with at most one element; never a guess.
PickOtherParent(candidates, requested) ==
  IF requested # NoKin THEN candidates \cap {requested}
  ELSE IF Cardinality(candidates) = 1 THEN candidates ELSE {}

HeldSlot(g, c, p) == IF g.kin[c].father = p THEN "father" ELSE "mother"

\* Mutant: the slot is taken without a look whether it is empty.
FirstSpouseTakes(g, p, partner) ==
  IF SpousesIn(g, p) # {} THEN {}
  ELSE {c \in Kids(g, p) : /\ c # partner
                           /\ Fits(g.kin[partner].gender, OtherSlot(HeldSlot(g, c, p)))
                           /\ partner \notin DescendantsOf(g, c)}
\* The children of p whose empty slot p's first spouse fills.
FirstSpouseFills(g, p, partner) ==
  IF SpousesIn(g, p) # {} THEN {}
  ELSE {c \in Kids(g, p) :
          LET empty == OtherSlot(HeldSlot(g, c, p))
          IN /\ g.kin[c][empty] = NoKin
             /\ c # partner
             /\ Fits(g.kin[partner].gender, empty)
             /\ partner \notin DescendantsOf(g, c)}

(***************************************************************************)
(* family_link_flow.                                                       *)
(***************************************************************************)
Joined(g, a, b) == [g EXCEPT !.pairs = @ \cup {{a, b}}, !.joined = @ \cup {{a, b}}]

FillAll(g, children, p, partner) ==
  LET empty(c) == OtherSlot(HeldSlot(g, c, p))
  IN [g EXCEPT !.kin = [c \in DOMAIN g.kin |->
                          IF c \in children THEN [g.kin[c] EXCEPT ![empty(c)] = partner] ELSE g.kin[c]],
               !.sets = Over([s \in {<<c, empty(c)>> : c \in children} |-> partner], @)]

LinkSpouse(g, a, b) ==
  LET ofA == FirstSpouseFills(g, a, b)     \* both before the link is recorded
      ofB == FirstSpouseFills(g, b, a)
  IN FillAll(FillAll(Joined(g, a, b), ofA, a, b), ofB, b, a)

\* A child with both parents makes a couple of them.
MarryParents(g, c) ==
  LET f == g.kin[c].father
      m == g.kin[c].mother
  IN IF NoKin \in {f, m} \/ f = m \/ {f, m} \in g.pairs THEN g ELSE LinkSpouse(g, f, m)

MarryIfOk(g, c) == IF g.ok THEN MarryParents(g, c) ELSE g

SetParent(g, c, slot, p) ==
  IF p = NoKin THEN WithParent(g, c, slot, NoKin)
  ELSE MarryIfOk(Require(g, CheckSetParent(g, c, slot, p), WithParent(g, c, slot, p)), c)

FillSlot(g, c, slot, picked) ==
  IF picked = {} THEN g ELSE WithParent(g, c, slot, CHOOSE p \in picked : TRUE)

FillOtherParent(g, parent, c, requested) ==
  LET empty == OtherSlot(HeldSlot(g, c, parent))
  IN IF g.kin[c][empty] # NoKin THEN g
     ELSE FillSlot(g, c, empty, PickOtherParent(OtherParentCandidates(g, parent, c, empty), requested))

FillIfOk(g, parent, c, requested) == IF g.ok THEN FillOtherParent(g, parent, c, requested) ELSE g

LinkChild(g, parent, c, other) ==
  LET slot == SlotForParent(g.kin[parent].gender)
      linked == Require(g, CheckSetParent(g, c, slot, parent) /\ CheckSlotFree(g, c, slot, parent),
                        WithParent(g, c, slot, parent))
  IN MarryIfOk(FillIfOk(linked, parent, c, other), c)

CopySlot(g, from, to, slot) ==
  IF g.kin[from][slot] = NoKin THEN g ELSE WithParent(g, to, slot, g.kin[from][slot])
CopyParents(g, from, to) == CopySlot(CopySlot(g, from, to, "father"), from, to, "mother")

CreatePerson(g, new, gender) ==
  Require(g, Cardinality(DOMAIN g.kin) < FAMILY_MAX_PERSONS,
    LET row == [Unborn EXCEPT !.there = "live", !.gender = gender]
    IN [g EXCEPT !.kin = Over([p \in {new} |-> row], @), !.born = {<<new, row>>}])

\* check_add_relative.
MayAdd(g, anchor, kind, gender) ==
  /\ kind \in Slots => g.kin[anchor][kind] = NoKin /\ Fits(gender, kind)
  /\ kind = "sibling" => HasAnyParent(g, anchor)

Attach(g, anchor, kind, new, other) ==
  CASE kind \in Slots -> SetParent(g, anchor, kind, new)
    [] kind = "spouse" -> LinkSpouse(g, anchor, new)
    [] kind = "child" -> LinkChild(g, anchor, new, other)
    [] kind = "sibling" -> CopyParents(g, anchor, new)
    [] OTHER -> g

AttachIfOk(g, anchor, kind, new, other) == IF g.ok THEN Attach(g, anchor, kind, new, other) ELSE g

AddRelative(g, anchor, kind, gender, other, new) ==
  AttachIfOk(Require(g, MayAdd(g, anchor, kind, gender), CreatePerson(g, new, gender)),
             anchor, kind, new, other)

(***************************************************************************)
(* family_labels.plan_link and auto_link_by_label: a new person linked by  *)
(* the label "what this person is to me", as <<anchor, kind>>.             *)
(***************************************************************************)
NoPlan == <<NoKin, "none">>
Labels == {"none", "father", "mother", "spouse", "child", "sibling",
           "ong noi", "ba noi", "ong ngoai", "ba ngoai"}

PlanParent(g, child, slot, gender) ==
  IF child # NoKin /\ g.kin[child][slot] = NoKin /\ Fits(gender, slot)
  THEN <<child, slot>> ELSE NoPlan

PlanLink(g, me, label, gender) ==
  IF ~Has(g, me) THEN NoPlan
  ELSE CASE label \in Slots -> PlanParent(g, me, label, gender)
         [] label = "ong noi" -> PlanParent(g, g.kin[me].father, "father", gender)
         [] label = "ba noi" -> PlanParent(g, g.kin[me].father, "mother", gender)
         [] label = "ong ngoai" -> PlanParent(g, g.kin[me].mother, "father", gender)
         [] label = "ba ngoai" -> PlanParent(g, g.kin[me].mother, "mother", gender)
         [] label \in {"spouse", "child"} -> <<me, label>>
         [] label = "sibling" /\ HasAnyParent(g, me) -> <<me, label>>
         [] OTHER -> NoPlan

\* A rule failure while linking undoes the link (savepoint), not the person.
LinkedOrNot(created, linked) == IF created.ok /\ ~linked.ok THEN created ELSE linked

AutoLink(created, plan, new) ==
  LinkedOrNot(created, AttachIfOk(created, plan[1], plan[2], new, NoKin))

CreateStandalone(g, me, label, gender, new) ==
  AutoLink(CreatePerson(g, new, gender), PlanLink(g, me, label, gender), new)

(***************************************************************************)
(* The relation requests: each loads, plans, and commits later.            *)
(***************************************************************************)
NoWork == [op |-> "idle", sets |-> EmptyFn, joined |-> {}, parted |-> {}, born |-> {}, target |-> <<>>]
Working == {r \in Relaters : work[r] # NoWork}
FreshKin == {p \in Kin : kin[p].there = "unborn"
                         /\ \A r \in Relaters : \A b \in work[r].born : b[1] # p}
NewKin == CHOOSE p \in FreshKin : \A q \in FreshKin : p <= q

Plan(r, op, target, g) ==
  /\ work[r] = NoWork
  /\ left > 0
  /\ g.ok
  /\ left' = left - 1
  /\ work' = [work EXCEPT ![r] = [op |-> op, sets |-> g.sets, joined |-> g.joined,
                                  parted |-> g.parted, born |-> g.born, target |-> target]]
  /\ raced' = (raced \/ Working # {})
  /\ UNCHANGED <<kin, pairs, self>>

RequestSetParent(r) ==
  \E c \in LiveKin, slot \in Slots, p \in LiveKin \cup {NoKin} :
    Plan(r, "set", <<c, slot>>, SetParent(Loaded, c, slot, p))

RequestLinkSpouse(r) ==
  \E a, b \in LiveKin : a # b /\ Plan(r, "spouse", <<>>, LinkSpouse(Loaded, a, b))

RequestUnlinkSpouse(r) ==
  \E a, b \in LiveKin :
    a # b /\ Plan(r, "unlink", <<>>, [Loaded EXCEPT !.parted = {{a, b}}])

RequestLinkChild(r) ==
  \E p, c \in LiveKin, other \in LiveKin \cup {NoKin} :
    Plan(r, "child", <<>>, LinkChild(Loaded, p, c, other))

RequestAddRelative(r) ==
  \E anchor \in LiveKin, kind \in Slots \cup {"spouse", "child", "sibling"},
     gender \in Genders, other \in LiveKin \cup {NoKin} :
    /\ FreshKin # {}
    /\ kind # "child" => other = NoKin
    /\ Plan(r, "add", <<>>, AddRelative(Loaded, anchor, kind, gender, other, NewKin))

RequestCreate(r) ==
  \E label \in Labels, gender \in Genders :
    /\ FreshKin # {}
    /\ Plan(r, "create", <<>>, CreateStandalone(Loaded, self, label, gender, NewKin))

\* A foreign key to a person deleted since the load fails the transaction; a
\* write to a deleted row is a no-op (queryset.update).
StillThere(w) ==
  LET known == LiveKin \cup {b[1] : b \in w.born}
  IN /\ \A k \in DOMAIN w.sets : k[1] \in known => w.sets[k] \in known \cup {NoKin}
     /\ UNION w.joined \subseteq known

Inserted(w, p) == {b[2] : b \in {c \in w.born : c[1] = p}}
RowAfter(w, p) ==
  LET row == IF Inserted(w, p) # {} THEN CHOOSE n \in Inserted(w, p) : TRUE ELSE kin[p]
      parent(slot) == IF <<p, slot>> \in DOMAIN w.sets THEN w.sets[<<p, slot>>] ELSE row[slot]
  IN IF row.there # "live" THEN row
     ELSE [row EXCEPT !.father = parent("father"), !.mother = parent("mother")]

CommitPlan(r) ==
  /\ work[r] # NoWork
  /\ IF StillThere(work[r])
     THEN /\ kin' = [p \in Kin |-> RowAfter(work[r], p)]
          /\ pairs' = (pairs \ work[r].parted) \cup work[r].joined
     ELSE UNCHANGED <<kin, pairs>>
  /\ work' = [work EXCEPT ![r] = NoWork]
  /\ UNCHANGED <<self, raced, left>>

(***************************************************************************)
(* The requests that are one statement or one locked transaction.          *)
(***************************************************************************)
Spend == left > 0 /\ left' = left - 1

\* PATCH of the draft fields of a person; the slots the person holds are not
\* looked at when the gender changes.
PatchPerson ==
  /\ Spend
  /\ \E p \in LiveKin, gender \in Genders : kin' = [kin EXCEPT ![p].gender = gender]
  /\ UNCHANGED <<pairs, self, work, raced>>

WithoutKin(rows, p) ==
  [q \in Kin |-> IF q = p THEN [Unborn EXCEPT !.there = "deleted"]
                 ELSE [rows[q] EXCEPT !.father = IF @ = p THEN NoKin ELSE @,
                                      !.mother = IF @ = p THEN NoKin ELSE @]]

DeleteRow(p) ==
  /\ kin' = WithoutKin(kin, p)
  /\ pairs' = {pair \in pairs : p \notin pair}
  /\ self' = IF self = p THEN NoKin ELSE self

PutSelf ==
  /\ Spend
  /\ \E p \in LiveKin \cup {NoKin} :
       /\ p # NoKin => self \in {NoKin, p}
       /\ self' = p
  /\ UNCHANGED <<kin, pairs, work, raced>>

\* A bad field never rejects an uploaded person: it is repaired.
Normalized(p) ==
  [Unborn EXCEPT !.there = "live", !.gender = IF p.gender \in Genders THEN p.gender ELSE "unknown"]

\* The uploaded references are taken in order, the broken ones dropped; a
\* parent slot of the upload is a position, or a dangling one.
NthSlot(i) == <<(i + 1) \div 2, IF i % 2 = 1 THEN "father" ELSE "mother">>
TakeParent(rows, c, slot, p) ==
  IF p # NoKin /\ CheckSetParent(Graph(rows, {}), c, slot, p) THEN [rows EXCEPT ![c][slot] = p] ELSE rows
PlanParents(raw) ==
  LET planned[i \in 0..(2 * Len(raw))] ==
        IF i = 0 THEN [c \in DOMAIN raw |-> Normalized(raw[c])]
        ELSE LET c == NthSlot(i)[1]
                 slot == NthSlot(i)[2]
             IN TakeParent(planned[i - 1], c, slot, raw[c][slot])
  IN planned[2 * Len(raw)]
PlanSpouses(raw) ==
  {{ij[1], ij[2]} : ij \in {two \in (DOMAIN raw) \X (DOMAIN raw) :
                              two[1] # two[2] /\ two[2] \in raw[two[1]].spouses}}
PlanImport(raw, me) ==
  [kin |-> PlanParents(raw), pairs |-> PlanSpouses(raw),
   self |-> IF me \in DOMAIN raw THEN me ELSE NoKin]

WriteImport(plan) ==
  /\ kin' = [p \in Kin |-> IF p \in DOMAIN plan.kin THEN plan.kin[p] ELSE kin[p]]
  /\ pairs' = plan.pairs
  /\ self' = plan.self

\* The same upload again is answered without a write, another one refused.
Import(raw, me) ==
  /\ LiveKin = {}
  /\ FreshKin = Kin                \* bound: the upload is the first thing to happen
  /\ WriteImport(PlanImport(raw, me))
  /\ UNCHANGED <<work, raced, left>>

-----------------------------------------------------------------------------
(***************************************************************************)
(* Nobody is their own ancestor in a personal tree, whatever is deleted,   *)
(* renamed or uploaded between the load and the commit of a relation       *)
(* request -- as long as no two relation requests have overlapped, which   *)
(* nothing in the code prevents (views/family_relations.py).               *)
(***************************************************************************)
FamilyIsAcyclic == raced \/ \A p \in LiveKin : p \notin DescendantsOf(Loaded, p)

(***************************************************************************)
(* A recorded parent gives way only to an explicit choice of another one   *)
(* for that very slot (relations/set-parent) or to the deletion of that    *)
(* parent: no side effect of a marriage, of a new child or of a label      *)
(* replaces or clears a parent, unless relation requests overlapped.       *)
(***************************************************************************)
SlotKept(c, slot) ==
  LET p == kin[c][slot]
  IN \/ p = NoKin
     \/ kin'[c].there # "live"
     \/ kin'[c][slot] = p
     \/ kin'[p].there # "live"
     \/ \E r \in Relaters : work[r].target = <<c, slot>> /\ work'[r] = NoWork
NoSilentReplacement ==
  [][raced \/ \A c \in LiveKin : \A slot \in Slots : SlotKept(c, slot)]_<<kin, work, raced>>
================================================================================
