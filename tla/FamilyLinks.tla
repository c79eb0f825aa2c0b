------------------------------ MODULE FamilyLinks ------------------------------
(***************************************************************************)
(* A personal tree linked to the clans its owner belongs to, on top of     *)
(* both: a linked person shows the clan's values, an edit of it goes to    *)
(* the clans, persons are contributed, imported or copied into a new clan, *)
(* and a link that ends leaves the last values behind.                     *)
(***************************************************************************)
EXTENDS ClanTree, FamilyTree

CONSTANTS
  MaxLinks,   \* bound: links ever made
  MaxPairs,   \* bound: pairs confirmed in one request
  Edits,      \* bound: the shared fields (gender, value) an edit gives
  Owner,      \* the user whose personal tree it is
  Scenes      \* initial states: the clans, the tree, the requests to come

ASSUME LinksAssumption == MaxLinks \in Nat

Links == 1..MaxLinks

VARIABLES
  clanState,  \* giapha_clan: "none", "live" or "deleted"
  link,       \* giapha_familypersonlink, in the order of their ids
  linking,    \* POST links between its checks and its insert: the pairs
  detaching,  \* a detach between reading the clan persons and writing
  offers,     \* pending change requests coming from the personal tree
  scene       \* which requests come in this behaviour

linkVars == <<clanState, link, linking, detaching, offers>>
vars == <<clanVars, treeVars, linkVars, left, scene>>

NoLink == [there |-> "none", kin |-> NoKin, clan |-> Nowhere, person |-> NoPerson]
There(l) == link[l].there = "live"
FreshLinks == {l \in Links : link[l].there = "none"}

(***************************************************************************)
(* services/family_clan_field_map: the gender and everything else the two  *)
(* sides share.                                                            *)
(***************************************************************************)
Matching == [male |-> "nam", female |-> "nu", unknown |-> "?"]
ClanToFamily(p) ==
  [gender |-> CHOOSE g \in Genders : Matching[g] = person[p].gender, value |-> person[p].value]
FamilyToClan(shared) == [gender |-> Matching[shared.gender], value |-> shared.value]
Own(f) == [gender |-> kin[f].gender, value |-> kin[f].value]
With(row, shared) == [row EXCEPT !.gender = shared.gender, !.value = shared.value]

(***************************************************************************)
(* selectors/family_link._active and serializers/family_output: what the   *)
(* tree shows.                                                             *)
(***************************************************************************)
IsMember(c) == clanState[c] = "live" /\ member[Owner][c].role # "none"
IsActive(l) == There(l) /\ IsMember(link[l].clan) /\ person[link[l].person].there = "live"
ActiveLinksOf(f) == {l \in Links : IsActive(l) /\ link[l].kin = f}

SourceLink(f) == IF ActiveLinksOf(f) = {} THEN 0 ELSE Min(ActiveLinksOf(f))
Shown(f) == IF SourceLink(f) = 0 THEN Own(f) ELSE ClanToFamily(link[SourceLink(f)].person)

LinksIn(c) == {l \in Links : There(l) /\ link[l].clan = c}
KinOf(p) == {link[l].kin : l \in {m \in Links : There(m) /\ link[m].person = p}}

(***************************************************************************)
(* create_links: all pairs or none, by the two unique indexes and the      *)
(* foreign key to the family person.                                       *)
(***************************************************************************)
Conflict(c, pairsToLink) ==
  \E l \in LinksIn(c), pc \in pairsToLink : link[l].kin = pc[1] \/ link[l].person = pc[2]

\* The rows of a set of ids, numbered with the next ids.
Position(x, S) == Cardinality({y \in S : y <= x})
Numbered(new, fresh) ==
  [x \in new |-> CHOOSE id \in fresh : Position(id, fresh) = Position(x, new)]

WithLinks(c, pairsToLink) ==
  LET idOf == Numbered({fp[1] : fp \in pairsToLink}, FreshLinks)
  IN Over([l \in {idOf[fp[1]] : fp \in pairsToLink} |->
             LET fp == CHOOSE x \in pairsToLink : idOf[x[1]] = l
             IN [there |-> "live", kin |-> fp[1], clan |-> c, person |-> fp[2]]], link)

OneToOne(pairsToLink) ==
  \A x, y \in pairsToLink : x # y => x[1] # y[1] /\ x[2] # y[2]

(* POST links: the caller is a member, both ends are there.                *)
NoLinking == [clan |-> Nowhere, pairs |-> {}]
RequestLinks ==
  /\ linking = NoLinking
  /\ Spend
  /\ \E c \in Clans, n \in 1..MaxPairs :
       \E pairsToLink \in kSubset(n, LiveKin \X PersonsOf(c)) :
         /\ IsMember(c)
         /\ OneToOne(pairsToLink)
         /\ linking' = [clan |-> c, pairs |-> pairsToLink]
  /\ UNCHANGED <<clanVars, treeVars, clanState, link, detaching, offers>>

InsertLinks ==
  LET c == linking.clan
      new == linking.pairs
  IN /\ linking # NoLinking
     /\ IF Conflict(c, new) \/ \E fp \in new : fp[1] \notin LiveKin THEN UNCHANGED link
        ELSE /\ Cardinality(FreshLinks) >= Cardinality(new)
             /\ link' = WithLinks(c, new)
     /\ linking' = NoLinking
     /\ UNCHANGED <<clanVars, treeVars, clanState, detaching, offers, left>>

(***************************************************************************)
(* family_link_detach: the values of the clan persons are read with the    *)
(* links; the snapshot, the removal of the links and what ended them are   *)
(* committed together, later.                                              *)
(***************************************************************************)
NoDetach == [op |-> "none", clan |-> Nowhere, snapshot |-> [l \in {} |-> 0]]
Snapshot(links) == [l \in links |-> ClanToFamily(link[l].person)]

Begin(op, c, links) ==
  /\ detaching = NoDetach
  /\ Spend
  /\ detaching' = [op |-> op, clan |-> c, snapshot |-> Snapshot(links)]
  /\ UNCHANGED <<clanVars, treeVars, clanState, link, linking, offers>>

RequestDetach == \E l \in Links : There(l) /\ Begin("link", link[l].clan, {l})
RequestRemoval == \E c \in Clans : IsMember(c) /\ Begin("member", c, LinksIn(c))
RequestClanDeletion == \E c \in Clans : clanState[c] = "live" /\ Begin("clan", c, LinksIn(c))

\* Mutant: the links go, the values stay what they were before the link.
NotSnapshotted(snapshot) == kin
Snapshotted(snapshot) ==
  [f \in Kin |->
     LET ended == {l \in DOMAIN snapshot : link[l].kin = f}
     IN IF ended = {} \/ f \notin LiveKin THEN kin[f] ELSE With(kin[f], snapshot[Max(ended)])]

WithoutLinks(links) ==
  [l \in Links |-> IF l \in links THEN [link[l] EXCEPT !.there = "gone"] ELSE link[l]]

Detach ==
  LET c == detaching.clan
  IN /\ detaching # NoDetach
     /\ kin' = Snapshotted(detaching.snapshot)
     /\ link' = WithoutLinks(DOMAIN detaching.snapshot)
     /\ member' = IF detaching.op = "member" THEN [member EXCEPT ![Owner][c] = NotAMember] ELSE member
     /\ clanState' = IF detaching.op = "clan" THEN [clanState EXCEPT ![c] = "deleted"] ELSE clanState
     /\ offers' = IF detaching.op = "member" THEN {o \in offers : o.clan # c} ELSE offers
     /\ detaching' = NoDetach
     /\ UNCHANGED <<person, marriage, wed, crossed, answer, pairs, self, work, raced, linking, left>>

(***************************************************************************)
(* The clan changes: an edit by anyone, a soft delete (refused while a     *)
(* row, live or deleted, has the person as a parent).                      *)
(***************************************************************************)
Edited(p, shared) ==
  [With(person[p], FamilyToClan(shared)) EXCEPT !.version = @ + 1]

EditClanPerson ==
  /\ Spend
  /\ \E c \in Clans, shared \in Edits : \E p \in PersonsOf(c) :
       /\ clanState[c] = "live"
       /\ shared # ClanToFamily(p)
       /\ person' = [person EXCEPT ![p] = Edited(p, shared)]
  /\ UNCHANGED <<marriage, member, wed, crossed, answer, treeVars, linkVars>>

DeleteClanPerson ==
  /\ Spend
  /\ \E c \in Clans : \E p \in PersonsOf(c) :
       LET links == {l \in LinksIn(c) : link[l].person = p}
       IN /\ clanState[c] = "live"
          /\ \A q \in Persons : p \notin {person[q].father, person[q].mother}
          /\ person' = [person EXCEPT ![p].there = "deleted", ![p].version = @ + 1]
          /\ kin' = Snapshotted(Snapshot(links))
          /\ link' = WithoutLinks(links)
  /\ UNCHANGED <<marriage, member, wed, crossed, answer, pairs, self, work, raced,
                 clanState, linking, detaching, offers>>

(***************************************************************************)
(* PATCH of a person: an unlinked one on the row; the shared fields of a   *)
(* linked one go to each clan where they differ -- written, in conflict    *)
(* with the version the client gave (outdated), or proposed.               *)
(***************************************************************************)
PatchUnlinked ==
  /\ Spend
  /\ \E f \in LiveKin, shared \in Edits :
       /\ ActiveLinksOf(f) = {}
       /\ kin' = [kin EXCEPT ![f] = With(@, shared)]
  /\ UNCHANGED <<clanVars, pairs, self, work, raced, linkVars>>

Proposal(action, c, p, f, parents, shared) ==
  [action |-> action, clan |-> c, person |-> p, kin |-> f, parents |-> parents, shared |-> shared]

PatchLinked ==
  /\ Spend
  /\ \E f \in LiveKin, shared \in Edits :
     LET differ == {l \in ActiveLinksOf(f) : ClanToFamily(link[l].person) # shared}
         writable == {l \in differ : CanWrite(Owner, link[l].clan, link[l].person)}
     IN \E outdated \in SUBSET writable :
        LET applied == {link[l].person : l \in writable \ outdated}
        IN /\ ActiveLinksOf(f) # {}
           /\ person' = [p \in Persons |-> IF p \in applied THEN Edited(p, shared) ELSE person[p]]
           /\ offers' = offers \cup {Proposal("update", link[l].clan, link[l].person, NoKin, <<>>, shared) :
                                       l \in differ \ writable}
  /\ UNCHANGED <<marriage, member, wed, crossed, answer, treeVars, clanState, link, linking, detaching>>

(***************************************************************************)
(* contribute_person: the stored fields of the row under the given parents *)
(* (those of add-relative are the linked parents): created and linked at   *)
(* once in scope, proposed otherwise.                                      *)
(***************************************************************************)
FreshPersons == {p \in Persons : person[p].there = "unborn"}
BornInto(c, shared, parents) ==
  With([UnbornPerson EXCEPT !.there = "live", !.clan = c, !.father = parents[1], !.mother = parents[2],
                            !.version = 1], FamilyToClan(shared))

CounterpartIn(c, f) ==
  IF \E l \in LinksIn(c) : link[l].kin = f
  THEN link[CHOOSE l \in LinksIn(c) : link[l].kin = f].person ELSE NoPerson
LinkedParents(c, f) == <<CounterpartIn(c, kin[f].father), CounterpartIn(c, kin[f].mother)>>

InScope(c, parents) ==
  CanWriteAny(Owner, c, {parents[1], parents[2]} \ {NoPerson})

Contribute(f, c, parents) ==
  /\ Spend
  /\ IsMember(c)
  /\ CounterpartIn(c, f) = NoPerson
  /\ {parents[1], parents[2]} \subseteq PersonsOf(c) \cup {NoPerson}
  /\ IF InScope(c, parents)
     THEN /\ FreshPersons # {} /\ FreshLinks # {}
          /\ person' = [person EXCEPT ![Min(FreshPersons)] = BornInto(c, Own(f), parents)]
          /\ link' = WithLinks(c, {<<f, Min(FreshPersons)>>})
          /\ UNCHANGED offers
     ELSE /\ offers' = offers \cup {Proposal("create", c, NoPerson, f, parents, Own(f))}
          /\ UNCHANGED <<person, link>>
  /\ UNCHANGED <<marriage, member, wed, crossed, answer, treeVars, clanState, linking, detaching>>

ContributePerson ==
  \E f \in LiveKin, c \in Clans : \E p, q \in PersonsOf(c) \cup {NoPerson} :
    (p # q \/ p = NoPerson) /\ Contribute(f, c, <<p, q>>)
ContributeRelative == \E f \in LiveKin, c \in Clans : Contribute(f, c, LinkedParents(c, f))

(* The approval of such a proposal, a stale one with override_stale (the   *)
(* review itself is ChangeRequests): link_contributed_person links the new *)
(* person when it still can.                                               *)
MayLinkBack(o) ==
  o.kin \in LiveKin /\ IsMember(o.clan) /\ ~Conflict(o.clan, {<<o.kin, NoPerson>>})

ApproveCreation(o) ==
  /\ o.action = "create"
  /\ {o.parents[1], o.parents[2]} \subseteq PersonsOf(o.clan) \cup {NoPerson}
  /\ FreshPersons # {} /\ FreshLinks # {}
  /\ person' = [person EXCEPT ![Min(FreshPersons)] = BornInto(o.clan, o.shared, o.parents)]
  /\ link' = IF MayLinkBack(o) THEN WithLinks(o.clan, {<<o.kin, Min(FreshPersons)>>}) ELSE link

ApproveUpdate(o) ==
  /\ o.action = "update"
  /\ person[o.person].there = "live"
  /\ person' = [person EXCEPT ![o.person] = Edited(o.person, o.shared)]
  /\ UNCHANGED link

Approve ==
  /\ \E o \in offers :
       /\ clanState[o.clan] = "live"
       /\ ApproveCreation(o) \/ ApproveUpdate(o)
       /\ offers' = offers \ {o}
  /\ UNCHANGED <<marriage, member, wed, crossed, answer, treeVars, clanState, linking, detaching, left>>

(***************************************************************************)
(* Import of clan persons: each gets a row and a link; then the edges of   *)
(* the clan between linked persons of which one is new are rebuilt under   *)
(* the rules of the personal tree, in free slots only.                     *)
(***************************************************************************)
ConnectParent(rows, kinOf, child, slot, new) ==
  LET g == Graph(rows, pairs)
      parent == person[child][slot]
  IN IF /\ {child, parent} \subseteq DOMAIN kinOf
        /\ {child, parent} \cap new # {}
        /\ CheckSlotFree(g, kinOf[child], slot, kinOf[parent])
        /\ CheckSetParent(g, kinOf[child], slot, kinOf[parent])
     THEN [rows EXCEPT ![kinOf[child]][slot] = kinOf[parent]] ELSE rows

ConnectParents(rows, c, kinOf, new) ==
  LET connected[i \in 0..(2 * MaxPersons)] ==
        IF i = 0 THEN rows
        ELSE LET child == NthSlot(i)[1]
                 slot == NthSlot(i)[2]
             IN IF child \in PersonsOf(c)
                THEN ConnectParent(connected[i - 1], kinOf, child, slot, new)
                ELSE connected[i - 1]
  IN connected[2 * MaxPersons]

ConnectSpouses(c, kinOf, new) ==
  {{kinOf[marriage[m].husband], kinOf[marriage[m].wife]} :
     m \in {n \in LiveMarriages(c) :
              /\ {marriage[n].husband, marriage[n].wife} \subseteq DOMAIN kinOf
              /\ {marriage[n].husband, marriage[n].wife} \cap new # {}}}

ImportPersons(c, new, born) ==
  LET rows == Over([f \in LiveKin |-> kin[f]],
                   [f \in {born[p] : p \in new} |->
                      With([Unborn EXCEPT !.there = "live"],
                           ClanToFamily(CHOOSE p \in new : born[p] = f))])
      kinOf == Over(born, [p \in {link[l].person : l \in LinksIn(c)} |-> CHOOSE f \in KinOf(p) : TRUE])
      connected == ConnectParents(rows, c, kinOf, new)
  IN /\ kin' = [f \in Kin |-> IF f \in DOMAIN rows THEN connected[f] ELSE kin[f]]
     /\ pairs' = pairs \cup ConnectSpouses(c, kinOf, new)
     /\ link' = WithLinks(c, {<<born[p], p>> : p \in new})

ImportFromClan ==
  /\ Spend
  /\ \E c \in Clans : \E wanted \in SUBSET PersonsOf(c) :
       LET new == wanted \ {link[l].person : l \in LinksIn(c)}
       IN /\ IsMember(c)
          /\ new # {}                              \* otherwise nothing happens
          /\ Cardinality(LiveKin) + Cardinality(new) <= FAMILY_MAX_PERSONS
          /\ Cardinality(new) <= Min({Cardinality(FreshKin), Cardinality(FreshLinks)})
          /\ ImportPersons(c, new, Numbered(new, FreshKin))
  /\ UNCHANGED <<clanVars, self, work, raced, clanState, linking, detaching, offers>>

(***************************************************************************)
(* A new clan from a branch of the tree, with the values the tree shows;   *)
(* everybody copied is linked, the owner bound to the copy of "me".        *)
(***************************************************************************)
CopySet(root) ==
  LET lineage == {root} \cup DescendantsOf(Loaded, root)
  IN lineage \cup UNION {SpousesIn(Loaded, f) : f \in lineage}

HusbandWife(a, b) ==     \* the one assignment of the two, or none
  {hw \in {<<a, b>>, <<b, a>>} :
     /\ Shown(hw[1]).gender \in {"male", "unknown"}
     /\ Shown(hw[2]).gender \in {"female", "unknown"}
     /\ {Shown(a).gender, Shown(b).gender} # {"unknown"}}

Couples(copy) ==
  UNION {HusbandWife(ab[1], ab[2]) : ab \in {xy \in copy \X copy : {xy[1], xy[2]} \in pairs}}

\* One after the other; the wives of a husband are numbered from 1.
Weddings(copy, idOf) ==
  LET couples == SetToSeq(Couples(copy))
      husband(i) == idOf[couples[i][1]]
  IN [i \in DOMAIN couples |->
        [NoMarriage EXCEPT !.there = "live", !.husband = husband(i), !.wife = idOf[couples[i][2]],
           !.order = 1 + Cardinality({j \in 1..(i - 1) : husband(j) = husband(i)})]]

CopyInto(c, copy, idOf, weddings) ==
  LET id(f) == IF f \in copy THEN idOf[f] ELSE NoPerson
      first == Min(FreshMarriages \cup {MaxMarriages + 1})
  IN /\ clanState' = [clanState EXCEPT ![c] = "live"]
     /\ person' = Over([p \in {idOf[f] : f \in copy} |->
                          LET f == CHOOSE x \in copy : idOf[x] = p
                          IN BornInto(c, Shown(f), <<id(kin[f].father), id(kin[f].mother)>>)], person)
     /\ marriage' = [m \in Marriages |->
                       IF m - first + 1 \in DOMAIN weddings THEN weddings[m - first + 1]
                       ELSE marriage[m]]
     /\ member' = [member EXCEPT ![Owner][c] =
                     [NotAMember EXCEPT !.role = "owner", !.node = id(self), !.verified = self \in copy]]
     /\ link' = WithLinks(c, {<<f, idOf[f]>> : f \in copy})

BootstrapClan ==
  /\ Spend
  /\ \E c \in Clans, root \in LiveKin :
       LET copy == CopySet(root)
           idOf == Numbered(copy, FreshPersons)
       IN /\ clanState[c] = "none"
          /\ Cardinality(copy) <= Min({Cardinality(FreshPersons), Cardinality(FreshLinks)})
          /\ Cardinality(Couples(copy)) <= Cardinality(FreshMarriages)
          /\ CopyInto(c, copy, idOf, Weddings(copy, idOf))
  /\ UNCHANGED <<wed, crossed, answer, treeVars, linking, detaching, offers>>

\* DELETE of a person; its links go with it (on_delete=CASCADE).
DeletePerson ==
  /\ Spend
  /\ \E f \in LiveKin :
       /\ DeleteRow(f)
       /\ link' = WithoutLinks({l \in Links : There(l) /\ link[l].kin = f})
  /\ UNCHANGED <<clanVars, work, raced, clanState, linking, detaching, offers>>

-----------------------------------------------------------------------------
(***************************************************************************)
(* A behaviour is one scene: a question to the calculator, the marriages   *)
(* of a clan, a personal tree on its own, or one linked to clans.          *)
(***************************************************************************)
\* The rows are all there, a husband is, wives of one husband differ in order;
\* both ends of a link are there, a person has one link to a clan, and link ids
\* are given out in order; parents in a tree are there, and nobody is their own
\* ancestor.
SceneOK(s) ==
  /\ DOMAIN s.person = Persons /\ \A p \in Persons : DOMAIN s.person[p] = DOMAIN UnbornPerson
  /\ DOMAIN s.marriage = Marriages /\ \A m \in Marriages : DOMAIN s.marriage[m] = DOMAIN NoMarriage
  /\ DOMAIN s.link = Links /\ \A l \in Links : DOMAIN s.link[l] = DOMAIN NoLink
  /\ \A m \in Marriages : s.marriage[m].there = "live" =>
       /\ s.marriage[m].husband \in Persons
       /\ s.person[s.marriage[m].husband].there # "unborn"
  /\ \A m, n \in Marriages :
       /\ m # n /\ s.marriage[m].there = "live" /\ s.marriage[n].there = "live"
       /\ s.marriage[m].husband = s.marriage[n].husband
       => s.marriage[m].order # s.marriage[n].order
  /\ DOMAIN s.clanState = Clans /\ Owner \in DOMAIN s.member /\ DOMAIN s.member[Owner] = Clans
  /\ \A l \in Links : s.link[l].there = "live" =>
       LET at == s.link[l]
       IN /\ at.kin \in Kin /\ s.kin[at.kin].there = "live"
          /\ at.clan \in Clans /\ s.clanState[at.clan] # "none"
          /\ at.person \in Persons /\ s.person[at.person].there # "unborn"
          /\ s.person[at.person].clan = at.clan
  /\ \A l, m \in Links :
       /\ l # m /\ s.link[l].there = "live" /\ s.link[m].there = "live" /\ s.link[l].kin = s.link[m].kin
       => s.link[l].clan # s.link[m].clan
  /\ \A l, m \in Links : s.link[l].there = "none" /\ s.link[m].there # "none" => m < l
  /\ DOMAIN s.kin = Kin /\ \A f \in Kin : DOMAIN s.kin[f] = DOMAIN Unborn
  /\ LET live == {f \in Kin : s.kin[f].there = "live"}
         parents == [f \in live |-> {s.kin[f].father, s.kin[f].mother} \ {NoKin}]
     IN \A f \in live : parents[f] \subseteq live /\ f \notin Descendants(parents, f)
ASSUME ScenesAssumption == \A s \in Scenes : SceneOK(s)

Init ==
  \E s \in Scenes :
    /\ scene = s.scene /\ left = s.left
    /\ person = s.person /\ marriage = s.marriage /\ member = s.member
    /\ wed = [k \in Clerks |-> NoRequest] /\ crossed = {} /\ answer = NoAnswer
    /\ kin = s.kin /\ pairs = {} /\ self = s.self
    /\ work = [r \in Relaters |-> NoWork] /\ raced = FALSE
    /\ clanState = s.clanState /\ link = s.link
    /\ linking = NoLinking /\ detaching = NoDetach /\ offers = {}

MarriageRequest(k) ==
  \/ Spend /\ (ReceiveCreate(k) \/ ReceiveUpdate(k) \/ ReceiveDelete(k))
  \/ (InsertMarriage(k) \/ SaveMarriage(k) \/ DropMarriage(k)) /\ UNCHANGED left

TreeRequest ==
  \/ \E r \in Relaters :
       \/ RequestSetParent(r) \/ RequestLinkSpouse(r) \/ RequestUnlinkSpouse(r)
       \/ RequestLinkChild(r) \/ RequestAddRelative(r) \/ RequestCreate(r)
       \/ CommitPlan(r)
  \/ PatchPerson
  \/ PutSelf
  \/ \E raw \in RawTrees, me \in {1, MaxKin + 1} : Import(raw, me)   \* in the upload, or not

LinkRequest ==
  \/ RequestLinks \/ InsertLinks
  \/ RequestDetach \/ RequestRemoval \/ RequestClanDeletion \/ Detach
  \/ EditClanPerson \/ DeleteClanPerson
  \/ PatchUnlinked \/ PatchLinked
  \/ ContributePerson \/ ContributeRelative \/ Approve
  \/ ImportFromClan \/ BootstrapClan

Next ==
  /\ \/ scene = "kinship" /\ answer = NoAnswer /\ Ask /\ UNCHANGED <<treeVars, left, linkVars>>
     \/ scene = "marriages" /\ \E k \in Clerks : MarriageRequest(k) /\ UNCHANGED <<treeVars, linkVars>>
     \/ scene = "tree" /\ TreeRequest /\ UNCHANGED <<clanVars, linkVars>>
     \/ scene = "links" /\ LinkRequest
     \/ scene \in {"tree", "links"} /\ DeletePerson
  /\ UNCHANGED scene

Spec == Init /\ [][Next]_vars

-----------------------------------------------------------------------------
(***************************************************************************)
(* What the tree shows of a person changes only by the owner's own edit,   *)
(* by an edit of the clan person it is shown from, or by a link that is    *)
(* new or takes over from one that ended.  Whatever ends a link -- the     *)
(* owner, a removal, the deletion of the clan or of the clan person --     *)
(* "the user's own tree keeps the last values it showed, and never falls   *)
(* back to stale pre-link data" (selectors/family_link_detach.py).         *)
(*                                                                         *)
(* Overtaken: a detach reads its links before its transaction writes, and  *)
(* the clan person was edited, the link ended or another was made in       *)
(* between; or the link was made after its owner, clan or clan person had  *)
(* gone.                                                                   *)
(***************************************************************************)
Overtaken(f) ==
  \/ \E l \in DOMAIN detaching.snapshot :
       /\ link[l].kin = f
       /\ ~There(l) \/ detaching.snapshot[l] # ClanToFamily(link[l].person)
  \/ \E l \in Links : There(l) /\ link[l].kin = f /\ ~IsActive(l)
  \/ \E l \in Links \ DOMAIN detaching.snapshot :
       There(l) /\ link[l].kin = f /\ link[l].clan = detaching.clan

StillLinked(f) == SourceLink(f) = SourceLink(f)' /\ SourceLink(f) # 0
TakenOver(f) == SourceLink(f)' # 0 /\ (SourceLink(f) = 0 \/ link'[SourceLink(f)].there = "gone")
ClanEdited(f) ==
  StillLinked(f) /\ person'[link[SourceLink(f)].person] # person[link[SourceLink(f)].person]

TreeKeepsWhatItShowed ==
  [][\A f \in LiveKin :
       f \in LiveKin' /\ Shown(f)' # Shown(f)
       => PatchPerson \/ PatchUnlinked \/ ClanEdited(f) \/ TakenOver(f) \/ Overtaken(f)]_vars
=============================================================================
