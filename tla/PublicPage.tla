------------------------------ MODULE PublicPage ------------------------------
(***************************************************************************)
(* The public page of a clan: the secret link its owner turns on and off   *)
(* (views/clan.py) and what a visitor without an account is shown through  *)
(* it (views/public.py, selectors/public.py).                              *)
(*                                                                         *)
(* Nothing is locked.  A request of the owner reads the clan's row and     *)
(* writes later -- PATCH every column of the row it read, the others only  *)
(* their own.  A visit reads the clan, then who is living, then the rows   *)
(* of the living and of the dead.                                          *)
(***************************************************************************)
EXTENDS ClanTree

CONSTANTS
  PublicClan,         \* the clan with the page
  MAX_CLAN_PERSONS,   \* settings: persons on a page
  NameOf,             \* names, as sequences of words, a word as its letters
  DeathFacts,         \* bound: the death facts an edit records
  Tabs,               \* requests of the owner that may be in flight at once
  MaxCalls            \* bound: requests and edits to come

ASSUME NamesAssumption == NameOf \in [Persons -> Seq(Seq(STRING))]

VARIABLES
  site,       \* the clan's row: there, slug (0 is NULL), visible, hide
  minted,     \* slugs generated so far; a new one differs from all of them
  death,      \* giapha_person.death_solar, death_lunar_day, death_lunar_month
  tabs,       \* the owner's requests in flight, with the row each has read
  visit,      \* a visit between its queries
  page,       \* the last page served
  ended,      \* slugs that no longer led to the clan at some time
  restored,   \* a PATCH has saved a row that had changed since it was read
  calls       \* bound: requests and edits still to come

siteVars == <<site, minted, ended, restored, tabs>>
pageVars == <<siteVars, death, visit, page, calls>>

-----------------------------------------------------------------------------
(* selectors/public._is_living: dead only by a solar date or by both lunar *)
(* day and month.                                                          *)
\* Mutant: any death fact makes a person dead, as in the members' tree.
IsLivingUnmarked(d) == ~(d.solar \/ d.day \/ d.month)
IsLiving(d) == ~d.solar /\ ~(d.day /\ d.month)

\* services/public_name.
Placeholder == << <<"(", ")">> >>
AbbreviateName(name) ==
  IF name = <<>> THEN name
  ELSE IF Len(Last(name)) <= 1 THEN Placeholder
  ELSE Append(Front(name), <<Head(Last(name)), ".">>)
PublicDisplayName(name, living, hide) ==
  IF living /\ hide THEN AbbreviateName(name) ELSE name

\* services/public_tree, a node, and public_person, the sheet of one person:
\* `details` are the other names, the dates, the biography and the photo.
PublicNode(p, living, hide) ==
  [id |-> p, living |-> living, details |-> ~living,
   name |-> PublicDisplayName(NameOf[p], living, hide)]
PublicPerson(p, living, hide) ==
  IF living THEN [id |-> p, living |-> TRUE, details |-> FALSE,
                  name |-> PublicDisplayName(NameOf[p], TRUE, hide)]
            ELSE [id |-> p, living |-> FALSE, details |-> TRUE, name |-> NameOf[p]]
PublicEdges(ids) ==
  {edge \in ids \X ids : edge[1] \in {person[edge[2]].father, person[edge[2]].mother}}

-----------------------------------------------------------------------------
(* The owner's requests.                                                   *)
\* Mutant: a deleted clan is still found.
LeadsToDeleted(row, slug) == row.slug = slug /\ row.visible
\* selectors/clan.get_clan_by_public_slug.
LeadsTo(row, slug) == row.slug = slug /\ row.visible /\ row.there

NoTab == [op |-> "idle", row |-> [there |-> FALSE, slug |-> 0, visible |-> FALSE, hide |-> TRUE],
          alone |-> TRUE]
Waiting == {t \in Tabs : tabs[t] # NoTab}
Call == calls > 0 /\ calls' = calls - 1

OwnerRequest(t) ==
  /\ tabs[t] = NoTab
  /\ site.there
  /\ Call
  /\ \E op \in {"patch", "enable", "revoke", "delete"} :
       tabs' = [u \in Tabs |-> IF u = t THEN [op |-> op, row |-> site, alone |-> Waiting = {}]
                               ELSE IF tabs[u] = NoTab THEN NoTab ELSE [tabs[u] EXCEPT !.alone = FALSE]]
  /\ UNCHANGED <<site, minted, ended, restored, death, visit, page>>

Write(t, row) ==
  /\ site' = row
  /\ ended' = ended \cup (IF site.slug # 0 /\ ~(row.slug = site.slug /\ row.visible /\ row.there)
                          THEN {site.slug} ELSE {})
  /\ tabs' = [tabs EXCEPT ![t] = NoTab]
  /\ UNCHANGED <<death, visit, page, calls>>

PatchClan(t) ==
  /\ tabs[t].op = "patch"
  /\ \E hide \in BOOLEAN : Write(t, [tabs[t].row EXCEPT !.hide = hide])
  /\ restored' = (restored \/ ~tabs[t].alone)
  /\ UNCHANGED minted
EnableLink(t) ==
  /\ tabs[t].op = "enable"
  /\ minted' = minted + 1
  /\ Write(t, [site EXCEPT !.slug = minted + 1, !.visible = TRUE])
  /\ UNCHANGED restored
RevokeLink(t) ==
  /\ tabs[t].op = "revoke"
  /\ Write(t, [site EXCEPT !.slug = 0, !.visible = FALSE])
  /\ UNCHANGED <<minted, restored>>
DeleteClan(t) ==
  /\ tabs[t].op = "delete"
  /\ Write(t, [site EXCEPT !.there = FALSE])
  /\ UNCHANGED <<minted, restored>>

-----------------------------------------------------------------------------
(* A visit, and the edits of the clan's persons around it.                 *)
DeathOnRecord(d) == d.solar \/ (d.day /\ d.month)

NoVisit == [op |-> "none", slug |-> 0, hide |-> TRUE, late |-> FALSE,
            dead |-> {}, living |-> {}, onRecord |-> {}]
NoPage == [visit |-> NoVisit, nodes |-> {}, edges |-> {}]

\* Any other slug is answered 404.
Lookup ==
  /\ visit = NoVisit
  /\ Call
  /\ \E slug \in 1..minted, op \in {"tree", "person"} :
       /\ LeadsTo(site, slug)
       /\ visit' = [NoVisit EXCEPT !.op = op, !.slug = slug, !.hide = site.hide,
                      !.late = slug \in ended,
                      !.onRecord = {p \in Persons : DeathOnRecord(death[p])}]
  /\ UNCHANGED <<siteVars, death, page>>

FirstIds(ids) == {p \in ids : Cardinality({q \in ids : q < p}) < MAX_CLAN_PERSONS}
Classified(ids) ==
  [visit EXCEPT !.op = IF @ = "tree" THEN "tree_rows" ELSE "person_row",
                !.living = {p \in ids : IsLiving(death[p])},
                !.dead = {p \in ids : ~IsLiving(death[p])}]
ClassifyTree ==
  /\ visit.op = "tree"
  /\ visit' = Classified(FirstIds(PersonsOf(PublicClan)))
  /\ UNCHANGED <<siteVars, death, page, calls>>
\* Any other person is answered 404.
ClassifyPerson ==
  /\ visit.op = "person"
  /\ \E p \in PersonsOf(PublicClan) : visit' = Classified({p})
  /\ UNCHANGED <<siteVars, death, page, calls>>

\* The rows are read by id, whatever was edited in between.
ServeTree ==
  /\ visit.op = "tree_rows"
  /\ page' = [visit |-> visit,
              nodes |-> {PublicNode(p, TRUE, visit.hide) : p \in visit.living}
                          \cup {PublicNode(p, FALSE, visit.hide) : p \in visit.dead},
              edges |-> PublicEdges(visit.living \cup visit.dead)]
  /\ visit' = NoVisit
  /\ UNCHANGED <<siteVars, death, calls>>
ServePerson ==
  /\ visit.op = "person_row"
  /\ page' = [visit |-> visit, edges |-> {},
              nodes |-> {PublicPerson(p, p \in visit.living, visit.hide) : p \in visit.living \cup visit.dead}]
  /\ visit' = NoVisit
  /\ UNCHANGED <<siteVars, death, calls>>

RecordDeath ==
  /\ Call
  /\ \E p \in PersonsOf(PublicClan), d \in DeathFacts :
       /\ death' = [death EXCEPT ![p] = d]
       /\ visit' = IF visit = NoVisit \/ ~DeathOnRecord(d) THEN visit
                   ELSE [visit EXCEPT !.onRecord = @ \cup {p}]
  /\ UNCHANGED <<siteVars, page>>

PageInit ==
  /\ site = [there |-> TRUE, slug |-> 0, visible |-> FALSE, hide |-> TRUE]
  /\ minted = 0 /\ ended = {} /\ restored = FALSE /\ calls = MaxCalls
  /\ death = [p \in Persons |-> [solar |-> FALSE, day |-> FALSE, month |-> FALSE]]
  /\ tabs = [t \in Tabs |-> NoTab]
  /\ visit = NoVisit /\ page = NoPage

PageNext ==
  \/ \E t \in Tabs : OwnerRequest(t) \/ PatchClan(t) \/ EnableLink(t) \/ RevokeLink(t) \/ DeleteClan(t)
  \/ Lookup \/ ClassifyTree \/ ClassifyPerson \/ ServeTree \/ ServePerson
  \/ RecordDeath

(* The page alone, whatever becomes of the tree meanwhile.                 *)
PageSpec == PageInit /\ [][PageNext]_pageVars

-----------------------------------------------------------------------------
(***************************************************************************)
(* A link that was turned off, replaced, or went with its clan never opens *)
(* a page again: "there is no 'restore the old link' path" (views/clan.py) *)
(* -- unless a PATCH of the clan overlapped with another request of the    *)
(* owner: it saves the slug, the visibility and is_deleted it had read.    *)
(***************************************************************************)
EndedLinkStaysDead == page.visit.late => restored

(***************************************************************************)
(* A page tells no more of a person than the hidden name, unless a         *)
(* complete death was on record at some time during the visit, whatever    *)
(* was edited between its queries; "a person with only death_lunar_month   *)
(* must still read as living" (selectors/public.py).  Of a hidden name the *)
(* given name is never whole, unless it is on record as an initial ("A.",  *)
(* which the guard of public_name.py lets through).                        *)
(***************************************************************************)
IsInitial(word) == Len(word) = 2 /\ word[2] = "."
GivenNameHidden(n) ==
  \/ n.name = <<>>
  \/ Last(n.name) # Last(NameOf[n.id])
  \/ IsInitial(Last(NameOf[n.id]))
LivingStayHidden ==
  \A n \in page.nodes :
    n.id \notin page.visit.onRecord => ~n.details /\ (page.visit.hide => GivenNameHidden(n))
=============================================================================
