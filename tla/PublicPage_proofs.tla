--------------------------- MODULE PublicPage_proofs ---------------------------
(***************************************************************************)
(* What the public page of a clan guarantees for any number of requests of *)
(* the owner in flight, slugs, persons and names, whatever becomes of the  *)
(* tree meanwhile.                                                         *)
(*                                                                         *)
(* The link: a slug is ended for good because every new one is larger than *)
(* all before, and a request that has been alone since it read the clan    *)
(* still holds the row that is in the table (AloneIsFresh).  The persons:  *)
(* whom a visit takes for dead was recorded dead at some time since it     *)
(* began (DeadOnRecord), and the names of the others are abbreviated.      *)
(***************************************************************************)
EXTENDS PublicPage, TLAPS

Rows == [there : BOOLEAN, slug : 0..minted, visible : BOOLEAN, hide : BOOLEAN]
Requested == [op : {"idle", "patch", "enable", "revoke", "delete"}, row : Rows, alone : BOOLEAN]

SlugsOK ==
  /\ minted \in Nat /\ ended \subseteq 1..minted
  /\ site \in Rows /\ tabs \in [Tabs -> Requested] /\ restored \in BOOLEAN

(* A request that has been alone since it read the clan holds its row.     *)
AloneIsFresh ==
  \A t \in Tabs :
    tabs[t] # NoTab /\ tabs[t].alone =>
      tabs[t].row = site /\ \A u \in Tabs \ {t} : tabs[u] = NoTab

OpenIsNotEnded == ~restored => \A slug \in ended : ~LeadsTo(site, slug)

LateIsRestored == (visit.late => restored) /\ (page.visit.late => restored)

VisitColumns == {"op", "slug", "hide", "late", "dead", "living", "onRecord"}

DeadOnRecord ==
  /\ DOMAIN death = Persons /\ VisitColumns \subseteq DOMAIN visit
  /\ visit.living \subseteq Persons
  /\ visit # NoVisit =>
       \A p \in Persons : DeathOnRecord(death[p]) => p \in visit.onRecord
  /\ visit.dead \subseteq visit.onRecord

LinkInv == SlugsOK /\ AloneIsFresh /\ OpenIsNotEnded /\ LateIsRestored
VisitInv == DeadOnRecord /\ LivingStayHidden

LEMMA NoTabOK == minted \in Nat => NoTab \in Requested
BY DEF NoTab, Requested, Rows

LEMMA NoVisitOK ==
  /\ ~NoVisit.late /\ NoVisit.op = "none" /\ NoVisit.living = {} /\ NoVisit.dead = {}
  /\ VisitColumns \subseteq DOMAIN NoVisit
  /\ ~NoPage.visit.late /\ NoPage.nodes = {}
BY DEF NoVisit, NoPage, VisitColumns

LEMMA InitLink == PageInit => LinkInv
<1> SUFFICES ASSUME PageInit PROVE LinkInv
  OBVIOUS
<1>1. /\ site = [there |-> TRUE, slug |-> 0, visible |-> FALSE, hide |-> TRUE]
      /\ minted = 0 /\ ended = {} /\ restored = FALSE
      /\ tabs = [t \in Tabs |-> NoTab] /\ visit = NoVisit /\ page = NoPage
  BY DEF PageInit
<1>2. SlugsOK
  <2>1. minted \in Nat /\ ended \subseteq 1..minted /\ restored \in BOOLEAN
    BY <1>1
  <2>2. site \in Rows
    BY <1>1 DEF Rows
  <2>3. tabs \in [Tabs -> Requested]
    BY <1>1, <2>1, NoTabOK
  <2> QED
    BY <2>1, <2>2, <2>3 DEF SlugsOK
<1> QED
  BY <1>1, <1>2, NoVisitOK DEF LinkInv, AloneIsFresh, OpenIsNotEnded, LateIsRestored

-----------------------------------------------------------------------------
(* The link.                                                               *)

LEMMA RequestLink == ASSUME LinkInv, NEW t \in Tabs, OwnerRequest(t) PROVE LinkInv'
<1>0. SlugsOK /\ AloneIsFresh
  BY DEF LinkInv
<1>1. PICK op \in {"patch", "enable", "revoke", "delete"} :
       tabs' = [u \in Tabs |-> IF u = t THEN [op |-> op, row |-> site, alone |-> Waiting = {}]
                               ELSE IF tabs[u] = NoTab THEN NoTab
                               ELSE [tabs[u] EXCEPT !.alone = FALSE]]
  BY DEF OwnerRequest
<1>2. UNCHANGED <<site, minted, ended, restored, death, visit, page>> /\ tabs[t] = NoTab
  BY DEF OwnerRequest
<1>3. minted \in Nat /\ site \in Rows /\ \A u \in Tabs : tabs[u] \in Requested
  BY <1>0 DEF SlugsOK
<1>4. ASSUME NEW u \in Tabs, u # t, tabs[u] # NoTab
      PROVE  tabs'[u] \in Requested /\ ~tabs'[u].alone
  BY <1>1, <1>3, <1>4 DEF Requested
<1>5. /\ tabs'[t] \in Requested /\ tabs'[t].row = site
      /\ tabs'[t].alone => Waiting = {}
  BY <1>1, <1>3 DEF Requested
<1>6. \A u \in Tabs : u # t /\ tabs[u] = NoTab => tabs'[u] = NoTab
  BY <1>1
<1>7. SlugsOK'
  <2>1. \A u \in Tabs : tabs'[u] \in Requested
    BY <1>3, <1>4, <1>5, <1>6, NoTabOK
  <2>2. tabs' \in [Tabs -> Requested]
    BY <1>1, <2>1
  <2> QED
    BY <1>0, <1>2, <2>2 DEF SlugsOK, Requested, Rows
<1>8. AloneIsFresh'
  BY <1>2, <1>4, <1>5, <1>6 DEF AloneIsFresh, Waiting
<1> QED
  BY <1>2, <1>7, <1>8 DEF LinkInv, OpenIsNotEnded, LeadsTo, LateIsRestored

(* A row is written: its slug is new or none, or the row is the old one    *)
(* but for what visitors never follow, or the history says it is restored. *)
LEMMA WriteLink ==
  ASSUME LinkInv, NEW t \in Tabs, tabs[t] # NoTab, NEW row, Write(t, row),
         minted' \in {minted, minted + 1}, restored' \in BOOLEAN,
         row \in [there : BOOLEAN, slug : 0..minted', visible : BOOLEAN, hide : BOOLEAN],
         restored => restored',
         \/ restored'
         \/ row.slug = 0
         \/ row.slug = minted' /\ minted' = minted + 1
         \/ row.slug = site.slug /\ (row.visible => site.visible) /\ (row.there => site.there)
  PROVE  LinkInv'
<1>0. /\ minted \in Nat /\ ended \subseteq 1..minted /\ site \in Rows
      /\ tabs \in [Tabs -> Requested] /\ AloneIsFresh
  BY DEF LinkInv, SlugsOK
<1>1. /\ site' = row /\ tabs' = [tabs EXCEPT ![t] = NoTab] /\ UNCHANGED <<visit, page>>
      /\ ended' = ended \cup (IF site.slug # 0 /\ ~(row.slug = site.slug /\ row.visible /\ row.there)
                              THEN {site.slug} ELSE {})
  BY DEF Write
<1>2. minted' \in Nat /\ minted <= minted'
  BY <1>0
<1>3. Rows \subseteq Rows' /\ row \in Rows'
  BY <1>0, <1>2 DEF Rows
<1>4. Requested \subseteq Requested'
  BY <1>3 DEF Requested
<1>5. tabs' \in [Tabs -> Requested']
  BY <1>0, <1>1, <1>4, NoTabOK
<1>6. ended' \subseteq 1..minted'
  <2>1. 1..minted \subseteq 1..minted' /\ site.slug \in 0..minted
    BY <1>0, <1>2 DEF Rows
  <2>2. site.slug # 0 => site.slug \in 1..minted
    BY <1>0, <2>1
  <2> QED
    BY <1>0, <1>1, <2>1, <2>2
<1>7. SlugsOK'
  BY <1>1, <1>2, <1>3, <1>5, <1>6 DEF SlugsOK
(* Whoever else is waiting is not alone.                                   *)
<1>8. AloneIsFresh'
  <2>1. \A u \in Tabs \ {t} : tabs'[u] = tabs[u]
    BY <1>0, <1>1
  <2>2. tabs'[t] = NoTab
    BY <1>0, <1>1
  <2> QED
    BY <1>0, <2>1, <2>2 DEF AloneIsFresh
<1>9. OpenIsNotEnded'
  <2> SUFFICES ASSUME ~restored', NEW slug \in ended', row.slug = slug, row.visible, row.there
               PROVE  FALSE
    BY <1>1 DEF OpenIsNotEnded, LeadsTo
  <2>1. ~restored /\ slug # 0 /\ slug \in Nat
    BY <1>0, <1>6, <1>2
  <2>2. CASE row.slug = minted' /\ minted' = minted + 1
    BY <1>0, <1>1, <2>1, <2>2 DEF Rows
  <2>3. CASE row.slug = site.slug /\ (row.visible => site.visible) /\ (row.there => site.there)
    BY <1>1, <2>1, <2>3 DEF LinkInv, OpenIsNotEnded, LeadsTo
  <2> QED
    BY <2>1, <2>2, <2>3
<1>10. LateIsRestored'
  BY <1>1 DEF LinkInv, LateIsRestored
<1> QED
  BY <1>7, <1>8, <1>9, <1>10 DEF LinkInv

LEMMA OwnerLink ==
  ASSUME LinkInv, NEW t \in Tabs, PatchClan(t) \/ EnableLink(t) \/ RevokeLink(t) \/ DeleteClan(t)
  PROVE  LinkInv'
<1>0. /\ minted \in Nat /\ site \in Rows /\ restored \in BOOLEAN
      /\ tabs[t] \in Requested /\ AloneIsFresh
  BY DEF LinkInv, SlugsOK
<1>1. tabs[t] # NoTab
  BY DEF PatchClan, EnableLink, RevokeLink, DeleteClan, NoTab
<1>2. CASE PatchClan(t)
  <2>1. PICK hide \in BOOLEAN : Write(t, [tabs[t].row EXCEPT !.hide = hide])
    BY <1>2 DEF PatchClan
  <2>2. PICK old \in Rows : old = tabs[t].row
    BY <1>0 DEF Requested
  <2>3. PICK row : row = [old EXCEPT !.hide = hide]
    OBVIOUS
  <2>4. /\ row \in Rows /\ row.slug = old.slug /\ row.visible = old.visible
        /\ row.there = old.there
    BY <2>3 DEF Rows
  <2>5. minted' = minted /\ restored' = (restored \/ ~tabs[t].alone) /\ tabs[t].alone \in BOOLEAN
    BY <1>0, <1>2 DEF PatchClan, Requested
  <2>6. restored' \/ old = site
    BY <1>0, <1>1, <2>2, <2>5 DEF AloneIsFresh
  <2>7. row \in [there : BOOLEAN, slug : 0..minted', visible : BOOLEAN, hide : BOOLEAN]
    BY <2>4, <2>5 DEF Rows
  <2> QED
    BY <1>0, <1>1, <2>1, <2>2, <2>3, <2>4, <2>5, <2>6, <2>7, WriteLink
<1>3. CASE EnableLink(t)
  <2>1. PICK row : row = [site EXCEPT !.slug = minted + 1, !.visible = TRUE]
    OBVIOUS
  <2>2. /\ Write(t, row) /\ minted' = minted + 1 /\ restored' = restored
    BY <1>3, <2>1 DEF EnableLink
  <2>3. /\ row \in [there : BOOLEAN, slug : 0..minted', visible : BOOLEAN, hide : BOOLEAN]
        /\ row.slug = minted'
    <3>1. minted + 1 \in 0..minted' /\ minted' = minted + 1
      BY <1>0, <2>2
    <3>2. PICK old : old = site /\ old \in Rows
      BY <1>0
    <3> QED
      BY <2>1, <3>1, <3>2 DEF Rows
  <2> QED
    BY <1>0, <1>1, <2>2, <2>3, WriteLink
<1>4. CASE RevokeLink(t)
  <2>1. PICK row : row = [site EXCEPT !.slug = 0, !.visible = FALSE]
    OBVIOUS
  <2>2. /\ Write(t, row) /\ minted' = minted /\ restored' = restored
    BY <1>4, <2>1 DEF RevokeLink
  <2>3. /\ row \in [there : BOOLEAN, slug : 0..minted', visible : BOOLEAN, hide : BOOLEAN]
        /\ row.slug = 0
    <3>1. 0 \in 0..minted' /\ minted' = minted
      BY <1>0, <2>2
    <3>2. PICK old : old = site /\ old \in Rows
      BY <1>0
    <3> QED
      BY <2>1, <3>1, <3>2 DEF Rows
  <2> QED
    BY <1>0, <1>1, <2>2, <2>3, WriteLink
<1>5. CASE DeleteClan(t)
  <2>1. PICK row : row = [site EXCEPT !.there = FALSE]
    OBVIOUS
  <2>2. /\ Write(t, row) /\ minted' = minted /\ restored' = restored
    BY <1>5, <2>1 DEF DeleteClan
  <2>3. /\ row \in [there : BOOLEAN, slug : 0..minted', visible : BOOLEAN, hide : BOOLEAN]
        /\ row.slug = site.slug /\ row.visible = site.visible /\ ~row.there
    BY <1>0, <2>1, <2>2 DEF Rows
  <2> QED
    BY <1>0, <1>1, <2>2, <2>3, WriteLink
<1> QED
  BY <1>2, <1>3, <1>4, <1>5

LEMMA LinkUntouched ==
  ASSUME LinkInv, UNCHANGED siteVars, LateIsRestored' PROVE LinkInv'
BY DEF LinkInv, siteVars, SlugsOK, Rows, Requested, AloneIsFresh, OpenIsNotEnded, LeadsTo

LEMMA VisitLink ==
  ASSUME LinkInv, VisitColumns \subseteq DOMAIN visit,
         Lookup \/ ClassifyTree \/ ClassifyPerson \/ ServeTree \/ ServePerson \/ RecordDeath
  PROVE  LinkInv'
<1>0. LateIsRestored /\ UNCHANGED siteVars
  BY DEF LinkInv, Lookup, ClassifyTree, ClassifyPerson, ServeTree, ServePerson, RecordDeath
<1>1. CASE Lookup
  <2>1. PICK slug \in 1..minted, op \in {"tree", "person"} :
          /\ LeadsTo(site, slug)
          /\ visit' = [NoVisit EXCEPT !.op = op, !.slug = slug, !.hide = site.hide,
                         !.late = slug \in ended,
                         !.onRecord = {p \in Persons : DeathOnRecord(death[p])}]
    BY <1>1 DEF Lookup
  <2>2. visit'.late => slug \in ended
    BY <2>1 DEF NoVisit
  <2>3. slug \in ended => restored
    BY <2>1 DEF LinkInv, OpenIsNotEnded
  <2>4. page' = page /\ restored' = restored
    BY <1>0, <1>1 DEF Lookup, siteVars
  <2>5. LateIsRestored'
    BY <1>0, <2>2, <2>3, <2>4 DEF LateIsRestored
  <2> QED
    BY <1>0, <2>5, LinkUntouched
<1>2. CASE ClassifyTree \/ ClassifyPerson \/ RecordDeath
  <2>1. visit'.late = visit.late /\ page' = page
    BY <1>2 DEF ClassifyTree, ClassifyPerson, RecordDeath, Classified, VisitColumns
  <2> QED
    BY <1>0, <2>1, LinkUntouched DEF LateIsRestored, siteVars
<1>3. CASE ServeTree \/ ServePerson
  <2>1. CASE ServeTree
    BY <2>1, <1>0, NoVisitOK, LinkUntouched DEF ServeTree, LateIsRestored, siteVars
  <2>2. CASE ServePerson
    BY <2>2, <1>0, NoVisitOK, LinkUntouched DEF ServePerson, LateIsRestored, siteVars
  <2> QED
    BY <1>3, <2>1, <2>2
<1> QED
  BY <1>1, <1>2, <1>3

(* The link is safe at every step of the page.                             *)
LEMMA NextLink == ASSUME LinkInv, DeadOnRecord, [PageNext]_pageVars PROVE LinkInv'
<1>1. CASE UNCHANGED pageVars
  BY <1>1, LinkUntouched DEF pageVars, siteVars, LinkInv, LateIsRestored
<1>2. ASSUME NEW t \in Tabs,
             OwnerRequest(t) \/ PatchClan(t) \/ EnableLink(t) \/ RevokeLink(t) \/ DeleteClan(t)
      PROVE  LinkInv'
  BY <1>2, RequestLink, OwnerLink
<1>3. CASE Lookup \/ ClassifyTree \/ ClassifyPerson \/ ServeTree \/ ServePerson \/ RecordDeath
  BY <1>3, VisitLink DEF DeadOnRecord
<1> QED
  BY <1>1, <1>2, <1>3 DEF PageNext

-----------------------------------------------------------------------------
(* The living.                                                             *)

(* The given name of an abbreviated name is another word than it was,      *)
(* unless it was an initial already.                                       *)
LEMMA AbbreviatedName ==
  ASSUME NEW name \in Seq(Seq(STRING)), name # <<>>
  PROVE  Last(AbbreviateName(name)) # Last(name) \/ IsInitial(Last(name))
<1>1. Last(name) \in Seq(STRING) /\ Len(name) \in Nat \ {0}
  BY DEF Last
<1>2. CASE Len(Last(name)) <= 1
  <2>1. AbbreviateName(name) = << <<"(", ")">> >>
    BY <1>2 DEF AbbreviateName, Placeholder
  <2>2. Len(Last(AbbreviateName(name))) = 2
    BY <2>1 DEF Last
  <2>3. PICK last \in Seq(STRING) : last = Last(name)
    BY <1>1
  <2>4. Len(last) # 2
    <3>1. PICK letters \in Nat : letters = Len(last)
      BY <2>3
    <3>2. letters <= 1
      BY <1>2, <2>3, <3>1
    <3>3. letters # 2
      BY <3>2
    <3> QED
      BY <3>1, <3>3
  <2>5. Last(AbbreviateName(name)) # last
    BY <2>2, <2>4
  <2> QED
    BY <2>3, <2>5
<1>3. CASE ~(Len(Last(name)) <= 1)
  <2>1. PICK word : word = <<Head(Last(name)), ".">>
    OBVIOUS
  <2>2. AbbreviateName(name) = Append(Front(name), word)
    BY <1>3, <2>1 DEF AbbreviateName
  <2>3. Front(name) \in Seq(Seq(STRING))
    BY <1>1 DEF Front
  <2>4. Last(AbbreviateName(name)) = word
    BY <2>2, <2>3 DEF Last
  <2>5. Len(word) = 2 /\ word[2] = "."
    BY <2>1
  <2> QED
    BY <2>4, <2>5 DEF IsInitial
<1> QED
  BY <1>2, <1>3

LEMMA LivingNode ==
  ASSUME NamesAssumption, NEW p \in Persons, NEW hide, NEW n,
         n.id = p, n.name = PublicDisplayName(NameOf[p], TRUE, hide)
  PROVE  hide => GivenNameHidden(n)
<1> SUFFICES ASSUME hide PROVE GivenNameHidden(n)
  OBVIOUS
<1>1. NameOf[p] \in Seq(Seq(STRING)) /\ n.name = AbbreviateName(NameOf[p])
  BY DEF NamesAssumption, PublicDisplayName
<1>2. CASE NameOf[p] = <<>>
  BY <1>1, <1>2 DEF AbbreviateName, GivenNameHidden
<1> QED
  BY <1>1, <1>2, AbbreviatedName DEF GivenNameHidden

LEMMA InitVisit == PageInit => VisitInv
<1> SUFFICES ASSUME PageInit PROVE VisitInv
  OBVIOUS
<1>1. visit = NoVisit /\ page = NoPage /\ DOMAIN death = Persons
  BY DEF PageInit
<1> QED
  BY <1>1, NoVisitOK DEF VisitInv, DeadOnRecord, LivingStayHidden

(* A visit begins with everyone recorded dead on record ...                *)
LEMMA LookupVisit == ASSUME VisitInv, Lookup PROVE VisitInv'
<1>1. PICK slug \in 1..minted, op \in {"tree", "person"} :
        visit' = [NoVisit EXCEPT !.op = op, !.slug = slug, !.hide = site.hide,
                    !.late = slug \in ended,
                    !.onRecord = {p \in Persons : DeathOnRecord(death[p])}]
  BY DEF Lookup
<1>2. /\ visit'.onRecord = {p \in Persons : DeathOnRecord(death[p])}
      /\ visit'.living = {} /\ visit'.dead = {} /\ VisitColumns \subseteq DOMAIN visit'
  BY <1>1 DEF NoVisit, VisitColumns
<1>3. UNCHANGED <<death, page>>
  BY DEF Lookup
<1>4. DeadOnRecord'
  BY <1>2, <1>3 DEF VisitInv, DeadOnRecord
<1> QED
  BY <1>3, <1>4 DEF VisitInv, LivingStayHidden, GivenNameHidden

(* ... takes for dead only those who are then ...                          *)
LEMMA ClassifyVisit ==
  ASSUME VisitInv, visit # NoVisit, NEW ids, ids \subseteq Persons, visit' = Classified(ids),
         UNCHANGED <<death, page>>
  PROVE  VisitInv'
<1>1. VisitColumns \subseteq DOMAIN visit
  BY DEF VisitInv, DeadOnRecord
<1>2. /\ visit'.onRecord = visit.onRecord /\ VisitColumns \subseteq DOMAIN visit'
      /\ visit'.living = {p \in ids : IsLiving(death[p])}
      /\ visit'.dead = {p \in ids : ~IsLiving(death[p])}
  BY <1>1 DEF Classified, VisitColumns
<1>3. \A p \in visit'.dead : p \in Persons /\ DeathOnRecord(death[p])
  BY <1>2 DEF IsLiving, DeathOnRecord
<1>4. DeadOnRecord'
  BY <1>2, <1>3 DEF VisitInv, DeadOnRecord
<1> QED
  BY <1>4 DEF VisitInv, LivingStayHidden, GivenNameHidden

(* ... and serves the others with their names abbreviated.                 *)
LEMMA ServeVisit ==
  ASSUME NamesAssumption, VisitInv, ServeTree \/ ServePerson PROVE VisitInv'
<1>0. /\ visit.living \subseteq Persons /\ visit.dead \subseteq visit.onRecord
      /\ DOMAIN death = Persons
  BY DEF VisitInv, DeadOnRecord
<1>1. page'.visit = visit /\ visit' = NoVisit /\ death' = death
  <2>1. CASE ServeTree
    BY <2>1 DEF ServeTree
  <2>2. CASE ServePerson
    BY <2>2 DEF ServePerson
  <2> QED
    BY <2>1, <2>2
<1>2. \A n \in page'.nodes :
        \/ n.id \in visit.dead
        \/ /\ n.id \in visit.living /\ ~n.details
           /\ n.name = PublicDisplayName(NameOf[n.id], TRUE, visit.hide)
  <2> DEFINE Shown(n) == \/ n.id \in visit.dead
                        \/ /\ n.id \in visit.living /\ ~n.details
                           /\ n.name = PublicDisplayName(NameOf[n.id], TRUE, visit.hide)
  <2>1. ASSUME NEW p \in visit.living
        PROVE  Shown(PublicNode(p, TRUE, visit.hide)) /\ Shown(PublicPerson(p, TRUE, visit.hide))
    BY DEF PublicNode, PublicPerson
  <2>2. ASSUME NEW p \in visit.dead
        PROVE  Shown(PublicNode(p, FALSE, visit.hide)) /\ Shown(PublicPerson(p, FALSE, visit.hide))
    BY DEF PublicNode, PublicPerson
  <2>3. ASSUME ServeTree PROVE \A n \in page'.nodes : Shown(n)
    <3>1. page'.nodes = {PublicNode(p, TRUE, visit.hide) : p \in visit.living}
                          \cup {PublicNode(p, FALSE, visit.hide) : p \in visit.dead}
      BY <2>3 DEF ServeTree
    <3> HIDE DEF Shown
    <3> QED
      BY <2>1, <2>2, <3>1
  <2>4. ASSUME ServePerson PROVE \A n \in page'.nodes : Shown(n)
    <3>1. page'.nodes = {PublicPerson(p, p \in visit.living, visit.hide) :
                           p \in visit.living \cup visit.dead}
      BY <2>4 DEF ServePerson
    <3>2. ASSUME NEW p \in visit.living \cup visit.dead
          PROVE  Shown(PublicPerson(p, p \in visit.living, visit.hide))
      <4>1. CASE p \in visit.living
        BY <2>1, <4>1 DEF PublicPerson
      <4>2. CASE p \notin visit.living
        BY <2>2, <4>2 DEF PublicPerson
      <4> QED
        BY <4>1, <4>2
    <3> HIDE DEF Shown
    <3> QED
      BY <3>1, <3>2
  <2> QED
    BY <2>3, <2>4
<1>3. LivingStayHidden'
  <2> SUFFICES ASSUME NEW n \in page'.nodes, n.id \notin visit.onRecord
               PROVE  ~n.details /\ (visit.hide => GivenNameHidden(n))
    BY <1>1 DEF LivingStayHidden, GivenNameHidden
  <2>1. /\ n.id \in Persons /\ ~n.details
        /\ n.name = PublicDisplayName(NameOf[n.id], TRUE, visit.hide)
    BY <1>0, <1>2
  <2> QED
    BY <2>1, LivingNode
<1>4. DeadOnRecord'
  BY <1>0, <1>1, NoVisitOK DEF DeadOnRecord
<1> QED
  BY <1>3, <1>4 DEF VisitInv

(* A death that is recorded meanwhile is put on record.                    *)
LEMMA RecordVisit == ASSUME VisitInv, RecordDeath PROVE VisitInv'
<1>1. PICK p \in PersonsOf(PublicClan), d \in DeathFacts :
        /\ death' = [death EXCEPT ![p] = d]
        /\ visit' = IF visit = NoVisit \/ ~DeathOnRecord(d) THEN visit
                    ELSE [visit EXCEPT !.onRecord = @ \cup {p}]
  BY DEF RecordDeath
<1>2. page' = page
  BY DEF RecordDeath
<1>3. /\ DOMAIN death = Persons /\ VisitColumns \subseteq DOMAIN visit
      /\ visit.living \subseteq Persons /\ visit.dead \subseteq visit.onRecord
      /\ visit # NoVisit => \A q \in Persons : DeathOnRecord(death[q]) => q \in visit.onRecord
  BY DEF VisitInv, DeadOnRecord
<1>4. /\ DOMAIN death' = Persons
      /\ \A q \in Persons : death'[q] = IF q = p THEN d ELSE death[q]
  BY <1>1, <1>3
<1>5. CASE visit = NoVisit \/ ~DeathOnRecord(d)
  <2>1. visit' = visit
    BY <1>1, <1>5
  <2> QED
    BY <1>2, <1>3, <1>4, <1>5, <2>1 DEF VisitInv, DeadOnRecord, LivingStayHidden, GivenNameHidden
<1>6. CASE ~(visit = NoVisit \/ ~DeathOnRecord(d))
  <2>1. /\ visit'.onRecord = visit.onRecord \cup {p} /\ visit'.living = visit.living
        /\ visit'.dead = visit.dead /\ VisitColumns \subseteq DOMAIN visit'
    BY <1>1, <1>3, <1>6 DEF VisitColumns
  <2>2. DeadOnRecord'
    BY <1>3, <1>4, <1>6, <2>1 DEF DeadOnRecord
  <2> QED
    BY <1>2, <2>2 DEF VisitInv, LivingStayHidden, GivenNameHidden
<1> QED
  BY <1>5, <1>6

LEMMA NextVisit ==
  ASSUME NamesAssumption, VisitInv, [PageNext]_pageVars PROVE VisitInv'
<1>1. CASE UNCHANGED <<death, visit, page>>
  BY <1>1 DEF VisitInv, DeadOnRecord, LivingStayHidden, GivenNameHidden
<1>2. ASSUME NEW t \in Tabs,
             OwnerRequest(t) \/ PatchClan(t) \/ EnableLink(t) \/ RevokeLink(t) \/ DeleteClan(t)
      PROVE  VisitInv'
  BY <1>1, <1>2 DEF OwnerRequest, PatchClan, EnableLink, RevokeLink, DeleteClan, Write
<1>3. CASE Lookup
  BY <1>3, LookupVisit
<1>4. CASE ClassifyTree
  <2>1. visit # NoVisit
    BY <1>4, NoVisitOK DEF ClassifyTree
  <2>2. FirstIds(PersonsOf(PublicClan)) \subseteq Persons
    BY DEF FirstIds, PersonsOf
  <2> QED
    BY <1>4, <2>1, <2>2, ClassifyVisit DEF ClassifyTree
<1>5. CASE ClassifyPerson
  <2>1. visit # NoVisit
    BY <1>5, NoVisitOK DEF ClassifyPerson
  <2>2. PICK p \in PersonsOf(PublicClan) : visit' = Classified({p})
    BY <1>5 DEF ClassifyPerson
  <2>3. {p} \subseteq Persons
    BY DEF PersonsOf
  <2> QED
    BY <1>5, <2>1, <2>2, <2>3, ClassifyVisit DEF ClassifyPerson
<1>6. CASE ServeTree \/ ServePerson
  BY <1>6, ServeVisit
<1>7. CASE RecordDeath
  BY <1>7, RecordVisit
<1> QED
  BY <1>1, <1>2, <1>3, <1>4, <1>5, <1>6, <1>7 DEF PageNext, pageVars

-----------------------------------------------------------------------------
(***************************************************************************)
(* A link that ended never opens a page again, unless a PATCH of the clan  *)
(* saved a row that had changed since it was read (views/clan.py): a new   *)
(* link is never an old one, and no other request of the owner brings one  *)
(* back, however many of them overlap.                                     *)
(***************************************************************************)
THEOREM DeadLinks == PageSpec => []EndedLinkStaysDead
<1>1. PageInit => LinkInv /\ VisitInv
  BY InitLink, InitVisit
<1>2. LinkInv /\ VisitInv /\ [PageNext]_pageVars => (LinkInv /\ VisitInv)'
  BY NamesAssumption, NextLink, NextVisit DEF VisitInv
<1>3. LinkInv => EndedLinkStaysDead
  BY DEF LinkInv, LateIsRestored, EndedLinkStaysDead
<1> QED
  BY <1>1, <1>2, <1>3, PTL DEF PageSpec

(***************************************************************************)
(* A page shows no detail of a person, and under hide_living_names not the *)
(* given name, unless a complete death of that person was on record at     *)
(* some time during the visit (selectors/public.py, public_name.py) --     *)
(* though who is living, the rows and the edits are read and written apart.*)
(***************************************************************************)
THEOREM HiddenLiving == PageSpec => []LivingStayHidden
<1>1. VisitInv /\ [PageNext]_pageVars => VisitInv'
  BY NamesAssumption, NextVisit
<1>2. VisitInv => LivingStayHidden
  BY DEF VisitInv
<1> QED
  BY <1>1, <1>2, InitVisit, PTL DEF PageSpec
===============================================================================
