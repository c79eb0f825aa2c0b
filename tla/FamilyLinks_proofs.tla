-------------------------- MODULE FamilyLinks_proofs --------------------------
(***************************************************************************)
(* Marriages and personal trees, for any number of clerks, clans, users,   *)
(* persons, links and requests.                                            *)
(*                                                                         *)
(* Marriages: the orders of a husband's wives differ as long as his        *)
(* requests do not overlap, because what a request found free when it was  *)
(* checked is still free when it writes (OrdersStillFree); links,          *)
(* contributions and the bootstrap of a clan from a tree add persons and   *)
(* marriages beside the views and are part of the argument.                *)
(*                                                                         *)
(* Personal trees: what a relation request has planned fits the tree       *)
(* (PlanFits) when it is planned, rule by rule of family_link_flow, and    *)
(* goes on fitting it until the commit, because the requests that may come *)
(* in between -- edits, deletions -- only take persons and parents away    *)
(* (Shrinks). Uploads and imports from a clan put parents one after the    *)
(* other where the rules allow it (Parented).                              *)
(*                                                                         *)
(* Linked trees: links are only made between rows that are there and with  *)
(* growing ids (TiesInv), persons to be inserted are not there yet         *)
(* (BornInv). So a new link never takes the place of the first one, and a  *)
(* link that ends leaves the snapshot it showed, or hands over to the next *)
(* one: every step is Fine.                                                *)
(***************************************************************************)
EXTENDS FamilyLinks, Genealogy_proofs

-----------------------------------------------------------------------------
(***************************************************************************)
(* What is true of the marriages and of the requests on them.              *)
(***************************************************************************)
MarriageColumns == {"there", "husband", "wife", "order", "status"}
RequestColumns == {"op", "by", "m", "row", "alone"}
IsBorn(p) == p \in Persons /\ person[p].there # "unborn"

MarriageRowsOK ==
  /\ DOMAIN person = Persons /\ \A p \in Persons : "there" \in DOMAIN person[p]
  /\ DOMAIN marriage = Marriages /\ \A m \in Marriages : MarriageColumns \subseteq DOMAIN marriage[m]
  /\ \A m \in Married : IsBorn(marriage[m].husband)

(* A request that is not a create names a row that was inserted before.    *)
RequestOK(q) ==
  /\ RequestColumns \subseteq DOMAIN q /\ MarriageColumns \subseteq DOMAIN q.row
  /\ q.op \in {"create", "update", "delete"}
  /\ q.row.there = "live" /\ IsBorn(q.row.husband)
  /\ q.op # "create" =>
       /\ q.m \in Marriages /\ marriage[q.m].there # "none"
       /\ q.m \in Married => marriage[q.m].husband = q.row.husband

RequestsOK ==
  /\ DOMAIN wed = Clerks
  /\ \A k \in InFlight : RequestOK(wed[k])
  /\ \A j, k \in InFlight :
       wed[j].op # "create" /\ wed[k].op # "create" /\ wed[j].m = wed[k].m
         => wed[j].row.husband = wed[k].row.husband
  /\ scene # "marriages" => InFlight = {}

(* Requests on a husband who is not crossed come one at a time.            *)
OneAtATime ==
  \A j, k \in InFlight : j # k /\ wed[j].row.husband = wed[k].row.husband
    => wed[j].row.husband \in crossed

(* So what the request found free is still free.                           *)
StillFree(q) ==
  /\ q.op = "create" => q.row.order \notin OrdersOf(q.row.husband)
  /\ q.op = "update" => q.m \in Married /\ q.row.order \notin OrdersOfOthers(q.m)
OrdersStillFree == \A k \in InFlight : wed[k].row.husband \notin crossed => StillFree(wed[k])

OrderInv == MarriageRowsOK /\ RequestsOK /\ OneAtATime /\ OrdersStillFree /\ WivesInOrder

LEMMA NoRequestIdle == NoRequest.op = "idle"
BY DEF NoRequest

Take(k, q) ==
  /\ k \in Clerks /\ wed[k] = NoRequest
  /\ wed' = [j \in Clerks |->
               IF j = k THEN q
               ELSE IF wed[j] = NoRequest THEN NoRequest ELSE [wed[j] EXCEPT !.alone = FALSE]]
  /\ crossed' = crossed \cup (IF InFlightOn(q.row.husband) # {} THEN {q.row.husband} ELSE {})
  /\ UNCHANGED <<person, marriage, member, scene>>

(* Whatever is taken up, the requests in flight keep all but `alone`.      *)
LEMMA TakeEffect ==
  ASSUME OrderInv, NEW k, NEW q, Take(k, q), q.op # "idle"
  PROVE  /\ InFlight' = InFlight \cup {k} /\ k \notin InFlight
         /\ wed'[k] = q /\ DOMAIN wed' = Clerks
         /\ \A j \in InFlight : /\ j # k /\ wed'[j].op = wed[j].op /\ wed'[j].m = wed[j].m
                                /\ wed'[j].row = wed[j].row /\ wed'[j].by = wed[j].by
                                /\ ~wed'[j].alone /\ DOMAIN wed'[j] = DOMAIN wed[j]
<1>1. \A j \in Clerks : wed'[j] = IF j = k THEN q
               ELSE IF wed[j] = NoRequest THEN NoRequest ELSE [wed[j] EXCEPT !.alone = FALSE]
  BY DEF Take
<1>2. DOMAIN wed' = Clerks /\ k \in Clerks /\ wed[k] = NoRequest
  BY DEF Take
<1>3. \A j \in InFlight : wed'[j] = [wed[j] EXCEPT !.alone = FALSE] /\ j # k /\ j \in Clerks
  BY <1>1, <1>2 DEF InFlight
<1>4. \A j \in InFlight : RequestColumns \subseteq DOMAIN wed[j] /\ wed[j].op # "idle"
  BY DEF OrderInv, RequestsOK, RequestOK
<1>5. \A j \in InFlight : /\ wed'[j].op = wed[j].op /\ wed'[j].m = wed[j].m
                          /\ wed'[j].row = wed[j].row /\ wed'[j].by = wed[j].by
                          /\ ~wed'[j].alone /\ DOMAIN wed'[j] = DOMAIN wed[j]
  BY <1>3, <1>4 DEF RequestColumns
<1>6. InFlight' = {j \in Clerks : wed'[j] # NoRequest}
  BY DEF InFlight
<1>7. wed'[k] = q /\ q # NoRequest
  BY <1>1, <1>2, NoRequestIdle
<1>8. \A j \in Clerks : j \in InFlight' <=> j \in InFlight \cup {k}
  BY <1>1, <1>2, <1>4, <1>5, <1>6, <1>7, NoRequestIdle DEF InFlight
<1> QED
  BY <1>2, <1>3, <1>5, <1>6, <1>7, <1>8 DEF InFlight

LEMMA TakeOrder ==
  ASSUME OrderInv, NEW k, NEW q, Take(k, q), RequestOK(q), scene = "marriages",
         q.op # "create" => q.m \in Married,
         q.row.husband \notin crossed => StillFree(q)
  PROVE  OrderInv'
<1>1. /\ InFlight' = InFlight \cup {k} /\ k \notin InFlight
      /\ wed'[k] = q /\ DOMAIN wed' = Clerks
      /\ \A j \in InFlight : /\ j # k /\ wed'[j].op = wed[j].op /\ wed'[j].m = wed[j].m
                             /\ wed'[j].row = wed[j].row /\ DOMAIN wed'[j] = DOMAIN wed[j]
  BY TakeEffect DEF RequestOK
<1>2. person' = person /\ marriage' = marriage /\ scene' = scene /\ crossed \subseteq crossed'
      /\ (InFlightOn(q.row.husband) # {} => q.row.husband \in crossed')
  BY DEF Take
<1>3. Married' = Married
  BY <1>2 DEF Married
<1>4. MarriageRowsOK'
  BY <1>2, <1>3 DEF OrderInv, MarriageRowsOK, IsBorn
<1>5. \A j \in InFlight : RequestOK(wed[j])
  BY DEF OrderInv, RequestsOK
<1>6. \A j \in InFlight' : RequestOK(wed[j])'
  BY <1>1, <1>2, <1>3, <1>5 DEF RequestOK, IsBorn
<1>7. \A j \in InFlight : wed[j].op # "create" /\ q.op # "create" /\ wed[j].m = q.m
        => wed[j].row.husband = q.row.husband
  BY <1>5 DEF RequestOK
<1>8. RequestsOK'
  BY <1>1, <1>2, <1>6, <1>7 DEF OrderInv, RequestsOK
<1>9. OneAtATime'
  BY <1>1, <1>2 DEF OrderInv, OneAtATime, InFlightOn
<1>10. OrdersStillFree'
  BY <1>1, <1>2, <1>3 DEF OrderInv, OrdersStillFree, StillFree, OrdersOf, OrdersOfOthers
<1>11. WivesInOrder'
  BY <1>2, <1>3 DEF OrderInv, WivesInOrder
<1> QED
  BY <1>4, <1>8, <1>9, <1>10, <1>11 DEF OrderInv

LEMMA ReceiveCreateOrder ==
  ASSUME OrderInv, NEW k \in Clerks, ReceiveCreate(k), scene = "marriages", scene' = scene
  PROVE  OrderInv'
<1>0. PICK u \in Users, c \in Clans, status \in Statuses : \E h, w \in PersonsOf(c), order \in 0..MaxOrder :
         LET given == IF order = 0 THEN NextOrder(h) ELSE order
         IN /\ given \notin OrdersOf(h)
            /\ Receive(k, "create", u, 0, [there |-> "live", husband |-> h, wife |-> w,
                                      order |-> given, status |-> status])
  BY DEF ReceiveCreate
<1>1. PICK h \in PersonsOf(c), w \in PersonsOf(c), order \in 0..MaxOrder :
         LET given == IF order = 0 THEN NextOrder(h) ELSE order
         IN /\ given \notin OrdersOf(h)
            /\ Receive(k, "create", u, 0, [there |-> "live", husband |-> h, wife |-> w,
                                      order |-> given, status |-> status])
  BY <1>0
<1>2. PICK given : given = IF order = 0 THEN NextOrder(h) ELSE order
  OBVIOUS
<1>3. PICK row : row = [there |-> "live", husband |-> h, wife |-> w, order |-> given, status |-> status]
  OBVIOUS
<1>4. given \notin OrdersOf(h) /\ Receive(k, "create", u, 0, row)
  BY <1>1, <1>2, <1>3
<1>5. PICK q : q = [op |-> "create", by |-> u, m |-> 0, row |-> row, alone |-> InFlight = {}]
  OBVIOUS
<1>6. Take(k, q)
  BY <1>4, <1>5 DEF Receive, Take
<1>7. RequestOK(q) /\ StillFree(q)
  BY <1>3, <1>4, <1>5 DEF RequestOK, StillFree, IsBorn, PersonsOf, RequestColumns, MarriageColumns
<1> QED
  BY <1>5, <1>6, <1>7, TakeOrder

LEMMA ReceiveUpdateOrder ==
  ASSUME OrderInv, NEW k \in Clerks, ReceiveUpdate(k), scene = "marriages", scene' = scene
  PROVE  OrderInv'
<1>0. PICK u \in Users, c \in Clans, status \in Statuses : \E m \in LiveMarriages(c), order \in 0..MaxOrder :
         /\ order # 0 => order \notin OrdersOfOthers(m)
         /\ Receive(k, "update", u, m,
               [marriage[m] EXCEPT !.status = status, !.order = IF order = 0 THEN @ ELSE order])
  BY DEF ReceiveUpdate
<1>1. PICK m \in LiveMarriages(c), order \in 0..MaxOrder :
         /\ order # 0 => order \notin OrdersOfOthers(m)
         /\ Receive(k, "update", u, m,
               [marriage[m] EXCEPT !.status = status, !.order = IF order = 0 THEN @ ELSE order])
  BY <1>0
<1>2. PICK row : row = [marriage[m] EXCEPT !.status = status, !.order = IF order = 0 THEN @ ELSE order]
  OBVIOUS
<1>3. PICK q : q = [op |-> "update", by |-> u, m |-> m, row |-> row, alone |-> InFlight = {}]
  OBVIOUS
<1>4. Take(k, q)
  BY <1>1, <1>2, <1>3 DEF Receive, Take
<1>5. m \in Married /\ m \in Marriages /\ MarriageColumns \subseteq DOMAIN marriage[m]
      /\ marriage[m].there = "live" /\ IsBorn(marriage[m].husband)
  BY DEF LiveMarriages, Married, OrderInv, MarriageRowsOK
<1>6. /\ DOMAIN row = DOMAIN marriage[m] /\ row.there = "live" /\ row.husband = marriage[m].husband
      /\ row.order = IF order = 0 THEN marriage[m].order ELSE order
  BY <1>2, <1>5 DEF MarriageColumns
<1>7. RequestOK(q)
  BY <1>3, <1>5, <1>6 DEF RequestOK, RequestColumns
<1>8. q.row.husband \notin crossed => StillFree(q)
  <2> SUFFICES ASSUME marriage[m].husband \notin crossed PROVE row.order \notin OrdersOfOthers(m)
    BY <1>3, <1>5, <1>6 DEF StillFree
  <2> QED
    BY <1>1, <1>5, <1>6 DEF OrdersOfOthers, OrderInv, WivesInOrder
<1> QED
  BY <1>3, <1>4, <1>5, <1>7, <1>8, TakeOrder

LEMMA ReceiveDeleteOrder ==
  ASSUME OrderInv, NEW k \in Clerks, ReceiveDelete(k), scene = "marriages", scene' = scene
  PROVE  OrderInv'
<1>0. PICK u \in Users, c \in Clans : \E m \in LiveMarriages(c) : Receive(k, "delete", u, m, marriage[m])
  BY DEF ReceiveDelete
<1>1. PICK m \in LiveMarriages(c) : Receive(k, "delete", u, m, marriage[m])
  BY <1>0
<1>2. PICK q : q = [op |-> "delete", by |-> u, m |-> m, row |-> marriage[m], alone |-> InFlight = {}]
  OBVIOUS
<1>3. Take(k, q)
  BY <1>1, <1>2 DEF Receive, Take
<1>4. m \in Married /\ m \in Marriages /\ MarriageColumns \subseteq DOMAIN marriage[m]
      /\ marriage[m].there = "live" /\ IsBorn(marriage[m].husband)
  BY DEF LiveMarriages, Married, OrderInv, MarriageRowsOK
<1>5. RequestOK(q) /\ StillFree(q)
  BY <1>2, <1>4 DEF RequestOK, StillFree, RequestColumns
<1> QED
  BY <1>2, <1>3, <1>4, <1>5, TakeOrder

(***************************************************************************)
(* The end of a request writes at most one row of its husband.             *)
(***************************************************************************)
Ends(k) ==
  /\ k \in InFlight
  /\ wed' = [wed EXCEPT ![k] = NoRequest]
  /\ UNCHANGED <<person, member, crossed, scene>>

LEMMA EndsEffect ==
  ASSUME OrderInv, NEW k, Ends(k)
  PROVE  /\ InFlight' = InFlight \ {k} /\ DOMAIN wed' = Clerks
         /\ \A j \in InFlight' : wed'[j] = wed[j]
BY DEF Ends, InFlight, OrderInv, RequestsOK

(* Whichever marriages stay, are dropped, or -- one -- are written by the  *)
(* request that ends.                                                      *)
Written(k, m, row) ==
  /\ m \in Marriages
  /\ marriage' = [marriage EXCEPT ![m] = row]
  /\ MarriageColumns \subseteq DOMAIN row
  /\ row.there # "none"
  /\ row.there = "live" => row.husband = wed[k].row.husband

LEMMA WrittenRows ==
  ASSUME OrderInv, NEW k, Ends(k), NEW m, NEW row, Written(k, m, row)
  PROVE  /\ DOMAIN marriage' = Marriages /\ marriage'[m] = row
         /\ \A n \in Marriages \ {m} : marriage'[n] = marriage[n]
         /\ Married' \ {m} = Married \ {m}
         /\ m \in Married' <=> row.there = "live"
         /\ MarriageRowsOK'
<1>1. /\ DOMAIN marriage' = Marriages /\ marriage'[m] = row
      /\ \A n \in Marriages \ {m} : marriage'[n] = marriage[n]
  BY DEF OrderInv, MarriageRowsOK, Written
<1>2. Married' \ {m} = Married \ {m} /\ (m \in Married' <=> row.there = "live")
  BY <1>1 DEF Married, Written
<1>3. IsBorn(wed[k].row.husband) /\ person' = person
  BY DEF Ends, OrderInv, RequestsOK, RequestOK
<1>4. MarriageRowsOK'
  BY <1>1, <1>2, <1>3 DEF OrderInv, MarriageRowsOK, IsBorn, Written
<1> QED
  BY <1>1, <1>2, <1>4

(* The row a request may write: one that was not there, or that of other   *)
(* requests on the same husband only.                                      *)
LEMMA WrittenOrder ==
  ASSUME OrderInv, NEW k, Ends(k), NEW m, NEW row, Written(k, m, row),
         m \in Married => marriage[m].husband = wed[k].row.husband,
         \A j \in InFlight : wed[j].op # "create" /\ wed[j].m = m
            => wed[j].row.husband = wed[k].row.husband,
         row.there = "live" /\ wed[k].row.husband \notin crossed
            => \A n \in Married \ {m} : marriage[n].husband = wed[k].row.husband
                                        => marriage[n].order # row.order
  PROVE  OrderInv'
<1>1. /\ DOMAIN marriage' = Marriages /\ marriage'[m] = row
      /\ \A n \in Marriages \ {m} : marriage'[n] = marriage[n]
      /\ Married' \ {m} = Married \ {m}
      /\ m \in Married' <=> row.there = "live"
      /\ MarriageRowsOK'
  BY WrittenRows
<1>2. /\ InFlight' = InFlight \ {k} /\ DOMAIN wed' = Clerks
      /\ \A j \in InFlight' : wed'[j] = wed[j]
  BY EndsEffect
<1>3. /\ person' = person /\ crossed' = crossed /\ scene' = scene /\ k \in InFlight
      /\ row.there # "none" /\ (row.there = "live" => row.husband = wed[k].row.husband)
      /\ m \in Marriages
  BY DEF Ends, Written
<1>4. \A j \in InFlight : RequestOK(wed[j])
  BY DEF OrderInv, RequestsOK
<1>5. \A j \in InFlight' : RequestOK(wed[j])'
  <2> SUFFICES ASSUME NEW j \in InFlight' PROVE RequestOK(wed[j])'
    OBVIOUS
  <2>1. wed'[j] = wed[j] /\ RequestOK(wed[j]) /\ j \in InFlight
    BY <1>2, <1>4
  <2>2. CASE wed[j].m = m
    BY <1>1, <1>3, <2>1, <2>2 DEF RequestOK, IsBorn
  <2>3. CASE wed[j].m # m
    BY <1>1, <1>3, <2>1, <2>3 DEF RequestOK, IsBorn
  <2> QED
    BY <2>2, <2>3
<1>6. RequestsOK'
  BY <1>2, <1>3, <1>5 DEF OrderInv, RequestsOK
<1>7. OneAtATime'
  BY <1>2, <1>3 DEF OrderInv, OneAtATime
<1>8. OrdersStillFree'
  <2> SUFFICES ASSUME NEW j \in InFlight', wed[j].row.husband \notin crossed
               PROVE  StillFree(wed[j])'
    BY <1>2, <1>3 DEF OrdersStillFree
  <2> DEFINE h == wed[j].row.husband
  <2>1. wed'[j] = wed[j] /\ RequestOK(wed[j]) /\ j \in InFlight /\ StillFree(wed[j])
    BY <1>2, <1>4 DEF OrderInv, OrdersStillFree
  <2>2. h # wed[k].row.husband
    BY <1>2, <1>3, <2>1 DEF OrderInv, OneAtATime
  <2>3. \A n \in Marriages : n \in Married' /\ marriage'[n].husband = h
          <=> n \in Married /\ marriage[n].husband = h
    BY <1>1, <1>3, <2>2
  <2>4. \A n \in Marriages : n \in Married /\ marriage[n].husband = h => marriage'[n] = marriage[n]
    BY <1>1, <1>3, <2>2
  <2>5. OrdersOf(h)' = OrdersOf(h)
    BY <2>1, <2>3, <2>4 DEF OrdersOf, Married
  <2>6. wed[j].op = "update" => OrdersOfOthers(wed[j].m)' = OrdersOfOthers(wed[j].m)
    <3> SUFFICES ASSUME wed[j].op = "update" PROVE OrdersOfOthers(wed[j].m)' = OrdersOfOthers(wed[j].m)
      OBVIOUS
    <3>1. wed[j].m \in Married /\ marriage[wed[j].m].husband = h
      BY <2>1 DEF RequestOK, StillFree
    <3>2. marriage'[wed[j].m] = marriage[wed[j].m]
      BY <2>4, <3>1 DEF Married
    <3>3. OrdersOfOthers(wed[j].m) = {marriage[n].order : n \in {o \in Married \ {wed[j].m} : marriage[o].husband = h}}
      BY <3>1 DEF OrdersOfOthers
    <3>4. OrdersOfOthers(wed[j].m)' = {marriage'[n].order : n \in {o \in Married' \ {wed[j].m} : marriage'[o].husband = h}}
      BY <3>1, <3>2, <2>1 DEF OrdersOfOthers
    <3> QED
      BY <2>3, <2>4, <3>3, <3>4 DEF Married
  <2>7. wed[j].op = "update" => wed[j].m \in Married'
    BY <2>1, <2>3 DEF RequestOK, StillFree, Married
  <2> QED
    BY <2>1, <2>5, <2>6, <2>7 DEF StillFree
<1>9. WivesInOrder'
  <2> SUFFICES ASSUME NEW x \in Married', NEW y \in Married', x # y,
                      marriage'[x].husband = marriage'[y].husband,
                      marriage'[x].husband \notin crossed
               PROVE  marriage'[x].order # marriage'[y].order
    BY <1>3 DEF WivesInOrder
  <2>1. CASE x # m /\ y # m
    BY <1>1, <2>1 DEF OrderInv, WivesInOrder, Married
  <2>2. CASE x = m
    BY <1>1, <1>3, <2>2 DEF Married
  <2>3. CASE y = m
    BY <1>1, <1>3, <2>3 DEF Married
  <2> QED
    BY <2>1, <2>2, <2>3
<1> QED
  BY <1>1, <1>6, <1>7, <1>8, <1>9 DEF OrderInv

LEMMA EndedOrder ==
  ASSUME OrderInv, NEW k, Ends(k), UNCHANGED marriage
  PROVE  OrderInv'
<1>1. /\ InFlight' = InFlight \ {k} /\ DOMAIN wed' = Clerks
      /\ \A j \in InFlight' : wed'[j] = wed[j]
  BY EndsEffect
<1>2. person' = person /\ crossed' = crossed /\ scene' = scene /\ marriage' = marriage
  BY DEF Ends
<1>3. Married' = Married
  BY <1>2 DEF Married
<1>4. MarriageRowsOK'
  BY <1>2, <1>3 DEF OrderInv, MarriageRowsOK, IsBorn
<1>5. RequestsOK'
  BY <1>1, <1>2, <1>3 DEF OrderInv, RequestsOK, RequestOK, IsBorn
<1>6. OneAtATime'
  BY <1>1, <1>2 DEF OrderInv, OneAtATime
<1>7. OrdersStillFree'
  BY <1>1, <1>2, <1>3 DEF OrderInv, OrdersStillFree, StillFree, OrdersOf, OrdersOfOthers
<1>8. WivesInOrder'
  BY <1>2, <1>3 DEF OrderInv, WivesInOrder
<1> QED
  BY <1>4, <1>5, <1>6, <1>7, <1>8 DEF OrderInv

LEMMA FreshInserted ==
  ASSUME FreshMarriages # {}
  PROVE  Min(FreshMarriages) \in Marriages /\ marriage[Min(FreshMarriages)].there = "none"
<1>1. FreshMarriages \in SUBSET Nat
  BY DEF FreshMarriages, Marriages
<1>2. Min(FreshMarriages) \in FreshMarriages
  BY <1>1, LeastNat DEF Min
<1> QED
  BY <1>2 DEF FreshMarriages

LEMMA InsertOrder ==
  ASSUME OrderInv, NEW k \in Clerks, InsertMarriage(k), scene' = scene
  PROVE  OrderInv'
<1>1. Ends(k)
  BY NoRequestIdle DEF InsertMarriage, Finished, Ends, InFlight
<1>2. CASE UNCHANGED marriage
  BY <1>1, <1>2, EndedOrder
<1>3. CASE marriage' # marriage
  <2>1. PICK m : m = Min(FreshMarriages)
    OBVIOUS
  <2>2. FreshMarriages # {} /\ marriage' = [marriage EXCEPT ![m] = wed[k].row]
    BY <1>3, <2>1 DEF InsertMarriage
  <2>3. m \in Marriages /\ marriage[m].there = "none"
    BY <2>1, <2>2, FreshInserted
  <2>4. RequestOK(wed[k]) /\ wed[k].op = "create" /\ k \in InFlight
    BY <1>1 DEF Ends, OrderInv, RequestsOK, InsertMarriage
  <2>5. Written(k, m, wed[k].row)
    BY <2>2, <2>3, <2>4 DEF Written, RequestOK
  <2>6. m \notin Married
    BY <2>3 DEF Married
  <2>7. \A j \in InFlight : wed[j].op # "create" => wed[j].m # m
    BY <2>3 DEF OrderInv, RequestsOK, RequestOK
  <2>8. wed[k].row.husband \notin crossed => wed[k].row.order \notin OrdersOf(wed[k].row.husband)
    BY <2>4 DEF OrderInv, OrdersStillFree, StillFree
  <2>9. wed[k].row.husband \notin crossed
            => \A n \in Married \ {m} : marriage[n].husband = wed[k].row.husband
                                        => marriage[n].order # wed[k].row.order
    BY <2>8 DEF OrdersOf
  <2> QED
    BY <1>1, <2>5, <2>6, <2>7, <2>9, WrittenOrder
<1> QED
  BY <1>2, <1>3

LEMMA SaveOrder ==
  ASSUME OrderInv, NEW k \in Clerks, SaveMarriage(k), scene' = scene
  PROVE  OrderInv'
<1>1. Ends(k)
  BY NoRequestIdle DEF SaveMarriage, Finished, Ends, InFlight
<1>2. CASE UNCHANGED marriage
  BY <1>1, <1>2, EndedOrder
<1>3. CASE marriage' # marriage
  <2>1. PICK m : m = wed[k].m
    OBVIOUS
  <2>2. marriage' = [marriage EXCEPT ![m] = wed[k].row] /\ wed[k].op = "update"
    BY <1>3, <2>1 DEF SaveMarriage
  <2>3. RequestOK(wed[k]) /\ k \in InFlight
    BY <1>1 DEF Ends, OrderInv, RequestsOK
  <2>4. Written(k, m, wed[k].row)
    BY <2>1, <2>2, <2>3 DEF Written, RequestOK
  <2>5. m \in Married => marriage[m].husband = wed[k].row.husband
    BY <2>1, <2>2, <2>3 DEF RequestOK
  <2>6. \A j \in InFlight : wed[j].op # "create" /\ wed[j].m = m
          => wed[j].row.husband = wed[k].row.husband
    BY <2>1, <2>2, <2>3 DEF OrderInv, RequestsOK
  <2>7. wed[k].row.husband \notin crossed => m \in Married /\ wed[k].row.order \notin OrdersOfOthers(m)
    BY <2>1, <2>2, <2>3 DEF OrderInv, OrdersStillFree, StillFree
  <2>8. wed[k].row.husband \notin crossed
          => \A n \in Married \ {m} : marriage[n].husband = wed[k].row.husband
                                      => marriage[n].order # wed[k].row.order
    BY <2>5, <2>7 DEF OrdersOfOthers
  <2> QED
    BY <1>1, <2>4, <2>5, <2>6, <2>8, WrittenOrder
<1> QED
  BY <1>2, <1>3

LEMMA DropOrder ==
  ASSUME OrderInv, NEW k \in Clerks, DropMarriage(k), scene' = scene
  PROVE  OrderInv'
<1>1. Ends(k)
  BY NoRequestIdle DEF DropMarriage, Finished, Ends, InFlight
<1>2. PICK row : row = [NoMarriage EXCEPT !.there = "gone"]
  OBVIOUS
<1>3. row.there = "gone" /\ MarriageColumns \subseteq DOMAIN row
  BY <1>2 DEF NoMarriage, MarriageColumns
<1>4. PICK m : m = wed[k].m
  OBVIOUS
<1>5. marriage' = [marriage EXCEPT ![m] = row] /\ wed[k].op = "delete"
  BY <1>2, <1>4 DEF DropMarriage
<1>6. RequestOK(wed[k]) /\ k \in InFlight
  BY <1>1 DEF Ends, OrderInv, RequestsOK
<1>7. Written(k, m, row)
  BY <1>3, <1>4, <1>5, <1>6 DEF Written, RequestOK
<1>8. m \in Married => marriage[m].husband = wed[k].row.husband
  BY <1>4, <1>5, <1>6 DEF RequestOK
<1>9. \A j \in InFlight : wed[j].op # "create" /\ wed[j].m = m
        => wed[j].row.husband = wed[k].row.husband
  BY <1>4, <1>5, <1>6 DEF OrderInv, RequestsOK
<1> QED
  BY <1>1, <1>3, <1>7, <1>8, <1>9, WrittenOrder

-----------------------------------------------------------------------------
(***************************************************************************)
(* Ids that are given out in order.                                        *)
(***************************************************************************)
LEMMA PositionsAreTaken ==
  ASSUME NEW S \in SUBSET Nat, IsFiniteSet(S), NEW n \in 1..Cardinality(S)
  PROVE  \E x \in S : Position(x, S) = n
<1> DEFINE N == Cardinality(S)
           below(x) == {y \in S : y <= x}
           f == [x \in S |-> Position(x, S)]
<1>1. N \in Nat /\ IsFiniteSet(1..N) /\ Cardinality(1..N) = N
  <2>1. N \in Nat
    BY FS_CardinalityType
  <2> QED
    BY <2>1, FS_Interval
<1>2. \A x \in S : IsFiniteSet(below(x)) /\ Cardinality(below(x)) \in 1..N
  <2> SUFFICES ASSUME NEW x \in S PROVE IsFiniteSet(below(x)) /\ Cardinality(below(x)) \in 1..N
    OBVIOUS
  <2>1. below(x) \in SUBSET S /\ x \in below(x)
    OBVIOUS
  <2>2. IsFiniteSet(below(x)) /\ Cardinality(below(x)) <= N
    BY <2>1, FS_Subset
  <2>3. Cardinality(below(x)) \in Nat /\ Cardinality(below(x)) # 0
    BY <2>1, <2>2, FS_CardinalityType, FS_EmptySet
  <2> QED
    BY <1>1, <2>2, <2>3
<1>3. \A x, y \in S : x < y => Cardinality(below(x)) # Cardinality(below(y))
  <2> SUFFICES ASSUME NEW x \in S, NEW y \in S, x < y, Cardinality(below(x)) = Cardinality(below(y))
               PROVE  FALSE
    OBVIOUS
  <2>1. x \in Nat /\ y \in Nat /\ \A z \in S : z \in Nat /\ (z <= x => z <= y)
    OBVIOUS
  <2>2. y \in below(y) /\ y \notin below(x)
    BY <2>1
  <2>3. below(x) \in SUBSET below(y)
    BY <2>1
  <2>4. IsFiniteSet(below(y))
    BY <1>2
  <2> HIDE DEF below
  <2>5. below(y) = below(x)
    BY <2>3, <2>4, FS_Subset
  <2> QED
    BY <2>2, <2>5
<1>4. \A x \in S : f[x] = Cardinality(below(x))
  BY DEF Position
<1>5. f \in [S -> 1..N]
  BY <1>2, <1>4
<1>6. \A x, y \in S : f[x] = f[y] => x = y
  <2> SUFFICES ASSUME NEW x \in S, NEW y \in S, f[x] = f[y] PROVE x = y
    OBVIOUS
  <2>1. ~(x < y) /\ ~(y < x)
    BY <1>3, <1>4
  <2> QED
    BY <2>1
<1>7. f \in Injection(S, 1..N)
  BY <1>5, <1>6 DEF Injection, IsInjective
<1> HIDE DEF f
<1>8. f \in Surjection(S, 1..N)
  BY <1>1, <1>7, FS_Injection
<1>9. PICK x \in S : f[x] = n
  BY <1>8 DEF Surjection
<1> QED
  BY <1>9 DEF f

LEMMA NumberedInto ==
  ASSUME NEW new \in SUBSET Nat, IsFiniteSet(new), NEW fresh \in SUBSET Nat, IsFiniteSet(fresh),
         Cardinality(new) <= Cardinality(fresh)
  PROVE  Numbered(new, fresh) \in [new -> fresh]
<1>1. \A x \in new : Position(x, new) \in 1..Cardinality(fresh)
  <2> SUFFICES ASSUME NEW x \in new PROVE Position(x, new) \in 1..Cardinality(fresh)
    OBVIOUS
  <2>1. PICK T : T = {y \in new : y <= x}
    OBVIOUS
  <2>2. T \in SUBSET new /\ x \in T
    BY <2>1
  <2>3. IsFiniteSet(T) /\ Cardinality(T) <= Cardinality(new)
    BY <2>2, FS_Subset
  <2>4. Cardinality(T) \in Nat /\ Cardinality(T) # 0
    BY <2>2, <2>3, FS_CardinalityType, FS_EmptySet
  <2>5. Cardinality(new) \in Nat /\ Cardinality(fresh) \in Nat
    BY FS_CardinalityType
  <2> QED
    BY <2>1, <2>3, <2>4, <2>5 DEF Position
<1>2. \A x \in new : \E id \in fresh : Position(id, fresh) = Position(x, new)
  BY <1>1, PositionsAreTaken
<1>3. \A x \in new : (CHOOSE id \in fresh : Position(id, fresh) = Position(x, new)) \in fresh
  BY <1>2
<1> QED
  BY <1>3 DEF Numbered

-----------------------------------------------------------------------------
(***************************************************************************)
(* The personal tree linked to clans: what bootstrap needs to know of it.  *)
(***************************************************************************)
LinksInv ==
  scene = "links" =>
    /\ pairs \subseteq SUBSET Kin
    /\ Links \subseteq DOMAIN link
    /\ \A l \in Links : {"there", "kin"} \subseteq DOMAIN link[l] /\ (There(l) => link[l].kin \in Kin)
    /\ \A fp \in linking.pairs : fp[1] \in Kin

LinksOK(rows) ==
  /\ Links \subseteq DOMAIN rows
  /\ \A l \in Links : /\ {"there", "kin"} \subseteq DOMAIN rows[l]
                      /\ rows[l].there = "live" => rows[l].kin \in Kin

LEMMA OldLinksOK == ASSUME LinksInv, scene = "links" PROVE LinksOK(link)
BY DEF LinksInv, LinksOK, There

LEMMA WithLinksOK ==
  ASSUME LinksOK(link), NEW c, NEW ps, \A fp \in ps : fp[1] \in Kin
  PROVE  LinksOK(WithLinks(c, ps))
<1>1. PICK idOf : idOf = Numbered({fp[1] : fp \in ps}, FreshLinks)
  OBVIOUS
<1>2. PICK new : new = [l \in {idOf[fp[1]] : fp \in ps} |->
             LET fp == CHOOSE x \in ps : idOf[x[1]] = l
             IN [there |-> "live", kin |-> fp[1], clan |-> c, person |-> fp[2]]]
  OBVIOUS
<1>3. WithLinks(c, ps) = Over(new, link)
  BY <1>1, <1>2 DEF WithLinks
<1>4. \A l \in DOMAIN new : {"there", "kin"} \subseteq DOMAIN new[l] /\ new[l].kin \in Kin
  <2> SUFFICES ASSUME NEW l \in DOMAIN new
               PROVE  {"there", "kin"} \subseteq DOMAIN new[l] /\ new[l].kin \in Kin
    OBVIOUS
  <2>1. PICK fp : fp = CHOOSE x \in ps : idOf[x[1]] = l
    OBVIOUS
  <2>2. \E x \in ps : idOf[x[1]] = l
    BY <1>2
  <2>3. fp \in ps
    BY <2>1, <2>2
  <2>4. new[l] = [there |-> "live", kin |-> fp[1], clan |-> c, person |-> fp[2]]
    BY <1>2, <2>1
  <2> QED
    BY <2>3, <2>4
<1> QED
  BY <1>3, <1>4 DEF LinksOK, Over

LEMMA WithoutLinksOK ==
  ASSUME LinksOK(link), NEW ls
  PROVE  LinksOK(WithoutLinks(ls))
<1>1. \A l \in Links : WithoutLinks(ls)[l] = IF l \in ls THEN [link[l] EXCEPT !.there = "gone"] ELSE link[l]
  BY DEF WithoutLinks
<1>2. DOMAIN WithoutLinks(ls) = Links
  BY DEF WithoutLinks
<1> QED
  BY <1>1, <1>2 DEF LinksOK

LEMMA MinOfTwo ==
  ASSUME NEW i \in Nat, NEW j \in Nat
  PROVE  Min({i, j}) \in {i, j} /\ Min({i, j}) <= i /\ Min({i, j}) <= j
<1>1. \E n \in {i, j} : \A m \in {i, j} : n =< m
  OBVIOUS
<1> QED
  BY <1>1 DEF Min

LEMMA FreshAreFinite ==
  /\ IsFiniteSet(FreshPersons) /\ FreshPersons \in SUBSET Nat
  /\ IsFiniteSet(FreshKin) /\ FreshKin \in SUBSET Nat
  /\ IsFiniteSet(FreshLinks) /\ FreshLinks \in SUBSET Nat
<1>1. /\ IsFiniteSet(1..MaxPersons) /\ IsFiniteSet(1..MaxKin) /\ IsFiniteSet(1..MaxLinks)
  BY ClansAssumption, LinksAssumption, KinAssumption, FS_Interval
<1>2. /\ FreshPersons \in SUBSET (1..MaxPersons) /\ FreshKin \in SUBSET (1..MaxKin)
      /\ FreshLinks \in SUBSET (1..MaxLinks)
  BY DEF FreshPersons, FreshKin, FreshLinks, Persons, Kin, Links
<1>3. /\ 1..MaxPersons \in SUBSET Nat /\ 1..MaxKin \in SUBSET Nat /\ 1..MaxLinks \in SUBSET Nat
  OBVIOUS
<1> QED
  BY <1>1, <1>2, <1>3, FS_Subset

LEMMA NumberedPersons ==
  ASSUME NEW new \in SUBSET Nat, IsFiniteSet(new), NEW fresh \in SUBSET Nat, IsFiniteSet(fresh),
         Cardinality(new) <= Min({Cardinality(fresh), Cardinality(FreshLinks)})
  PROVE  Numbered(new, fresh) \in [new -> fresh]
<1>1. Cardinality(fresh) \in Nat /\ Cardinality(FreshLinks) \in Nat /\ Cardinality(new) \in Nat
  BY FreshAreFinite, FS_CardinalityType
<1>2. Cardinality(new) <= Cardinality(fresh)
  BY <1>1, MinOfTwo
<1> QED
  BY <1>2, NumberedInto

LEMMA CopySetIsKin ==
  ASSUME pairs \subseteq SUBSET Kin, NEW root \in LiveKin
  PROVE  CopySet(root) \in SUBSET Kin
<1>1. LiveKin \subseteq Kin /\ IsFiniteSet(LiveKin)
  <2>1. IsFiniteSet(Kin)
    BY KinAssumption, FS_Interval DEF Kin
  <2>2. LiveKin \in SUBSET Kin
    BY DEF LiveKin
  <2> QED
    BY <2>1, <2>2, FS_Subset
<1>2. DOMAIN ParentSets(Loaded) = LiveKin /\ Loaded.pairs = pairs
  BY DEF Loaded, Graph, ParentSets
<1>3. DescendantsOf(Loaded, root) \subseteq LiveKin
  BY <1>1, <1>2, DescendantsClosed DEF DescendantsOf
<1>4. \A f : SpousesIn(Loaded, f) \subseteq Kin
  BY <1>2 DEF SpousesIn
<1> QED
  BY <1>1, <1>3, <1>4 DEF CopySet

LEMMA CouplesFinite ==
  ASSUME NEW copy, IsFiniteSet(copy)
  PROVE  Couples(copy) \subseteq copy \X copy /\ IsFiniteSet(Couples(copy))
<1>1. \A a, b : \A hw \in HusbandWife(a, b) : hw = <<a, b>> \/ hw = <<b, a>>
  BY DEF HusbandWife
<1>2. \A hw \in Couples(copy) : hw \in copy \X copy
  <2> SUFFICES ASSUME NEW hw \in Couples(copy) PROVE hw \in copy \X copy
    OBVIOUS
  <2>1. PICK ab \in copy \X copy : hw \in HusbandWife(ab[1], ab[2])
    BY DEF Couples
  <2>2. ab[1] \in copy /\ ab[2] \in copy
    BY <2>1
  <2>3. hw = <<ab[1], ab[2]>> \/ hw = <<ab[2], ab[1]>>
    BY <1>1, <2>1
  <2> QED
    BY <2>2, <2>3
<1>3. Couples(copy) \in SUBSET (copy \X copy)
  BY <1>2
<1> QED
  BY <1>3, FS_Product, FS_Subset

LEMMA SeqOfSet ==
  ASSUME NEW S, IsFiniteSet(S)
  PROVE  SetToSeq(S) \in [1..Cardinality(S) -> S]
<1>1. PICK f : f \in Bijection(1..Cardinality(S), S)
  BY FS_CardinalityType DEF ExistsBijection
<1>2. f \in [1..Cardinality(S) -> S] /\ IsInjective(f)
  BY <1>1 DEF Bijection, Injection
<1> QED
  BY <1>2 DEF SetToSeq

(* The wives of one husband are numbered in the order of the weddings.     *)
WeddingsOK(weddings, T) ==
  /\ DOMAIN weddings \subseteq Int
  /\ \A i \in DOMAIN weddings :
       /\ MarriageColumns \subseteq DOMAIN weddings[i]
       /\ weddings[i].there = "live" /\ weddings[i].husband \in T
  /\ \A i, j \in DOMAIN weddings :
       i # j /\ weddings[i].husband = weddings[j].husband => weddings[i].order # weddings[j].order

LEMMA WeddingsInOrder ==
  ASSUME NEW copy, IsFiniteSet(copy), NEW T, NEW idOf \in [copy -> T]
  PROVE  WeddingsOK(Weddings(copy, idOf), T)
<1> DEFINE couples == SetToSeq(Couples(copy))
           husband(i) == idOf[couples[i][1]]
           before(i) == {j \in 1..(i - 1) : husband(j) = husband(i)}
           N == Cardinality(Couples(copy))
<1>1. couples \in [1..N -> Couples(copy)] /\ Couples(copy) \subseteq copy \X copy /\ N \in Nat
  BY CouplesFinite, SeqOfSet, FS_CardinalityType
<1>2. \A i \in 1..N : husband(i) \in T
  BY <1>1
<1>3. Weddings(copy, idOf) = [i \in 1..N |->
        [NoMarriage EXCEPT !.there = "live", !.husband = husband(i), !.wife = idOf[couples[i][2]],
           !.order = 1 + Cardinality(before(i))]]
  <2>1. DOMAIN couples = 1..N
    BY <1>1
  <2> QED
    BY <2>1 DEF Weddings
<1>4. \A i \in 1..N : /\ MarriageColumns \subseteq DOMAIN Weddings(copy, idOf)[i]
                      /\ Weddings(copy, idOf)[i].there = "live"
                      /\ Weddings(copy, idOf)[i].husband = husband(i)
                      /\ Weddings(copy, idOf)[i].order = 1 + Cardinality(before(i))
  <2> HIDE DEF couples, husband, before, N
  <2> SUFFICES ASSUME NEW i \in 1..N
               PROVE  /\ MarriageColumns \subseteq DOMAIN Weddings(copy, idOf)[i]
                      /\ Weddings(copy, idOf)[i].there = "live"
                      /\ Weddings(copy, idOf)[i].husband = husband(i)
                      /\ Weddings(copy, idOf)[i].order = 1 + Cardinality(before(i))
    OBVIOUS
  <2>1. PICK row : row = Weddings(copy, idOf)[i]
    OBVIOUS
  <2>2. PICK h, w, o : h = husband(i) /\ w = idOf[couples[i][2]] /\ o = 1 + Cardinality(before(i))
    OBVIOUS
  <2>3. row = [NoMarriage EXCEPT !.there = "live", !.husband = h, !.wife = w, !.order = o]
    BY <1>3, <2>1, <2>2
  <2>4. row = [there |-> "live", husband |-> h, wife |-> w, order |-> o, status |-> "dang_ket_hon"]
    BY <2>3 DEF NoMarriage
  <2> QED
    BY <2>1, <2>2, <2>4 DEF MarriageColumns
<1>5. \A i, j \in 1..N : i < j /\ husband(i) = husband(j) => Cardinality(before(i)) < Cardinality(before(j))
  <2> SUFFICES ASSUME NEW i \in 1..N, NEW j \in 1..N, i < j, husband(i) = husband(j)
               PROVE  Cardinality(before(i)) < Cardinality(before(j))
    OBVIOUS
  <2> HIDE DEF husband
  <2>1. i \in Int /\ j \in Int /\ \A x \in 1..(i - 1) : x \in 1..(j - 1)
    BY <1>1
  <2>2. before(i) \subseteq before(j)
    BY <2>1
  <2>3. i \in before(j) /\ i \notin before(i)
    BY <1>1
  <2>4. before(i) \in SUBSET (1..(i - 1)) /\ before(j) \in SUBSET (1..(j - 1))
    OBVIOUS
  <2>5. IsFiniteSet(1..(j - 1))
    BY <2>1, FS_Interval
  <2> HIDE DEF before
  <2>6. IsFiniteSet(before(j)) /\ before(i) \in SUBSET before(j)
    BY <2>2, <2>4, <2>5, FS_Subset
  <2>7. Cardinality(before(i)) <= Cardinality(before(j)) /\ Cardinality(before(i)) # Cardinality(before(j))
    BY <2>3, <2>6, FS_Subset
  <2>8. Cardinality(before(i)) \in Nat /\ Cardinality(before(j)) \in Nat
    BY <2>6, FS_Subset, FS_CardinalityType
  <2> QED
    BY <2>7, <2>8
<1>6. \A i \in 1..N : Cardinality(before(i)) \in Nat
  <2> SUFFICES ASSUME NEW i \in 1..N PROVE Cardinality(before(i)) \in Nat
    OBVIOUS
  <2>1. IsFiniteSet(1..(i - 1))
    BY <1>1, FS_Interval
  <2>2. before(i) \in SUBSET (1..(i - 1))
    OBVIOUS
  <2> HIDE DEF before
  <2> QED
    BY <2>1, <2>2, FS_Subset, FS_CardinalityType
<1>7. \A i, j \in 1..N : i # j /\ husband(i) = husband(j) => 1 + Cardinality(before(i)) # 1 + Cardinality(before(j))
  <2> HIDE DEF husband, before, N
  <2> SUFFICES ASSUME NEW i \in 1..N, NEW j \in 1..N, i # j, husband(i) = husband(j)
               PROVE  1 + Cardinality(before(i)) # 1 + Cardinality(before(j))
    OBVIOUS
  <2>1. i < j \/ j < i
    BY <1>1
  <2> QED
    BY <2>1, <1>5, <1>6
<1>8. DOMAIN Weddings(copy, idOf) = 1..N
  BY <1>3
<1> HIDE DEF couples, husband, before, N
<1> QED
  BY <1>1, <1>2, <1>4, <1>7, <1>8 DEF WeddingsOK

(***************************************************************************)
(* The steps that leave the marriages alone.                               *)
(***************************************************************************)
PersonsStay ==
  /\ DOMAIN person' = Persons
  /\ \A p \in Persons : /\ "there" \in DOMAIN person'[p]
                        /\ person[p].there # "unborn" => person'[p].there # "unborn"

LEMMA OtherOrder ==
  ASSUME OrderInv, PersonsStay, UNCHANGED <<marriage, wed, crossed, scene>>
  PROVE  OrderInv'
<1>1. Married' = Married /\ InFlight' = InFlight
  BY DEF Married, InFlight
<1>2. \A h : IsBorn(h) => IsBorn(h)'
  BY DEF IsBorn, PersonsStay
<1>3. MarriageRowsOK'
  BY <1>1, <1>2 DEF OrderInv, MarriageRowsOK, PersonsStay
<1>4. \A q : RequestOK(q) => RequestOK(q)'
  BY <1>1, <1>2 DEF RequestOK
<1>5. RequestsOK'
  BY <1>1, <1>4 DEF OrderInv, RequestsOK
<1>6. OneAtATime' /\ WivesInOrder'
  BY <1>1 DEF OrderInv, OneAtATime, WivesInOrder
<1>7. OrdersStillFree'
  BY <1>1 DEF OrderInv, OrdersStillFree, StillFree, OrdersOf, OrdersOfOthers
<1> QED
  BY <1>3, <1>5, <1>6, <1>7 DEF OrderInv

LEMMA UnchangedPersonsStay == ASSUME MarriageRowsOK, UNCHANGED person PROVE PersonsStay
BY DEF MarriageRowsOK, PersonsStay

(* One row of a person is written, and stays one.                          *)
LEMMA WrittenPersonsStay ==
  ASSUME MarriageRowsOK, NEW p, NEW row, "there" \in DOMAIN row, row.there # "unborn",
         person' = [person EXCEPT ![p] = row]
  PROVE  PersonsStay
BY DEF MarriageRowsOK, PersonsStay

LEMMA EditedIsThere ==
  ASSUME MarriageRowsOK, NEW p \in Persons, NEW shared
  PROVE  "there" \in DOMAIN Edited(p, shared) /\ Edited(p, shared).there = person[p].there
<1>1. PICK row : row = person[p]
  OBVIOUS
<1>2. PICK new : new = FamilyToClan(shared)
  OBVIOUS
<1>3. "there" \in DOMAIN row
  BY <1>1 DEF MarriageRowsOK
<1>4. PICK with : with = [row EXCEPT !.gender = new.gender, !.value = new.value]
  OBVIOUS
<1>5. "there" \in DOMAIN with /\ with.there = row.there
  BY <1>3, <1>4
<1>6. Edited(p, shared) = [with EXCEPT !.version = @ + 1]
  BY <1>1, <1>2, <1>4 DEF Edited, With
<1> QED
  BY <1>1, <1>5, <1>6

LEMMA BornIsThere ==
  ASSUME NEW c, NEW shared, NEW parents
  PROVE  "there" \in DOMAIN BornInto(c, shared, parents) /\ BornInto(c, shared, parents).there = "live"
<1>1. PICK new : new = FamilyToClan(shared)
  OBVIOUS
<1>2. PICK row : row = [UnbornPerson EXCEPT !.there = "live", !.clan = c, !.father = parents[1],
                                            !.mother = parents[2], !.version = 1]
  OBVIOUS
<1>3. row = [there |-> "live", clan |-> c, gender |-> "?", order |-> 0,
             father |-> parents[1], mother |-> parents[2], value |-> "new", version |-> 1]
  BY <1>2 DEF UnbornPerson
<1>4. BornInto(c, shared, parents) = [row EXCEPT !.gender = new.gender, !.value = new.value]
  BY <1>1, <1>2 DEF BornInto, With
<1> QED
  BY <1>3, <1>4

LEMMA EditClanPersonStays == ASSUME MarriageRowsOK, EditClanPerson PROVE PersonsStay
<1>1. PICK c \in Clans, shared \in Edits : \E p \in PersonsOf(c) :
         person' = [person EXCEPT ![p] = Edited(p, shared)]
  BY DEF EditClanPerson
<1>2. PICK p \in PersonsOf(c) : person' = [person EXCEPT ![p] = Edited(p, shared)]
  BY <1>1
<1>3. p \in Persons /\ person[p].there = "live"
  BY DEF PersonsOf
<1> QED
  BY <1>2, <1>3, EditedIsThere, WrittenPersonsStay

LEMMA DeleteClanPersonStays == ASSUME MarriageRowsOK, DeleteClanPerson PROVE PersonsStay
<1>1. PICK p \in Persons : person' = [person EXCEPT ![p].there = "deleted", ![p].version = @ + 1]
  BY DEF DeleteClanPerson, PersonsOf
<1>2. PICK row : row = person[p]
  OBVIOUS
<1>3. PICK gone : gone = [row EXCEPT !.there = "deleted"]
  OBVIOUS
<1>4. PICK new : new = [gone EXCEPT !.version = @ + 1]
  OBVIOUS
<1>5. "there" \in DOMAIN new /\ new.there = "deleted"
  BY <1>2, <1>3, <1>4 DEF MarriageRowsOK
<1>6. person' = [person EXCEPT ![p] = new]
  BY <1>1, <1>2, <1>3, <1>4 DEF MarriageRowsOK
<1> QED
  BY <1>5, <1>6, WrittenPersonsStay

LEMMA PatchLinkedStays == ASSUME MarriageRowsOK, PatchLinked PROVE PersonsStay
<1>1. PICK f \in LiveKin, shared \in Edits : \E applied :
         person' = [p \in Persons |-> IF p \in applied THEN Edited(p, shared) ELSE person[p]]
  BY DEF PatchLinked
<1>2. PICK applied : person' = [p \in Persons |-> IF p \in applied THEN Edited(p, shared) ELSE person[p]]
  BY <1>1
<1>3. \A p \in Persons : person'[p] = IF p \in applied THEN Edited(p, shared) ELSE person[p]
  BY <1>2
<1> QED
  BY <1>2, <1>3, EditedIsThere DEF PersonsStay, MarriageRowsOK

LEMMA ContributeStays ==
  ASSUME MarriageRowsOK, NEW f, NEW c, NEW parents, Contribute(f, c, parents)
  PROVE  PersonsStay
<1>1. CASE UNCHANGED person
  BY <1>1, UnchangedPersonsStay
<1>2. CASE person' = [person EXCEPT ![Min(FreshPersons)] = BornInto(c, Own(f), parents)]
  BY <1>2, BornIsThere, WrittenPersonsStay
<1> QED
  BY <1>1, <1>2 DEF Contribute

LEMMA ApproveStays == ASSUME MarriageRowsOK, Approve PROVE PersonsStay
<1>1. PICK o \in offers : ApproveCreation(o) \/ ApproveUpdate(o)
  BY DEF Approve
<1>2. CASE ApproveCreation(o)
  BY <1>2, BornIsThere, WrittenPersonsStay DEF ApproveCreation
<1>3. CASE ApproveUpdate(o)
  <2>1. person[o.person].there = "live" /\ person' = [person EXCEPT ![o.person] = Edited(o.person, o.shared)]
    BY <1>3 DEF ApproveUpdate
  <2>2. CASE o.person \in Persons
    BY <2>1, <2>2, EditedIsThere, WrittenPersonsStay
  <2>3. CASE o.person \notin Persons
    BY <2>1, <2>3 DEF MarriageRowsOK, PersonsStay
  <2> QED
    BY <2>2, <2>3
<1> QED
  BY <1>1, <1>2, <1>3

(***************************************************************************)
(* A new clan out of the tree: its husbands are new persons, so their      *)
(* wives are counted from the first.                                       *)
(***************************************************************************)
LEMMA FirstFresh == Min(FreshMarriages \cup {MaxMarriages + 1}) \in Int
<1>1. PICK S : S = FreshMarriages \cup {MaxMarriages + 1}
  OBVIOUS
<1>2. S \in SUBSET Nat /\ S # {}
  BY <1>1, ClansAssumption DEF FreshMarriages, Marriages
<1>3. Min(S) \in S
  BY <1>2, LeastNat DEF Min
<1> QED
  BY <1>1, <1>2, <1>3

Bootstraps(c, copy, idOf, weddings) ==
  /\ copy \in SUBSET Kin
  /\ idOf \in [copy -> FreshPersons]
  /\ CopyInto(c, copy, idOf, weddings)
  /\ WeddingsOK(weddings, {idOf[f] : f \in copy})

LEMMA BootstrapEffect ==
  ASSUME LinksInv, scene = "links", BootstrapClan
  PROVE  \E c, copy, idOf, weddings : Bootstraps(c, copy, idOf, weddings)
<1>1. PICK c \in Clans, root \in LiveKin :
         /\ Cardinality(CopySet(root)) <= Min({Cardinality(FreshPersons), Cardinality(FreshLinks)})
         /\ CopyInto(c, CopySet(root), Numbered(CopySet(root), FreshPersons),
                     Weddings(CopySet(root), Numbered(CopySet(root), FreshPersons)))
  BY DEF BootstrapClan
<1>2. PICK copy : copy = CopySet(root)
  OBVIOUS
<1>3. copy \in SUBSET Kin
  BY <1>2, CopySetIsKin DEF LinksInv
<1>4. copy \in SUBSET Nat /\ IsFiniteSet(copy)
  <2>1. Kin \in SUBSET Nat /\ IsFiniteSet(Kin)
    BY KinAssumption, FS_Interval DEF Kin
  <2> QED
    BY <1>3, <2>1, FS_Subset
<1>5. PICK idOf : idOf = Numbered(copy, FreshPersons)
  OBVIOUS
<1>6. idOf \in [copy -> FreshPersons]
  BY <1>1, <1>2, <1>4, <1>5, FreshAreFinite, NumberedPersons
<1>7. PICK weddings : weddings = Weddings(copy, idOf)
  OBVIOUS
<1>8. CopyInto(c, copy, idOf, weddings)
  BY <1>1, <1>2, <1>5, <1>7
<1>9. WeddingsOK(weddings, {idOf[f] : f \in copy})
  <2>1. PICK T : T = {idOf[f] : f \in copy}
    OBVIOUS
  <2>2. idOf \in [copy -> T]
    BY <1>6, <2>1
  <2> QED
    BY <1>4, <1>7, <2>1, <2>2, WeddingsInOrder
<1>10. Bootstraps(c, copy, idOf, weddings)
  BY <1>3, <1>6, <1>8, <1>9 DEF Bootstraps
<1> QED
  BY <1>10

LEMMA BootstrapOrder ==
  ASSUME OrderInv, LinksInv, scene = "links", BootstrapClan, scene' = scene
  PROVE  OrderInv'
<1>0. PICK c, copy, idOf, weddings : Bootstraps(c, copy, idOf, weddings)
  BY BootstrapEffect
<1>1. /\ copy \in SUBSET Kin
      /\ idOf \in [copy -> FreshPersons]
      /\ CopyInto(c, copy, idOf, weddings)
      /\ WeddingsOK(weddings, {idOf[f] : f \in copy})
  BY <1>0 DEF Bootstraps
<1>2. PICK first \in Int : marriage' = [m \in Marriages |->
                       IF m - first + 1 \in DOMAIN weddings THEN weddings[m - first + 1]
                       ELSE marriage[m]]
  BY <1>1, FirstFresh DEF CopyInto
<1>3. UNCHANGED <<wed, crossed>> /\ InFlight = {} /\ InFlight' = {}
  BY DEF BootstrapClan, InFlight, OrderInv, RequestsOK
<1>4. PICK new : /\ person' = Over(new, person) /\ DOMAIN new = {idOf[f] : f \in copy}
                 /\ \A p \in DOMAIN new : "there" \in DOMAIN new[p] /\ new[p].there = "live"
  <2> DEFINE id(f) == IF f \in copy THEN idOf[f] ELSE NoPerson
             new == [p \in {idOf[f] : f \in copy} |->
                          LET f == CHOOSE x \in copy : idOf[x] = p
                          IN BornInto(c, Shown(f), <<id(kin[f].father), id(kin[f].mother)>>)]
  <2>1. person' = Over(new, person)
    BY <1>1 DEF CopyInto
  <2>2. \A p \in DOMAIN new : "there" \in DOMAIN new[p] /\ new[p].there = "live"
    <3>1. \A p \in DOMAIN new : \E shared, parents : new[p] = BornInto(c, shared, parents)
      OBVIOUS
    <3> HIDE DEF new
    <3> QED
      BY <3>1, BornIsThere
  <2>3. DOMAIN new = {idOf[f] : f \in copy}
    OBVIOUS
  <2> HIDE DEF new
  <2> QED
    BY <2>1, <2>2, <2>3
<1>5. DOMAIN new \subseteq FreshPersons /\ FreshPersons \subseteq Persons
  BY <1>1, <1>4 DEF FreshPersons
<1>6. /\ DOMAIN person' = Persons
      /\ \A p \in Persons : person'[p] = IF p \in DOMAIN new THEN new[p] ELSE person[p]
  BY <1>4, <1>5 DEF Over, OrderInv, MarriageRowsOK
<1>7. \A p \in Persons : "there" \in DOMAIN person'[p] /\ (IsBorn(p) => IsBorn(p)')
  BY <1>4, <1>6 DEF OrderInv, MarriageRowsOK, IsBorn
<1>8. \A m \in Marriages : m \in Int
  BY DEF Marriages
<1>9. \A m \in Marriages : \/ m - first + 1 \in DOMAIN weddings /\ marriage'[m] = weddings[m - first + 1]
                           \/ m - first + 1 \notin DOMAIN weddings /\ marriage'[m] = marriage[m]
  BY <1>2
<1>10. DOMAIN marriage' = Marriages
  BY <1>2
<1>11. \A p \in DOMAIN new : IsBorn(p)' /\ ~IsBorn(p)
  BY <1>4, <1>5, <1>6 DEF IsBorn, FreshPersons
<1>12. WeddingsOK(weddings, DOMAIN new)
  BY <1>1, <1>4
<1>13. \A m \in Married' :
         \/ m - first + 1 \in DOMAIN weddings /\ marriage'[m] = weddings[m - first + 1]
         \/ m \in Married /\ marriage'[m] = marriage[m]
  BY <1>9 DEF Married
<1>14. MarriageRowsOK'
  <2>1. \A m \in Marriages : MarriageColumns \subseteq DOMAIN marriage'[m]
    BY <1>9, <1>12 DEF OrderInv, MarriageRowsOK, WeddingsOK
  <2>2. \A m \in Married' : IsBorn(marriage[m].husband)'
    <3> SUFFICES ASSUME NEW m \in Married' PROVE IsBorn(marriage[m].husband)'
      OBVIOUS
    <3>1. CASE m - first + 1 \in DOMAIN weddings /\ marriage'[m] = weddings[m - first + 1]
      BY <1>11, <1>12, <3>1 DEF WeddingsOK
    <3>2. CASE m \in Married /\ marriage'[m] = marriage[m]
      BY <1>7, <3>2 DEF OrderInv, MarriageRowsOK, IsBorn
    <3> QED
      BY <1>13, <3>1, <3>2
  <2> QED
    BY <1>6, <1>7, <1>10, <2>1, <2>2 DEF MarriageRowsOK
<1>15. WivesInOrder'
  <2> SUFFICES ASSUME NEW m \in Married', NEW n \in Married', m # n,
                      marriage'[m].husband = marriage'[n].husband, marriage'[m].husband \notin crossed
               PROVE  marriage'[m].order # marriage'[n].order
    BY <1>3 DEF WivesInOrder
  <2>1. m \in Marriages /\ n \in Marriages
    BY DEF Married
  <2>2. ASSUME m - first + 1 \in DOMAIN weddings, marriage'[m] = weddings[m - first + 1],
               n - first + 1 \in DOMAIN weddings, marriage'[n] = weddings[n - first + 1]
        PROVE  marriage'[m].order # marriage'[n].order
    <3>1. m - first + 1 # n - first + 1
      BY <1>8, <2>1
    <3> QED
      BY <1>12, <2>2, <3>1 DEF WeddingsOK
  <2>3. ASSUME m \in Married, marriage'[m] = marriage[m], n \in Married, marriage'[n] = marriage[n]
        PROVE  marriage'[m].order # marriage'[n].order
    BY <2>3 DEF OrderInv, WivesInOrder
  <2>4. \A x \in Married : IsBorn(marriage[x].husband)
    BY DEF OrderInv, MarriageRowsOK
  <2> QED
    BY <1>11, <1>12, <1>13, <2>2, <2>3, <2>4 DEF WeddingsOK
<1>16. RequestsOK' /\ OneAtATime' /\ OrdersStillFree'
  BY <1>3 DEF OrderInv, RequestsOK, OneAtATime, OrdersStillFree
<1> QED
  BY <1>14, <1>15, <1>16 DEF OrderInv

(***************************************************************************)
(* What the links are made of.                                             *)
(***************************************************************************)
LinksKept ==
  /\ pairs' \subseteq SUBSET Kin
  /\ LinksOK(link')
  /\ \A fp \in linking'.pairs : fp[1] \in Kin

LEMMA LinksKeptNext == ASSUME LinksKept PROVE LinksInv'
BY DEF LinksKept, LinksInv, LinksOK, There

LEMMA StillLinksKept ==
  ASSUME LinksInv, scene = "links", UNCHANGED <<pairs, link, linking>>
  PROVE  LinksKept
BY OldLinksOK DEF LinksInv, LinksKept

LEMMA LiveKinIsKin == LiveKin \subseteq Kin
BY DEF LiveKin

LEMMA RequestLinksKept == ASSUME LinksInv, scene = "links", RequestLinks PROVE LinksKept
<1>1. PICK c \in Clans, n \in 1..MaxPairs :
         \E pairsToLink \in kSubset(n, LiveKin \X PersonsOf(c)) : linking' = [clan |-> c, pairs |-> pairsToLink]
  BY DEF RequestLinks
<1>2. PICK new \in SUBSET (LiveKin \X PersonsOf(c)) : linking' = [clan |-> c, pairs |-> new]
  BY <1>1 DEF kSubset
<1>3. \A fp \in linking'.pairs : fp[1] \in Kin
  BY <1>2, LiveKinIsKin
<1>4. UNCHANGED <<pairs, link>>
  BY DEF RequestLinks, treeVars
<1> QED
  BY <1>3, <1>4, OldLinksOK DEF LinksInv, LinksKept

LEMMA InsertLinksKept == ASSUME LinksInv, scene = "links", InsertLinks PROVE LinksKept
<1>1. link' = link \/ link' = WithLinks(linking.clan, linking.pairs)
  BY DEF InsertLinks
<1>2. LinksOK(link')
  BY <1>1, OldLinksOK, WithLinksOK DEF LinksInv
<1>3. linking' = NoLinking /\ UNCHANGED pairs
  BY DEF InsertLinks, treeVars
<1> QED
  BY <1>2, <1>3 DEF LinksInv, LinksKept, NoLinking

LEMMA EndedLinksKept ==
  ASSUME LinksInv, scene = "links", UNCHANGED <<pairs, linking>>, NEW ls, link' = WithoutLinks(ls)
  PROVE  LinksKept
BY OldLinksOK, WithoutLinksOK DEF LinksInv, LinksKept

LEMMA OneLinkKept ==
  ASSUME LinksInv, scene = "links", UNCHANGED <<pairs, linking>>, NEW c, NEW f \in LiveKin, NEW p,
         link' = link \/ link' = WithLinks(c, {<<f, p>>})
  PROVE  LinksKept
<1>1. \A fp \in {<<f, p>>} : fp[1] \in Kin
  BY LiveKinIsKin
<1> QED
  BY <1>1, OldLinksOK, WithLinksOK DEF LinksInv, LinksKept

LEMMA ContributeKept ==
  ASSUME LinksInv, scene = "links", NEW f \in LiveKin, NEW c, NEW parents, Contribute(f, c, parents)
  PROVE  LinksKept
BY OneLinkKept DEF Contribute, treeVars

LEMMA ApproveKept == ASSUME LinksInv, scene = "links", Approve PROVE LinksKept
<1>1. PICK o \in offers : ApproveCreation(o) \/ ApproveUpdate(o)
  BY DEF Approve
<1>2. UNCHANGED <<pairs, linking>>
  BY DEF Approve, treeVars
<1>3. CASE link' = link
  BY <1>2, <1>3, StillLinksKept
<1>4. CASE link' # link
  BY <1>1, <1>2, <1>4, OneLinkKept DEF ApproveCreation, ApproveUpdate, MayLinkBack
<1> QED
  BY <1>3, <1>4

LEMMA BootstrapKept == ASSUME LinksInv, scene = "links", BootstrapClan PROVE LinksKept
<1>0. PICK c, copy, idOf, weddings : Bootstraps(c, copy, idOf, weddings)
  BY BootstrapEffect
<1>1. link' = WithLinks(c, {<<f, idOf[f]>> : f \in copy})
  BY <1>0 DEF Bootstraps, CopyInto
<1>2. \A fp \in {<<f, idOf[f]>> : f \in copy} : fp[1] \in Kin
  BY <1>0 DEF Bootstraps
<1>3. UNCHANGED <<pairs, linking>>
  BY DEF BootstrapClan, treeVars
<1> QED
  BY <1>1, <1>2, <1>3, OldLinksOK, WithLinksOK DEF LinksInv, LinksKept

LEMMA ImportKept == ASSUME LinksInv, scene = "links", ImportFromClan PROVE LinksKept
<1>0. PICK c \in Clans : \E wanted \in SUBSET PersonsOf(c) :
         LET new == wanted \ {link[l].person : l \in LinksIn(c)}
         IN /\ Cardinality(new) <= Min({Cardinality(FreshKin), Cardinality(FreshLinks)})
            /\ ImportPersons(c, new, Numbered(new, FreshKin))
  BY DEF ImportFromClan
<1>1. PICK wanted \in SUBSET PersonsOf(c) :
         LET new == wanted \ {link[l].person : l \in LinksIn(c)}
         IN /\ Cardinality(new) <= Min({Cardinality(FreshKin), Cardinality(FreshLinks)})
            /\ ImportPersons(c, new, Numbered(new, FreshKin))
  BY <1>0
<1>2. PICK new : new = wanted \ {link[l].person : l \in LinksIn(c)}
  OBVIOUS
<1>3. new \in SUBSET Nat /\ IsFiniteSet(new)
  <2>1. Persons \in SUBSET Nat /\ IsFiniteSet(Persons)
    BY ClansAssumption, FS_Interval DEF Persons
  <2>2. new \in SUBSET Persons
    BY <1>2 DEF PersonsOf
  <2> QED
    BY <2>1, <2>2, FS_Subset
<1>4. PICK born : born = Numbered(new, FreshKin)
  OBVIOUS
<1>5. born \in [new -> FreshKin] /\ ImportPersons(c, new, born)
  BY <1>1, <1>2, <1>3, <1>4, FreshAreFinite, NumberedPersons
<1>6. FreshKin \subseteq Kin
  BY DEF FreshKin
<1>7. PICK linked : linked = [p \in {link[l].person : l \in LinksIn(c)} |-> CHOOSE f \in KinOf(p) : TRUE]
  OBVIOUS
<1>8. \A p \in DOMAIN linked : linked[p] \in Kin
  <2> SUFFICES ASSUME NEW l \in LinksIn(c) PROVE (CHOOSE f \in KinOf(link[l].person) : TRUE) \in Kin
    BY <1>7
  <2>1. link[l].kin \in KinOf(link[l].person)
    BY DEF KinOf, LinksIn
  <2>2. KinOf(link[l].person) \subseteq Kin
    BY DEF KinOf, LinksInv
  <2> QED
    BY <2>1, <2>2
<1>9. PICK kinOf : kinOf = Over(born, linked)
  OBVIOUS
<1>10. \A p \in DOMAIN kinOf : kinOf[p] \in Kin
  BY <1>5, <1>6, <1>8, <1>9 DEF Over
<1>11. pairs' = pairs \cup ConnectSpouses(c, kinOf, new)
  BY <1>5, <1>7, <1>9 DEF ImportPersons
<1>12. ConnectSpouses(c, kinOf, new) \subseteq SUBSET Kin
  BY <1>10 DEF ConnectSpouses
<1>13. link' = WithLinks(c, {<<born[p], p>> : p \in new})
  BY <1>5 DEF ImportPersons
<1>14. \A fp \in {<<born[p], p>> : p \in new} : fp[1] \in Kin
  BY <1>5, <1>6
<1>15. UNCHANGED linking
  BY DEF ImportFromClan
<1> QED
  BY <1>11, <1>12, <1>13, <1>14, <1>15, OldLinksOK, WithLinksOK DEF LinksInv, LinksKept

LEMMA DeletePersonKept == ASSUME LinksInv, scene = "links", DeletePerson PROVE LinksKept
<1>1. PICK f \in LiveKin : DeleteRow(f) /\ link' = WithoutLinks({l \in Links : There(l) /\ link[l].kin = f})
  BY DEF DeletePerson
<1>2. pairs' = {pair \in pairs : f \notin pair} /\ UNCHANGED linking
  BY <1>1 DEF DeleteRow, DeletePerson
<1> QED
  BY <1>1, <1>2, OldLinksOK, WithoutLinksOK DEF LinksInv, LinksKept

-----------------------------------------------------------------------------
MarriagesInv == OrderInv /\ LinksInv

LEMMA MarriagesInit == ASSUME Init PROVE MarriagesInv
<1>1. PICK s \in Scenes :
    /\ scene = s.scene /\ person = s.person /\ marriage = s.marriage
    /\ wed = [k \in Clerks |-> NoRequest] /\ pairs = {} /\ link = s.link /\ linking = NoLinking
  BY DEF Init
<1>2. SceneOK(s)
  BY ScenesAssumption
<1>3. InFlight = {} /\ DOMAIN wed = Clerks
  BY <1>1 DEF InFlight
<1>4. /\ MarriageColumns \subseteq DOMAIN NoMarriage
      /\ "there" \in DOMAIN UnbornPerson /\ {"there", "kin"} \subseteq DOMAIN NoLink
  BY DEF NoMarriage, UnbornPerson, NoLink, MarriageColumns
<1>5. MarriageRowsOK
  BY <1>1, <1>2, <1>4 DEF SceneOK, MarriageRowsOK, Married, IsBorn
<1>6. WivesInOrder
  BY <1>1, <1>2 DEF SceneOK, WivesInOrder, Married
<1>7. OrderInv
  BY <1>3, <1>5, <1>6 DEF OrderInv, RequestsOK, OneAtATime, OrdersStillFree
<1>8. LinksInv
  BY <1>1, <1>2, <1>4 DEF LinksInv, SceneOK, There, NoLinking
<1> QED
  BY <1>7, <1>8 DEF MarriagesInv

(* A request on the links of a tree and the clans.                         *)
LEMMA LinkRequestKeeps ==
  ASSUME MarriagesInv, scene = "links", scene' = scene, LinkRequest
  PROVE  MarriagesInv'
<1>0. OrderInv /\ LinksInv /\ MarriageRowsOK
  BY DEF MarriagesInv, OrderInv
<1>1. ASSUME PersonsStay, LinksKept, UNCHANGED <<marriage, wed, crossed>> PROVE MarriagesInv'
  BY <1>0, <1>1, OtherOrder, LinksKeptNext DEF MarriagesInv
<1>2. CASE RequestLinks
  BY <1>0, <1>1, <1>2, UnchangedPersonsStay, RequestLinksKept DEF RequestLinks, clanVars
<1>3. CASE InsertLinks
  BY <1>0, <1>1, <1>3, UnchangedPersonsStay, InsertLinksKept DEF InsertLinks, clanVars
<1>4. ASSUME NEW op, NEW c, NEW ls, Begin(op, c, ls) PROVE MarriagesInv'
  BY <1>0, <1>1, <1>4, UnchangedPersonsStay, StillLinksKept DEF Begin, clanVars, treeVars
<1>5. CASE RequestDetach \/ RequestRemoval \/ RequestClanDeletion
  BY <1>4, <1>5 DEF RequestDetach, RequestRemoval, RequestClanDeletion
<1>6. CASE Detach
  BY <1>0, <1>1, <1>6, UnchangedPersonsStay, EndedLinksKept DEF Detach
<1>7. CASE EditClanPerson
  BY <1>0, <1>1, <1>7, EditClanPersonStays, StillLinksKept DEF EditClanPerson, treeVars, linkVars
<1>8. CASE DeleteClanPerson
  <2>1. PersonsStay
    BY <1>0, <1>8, DeleteClanPersonStays
  <2>2. \E ls : link' = WithoutLinks(ls)
    BY <1>8 DEF DeleteClanPerson
  <2>3. UNCHANGED <<marriage, wed, crossed, pairs, linking>>
    BY <1>8 DEF DeleteClanPerson
  <2> QED
    BY <1>0, <1>1, <2>1, <2>2, <2>3, EndedLinksKept
<1>9. CASE PatchUnlinked
  BY <1>0, <1>1, <1>9, UnchangedPersonsStay, StillLinksKept DEF PatchUnlinked, clanVars, linkVars
<1>10. CASE PatchLinked
  BY <1>0, <1>1, <1>10, PatchLinkedStays, StillLinksKept DEF PatchLinked, treeVars
<1>11. ASSUME NEW f \in LiveKin, NEW c, NEW parents, Contribute(f, c, parents) PROVE MarriagesInv'
  <2>1. PersonsStay /\ LinksKept
    BY <1>0, <1>11, ContributeStays, ContributeKept
  <2>2. UNCHANGED <<marriage, wed, crossed>>
    BY <1>11 DEF Contribute
  <2> QED
    BY <1>1, <2>1, <2>2
<1>12. CASE ContributePerson \/ ContributeRelative
  BY <1>11, <1>12 DEF ContributePerson, ContributeRelative
<1>13. CASE Approve
  BY <1>0, <1>1, <1>13, ApproveStays, ApproveKept DEF Approve
<1>14. CASE ImportFromClan
  BY <1>0, <1>1, <1>14, UnchangedPersonsStay, ImportKept DEF ImportFromClan, clanVars
<1>15. CASE BootstrapClan
  BY <1>0, <1>15, BootstrapOrder, BootstrapKept, LinksKeptNext DEF MarriagesInv
<1> QED
  BY <1>2, <1>3, <1>5, <1>6, <1>7, <1>8, <1>9, <1>10, <1>12, <1>13, <1>14, <1>15 DEF LinkRequest

LEMMA MarriageRequestKeeps ==
  ASSUME MarriagesInv, scene = "marriages", scene' = scene, NEW k \in Clerks, MarriageRequest(k)
  PROVE  OrderInv'
BY ReceiveCreateOrder, ReceiveUpdateOrder, ReceiveDeleteOrder, InsertOrder, SaveOrder, DropOrder
   DEF MarriagesInv, MarriageRequest

LEMMA MarriagesNext == ASSUME MarriagesInv, [Next]_vars PROVE MarriagesInv'
<1>0. OrderInv /\ LinksInv /\ MarriageRowsOK
  BY DEF MarriagesInv, OrderInv
<1>1. ASSUME UNCHANGED <<person, marriage, wed, crossed, scene>> PROVE OrderInv'
  BY <1>0, <1>1, UnchangedPersonsStay, OtherOrder
<1>2. ASSUME scene # "links", scene' = scene PROVE LinksInv'
  BY <1>2 DEF LinksInv
<1>3. CASE UNCHANGED vars
  <2>1. UNCHANGED <<person, marriage, wed, crossed, scene>> /\ UNCHANGED <<pairs, link, linking>>
    BY <1>3 DEF vars, clanVars, treeVars, linkVars
  <2>2. LinksInv'
    BY <1>0, <1>2, <2>1, StillLinksKept, LinksKeptNext
  <2> QED
    BY <1>1, <2>1, <2>2 DEF MarriagesInv
<1>4. CASE Next /\ scene = "kinship" /\ Ask
  BY <1>1, <1>2, <1>4 DEF Next, Ask, MarriagesInv
<1>5. CASE Next /\ scene = "marriages" /\ \E k \in Clerks : MarriageRequest(k)
  BY <1>2, <1>5, MarriageRequestKeeps DEF Next, MarriagesInv
<1>6. CASE Next /\ scene = "tree" /\ UNCHANGED clanVars
  BY <1>1, <1>2, <1>6 DEF Next, clanVars, MarriagesInv
<1>7. CASE Next /\ scene = "links" /\ LinkRequest
  BY <1>7, LinkRequestKeeps DEF Next
<1>8. CASE Next /\ scene = "links" /\ DeletePerson
  <2>1. UNCHANGED <<person, marriage, wed, crossed, scene>>
    BY <1>8 DEF Next, DeletePerson, clanVars
  <2> QED
    BY <1>0, <1>1, <1>8, <2>1, DeletePersonKept, LinksKeptNext DEF MarriagesInv
<1>9. CASE Next /\ scene = "tree" /\ DeletePerson
  BY <1>6, <1>9 DEF DeletePerson
<1> QED
  BY <1>3, <1>4, <1>5, <1>6, <1>7, <1>8, <1>9 DEF Next

(***************************************************************************)
(* Two living wives of one husband never have the same order, unless his   *)
(* marriage requests have overlapped (selectors/marriage.py).              *)
(***************************************************************************)
THEOREM WivesAreInOrder == Spec => []WivesInOrder
<1>1. Init => MarriagesInv
  BY MarriagesInit
<1>2. MarriagesInv /\ [Next]_vars => MarriagesInv'
  BY MarriagesNext
<1>3. MarriagesInv => WivesInOrder
  BY DEF MarriagesInv, OrderInv
<1> QED
  BY <1>1, <1>2, <1>3, PTL DEF Spec

-----------------------------------------------------------------------------
(***************************************************************************)
(* A marriage request that was alone from its check to its write still     *)
(* has the right it had when it was checked.                               *)
(***************************************************************************)
Entitled(q) ==
  \E c \in Clans : /\ {q.row.husband, q.row.wife} \subseteq PersonsOf(c)
                  /\ q.row.husband # q.row.wife
                  /\ MayMarry(q.by, c, q.row.husband, q.row.wife)

AloneInv ==
  \A k \in InFlight : wed[k].alone =>
    InFlight = {k} /\ (wed[k].op = "create" => Entitled(wed[k]))

LEMMA ScopesStay ==
  ASSUME UNCHANGED <<person, marriage, member>>
  PROVE  /\ \A u, c, h, w : MayMarry(u, c, h, w)' <=> MayMarry(u, c, h, w)
         /\ \A c : PersonsOf(c)' = PersonsOf(c)
         /\ \A u, c : ScopeOf(member[u][c], c)' = ScopeOf(member[u][c], c)
<1>1. Married' = Married
  BY DEF Married
<1>2. \A p : Partners(p)' = Partners(p)
  BY <1>1 DEF Partners
<1>3. \A c : PersonsOf(c)' = PersonsOf(c)
  BY DEF PersonsOf
<1>4. \A c : TreeOf(c)' = TreeOf(c) /\ VerifiedNodes(c)' = VerifiedNodes(c)
  BY <1>3 DEF TreeOf, VerifiedNodes
<1>5. \A ids : WithSpouses(ids)' = WithSpouses(ids)
  BY <1>2 DEF WithSpouses
<1>6. \A tree, root : BranchScope(tree, root)' = BranchScope(tree, root)
  BY <1>5 DEF BranchScope
<1>7. \A tree, p, verified : FamilyScope(tree, p, verified)' = FamilyScope(tree, p, verified)
  BY <1>5 DEF FamilyScope
<1>8. \A u, c : ScopeOf(member[u][c], c)' = ScopeOf(member[u][c], c)
  <2> SUFFICES ASSUME NEW u, NEW c PROVE ScopeOf(member[u][c], c)' = ScopeOf(member[u][c], c)
    OBVIOUS
  <2>1. TreeOf(c)' = TreeOf(c) /\ VerifiedNodes(c)' = VerifiedNodes(c)
    BY <1>4
  <2>2. BranchScope(TreeOf(c), member[u][c].root)' = BranchScope(TreeOf(c), member[u][c].root)
    BY <1>5, <2>1 DEF BranchScope
  <2>3. FamilyScope(TreeOf(c), member[u][c].node, VerifiedNodes(c))'
          = FamilyScope(TreeOf(c), member[u][c].node, VerifiedNodes(c))
    BY <1>5, <2>1 DEF FamilyScope
  <2> QED
    BY <2>2, <2>3 DEF ScopeOf
<1>9. \A p : IsUnattached(p)' <=> IsUnattached(p)
  BY <1>2 DEF IsUnattached
<1>10. \A u, c, h, w : MayMarry(u, c, h, w)' <=> MayMarry(u, c, h, w)
  BY <1>8, <1>9 DEF MayMarry
<1> QED
  BY <1>3, <1>8, <1>10

LEMMA TakenAlone ==
  ASSUME OrderInv, AloneInv, NEW k, NEW q, Take(k, q), q.op # "idle", q.alone => InFlight = {},
         q.op = "create" => Entitled(q)
  PROVE  AloneInv'
<1>1. /\ InFlight' = InFlight \cup {k} /\ wed'[k] = q
      /\ \A j \in InFlight : ~wed'[j].alone
  BY TakeEffect
<1>2. q.op = "create" => Entitled(q)'
  BY ScopesStay DEF Take, Entitled
<1> QED
  BY <1>1, <1>2 DEF AloneInv

LEMMA ReceiveCreateAlone ==
  ASSUME OrderInv, AloneInv, NEW k \in Clerks, ReceiveCreate(k), scene' = scene
  PROVE  AloneInv'
<1>0. PICK u \in Users, c \in Clans, status \in Statuses : \E h, w \in PersonsOf(c), order \in 0..MaxOrder :
         LET given == IF order = 0 THEN NextOrder(h) ELSE order
         IN /\ h # w /\ MayMarry(u, c, h, w)
            /\ Receive(k, "create", u, 0, [there |-> "live", husband |-> h, wife |-> w,
                                      order |-> given, status |-> status])
  BY DEF ReceiveCreate
<1>1. PICK h \in PersonsOf(c), w \in PersonsOf(c), order \in 0..MaxOrder :
         LET given == IF order = 0 THEN NextOrder(h) ELSE order
         IN /\ h # w /\ MayMarry(u, c, h, w)
            /\ Receive(k, "create", u, 0, [there |-> "live", husband |-> h, wife |-> w,
                                      order |-> given, status |-> status])
  BY <1>0
<1>2. PICK given : given = IF order = 0 THEN NextOrder(h) ELSE order
  OBVIOUS
<1>3. PICK row : row = [there |-> "live", husband |-> h, wife |-> w, order |-> given, status |-> status]
  OBVIOUS
<1>4. h # w /\ MayMarry(u, c, h, w) /\ Receive(k, "create", u, 0, row)
  BY <1>1, <1>2, <1>3
<1>5. PICK q : q = [op |-> "create", by |-> u, m |-> 0, row |-> row, alone |-> InFlight = {}]
  OBVIOUS
<1>6. Take(k, q)
  BY <1>4, <1>5 DEF Receive, Take
<1>7. q.op = "create" /\ (q.alone => InFlight = {})
  BY <1>5
<1>8. Entitled(q)
  BY <1>3, <1>4, <1>5 DEF Entitled
<1> QED
  BY <1>6, <1>7, <1>8, TakenAlone

LEMMA ReceiveOtherAlone ==
  ASSUME OrderInv, AloneInv, NEW k \in Clerks, NEW op \in {"update", "delete"}, NEW u, NEW m, NEW row,
         Receive(k, op, u, m, row), scene' = scene
  PROVE  AloneInv'
<1>1. PICK q : q = [op |-> op, by |-> u, m |-> m, row |-> row, alone |-> InFlight = {}]
  OBVIOUS
<1>2. Take(k, q)
  BY <1>1 DEF Receive, Take
<1>3. q.op = op /\ (q.alone => InFlight = {})
  BY <1>1
<1> QED
  BY <1>2, <1>3, TakenAlone

LEMMA EndsAlone == ASSUME OrderInv, AloneInv, NEW k, Ends(k) PROVE AloneInv'
<1>1. InFlight' = InFlight \ {k} /\ k \in InFlight /\ \A j \in InFlight' : wed'[j] = wed[j]
  BY EndsEffect DEF Ends
<1> QED
  BY <1>1 DEF AloneInv

LEMMA MarriageRequestAlone ==
  ASSUME OrderInv, AloneInv, scene' = scene, NEW k \in Clerks, MarriageRequest(k)
  PROVE  AloneInv'
<1>1. CASE ReceiveCreate(k)
  BY <1>1, ReceiveCreateAlone
<1>2. CASE ReceiveUpdate(k)
  <2>1. \E u, m, row : Receive(k, "update", u, m, row)
    BY <1>2 DEF ReceiveUpdate
  <2> QED
    BY <2>1, ReceiveOtherAlone
<1>3. CASE ReceiveDelete(k)
  <2>1. \E u, m, row : Receive(k, "delete", u, m, row)
    BY <1>3 DEF ReceiveDelete
  <2> QED
    BY <2>1, ReceiveOtherAlone
<1>4. CASE InsertMarriage(k) \/ SaveMarriage(k) \/ DropMarriage(k)
  <2>1. Ends(k)
    BY <1>4, NoRequestIdle DEF InsertMarriage, SaveMarriage, DropMarriage, Finished, Ends, InFlight
  <2> QED
    BY <2>1, EndsAlone
<1> QED
  BY <1>1, <1>2, <1>3, <1>4 DEF MarriageRequest

LEMMA AloneNext == ASSUME MarriagesInv, AloneInv, [Next]_vars PROVE AloneInv'
<1>1. OrderInv
  BY DEF MarriagesInv
<1>2. CASE UNCHANGED vars
  <2>1. UNCHANGED <<person, marriage, member, wed>>
    BY <1>2 DEF vars, clanVars
  <2>2. InFlight' = InFlight /\ \A q : Entitled(q) => Entitled(q)'
    BY <2>1, ScopesStay DEF InFlight, Entitled
  <2> QED
    BY <2>1, <2>2 DEF AloneInv
<1>3. CASE Next /\ scene = "marriages"
  BY <1>1, <1>3, MarriageRequestAlone DEF Next
<1>4. CASE Next /\ scene # "marriages"
  <2>1. InFlight = {} /\ scene' = scene /\ RequestsOK'
    BY <1>1, <1>4, MarriagesNext DEF OrderInv, RequestsOK, Next, MarriagesInv
  <2>2. InFlight' = {}
    BY <1>4, <2>1 DEF RequestsOK
  <2> QED
    BY <2>2 DEF AloneInv
<1> QED
  BY <1>2, <1>3, <1>4

-----------------------------------------------------------------------------
(***************************************************************************)
(* The partners of a subtree grow by the other half of the new marriage.   *)
(***************************************************************************)
Weds(m, row) ==
  /\ m \in Marriages \ Married /\ row.there = "live"
  /\ marriage' = [marriage EXCEPT ![m] = row]
MarriedInto(ids, row, p) == \E x \in ids : x \in {row.husband, row.wife} /\ p = Partner(row, x)

LEMMA NewPartner ==
  ASSUME MarriageRowsOK, NEW m, NEW row, Weds(m, row), NEW x, NEW p \in Partners(x)' \ Partners(x)
  PROVE  x \in {row.husband, row.wife} /\ p = Partner(row, x)
<1>1. \A n \in Marriages : marriage'[n] = IF n = m THEN row ELSE marriage[n]
  BY DEF MarriageRowsOK, Weds
<1>2. Married' = Married \cup {m}
  BY <1>1 DEF Married, Weds
<1>3. PICK n \in Married' : x \in {marriage'[n].husband, marriage'[n].wife} /\ p = Partner(marriage'[n], x)
  BY DEF Partners, Partner
<1>4. n = m
  <2> SUFFICES ASSUME n # m PROVE FALSE
    OBVIOUS
  <2>1. n \in Married /\ marriage'[n] = marriage[n]
    BY <1>1, <1>2 DEF Married
  <2>2. p \in Partners(x)
    BY <1>3, <2>1 DEF Partners
  <2> QED
    BY <2>2
<1> QED
  BY <1>1, <1>3, <1>4 DEF Weds

LEMMA NewSpouses ==
  ASSUME MarriageRowsOK, NEW m, NEW row, Weds(m, row), NEW ids, NEW p \in WithSpouses(ids)' \ WithSpouses(ids)
  PROVE  MarriedInto(ids, row, p)
<1>1. PICK x \in ids : p \in Partners(x)' \ Partners(x)
  BY DEF WithSpouses
<1> QED
  BY <1>1, NewPartner DEF MarriedInto

LEMMA SubtreeInClan ==
  ASSUME NEW c, NEW root \in DOMAIN TreeOf(c)
  PROVE  SubtreeIds(TreeOf(c), root) \subseteq PersonsOf(c)
<1>1. DOMAIN TreeOf(c) = PersonsOf(c)
  BY DEF TreeOf
<1>2. Persons \in SUBSET Nat /\ IsFiniteSet(Persons) /\ PersonsOf(c) \in SUBSET Persons
  BY ClansAssumption, FS_Interval DEF Persons, PersonsOf
<1>3. IsFiniteSet(DOMAIN TreeOf(c))
  BY <1>1, <1>2, FS_Subset
<1>4. Descendants(TreeOf(c), root) \subseteq PersonsOf(c)
  BY <1>1, <1>3, DescendantsClosed
<1> QED
  BY <1>1, <1>4 DEF SubtreeIds

(* Somebody new in a scope comes by a marriage within the clan.            *)
LEMMA NewInScopeOfMarriage ==
  ASSUME MarriageRowsOK, NEW m, NEW row, Weds(m, row), UNCHANGED <<person, member>>,
         NEW u, NEW c, NEW p \in NewInScope(u, c)
  PROVE  MarriedInto(PersonsOf(c), row, p)
<1>1. TreeOf(c)' = TreeOf(c) /\ VerifiedNodes(c)' = VerifiedNodes(c) /\ member'[u][c] = member[u][c]
  BY DEF TreeOf, VerifiedNodes, PersonsOf
<1>2. PICK tree, verified, a : tree = TreeOf(c) /\ verified = VerifiedNodes(c) /\ a = member[u][c]
  OBVIOUS
<1>3. \E root \in DOMAIN tree :
         p \in WithSpouses(SubtreeIds(tree, root))' \ WithSpouses(SubtreeIds(tree, root))
  <2>1. p \in ScopeOf(member[u][c], c)' /\ p \notin ScopeOf(member[u][c], c)
    BY DEF NewInScope
  <2>2. CASE a.role = "editor" /\ p \in BranchScope(tree, a.root)'
    <3>1. p \notin BranchScope(tree, a.root)
      BY <1>2, <2>1, <2>2 DEF ScopeOf
    <3> QED
      BY <2>2, <3>1 DEF BranchScope
  <2>3. CASE /\ a.role # "none" /\ a.verified /\ a.node # NoPerson
             /\ p \in FamilyScope(tree, a.node, verified)'
    <3>1. p \notin FamilyScope(tree, a.node, verified)
      BY <1>2, <2>1, <2>3 DEF ScopeOf
    <3> QED
      BY <2>3, <3>1 DEF FamilyScope
  <2> QED
    BY <1>1, <1>2, <2>1, <2>2, <2>3 DEF ScopeOf
<1>4. PICK root \in DOMAIN tree :
         p \in WithSpouses(SubtreeIds(tree, root))' \ WithSpouses(SubtreeIds(tree, root))
  BY <1>3
<1>5. SubtreeIds(tree, root) \subseteq PersonsOf(c)
  BY <1>2, SubtreeInClan
<1>6. PICK ids : ids = SubtreeIds(tree, root)
  OBVIOUS
<1>7. p \in WithSpouses(ids)' \ WithSpouses(ids)
  BY <1>4, <1>6 DEF WithSpouses
<1>8. MarriedInto(ids, row, p)
  BY <1>7, NewSpouses
<1> QED
  BY <1>5, <1>6, <1>8 DEF MarriedInto

LEMMA InsertAddsNewcomers ==
  ASSUME MarriagesInv, AloneInv, NEW k \in Clerks, InsertMarriage(k), wed[k].alone,
         NEW c, NEW u, wed[k].by = u, ~WholeClan(member[u][c]), NEW p \in NewInScope(u, c)
  PROVE  IsUnattached(p)
<1>1. /\ wed[k].op = "create" /\ k \in InFlight /\ OrderInv /\ MarriageRowsOK
      /\ UNCHANGED <<person, member>>
  BY NoRequestIdle DEF InsertMarriage, InFlight, MarriagesInv, OrderInv, Finished
<1>2. PICK row : row = wed[k].row
  OBVIOUS
<1>3. row.there = "live"
  BY <1>1, <1>2 DEF OrderInv, RequestsOK, RequestOK
<1>4. marriage' # marriage
  BY <1>1, ScopesStay DEF NewInScope
<1>5. FreshMarriages # {} /\ marriage' = [marriage EXCEPT ![Min(FreshMarriages)] = row]
  BY <1>2, <1>4 DEF InsertMarriage
<1>6. PICK m : Weds(m, row)
  BY <1>3, <1>5, FreshInserted DEF Married, Weds
<1>7. PICK x \in PersonsOf(c) : x \in {row.husband, row.wife} /\ p = Partner(row, x)
  BY <1>1, <1>6, NewInScopeOfMarriage DEF MarriedInto
<1>8. PICK d \in Clans : /\ {row.husband, row.wife} \subseteq PersonsOf(d)
                        /\ row.husband # row.wife
                        /\ MayMarry(u, d, row.husband, row.wife)
  BY <1>1, <1>2 DEF AloneInv, Entitled
<1>9. d = c
  BY <1>7, <1>8 DEF PersonsOf
<1>10. p \in {row.husband, row.wife}
  BY <1>7 DEF Partner
<1>11. p \notin ScopeOf(member[u][c], c)
  BY <1>2 DEF NewInScope
<1> QED
  BY <1>2, <1>8, <1>9, <1>10, <1>11 DEF MayMarry

LEMMA NewcomersNext ==
  ASSUME MarriagesInv, AloneInv, [Next]_vars, NEW k \in Clerks, NEW c \in Clans, NEW u \in Users,
         wed[k].op = "create", wed[k].by = u, wed[k].alone, wed'[k] = NoRequest,
         ~WholeClan(member[u][c]), NEW p \in NewInScope(u, c)
  PROVE  IsUnattached(p)
<1>1. k \in InFlight /\ OrderInv
  BY NoRequestIdle DEF InFlight, MarriagesInv
<1>2. wed' # wed
  BY NoRequestIdle
<1>3. Next /\ scene = "marriages"
  BY <1>1, <1>2 DEF OrderInv, RequestsOK, vars, clanVars
<1>4. PICK j \in Clerks : MarriageRequest(j)
  BY <1>3 DEF Next
<1>5. ASSUME NEW op, NEW v, NEW m, NEW row, Receive(j, op, v, m, row) PROVE FALSE
  <2>1. j # k
    BY <1>5, NoRequestIdle DEF Receive
  <2>2. wed'[k] = [wed[k] EXCEPT !.alone = FALSE]
    BY <1>5, <2>1, NoRequestIdle DEF Receive
  <2>3. wed'[k].op = "create"
    BY <1>1, <2>2 DEF OrderInv, RequestsOK, RequestOK, RequestColumns
  <2> QED
    BY <2>3, NoRequestIdle
<1>6. InsertMarriage(j) \/ SaveMarriage(j) \/ DropMarriage(j)
  BY <1>4, <1>5, ZenonT(60) DEF MarriageRequest, ReceiveCreate, ReceiveUpdate, ReceiveDelete
<1>7. j = k
  <2>1. wed' = [wed EXCEPT ![j] = NoRequest]
    BY <1>6 DEF InsertMarriage, SaveMarriage, DropMarriage, Finished
  <2> QED
    BY <1>1, <2>1, NoRequestIdle
<1>8. InsertMarriage(k)
  BY <1>6, <1>7 DEF SaveMarriage, DropMarriage
<1> QED
  BY <1>8, InsertAddsNewcomers

(***************************************************************************)
(* Whom a family-scoped user may write grows, by a marriage they record,   *)
(* only by persons who were attached to nobody (permissions_scope.py,      *)
(* require_marriage_write), unless the request was overlapped.             *)
(***************************************************************************)
THEOREM MarriagesAddNewcomers == Spec => MarriageAddsOnlyNewcomers
<1>1. Init => MarriagesInv /\ AloneInv
  <2> SUFFICES ASSUME Init PROVE AloneInv
    BY MarriagesInit
  <2>1. InFlight = {}
    BY DEF Init, InFlight
  <2> QED
    BY <2>1 DEF AloneInv
<1>2. MarriagesInv /\ AloneInv /\ [Next]_vars => (MarriagesInv /\ AloneInv)'
  BY MarriagesNext, AloneNext
<1>3. MarriagesInv /\ AloneInv /\ [Next]_vars =>
        [\A k \in Clerks, c \in Clans, u \in Users :
           /\ wed[k].op = "create" /\ wed[k].by = u /\ wed[k].alone
           /\ wed'[k] = NoRequest
           /\ member[u][c].role # "none" /\ ~WholeClan(member[u][c])
           => \A p \in NewInScope(u, c) : IsUnattached(p)]_<<wed, marriage>>
  BY NewcomersNext
<1> QED
  BY <1>1, <1>2, <1>3, PTL DEF Spec, MarriageAddsOnlyNewcomers

-----------------------------------------------------------------------------
(***************************************************************************)
(* The graph a relation request works on, and what it has planned so far.  *)
(***************************************************************************)
GraphColumns == {"kin", "pairs", "sets", "joined", "parted", "born", "ok"}
KinColumns == {"there", "gender", "value", "father", "mother"}

GraphOK(g) ==
  /\ GraphColumns \subseteq DOMAIN g
  /\ DOMAIN g.kin \subseteq Kin
  /\ \A p \in DOMAIN g.kin : KinColumns \subseteq DOMAIN g.kin[p]

(* What is planned, against the rows that were loaded: a slot that was     *)
(* held is set only when it is the target of the request, or to what it    *)
(* held; and nobody becomes their own ancestor.                            *)
Planned(g, rows) ==
  /\ DOMAIN rows \subseteq DOMAIN g.kin
  /\ DOMAIN g.kin \ DOMAIN rows = {b[1] : b \in g.born}
  /\ \A c \in DOMAIN g.kin : \A slot \in Slots :
       g.kin[c][slot] = IF <<c, slot>> \in DOMAIN g.sets THEN g.sets[<<c, slot>>]
                        ELSE IF c \in DOMAIN rows THEN rows[c][slot] ELSE NoKin

Kept(sets, rows, target) ==
  \A c \in DOMAIN rows : \A slot \in Slots :
    <<c, slot>> \in DOMAIN sets =>
      <<c, slot>> = target \/ rows[c][slot] = NoKin \/ rows[c][slot] = sets[<<c, slot>>]

NewRows(born) ==
  \A b \in born : /\ b[1] \in Kin /\ KinColumns \subseteq DOMAIN b[2]
                  /\ b[2].there = "live" /\ b[2].father = NoKin /\ b[2].mother = NoKin

PlanOK(g, rows, target) ==
  /\ GraphOK(g) /\ Planned(g, rows) /\ Kept(g.sets, rows, target) /\ NewRows(g.born)
  /\ Acyclic(ParentSets(g))

(* h is g with the parent q put into some slots.                           *)
Puts(g, h, S, q) ==
  /\ GraphColumns \subseteq DOMAIN h /\ h.born = g.born
  /\ DOMAIN h.kin = DOMAIN g.kin
  /\ \A p \in DOMAIN g.kin : DOMAIN h.kin[p] = DOMAIN g.kin[p]
  /\ \A p \in DOMAIN g.kin : \A slot \in Slots :
       h.kin[p][slot] = IF <<p, slot>> \in S THEN q ELSE g.kin[p][slot]
  /\ DOMAIN h.sets = S \cup DOMAIN g.sets
  /\ \A s \in DOMAIN h.sets : h.sets[s] = IF s \in S THEN q ELSE g.sets[s]

LEMMA KinFinite == IsFiniteSet(Kin) /\ NoKin \notin Kin
BY KinAssumption, FS_Interval DEF Kin, NoKin

LEMMA GraphFinite == ASSUME NEW g, GraphOK(g) PROVE IsFiniteSet(DOMAIN ParentSets(g))
<1>1. DOMAIN ParentSets(g) \in SUBSET Kin
  BY DEF ParentSets, GraphOK
<1> QED
  BY <1>1, KinFinite, FS_Subset

LEMMA ParentsPut ==
  ASSUME NEW g, NEW h, NEW S, NEW q, Puts(g, h, S, q), GraphOK(g)
  PROVE  /\ DOMAIN ParentSets(h) = DOMAIN g.kin /\ DOMAIN ParentSets(g) = DOMAIN g.kin
         /\ \A c \in DOMAIN g.kin : ParentSets(h)[c] \subseteq ParentSets(g)[c]
              \cup (IF q # NoKin /\ \E slot \in Slots : <<c, slot>> \in S THEN {q} ELSE {})
<1>1. \A c \in DOMAIN g.kin : ParentSets(h)[c] = {h.kin[c].father, h.kin[c].mother} \ {NoKin}
                           /\ ParentSets(g)[c] = {g.kin[c].father, g.kin[c].mother} \ {NoKin}
  BY DEF ParentSets, Puts
<1>2. "father" \in Slots /\ "mother" \in Slots
  BY DEF Slots
<1>3. \A c \in DOMAIN g.kin : /\ h.kin[c].father = IF <<c, "father">> \in S THEN q ELSE g.kin[c].father
                              /\ h.kin[c].mother = IF <<c, "mother">> \in S THEN q ELSE g.kin[c].mother
  BY <1>2 DEF Puts
<1>4. DOMAIN ParentSets(h) = DOMAIN g.kin /\ DOMAIN ParentSets(g) = DOMAIN g.kin
  BY DEF ParentSets, Puts
<1>5. ASSUME NEW c \in DOMAIN g.kin
      PROVE  ParentSets(h)[c] \subseteq ParentSets(g)[c]
              \cup (IF q # NoKin /\ \E slot \in Slots : <<c, slot>> \in S THEN {q} ELSE {})
  <2> SUFFICES ASSUME NEW x \in ParentSets(h)[c], x \notin ParentSets(g)[c]
               PROVE  x = q /\ q # NoKin /\ \E slot \in Slots : <<c, slot>> \in S
    OBVIOUS
  <2>1. x # NoKin /\ (x = h.kin[c].father \/ x = h.kin[c].mother)
    BY <1>1
  <2>2. x # g.kin[c].father /\ x # g.kin[c].mother
    BY <1>1, <2>1
  <2>3. x = q /\ (<<c, "father">> \in S \/ <<c, "mother">> \in S)
    BY <1>3, <2>1, <2>2
  <2> QED
    BY <1>2, <2>1, <2>3
<1> QED
  BY <1>4, <1>5

LEMMA PutsOK ==
  ASSUME NEW g, NEW h, NEW rows, NEW target, PlanOK(g, rows, target), NEW S, NEW q, Puts(g, h, S, q),
         \A c \in DOMAIN g.kin : \A slot \in Slots : <<c, slot>> \in S =>
           /\ q # NoKin => c # q /\ q \notin DescendantsOf(g, c)
           /\ <<c, slot>> = target \/ g.kin[c][slot] = NoKin \/ g.kin[c][slot] = q
  PROVE  PlanOK(h, rows, target)
<1>1. GraphOK(g) /\ Planned(g, rows) /\ Kept(g.sets, rows, target) /\ NewRows(g.born)
  BY DEF PlanOK
<1>2. GraphOK(h)
  BY <1>1 DEF GraphOK, Puts
<1>3. Planned(h, rows)
  <2> SUFFICES ASSUME NEW c \in DOMAIN g.kin, NEW slot \in Slots
               PROVE  h.kin[c][slot] = IF <<c, slot>> \in DOMAIN h.sets THEN h.sets[<<c, slot>>]
                        ELSE IF c \in DOMAIN rows THEN rows[c][slot] ELSE NoKin
    BY <1>1 DEF Planned, Puts
  <2>1. g.kin[c][slot] = IF <<c, slot>> \in DOMAIN g.sets THEN g.sets[<<c, slot>>]
                        ELSE IF c \in DOMAIN rows THEN rows[c][slot] ELSE NoKin
    BY <1>1 DEF Planned
  <2>2. h.kin[c][slot] = IF <<c, slot>> \in S THEN q ELSE g.kin[c][slot]
    BY DEF Puts
  <2> QED
    BY <2>1, <2>2 DEF Puts
<1>4. Kept(h.sets, rows, target)
  <2> SUFFICES ASSUME NEW c \in DOMAIN rows, NEW slot \in Slots, <<c, slot>> \in DOMAIN h.sets,
                      <<c, slot>> # target
               PROVE  rows[c][slot] = NoKin \/ rows[c][slot] = h.sets[<<c, slot>>]
    BY DEF Kept
  <2>1. c \in DOMAIN g.kin
    BY <1>1 DEF Planned
  <2>2. h.sets[<<c, slot>>] = IF <<c, slot>> \in S THEN q ELSE g.sets[<<c, slot>>]
    BY DEF Puts
  <2>3. <<c, slot>> \in S \/ <<c, slot>> \in DOMAIN g.sets
    BY DEF Puts
  <2>4. <<c, slot>> \in DOMAIN g.sets => rows[c][slot] = NoKin \/ rows[c][slot] = g.sets[<<c, slot>>]
    BY <1>1 DEF Kept
  <2>5. g.kin[c][slot] = IF <<c, slot>> \in DOMAIN g.sets THEN g.sets[<<c, slot>>] ELSE rows[c][slot]
    BY <1>1, <2>1 DEF Planned
  <2>6. <<c, slot>> \in S => g.kin[c][slot] = NoKin \/ g.kin[c][slot] = q
    BY <2>1
  <2> QED
    BY <2>2, <2>3, <2>4, <2>5, <2>6
<1>5. Acyclic(ParentSets(h))
  <2> DEFINE kids == {c \in DOMAIN g.kin : q # NoKin /\ \E slot \in Slots : <<c, slot>> \in S}
  <2>1. IsFiniteSet(DOMAIN ParentSets(g)) /\ Acyclic(ParentSets(g))
    BY <1>1, GraphFinite DEF PlanOK
  <2>2. Adopted(ParentSets(g), ParentSets(h), q, kids)
    BY <1>1, ParentsPut DEF Adopted
  <2>3. \A c \in kids : c # q /\ q \notin Descendants(ParentSets(g), c)
    BY DEF DescendantsOf
  <2> HIDE DEF kids
  <2> QED
    BY <2>1, <2>2, <2>3, AdoptionKeepsAcyclic
<1> QED
  BY <1>1, <1>2, <1>3, <1>4, <1>5 DEF PlanOK, Puts

LEMMA WithParentPuts ==
  ASSUME NEW g, GraphOK(g), NEW c \in DOMAIN g.kin, NEW slot \in Slots, NEW q
  PROVE  Puts(g, WithParent(g, c, slot, q), {<<c, slot>>}, q)
<1>1. PICK h : h = WithParent(g, c, slot, q)
  OBVIOUS
<1>2. PICK sets : sets = Over([s \in {<<c, slot>>} |-> q], g.sets)
  OBVIOUS
<1>3. h = [g EXCEPT !.kin[c][slot] = q, !.sets = sets]
  BY <1>1, <1>2 DEF WithParent
<1>4. /\ GraphColumns \subseteq DOMAIN h /\ h.born = g.born
      /\ h.kin = [g.kin EXCEPT ![c][slot] = q]
      /\ h.sets = sets
  BY <1>3 DEF GraphOK, GraphColumns
<1>5. /\ DOMAIN h.sets = {<<c, slot>>} \cup DOMAIN g.sets
      /\ \A s \in DOMAIN h.sets : h.sets[s] = IF s \in {<<c, slot>>} THEN q ELSE g.sets[s]
  BY <1>2, <1>4 DEF Over
<1>6. /\ DOMAIN h.kin = DOMAIN g.kin
      /\ \A p \in DOMAIN g.kin : h.kin[p] = IF p = c THEN [g.kin[c] EXCEPT ![slot] = q] ELSE g.kin[p]
  BY <1>4
<1>7. \A p \in DOMAIN g.kin : DOMAIN h.kin[p] = DOMAIN g.kin[p]
  BY <1>6
<1>8. \A p \in DOMAIN g.kin : \A s \in Slots :
       h.kin[p][s] = IF <<p, s>> \in {<<c, slot>>} THEN q ELSE g.kin[p][s]
  BY <1>6 DEF GraphOK, KinColumns, Slots
<1> QED
  BY <1>1, <1>4, <1>5, <1>6, <1>7, <1>8 DEF Puts

LEMMA WithParentOK ==
  ASSUME NEW g, NEW rows, NEW target, PlanOK(g, rows, target),
         NEW c \in DOMAIN g.kin, NEW slot \in Slots, NEW q,
         q # NoKin => c # q /\ q \notin DescendantsOf(g, c),
         <<c, slot>> = target \/ g.kin[c][slot] = NoKin \/ g.kin[c][slot] = q
  PROVE  PlanOK(WithParent(g, c, slot, q), rows, target)
<1>1. Puts(g, WithParent(g, c, slot, q), {<<c, slot>>}, q)
  BY WithParentPuts DEF PlanOK
<1>2. \A d \in DOMAIN g.kin : \A s \in Slots : <<d, s>> \in {<<c, slot>>} =>
           /\ q # NoKin => d # q /\ q \notin DescendantsOf(g, d)
           /\ <<d, s>> = target \/ g.kin[d][s] = NoKin \/ g.kin[d][s] = q
  OBVIOUS
<1> QED
  BY <1>1, <1>2, PutsOK

(***************************************************************************)
(* family_link_flow, rule by rule.                                         *)
(***************************************************************************)
LEMMA SlotNames == "father" \in Slots /\ "mother" \in Slots /\ "father" # "mother"
BY DEF Slots

LEMMA HeldIsSlot ==
  ASSUME NEW g, NEW c, NEW p
  PROVE  HeldSlot(g, c, p) \in Slots /\ OtherSlot(HeldSlot(g, c, p)) \in Slots
BY DEF HeldSlot, OtherSlot, Slots

LEMMA SlotFound ==
  ASSUME NEW gender, NEW slot \in Slots
  PROVE  SlotForParent(gender) \in Slots /\ OtherSlot(slot) \in Slots
BY DEF SlotForParent, OtherSlot, Slots

LEMMA RejectedOK ==
  ASSUME NEW g, NEW rows, NEW target, PlanOK(g, rows, target)
  PROVE  PlanOK(Rejected(g), rows, target) /\ Rejected(g).ok = FALSE
<1>1. PICK h : h = Rejected(g)
  OBVIOUS
<1>2. /\ GraphColumns \subseteq DOMAIN h /\ h.kin = g.kin /\ h.sets = g.sets /\ h.born = g.born
      /\ h.ok = FALSE
  BY <1>1 DEF Rejected, PlanOK, GraphOK, GraphColumns
<1>3. ParentSets(h) = ParentSets(g)
  BY <1>2 DEF ParentSets
<1> QED
  BY <1>1, <1>2, <1>3 DEF PlanOK, GraphOK, Planned

LEMMA JoinedOK ==
  ASSUME NEW g, NEW rows, NEW target, PlanOK(g, rows, target), NEW a, NEW b
  PROVE  PlanOK(Joined(g, a, b), rows, target) /\ Joined(g, a, b).kin = g.kin
<1>1. PICK h : h = Joined(g, a, b)
  OBVIOUS
<1>2. GraphColumns \subseteq DOMAIN h /\ h.kin = g.kin /\ h.sets = g.sets /\ h.born = g.born
  BY <1>1 DEF Joined, PlanOK, GraphOK, GraphColumns
<1>3. ParentSets(h) = ParentSets(g)
  BY <1>2 DEF ParentSets
<1> QED
  BY <1>1, <1>2, <1>3 DEF PlanOK, GraphOK, Planned

(* The slots a first spouse fills.                                         *)
FilledBy(g, children, p) == {<<c, OtherSlot(HeldSlot(g, c, p))>> : c \in children}

LEMMA FillAllPuts ==
  ASSUME NEW g, GraphOK(g), NEW children, children \subseteq DOMAIN g.kin, NEW p, NEW q
  PROVE  Puts(g, FillAll(g, children, p, q), FilledBy(g, children, p), q)
<1>1. PICK h : h = FillAll(g, children, p, q)
  OBVIOUS
<1>2. PICK S, sets : S = FilledBy(g, children, p) /\ sets = Over([s \in S |-> q], g.sets)
  OBVIOUS
<1>3. PICK rows : rows = [c \in DOMAIN g.kin |->
                          IF c \in children
                          THEN [g.kin[c] EXCEPT ![OtherSlot(HeldSlot(g, c, p))] = q] ELSE g.kin[c]]
  OBVIOUS
<1>4. h = [g EXCEPT !.kin = rows, !.sets = sets]
  BY <1>1, <1>2, <1>3 DEF FillAll, FilledBy
<1>5. /\ GraphColumns \subseteq DOMAIN h /\ h.born = g.born /\ h.kin = rows /\ h.sets = sets
  BY <1>4 DEF GraphOK, GraphColumns
<1>6. /\ DOMAIN h.sets = S \cup DOMAIN g.sets
      /\ \A s \in DOMAIN h.sets : h.sets[s] = IF s \in S THEN q ELSE g.sets[s]
  BY <1>2, <1>5 DEF Over
<1>7. DOMAIN h.kin = DOMAIN g.kin /\ \A c \in DOMAIN g.kin : DOMAIN h.kin[c] = DOMAIN g.kin[c]
  BY <1>3, <1>5
<1>8. ASSUME NEW c \in DOMAIN g.kin, NEW slot \in Slots
      PROVE  h.kin[c][slot] = IF <<c, slot>> \in S THEN q ELSE g.kin[c][slot]
  <2>1. CASE c \notin children
    <3>1. <<c, slot>> \notin S
      BY <1>2, <2>1 DEF FilledBy
    <3> QED
      BY <1>3, <1>5, <2>1, <3>1
  <2>2. CASE c \in children
    <3>1. <<c, slot>> \in S <=> slot = OtherSlot(HeldSlot(g, c, p))
      BY <1>2, <2>2 DEF FilledBy
    <3>2. PICK row, empty : row = g.kin[c] /\ empty = OtherSlot(HeldSlot(g, c, p))
      OBVIOUS
    <3>3. h.kin[c] = [row EXCEPT ![empty] = q] /\ slot \in DOMAIN row
      BY <1>3, <1>5, <2>2, <3>2 DEF GraphOK, KinColumns, Slots
    <3> QED
      BY <3>1, <3>2, <3>3
  <2> QED
    BY <2>1, <2>2
<1> QED
  BY <1>1, <1>2, <1>5, <1>6, <1>7, <1>8 DEF Puts

LEMMA FillAllOK ==
  ASSUME NEW g, NEW rows, NEW target, PlanOK(g, rows, target), NEW p, NEW q,
         NEW children, children \subseteq DOMAIN g.kin,
         \A c \in children : /\ g.kin[c][OtherSlot(HeldSlot(g, c, p))] = NoKin
                             /\ c # q /\ q \notin DescendantsOf(g, c)
  PROVE  PlanOK(FillAll(g, children, p, q), rows, target)
<1>1. Puts(g, FillAll(g, children, p, q), FilledBy(g, children, p), q)
  BY FillAllPuts DEF PlanOK
<1>2. \A c \in DOMAIN g.kin : \A slot \in Slots : <<c, slot>> \in FilledBy(g, children, p) =>
           /\ q # NoKin => c # q /\ q \notin DescendantsOf(g, c)
           /\ <<c, slot>> = target \/ g.kin[c][slot] = NoKin \/ g.kin[c][slot] = q
  BY DEF FilledBy
<1> QED
  BY <1>1, <1>2, PutsOK

LEMMA FirstSpouseFacts ==
  ASSUME NEW g, NEW p, NEW q, NEW c \in FirstSpouseFills(g, p, q)
  PROVE  /\ c \in DOMAIN g.kin /\ p \in {g.kin[c].father, g.kin[c].mother}
         /\ g.kin[c][OtherSlot(HeldSlot(g, c, p))] = NoKin
         /\ c # q /\ q \notin DescendantsOf(g, c)
BY DEF FirstSpouseFills, Kids

(* A child with the two as its parents has no slot to fill.                *)
LEMMA NoSlotForBoth ==
  ASSUME NEW g, NEW a, NEW b, a # b, b # NoKin, NEW c \in FirstSpouseFills(g, a, b),
         b \in {g.kin[c].father, g.kin[c].mother}
  PROVE  FALSE
<1>1. a \in {g.kin[c].father, g.kin[c].mother} /\ g.kin[c][OtherSlot(HeldSlot(g, c, a))] = NoKin
  BY FirstSpouseFacts
<1>2. CASE g.kin[c].father = a
  BY <1>1, <1>2 DEF HeldSlot, OtherSlot
<1>3. CASE g.kin[c].father # a
  BY <1>1, <1>3 DEF HeldSlot, OtherSlot
<1> QED
  BY <1>2, <1>3

LEMMA LinkSpouseOK ==
  ASSUME NEW g, NEW rows, NEW target, PlanOK(g, rows, target),
         NEW a, NEW b, a # b, a # NoKin, b # NoKin
  PROVE  PlanOK(LinkSpouse(g, a, b), rows, target)
<1>1. PICK g0 : g0 = Joined(g, a, b)
  OBVIOUS
<1>2. PlanOK(g0, rows, target) /\ g0.kin = g.kin
  BY <1>1, JoinedOK
<1>3. /\ ParentSets(g0) = ParentSets(g) /\ \A c, p : HeldSlot(g0, c, p) = HeldSlot(g, c, p)
      /\ \A c : DescendantsOf(g0, c) = DescendantsOf(g, c)
  BY <1>2 DEF ParentSets, HeldSlot, DescendantsOf
<1>4. PICK ofA, ofB : ofA = FirstSpouseFills(g, a, b) /\ ofB = FirstSpouseFills(g, b, a)
  OBVIOUS
<1>5. \A c \in ofA : /\ c \in DOMAIN g0.kin
                     /\ g0.kin[c][OtherSlot(HeldSlot(g0, c, a))] = NoKin
                     /\ c # b /\ b \notin DescendantsOf(g0, c)
  BY <1>2, <1>3, <1>4, FirstSpouseFacts
<1>6. PICK g1 : g1 = FillAll(g0, ofA, a, b)
  OBVIOUS
<1>7. PlanOK(g1, rows, target)
  BY <1>2, <1>5, <1>6, FillAllOK
<1>8. Puts(g0, g1, FilledBy(g0, ofA, a), b)
  BY <1>2, <1>5, <1>6, FillAllPuts DEF PlanOK
<1>9. ASSUME NEW c \in ofB
      PROVE  /\ c \in DOMAIN g1.kin
             /\ g1.kin[c][OtherSlot(HeldSlot(g1, c, b))] = NoKin
             /\ c # a /\ a \notin DescendantsOf(g1, c)
  <2>1. /\ c \in DOMAIN g0.kin /\ b \in {g0.kin[c].father, g0.kin[c].mother}
        /\ g0.kin[c][OtherSlot(HeldSlot(g0, c, b))] = NoKin
        /\ c # a /\ a \notin DescendantsOf(g0, c)
    BY <1>2, <1>3, <1>4, FirstSpouseFacts
  <2>2. c \notin ofA
    BY <1>2, <1>4, <2>1, NoSlotForBoth
  <2>3. \A slot \in Slots : g1.kin[c][slot] = g0.kin[c][slot]
    BY <1>8, <2>1, <2>2 DEF Puts, FilledBy
  <2>4. HeldSlot(g1, c, b) = HeldSlot(g0, c, b)
    BY <2>3, SlotNames DEF HeldSlot
  <2>5. c \in DOMAIN g1.kin /\ g1.kin[c][OtherSlot(HeldSlot(g1, c, b))] = NoKin
    BY <1>8, <2>1, <2>3, <2>4, HeldIsSlot DEF Puts
  (* c is a child of b: b is not below it. *)
  <2>6. /\ GraphOK(g0) /\ IsFiniteSet(DOMAIN ParentSets(g0)) /\ Acyclic(ParentSets(g0))
        /\ DOMAIN ParentSets(g0) = DOMAIN g0.kin
    BY <1>2, GraphFinite DEF PlanOK, ParentSets
  <2>7. c \in Children(ParentSets(g0), b)
    BY <2>1, <2>6 DEF Children, ParentSets
  <2>8. c \in Descendants(ParentSets(g0), b)
    BY <2>6, <2>7, DescendantsClosed
  <2>9. b \notin {c} \cup Descendants(ParentSets(g0), c)
    <3>1. b \notin Descendants(ParentSets(g0), b)
      <4>1. Descendants(ParentSets(g0), b) \subseteq DOMAIN ParentSets(g0)
        BY <2>6, DescendantsClosed
      <4> QED
        BY <2>6, <4>1 DEF Acyclic
    <3>2. Descendants(ParentSets(g0), c) \subseteq Descendants(ParentSets(g0), b)
      BY <2>6, <2>8, DescendantsTransitive
    <3> QED
      BY <2>8, <3>1, <3>2
  <2>10. Adopted(ParentSets(g0), ParentSets(g1), b, ofA)
    <3>1. \A d \in DOMAIN g0.kin : (\E slot \in Slots : <<d, slot>> \in FilledBy(g0, ofA, a)) => d \in ofA
      BY DEF FilledBy
    <3> QED
      BY <1>8, <2>6, <3>1, ParentsPut DEF Adopted
  <2>11. \A d \in ofA : d # b /\ b \notin Descendants(ParentSets(g0), d)
    BY <1>5 DEF DescendantsOf
  <2>12. Descendants(ParentSets(g1), c) \subseteq Descendants(ParentSets(g0), c)
    <3>1. Descendants(ParentSets(g1), c) \subseteq
           Descendants(ParentSets(g0), c) \cup (IF b \in {c} \cup Descendants(ParentSets(g0), c)
                 THEN ofA \cup UNION {Descendants(ParentSets(g0), d) : d \in ofA} ELSE {})
      BY <2>6, <2>10, <2>11, DescendantsAdopted
    <3> QED
      BY <2>9, <3>1
  <2> QED
    BY <2>1, <2>5, <2>12 DEF DescendantsOf
<1>10. PlanOK(FillAll(g1, ofB, b, a), rows, target)
  BY <1>7, <1>9, FillAllOK
<1> QED
  BY <1>1, <1>4, <1>6, <1>10 DEF LinkSpouse

LEMMA MarryParentsOK ==
  ASSUME NEW g, NEW rows, NEW target, PlanOK(g, rows, target), NEW c
  PROVE  PlanOK(MarryParents(g, c), rows, target)
BY LinkSpouseOK DEF MarryParents

LEMMA MarryIfOkOK ==
  ASSUME NEW g, NEW rows, NEW target, PlanOK(g, rows, target), NEW c
  PROVE  PlanOK(MarryIfOk(g, c), rows, target)
BY MarryParentsOK DEF MarryIfOk

LEMMA RequireOK ==
  ASSUME NEW g, NEW rows, NEW target, PlanOK(g, rows, target), NEW allowed \in BOOLEAN, NEW next,
         allowed => PlanOK(next, rows, target)
  PROVE  PlanOK(Require(g, allowed, next), rows, target)
BY RejectedOK DEF Require

LEMMA SetParentOK ==
  ASSUME NEW g, NEW rows, NEW target, PlanOK(g, rows, target),
         NEW c \in DOMAIN g.kin, NEW slot \in Slots, NEW q,
         <<c, slot>> = target \/ g.kin[c][slot] = NoKin
  PROVE  PlanOK(SetParent(g, c, slot, q), rows, target)
<1>1. CASE q = NoKin
  BY <1>1, WithParentOK DEF SetParent
<1>2. CASE q # NoKin
  <2>1. CheckSetParent(g, c, slot, q) => PlanOK(WithParent(g, c, slot, q), rows, target)
    BY WithParentOK DEF CheckSetParent
  <2>2. CheckSetParent(g, c, slot, q) \in BOOLEAN
    BY DEF CheckSetParent
  <2>3. PlanOK(Require(g, CheckSetParent(g, c, slot, q), WithParent(g, c, slot, q)), rows, target)
    BY <2>1, <2>2, RequireOK
  <2> QED
    BY <1>2, <2>3, MarryIfOkOK DEF SetParent
<1> QED
  BY <1>1, <1>2

LEMMA FillOtherParentOK ==
  ASSUME NEW g, NEW rows, NEW target, PlanOK(g, rows, target),
         NEW parent, NEW c \in DOMAIN g.kin, NEW requested
  PROVE  PlanOK(FillOtherParent(g, parent, c, requested), rows, target)
<1>1. PICK slot : slot = OtherSlot(HeldSlot(g, c, parent))
  OBVIOUS
<1>2. slot \in Slots
  BY <1>1, HeldIsSlot
<1>3. CASE g.kin[c][slot] # NoKin
  BY <1>1, <1>3 DEF FillOtherParent
<1>4. CASE g.kin[c][slot] = NoKin
  <2>1. PICK picked : picked = PickOtherParent(OtherParentCandidates(g, parent, c, slot), requested)
    OBVIOUS
  <2>2. \A q \in picked : c # q /\ q \notin DescendantsOf(g, c)
    BY <2>1 DEF PickOtherParent, OtherParentCandidates
  <2>3. FillOtherParent(g, parent, c, requested) = FillSlot(g, c, slot, picked)
    BY <1>1, <1>4, <2>1 DEF FillOtherParent
  <2>4. CASE picked = {}
    BY <2>3, <2>4 DEF FillSlot
  <2>5. CASE picked # {}
    <3>1. PICK q : q = CHOOSE x \in picked : TRUE
      OBVIOUS
    <3>2. q \in picked
      BY <2>5, <3>1
    <3>3. FillSlot(g, c, slot, picked) = WithParent(g, c, slot, q)
      BY <2>5, <3>1 DEF FillSlot
    <3> QED
      BY <1>2, <1>4, <2>2, <2>3, <3>2, <3>3, WithParentOK
  <2> QED
    BY <2>4, <2>5
<1> QED
  BY <1>3, <1>4

LEMMA LinkChildOK ==
  ASSUME NEW g, NEW rows, NEW target, PlanOK(g, rows, target),
         NEW parent, NEW c \in DOMAIN g.kin, NEW other
  PROVE  PlanOK(LinkChild(g, parent, c, other), rows, target)
<1>1. PICK slot : slot = SlotForParent(g.kin[parent].gender)
  OBVIOUS
<1>2. slot \in Slots
  BY <1>1 DEF SlotForParent, Slots
<1>3. PICK allowed : allowed = (CheckSetParent(g, c, slot, parent) /\ CheckSlotFree(g, c, slot, parent))
  OBVIOUS
<1>4. allowed => PlanOK(WithParent(g, c, slot, parent), rows, target)
  BY <1>2, <1>3, WithParentOK DEF CheckSetParent, CheckSlotFree
<1>5. allowed \in BOOLEAN
  BY <1>3 DEF CheckSetParent, CheckSlotFree
<1>6. PICK linked : linked = Require(g, allowed, WithParent(g, c, slot, parent))
  OBVIOUS
<1>7. PlanOK(linked, rows, target)
  BY <1>4, <1>5, <1>6, RequireOK
<1>8. c \in DOMAIN linked.kin
  <2>1. DOMAIN WithParent(g, c, slot, parent).kin = DOMAIN g.kin
    BY <1>2, WithParentPuts DEF Puts, PlanOK
  <2>2. Rejected(g).kin = g.kin
    BY DEF Rejected, PlanOK, GraphOK, GraphColumns
  <2> QED
    BY <1>6, <2>1, <2>2 DEF Require
<1>9. PlanOK(FillIfOk(linked, parent, c, other), rows, target)
  BY <1>7, <1>8, FillOtherParentOK DEF FillIfOk
<1>10. LinkChild(g, parent, c, other) = MarryIfOk(FillIfOk(linked, parent, c, other), c)
  BY <1>1, <1>3, <1>6 DEF LinkChild
<1> QED
  BY <1>9, <1>10, MarryIfOkOK

-----------------------------------------------------------------------------
(***************************************************************************)
(* A person just created: nobody names them, and they name nobody.         *)
(***************************************************************************)
NamedByNobody(g, new) ==
  new \in DOMAIN g.kin /\ \A c \in DOMAIN g.kin : \A slot \in Slots : g.kin[c][slot] # new
Newcomer(g, new) == NamedByNobody(g, new) /\ \A slot \in Slots : g.kin[new][slot] = NoKin

LEMMA NobodyBelow ==
  ASSUME NEW g, GraphOK(g), NEW new, NamedByNobody(g, new)
  PROVE  DescendantsOf(g, new) = {}
<1>1. Children(ParentSets(g), new) = {}
  BY DEF Children, ParentSets, NamedByNobody, Slots
<1> QED
  BY <1>1, GraphFinite, NoDescendants DEF DescendantsOf

LEMMA CopySlotOK ==
  ASSUME NEW g, NEW rows, NEW target, PlanOK(g, rows, target),
         NEW from \in DOMAIN g.kin, NEW new, NamedByNobody(g, new), from # new,
         NEW slot \in Slots, g.kin[new][slot] = NoKin
  PROVE  LET h == CopySlot(g, from, new, slot)
         IN /\ PlanOK(h, rows, target) /\ NamedByNobody(h, new) /\ DOMAIN h.kin = DOMAIN g.kin
            /\ \A other \in Slots : other # slot => h.kin[new][other] = g.kin[new][other]
<1>1. PICK q, h : q = g.kin[from][slot] /\ h = CopySlot(g, from, new, slot)
  OBVIOUS
<1>2. CASE q = NoKin
  <2>1. h = g
    BY <1>1, <1>2 DEF CopySlot
  <2> QED
    BY <1>1, <2>1
<1>3. CASE q # NoKin
  <2>1. h = WithParent(g, new, slot, q)
    BY <1>1, <1>3 DEF CopySlot
  <2>2. q # new /\ new \in DOMAIN g.kin
    BY <1>1 DEF NamedByNobody
  <2>3. DescendantsOf(g, new) = {}
    BY NobodyBelow DEF PlanOK
  <2>4. PlanOK(h, rows, target)
    BY <2>1, <2>2, <2>3, WithParentOK
  <2>5. Puts(g, h, {<<new, slot>>}, q)
    BY <2>1, <2>2, WithParentPuts DEF PlanOK
  <2>6. /\ DOMAIN h.kin = DOMAIN g.kin
        /\ \A p \in DOMAIN g.kin : \A s \in Slots :
             h.kin[p][s] = IF <<p, s>> \in {<<new, slot>>} THEN q ELSE g.kin[p][s]
    BY <2>5 DEF Puts
  <2> QED
    BY <1>1, <2>2, <2>4, <2>6 DEF NamedByNobody
<1> QED
  BY <1>2, <1>3

LEMMA CopyParentsOK ==
  ASSUME NEW g, NEW rows, NEW target, PlanOK(g, rows, target),
         NEW from \in DOMAIN g.kin, NEW new, Newcomer(g, new), from # new
  PROVE  PlanOK(CopyParents(g, from, new), rows, target)
<1>1. PICK h : h = CopySlot(g, from, new, "father")
  OBVIOUS
<1>2. /\ PlanOK(h, rows, target) /\ NamedByNobody(h, new) /\ DOMAIN h.kin = DOMAIN g.kin
      /\ h.kin[new]["mother"] = NoKin
  BY <1>1, CopySlotOK, SlotNames DEF Newcomer
<1>3. PlanOK(CopySlot(h, from, new, "mother"), rows, target)
  BY <1>2, CopySlotOK, SlotNames
<1> QED
  BY <1>1, <1>3 DEF CopyParents

LEMMA AttachOK ==
  ASSUME NEW g, NEW rows, NEW target, PlanOK(g, rows, target), NEW kind, NEW other,
         NEW anchor \in DOMAIN g.kin, NEW new, Newcomer(g, new), anchor # new,
         kind \in Slots => g.kin[anchor][kind] = NoKin
  PROVE  PlanOK(Attach(g, anchor, kind, new, other), rows, target)
<1>1. PICK h : h = Attach(g, anchor, kind, new, other)
  OBVIOUS
<1>2. new \in DOMAIN g.kin /\ new # NoKin /\ anchor # NoKin
  BY KinFinite DEF Newcomer, NamedByNobody, PlanOK, GraphOK
<1>3. CASE kind \in Slots
  <2>1. h = SetParent(g, anchor, kind, new)
    BY <1>1, <1>3 DEF Attach, Slots
  <2> QED
    BY <1>1, <1>3, <2>1, SetParentOK
<1>4. CASE kind = "spouse"
  <2>1. h = LinkSpouse(g, anchor, new)
    BY <1>1, <1>4 DEF Attach, Slots
  <2> QED
    BY <1>1, <1>2, <2>1, LinkSpouseOK
<1>5. CASE kind = "child"
  <2>1. h = LinkChild(g, anchor, new, other)
    BY <1>1, <1>5 DEF Attach, Slots
  <2> QED
    BY <1>1, <1>2, <2>1, LinkChildOK
<1>6. CASE kind = "sibling"
  <2>1. h = CopyParents(g, anchor, new)
    BY <1>1, <1>6 DEF Attach, Slots
  <2> QED
    BY <1>1, <2>1, CopyParentsOK
<1>7. CASE kind \notin Slots \cup {"spouse", "child", "sibling"}
  <2>1. h = g
    BY <1>1, <1>7 DEF Attach
  <2> QED
    BY <1>1, <2>1
<1> QED
  BY <1>3, <1>4, <1>5, <1>6, <1>7

(***************************************************************************)
(* The tree as it is: all rows there, every parent a live person.          *)
(***************************************************************************)
KinRowsOK == DOMAIN kin = Kin /\ \A f \in Kin : KinColumns \subseteq DOMAIN kin[f]
RefsLive == \A c \in LiveKin : \A slot \in Slots : kin[c][slot] \in LiveKin \cup {NoKin}

LEMMA LoadedRows ==
  /\ Loaded.kin = [p \in LiveKin |-> kin[p]] /\ DOMAIN Loaded.kin = LiveKin /\ LiveKin \subseteq Kin
  /\ Loaded.sets = EmptyFn /\ Loaded.born = {} /\ Loaded.ok /\ GraphColumns \subseteq DOMAIN Loaded
  /\ \A p \in LiveKin : Loaded.kin[p] = kin[p]
BY DEF Loaded, Graph, LiveKin, GraphColumns

LEMMA LoadedOK ==
  ASSUME KinRowsOK, Acyclic(ParentSets(Loaded)), NEW target
  PROVE  PlanOK(Loaded, Loaded.kin, target)
<1>1. GraphOK(Loaded)
  BY LoadedRows DEF GraphOK, KinRowsOK
<1>2. DOMAIN EmptyFn = {}
  BY DEF EmptyFn
<1>3. Planned(Loaded, Loaded.kin) /\ Kept(Loaded.sets, Loaded.kin, target) /\ NewRows(Loaded.born)
  BY <1>2, LoadedRows DEF Planned, Kept, NewRows
<1> QED
  BY <1>1, <1>3 DEF PlanOK

LEMMA UnbornFields ==
  /\ DOMAIN Unborn = KinColumns /\ Unborn.father = NoKin /\ Unborn.mother = NoKin
  /\ Unborn.there = "unborn"
BY DEF Unborn, KinColumns

LEMMA CreatePersonOK ==
  ASSUME KinRowsOK, RefsLive, Acyclic(ParentSets(Loaded)), NEW target,
         NEW new \in Kin \ LiveKin, NEW gender
  PROVE  LET h == CreatePerson(Loaded, new, gender)
         IN /\ PlanOK(h, Loaded.kin, target)
            /\ h.ok => /\ Newcomer(h, new) /\ LiveKin \subseteq DOMAIN h.kin
                       /\ \A p \in LiveKin : h.kin[p] = kin[p]
<1>1. PICK g : g = Loaded
  OBVIOUS
<1>2. /\ PlanOK(g, g.kin, target) /\ GraphColumns \subseteq DOMAIN g
      /\ g.sets = EmptyFn /\ g.born = {} /\ DOMAIN g.kin = LiveKin
      /\ \A p \in LiveKin : g.kin[p] = kin[p]
  BY <1>1, LoadedRows, LoadedOK
<1>3. PICK row : row = [Unborn EXCEPT !.there = "live", !.gender = gender]
  OBVIOUS
<1>4. /\ DOMAIN row = KinColumns /\ row.there = "live" /\ row.father = NoKin /\ row.mother = NoKin
  BY <1>3, UnbornFields DEF KinColumns
<1>5. PICK rows : rows = Over([p \in {new} |-> row], g.kin)
  OBVIOUS
<1>6. /\ DOMAIN rows = LiveKin \cup {new} /\ rows[new] = row
      /\ \A p \in LiveKin : rows[p] = kin[p]
  BY <1>2, <1>5 DEF Over
<1>7. PICK full : full = [g EXCEPT !.kin = rows, !.born = {<<new, row>>}]
  OBVIOUS
<1>8. /\ GraphColumns \subseteq DOMAIN full /\ full.kin = rows /\ full.born = {<<new, row>>}
      /\ full.sets = EmptyFn
  BY <1>2, <1>7 DEF GraphColumns
<1>9. GraphOK(full)
  BY <1>4, <1>6, <1>8, LoadedRows DEF GraphOK, KinRowsOK
<1>10. NoKin # new /\ \A c \in LiveKin : \A slot \in Slots : kin[c][slot] # new
  BY KinFinite DEF RefsLive
<1>11. \A slot \in Slots : row[slot] = NoKin
  BY <1>4 DEF Slots
<1>12. Newcomer(full, new)
  BY <1>6, <1>8, <1>10, <1>11 DEF Newcomer, NamedByNobody
<1>13. Planned(full, g.kin)
  <2>1. DOMAIN EmptyFn = {}
    BY DEF EmptyFn
  <2>2. {b[1] : b \in full.born} = {new}
    BY <1>8
  <2> QED
    BY <1>2, <1>6, <1>8, <1>11, <2>1, <2>2 DEF Planned
<1>14. Kept(full.sets, g.kin, target) /\ NewRows(full.born)
  BY <1>4, <1>8 DEF Kept, NewRows, EmptyFn
<1>15. Acyclic(ParentSets(full))
  <2>1. IsFiniteSet(DOMAIN ParentSets(g)) /\ Acyclic(ParentSets(g)) /\ DOMAIN ParentSets(g) = LiveKin
    BY <1>2, GraphFinite DEF PlanOK, ParentSets
  <2>2. DOMAIN ParentSets(full) = LiveKin \cup {new} /\ ParentSets(full)[new] = {}
    BY <1>4, <1>6, <1>8 DEF ParentSets
  <2>3. \A c \in LiveKin : ParentSets(full)[c] = ParentSets(g)[c] /\ new \notin ParentSets(g)[c]
    BY <1>2, <1>6, <1>8, <1>10, SlotNames DEF ParentSets
  <2> QED
    BY <2>1, <2>2, <2>3, NewcomerKeepsAcyclic
<1>16. PlanOK(full, g.kin, target)
  BY <1>9, <1>13, <1>14, <1>15 DEF PlanOK
<1>17. PICK allowed : allowed = (Cardinality(DOMAIN g.kin) < FAMILY_MAX_PERSONS)
  OBVIOUS
<1>18. PICK h : h = CreatePerson(Loaded, new, gender)
  OBVIOUS
<1>19. h = Require(g, allowed, full)
  BY <1>1, <1>3, <1>5, <1>7, <1>17, <1>18 DEF CreatePerson
<1>20. allowed \in BOOLEAN
  BY <1>17
<1>21. PlanOK(h, g.kin, target)
  BY <1>2, <1>16, <1>19, <1>20, RequireOK
<1>22. h.ok => h = full
  BY <1>2, <1>19, RejectedOK DEF Require
<1> QED
  BY <1>1, <1>6, <1>8, <1>12, <1>18, <1>21, <1>22

LEMMA RequiredGraphOK ==
  ASSUME NEW g, GraphColumns \subseteq DOMAIN g, NEW allowed \in BOOLEAN, NEW next,
         Require(g, allowed, next).ok
  PROVE  allowed /\ Require(g, allowed, next) = next
<1>1. Rejected(g).ok = FALSE
  BY DEF Rejected, GraphColumns
<1> QED
  BY <1>1 DEF Require

LEMMA AttachIfOkOK ==
  ASSUME NEW g, NEW rows, NEW target, PlanOK(g, rows, target), NEW kind, NEW other, NEW anchor, NEW new,
         g.ok => /\ anchor \in DOMAIN g.kin /\ Newcomer(g, new) /\ anchor # new
                 /\ kind \in Slots => g.kin[anchor][kind] = NoKin
  PROVE  PlanOK(AttachIfOk(g, anchor, kind, new, other), rows, target)
BY AttachOK DEF AttachIfOk

LEMMA AddRelativeOK ==
  ASSUME KinRowsOK, RefsLive, Acyclic(ParentSets(Loaded)), NEW target, NEW anchor \in LiveKin,
         NEW kind, NEW gender, NEW other, NEW new \in Kin \ LiveKin
  PROVE  PlanOK(AddRelative(Loaded, anchor, kind, gender, other, new), Loaded.kin, target)
<1>1. PICK created, allowed : /\ created = CreatePerson(Loaded, new, gender)
                              /\ allowed = MayAdd(Loaded, anchor, kind, gender)
  OBVIOUS
<1>2. PICK g : g = Require(Loaded, allowed, created)
  OBVIOUS
<1>3. allowed \in BOOLEAN
  BY <1>1 DEF MayAdd
<1>4. /\ PlanOK(created, Loaded.kin, target)
      /\ created.ok => /\ Newcomer(created, new) /\ LiveKin \subseteq DOMAIN created.kin
                       /\ \A p \in LiveKin : created.kin[p] = kin[p]
  BY <1>1, CreatePersonOK
<1>5. PlanOK(g, Loaded.kin, target)
  BY <1>2, <1>3, <1>4, LoadedOK, RequireOK
<1>6. g.ok => /\ anchor \in DOMAIN g.kin /\ Newcomer(g, new) /\ anchor # new
              /\ kind \in Slots => g.kin[anchor][kind] = NoKin
  <2> SUFFICES ASSUME g.ok
               PROVE  /\ anchor \in DOMAIN g.kin /\ Newcomer(g, new) /\ anchor # new
                      /\ kind \in Slots => g.kin[anchor][kind] = NoKin
    OBVIOUS
  <2>1. allowed /\ g = created
    BY <1>2, <1>3, LoadedRows, RequiredGraphOK
  <2>2. Newcomer(g, new) /\ anchor \in DOMAIN g.kin /\ g.kin[anchor] = kin[anchor]
    BY <1>4, <2>1
  <2>3. kind \in Slots => Loaded.kin[anchor][kind] = NoKin
    BY <1>1, <2>1 DEF MayAdd
  <2> QED
    BY <2>2, <2>3, LoadedRows
<1> QED
  BY <1>1, <1>2, <1>5, <1>6, AttachIfOkOK DEF AddRelative

(* The label names nobody, or somebody with room for a parent.             *)
RoomFor(g, plan) ==
  plan = NoPlan \/ (plan[1] \in DOMAIN g.kin /\ (plan[2] \in Slots => g.kin[plan[1]][plan[2]] = NoKin))

LEMMA PlanParentOK ==
  ASSUME NEW g, NEW child, child \in DOMAIN g.kin \cup {NoKin}, NEW slot, NEW gender
  PROVE  RoomFor(g, PlanParent(g, child, slot, gender))
BY DEF PlanParent, RoomFor

LEMMA PlanLinkOK ==
  ASSUME RefsLive, NEW me, NEW label, NEW gender
  PROVE  RoomFor(Loaded, PlanLink(Loaded, me, label, gender))
<1>1. PICK g : g = Loaded
  OBVIOUS
<1>2. DOMAIN g.kin = LiveKin /\ \A p \in LiveKin : g.kin[p] = kin[p]
  BY <1>1, LoadedRows
<1>3. PICK plan : plan = PlanLink(g, me, label, gender)
  OBVIOUS
<1>4. CASE me \notin DOMAIN g.kin
  BY <1>1, <1>3, <1>4 DEF PlanLink, Has, RoomFor
<1>5. CASE me \in DOMAIN g.kin
  <2>1. g.kin[me].father \in DOMAIN g.kin \cup {NoKin} /\ g.kin[me].mother \in DOMAIN g.kin \cup {NoKin}
    BY <1>2, <1>5, SlotNames DEF RefsLive
  <2>2. \/ plan = PlanParent(g, me, label, gender)
        \/ \E slot \in Slots : plan = PlanParent(g, g.kin[me].father, slot, gender)
        \/ \E slot \in Slots : plan = PlanParent(g, g.kin[me].mother, slot, gender)
        \/ plan = <<me, label>> /\ label \in {"spouse", "child", "sibling"}
        \/ plan = NoPlan
    BY <1>3, <1>5 DEF PlanLink, Has, Slots
  <2>3. plan = <<me, label>> /\ label \in {"spouse", "child", "sibling"} => RoomFor(g, plan)
    BY <1>5 DEF RoomFor, Slots
  <2>4. plan = NoPlan => RoomFor(g, plan)
    BY DEF RoomFor
  <2> QED
    BY <1>1, <1>3, <1>5, <2>1, <2>2, <2>3, <2>4, PlanParentOK
<1> QED
  BY <1>4, <1>5

LEMMA CreateStandaloneOK ==
  ASSUME KinRowsOK, RefsLive, Acyclic(ParentSets(Loaded)), NEW target, NEW me,
         NEW label, NEW gender, NEW new \in Kin \ LiveKin
  PROVE  PlanOK(CreateStandalone(Loaded, me, label, gender, new), Loaded.kin, target)
<1>1. PICK created, plan : /\ created = CreatePerson(Loaded, new, gender)
                           /\ plan = PlanLink(Loaded, me, label, gender)
  OBVIOUS
<1>2. /\ PlanOK(created, Loaded.kin, target)
      /\ created.ok => /\ Newcomer(created, new) /\ LiveKin \subseteq DOMAIN created.kin
                       /\ \A p \in LiveKin : created.kin[p] = kin[p]
  BY <1>1, CreatePersonOK
<1>3. RoomFor(Loaded, plan)
  BY <1>1, PlanLinkOK
<1>4. PICK linked : linked = AttachIfOk(created, plan[1], plan[2], new, NoKin)
  OBVIOUS
<1>5. PlanOK(linked, Loaded.kin, target)
  <2>1. CASE plan = NoPlan
    <3>1. linked = created
      BY <1>4, <2>1 DEF AttachIfOk, Attach, NoPlan, Slots
    <3> QED
      BY <1>2, <3>1
  <2>2. CASE plan # NoPlan
    <3>1. plan[1] \in LiveKin /\ (plan[2] \in Slots => kin[plan[1]][plan[2]] = NoKin)
      BY <1>3, <2>2, LoadedRows DEF RoomFor
    <3>2. created.ok => /\ plan[1] \in DOMAIN created.kin /\ plan[1] # new
                        /\ plan[2] \in Slots => created.kin[plan[1]][plan[2]] = NoKin
      BY <1>2, <3>1
    <3> QED
      BY <1>2, <1>4, <3>2, AttachIfOkOK
  <2> QED
    BY <2>1, <2>2
<1> QED
  BY <1>1, <1>2, <1>4, <1>5 DEF CreateStandalone, AutoLink, LinkedOrNot

-----------------------------------------------------------------------------
(***************************************************************************)
(* Rows of a personal tree: all there, every parent a live person, nobody  *)
(* their own ancestor.  What a request in flight has planned fits them: it *)
(* inserts persons who are not there, leaves the parents it should leave,  *)
(* and closes no cycle.                                                    *)
(***************************************************************************)
LiveIn(rows) == {p \in Kin : rows[p].there = "live"}
EdgesIn(rows) == [p \in LiveIn(rows) |-> {rows[p].father, rows[p].mother} \ {NoKin}]
ColumnsIn(rows) == DOMAIN rows = Kin /\ \A p \in Kin : KinColumns \subseteq DOMAIN rows[p]
TreeRows(rows) ==
  /\ ColumnsIn(rows)
  /\ \A c \in LiveIn(rows) : \A slot \in Slots : rows[c][slot] \in LiveIn(rows) \cup {NoKin}
  /\ Acyclic(EdgesIn(rows))

Known(rows, w) == LiveIn(rows) \cup {b[1] : b \in w.born}
SlotAfter(rows, w, p, slot) ==
  IF <<p, slot>> \in DOMAIN w.sets THEN w.sets[<<p, slot>>]
  ELSE IF p \in LiveIn(rows) THEN rows[p][slot] ELSE NoKin
EdgesAfter(rows, w) ==
  [p \in Known(rows, w) |->
     {SlotAfter(rows, w, p, "father"), SlotAfter(rows, w, p, "mother")} \ {NoKin}]
KeptIn(rows, w) ==
  \A c \in LiveIn(rows) : \A slot \in Slots :
    <<c, slot>> \in DOMAIN w.sets =>
      <<c, slot>> = w.target \/ rows[c][slot] = NoKin \/ rows[c][slot] = w.sets[<<c, slot>>]
PlanFits(rows, w) ==
  /\ NewRows(w.born) /\ \A b \in w.born : b[1] \notin LiveIn(rows)
  /\ KeptIn(rows, w) /\ Acyclic(EdgesAfter(rows, w))
  /\ w.born # {} \/ \E p \in Kin : rows[p].there # "unborn"

TreeOK ==
  /\ TreeRows(kin) /\ DOMAIN work = Relaters
  /\ \A r, s \in Working : r = s
  /\ \A r \in Working : PlanFits(kin, work[r])
  /\ scene # "tree" => Working = {}
TreeInv == raced \/ TreeOK

LEMMA LoadedIs ==
  ASSUME TreeRows(kin)
  PROVE  /\ KinRowsOK /\ RefsLive /\ LiveKin = LiveIn(kin)
         /\ ParentSets(Loaded) = EdgesIn(kin) /\ Acyclic(ParentSets(Loaded))
<1>1. LiveKin = LiveIn(kin)
  BY DEF LiveKin, LiveIn
<1>2. ParentSets(Loaded) = EdgesIn(kin)
  BY <1>1, LoadedRows DEF ParentSets, EdgesIn
<1> QED
  BY <1>1, <1>2 DEF TreeRows, ColumnsIn, KinRowsOK, RefsLive

LEMMA EdgesFinite ==
  ASSUME NEW rows PROVE IsFiniteSet(DOMAIN EdgesIn(rows))
<1>1. DOMAIN EdgesIn(rows) \in SUBSET Kin
  BY DEF EdgesIn, LiveIn
<1> QED
  BY <1>1, KinFinite, FS_Subset

LEMMA AfterFinite ==
  ASSUME NEW rows, NEW w, NewRows(w.born) PROVE IsFiniteSet(DOMAIN EdgesAfter(rows, w))
<1>1. DOMAIN EdgesAfter(rows, w) \in SUBSET Kin
  BY DEF EdgesAfter, Known, LiveIn, NewRows
<1> QED
  BY <1>1, KinFinite, FS_Subset

(* Nobody is added, no slot is filled; those who were born stay so.        *)
Shrinks(rows, after) ==
  /\ LiveIn(after) \subseteq LiveIn(rows)
  /\ \A p \in LiveIn(after) : \A slot \in Slots : after[p][slot] \in {rows[p][slot], NoKin}
  /\ \A p \in Kin : rows[p].there # "unborn" => after[p].there # "unborn"

LEMMA ShrinkAcyclic ==
  ASSUME NEW rows, NEW after, Shrinks(rows, after), Acyclic(EdgesIn(rows))
  PROVE  Acyclic(EdgesIn(after))
<1>1. Within(EdgesIn(after), EdgesIn(rows))
  BY SlotNames DEF Within, EdgesIn, Shrinks
<1> QED
  BY <1>1, EdgesFinite, WithinAcyclic

LEMMA ShrinkFits ==
  ASSUME NEW rows, NEW after, Shrinks(rows, after), NEW w, PlanFits(rows, w)
  PROVE  PlanFits(after, w)
<1>1. NewRows(w.born) /\ \A b \in w.born : b[1] \notin LiveIn(rows) /\ b[1] \notin LiveIn(after)
  BY DEF PlanFits, Shrinks
<1>2. KeptIn(after, w)
  BY DEF PlanFits, KeptIn, Shrinks
<1>3. ASSUME NEW p \in Known(after, w), NEW slot \in Slots
      PROVE  p \in Known(rows, w) /\ SlotAfter(after, w, p, slot) \in {SlotAfter(rows, w, p, slot), NoKin}
  <2>1. CASE p \in LiveIn(after)
    BY <2>1 DEF Known, SlotAfter, Shrinks
  <2>2. CASE p \notin LiveIn(after)
    <3>1. \E b \in w.born : p = b[1]
      BY <2>2 DEF Known
    <3> QED
      BY <1>1, <3>1 DEF Known, SlotAfter
  <2> QED
    BY <2>1, <2>2
<1>4. Within(EdgesAfter(after, w), EdgesAfter(rows, w))
  BY <1>3, SlotNames DEF Within, EdgesAfter
<1>5. Acyclic(EdgesAfter(after, w))
  BY <1>1, <1>4, AfterFinite, WithinAcyclic DEF PlanFits
<1> QED
  BY <1>1, <1>2, <1>5 DEF PlanFits, Shrinks

(* Only what is shared with clans changes.                                 *)
SameTree(rows, after) ==
  /\ ColumnsIn(after)
  /\ \A p \in Kin : /\ after[p].there = rows[p].there
                    /\ after[p].father = rows[p].father /\ after[p].mother = rows[p].mother

LEMMA SameTreeKeeps ==
  ASSUME TreeOK, SameTree(kin, kin'), UNCHANGED <<work, scene>>
  PROVE  TreeOK'
<1>1. LiveIn(kin') = LiveIn(kin)
  BY DEF LiveIn, SameTree
<1>2. \A p \in Kin : \A slot \in Slots : kin'[p][slot] = kin[p][slot]
  BY DEF SameTree, Slots
<1>3. LiveIn(kin) \subseteq Kin
  BY DEF LiveIn
<1>4. Shrinks(kin, kin')
  BY <1>1, <1>2, <1>3 DEF Shrinks, SameTree
<1>5. TreeRows(kin')
  BY <1>1, <1>2, <1>3, <1>4, ShrinkAcyclic DEF TreeOK, TreeRows, SameTree
<1>6. Working' = Working
  BY DEF Working
<1>7. \A r \in Working : PlanFits(kin', work[r])
  BY <1>4, ShrinkFits DEF TreeOK
<1> QED
  BY <1>5, <1>6, <1>7 DEF TreeOK

LEMMA DeleteKeeps ==
  ASSUME TreeOK, NEW f \in LiveKin, kin' = WithoutKin(kin, f), UNCHANGED <<work, scene>>
  PROVE  TreeOK'
<1>1. ColumnsIn(kin) /\ LiveKin = LiveIn(kin) /\ f \in Kin
  BY LoadedIs DEF TreeOK, TreeRows, LiveKin
<1>2. /\ DOMAIN kin' = Kin
      /\ \A q \in Kin : kin'[q] = IF q = f THEN [Unborn EXCEPT !.there = "deleted"]
                 ELSE [kin[q] EXCEPT !.father = IF @ = f THEN NoKin ELSE @,
                                     !.mother = IF @ = f THEN NoKin ELSE @]
  BY DEF WithoutKin
<1>3. DOMAIN kin'[f] = KinColumns /\ kin'[f].there = "deleted"
  BY <1>1, <1>2, UnbornFields DEF KinColumns
<1>4. ASSUME NEW q \in Kin, q # f
      PROVE  /\ KinColumns \subseteq DOMAIN kin'[q] /\ kin'[q].there = kin[q].there
             /\ kin'[q].father = IF kin[q].father = f THEN NoKin ELSE kin[q].father
             /\ kin'[q].mother = IF kin[q].mother = f THEN NoKin ELSE kin[q].mother
  <2>1. PICK row : row = kin[q]
    OBVIOUS
  <2>2. kin'[q] = [row EXCEPT !.father = IF @ = f THEN NoKin ELSE @,
                              !.mother = IF @ = f THEN NoKin ELSE @]
    BY <1>2, <1>4, <2>1
  <2>3. KinColumns \subseteq DOMAIN row
    BY <1>1, <1>4, <2>1 DEF ColumnsIn
  <2> QED
    BY <2>1, <2>2, <2>3 DEF KinColumns
<1>5. LiveIn(kin') = LiveIn(kin) \ {f}
  BY <1>3, <1>4 DEF LiveIn
<1>6. \A q \in LiveIn(kin') : \A slot \in Slots :
        q \in Kin /\ q # f /\ kin'[q][slot] = IF kin[q][slot] = f THEN NoKin ELSE kin[q][slot]
  BY <1>4, <1>5 DEF Slots, LiveIn
<1>7. ColumnsIn(kin')
  BY <1>2, <1>3, <1>4 DEF ColumnsIn
<1>8. Shrinks(kin, kin')
  BY <1>3, <1>4, <1>5, <1>6 DEF Shrinks
<1>9. TreeRows(kin')
  BY <1>5, <1>6, <1>7, <1>8, ShrinkAcyclic DEF TreeOK, TreeRows
<1>10. Working' = Working
  BY DEF Working
<1>11. \A r \in Working : PlanFits(kin', work[r])
  BY <1>8, ShrinkFits DEF TreeOK
<1> QED
  BY <1>9, <1>10, <1>11 DEF TreeOK

(***************************************************************************)
(* A request is planned on the tree as it is, and committed on the tree as *)
(* it has become.                                                          *)
(***************************************************************************)
LEMMA PlannedFits ==
  ASSUME TreeRows(kin), NEW g, NEW target, PlanOK(g, Loaded.kin, target),
         g.born # {} \/ LiveKin # {},
         NEW w, w.sets = g.sets, w.born = g.born, w.target = target
  PROVE  PlanFits(kin, w)
<1>1. /\ DOMAIN Loaded.kin = LiveIn(kin) /\ \A p \in LiveIn(kin) : Loaded.kin[p] = kin[p]
      /\ LiveKin = LiveIn(kin)
  BY LoadedIs, LoadedRows
<1>2. /\ DOMAIN g.kin \ LiveIn(kin) = {b[1] : b \in w.born} /\ LiveIn(kin) \subseteq DOMAIN g.kin
      /\ \A c \in DOMAIN g.kin : \A slot \in Slots : g.kin[c][slot] = SlotAfter(kin, w, c, slot)
  BY <1>1 DEF PlanOK, Planned, SlotAfter
<1>3. NewRows(w.born) /\ \A b \in w.born : b[1] \notin LiveIn(kin)
  BY <1>2 DEF PlanOK
<1>4. KeptIn(kin, w)
  BY <1>1 DEF KeptIn, Kept, PlanOK
<1>5. EdgesAfter(kin, w) = ParentSets(g)
  <2>1. Known(kin, w) = DOMAIN g.kin
    BY <1>2 DEF Known
  <2> QED
    BY <1>2, <2>1, SlotNames DEF EdgesAfter, ParentSets
<1>6. w.born # {} \/ \E p \in Kin : kin[p].there # "unborn"
  BY DEF LiveKin
<1> QED
  BY <1>3, <1>4, <1>5, <1>6 DEF PlanFits, PlanOK

LEMMA PlanKeeps ==
  ASSUME TreeOK, ~raced', scene = "tree", scene' = scene, NEW r \in Relaters, NEW op, NEW target, NEW g,
         Plan(r, op, target, g), PlanOK(g, Loaded.kin, target), g.born # {} \/ LiveKin # {}
  PROVE  TreeOK'
<1>1. PICK w : w = [op |-> op, sets |-> g.sets, joined |-> g.joined,
                    parted |-> g.parted, born |-> g.born, target |-> target]
  OBVIOUS
<1>2. /\ work' = [work EXCEPT ![r] = w] /\ UNCHANGED kin
      /\ Working = {}
  BY <1>1 DEF Plan
<1>3. DOMAIN work' = Relaters /\ work'[r] = w /\ Working' \subseteq {r}
  BY <1>2 DEF TreeOK, Working
<1>4. PlanFits(kin, w)
  BY <1>1, PlannedFits DEF TreeOK
<1> QED
  BY <1>2, <1>3, <1>4 DEF TreeOK

LEMMA PartedOK ==
  ASSUME NEW g, NEW rows, NEW target, PlanOK(g, rows, target), NEW couples
  PROVE  PlanOK([g EXCEPT !.parted = couples], rows, target)
<1>1. PICK h : h = [g EXCEPT !.parted = couples]
  OBVIOUS
<1>2. GraphColumns \subseteq DOMAIN h /\ h.kin = g.kin /\ h.sets = g.sets /\ h.born = g.born
  BY <1>1 DEF PlanOK, GraphOK, GraphColumns
<1>3. ParentSets(h) = ParentSets(g)
  BY <1>2 DEF ParentSets
<1> QED
  BY <1>1, <1>2, <1>3 DEF PlanOK, GraphOK, Planned

LEMMA NewKinIsFresh == FreshKin # {} => NewKin \in Kin \ LiveKin
<1>1. FreshKin \in SUBSET Kin /\ FreshKin \cap LiveKin = {} /\ FreshKin \in SUBSET Nat
  BY KinAssumption DEF FreshKin, LiveKin, Kin
<1>2. FreshKin # {} => \E p \in FreshKin : \A q \in FreshKin : p <= q
  BY <1>1, LeastNat
<1> QED
  BY <1>1, <1>2 DEF NewKin

(* A person who is created is inserted, or joins others.                   *)
LEMMA CreatedIsBorn ==
  ASSUME KinRowsOK, RefsLive, Acyclic(ParentSets(Loaded)), LiveKin = {}, NEW me,
         NEW label, NEW gender, NEW new \in Kin \ LiveKin,
         NEW g, g = CreateStandalone(Loaded, me, label, gender, new), g.ok
  PROVE  g.born # {}
<1>1. PICK created : created = CreatePerson(Loaded, new, gender)
  OBVIOUS
<1>2. PlanLink(Loaded, me, label, gender) = NoPlan
  BY LoadedRows DEF PlanLink, Has
<1>3. AttachIfOk(created, NoPlan[1], NoPlan[2], new, NoKin) = created
  BY DEF AttachIfOk, Attach, NoPlan, Slots
<1>4. g = created
  BY <1>1, <1>2, <1>3 DEF CreateStandalone, AutoLink, LinkedOrNot
<1>5. PlanOK(created, Loaded.kin, <<>>) /\ new \in DOMAIN created.kin
  BY <1>1, <1>4, CreatePersonOK DEF Newcomer, NamedByNobody
<1>6. new \in {b[1] : b \in created.born}
  BY <1>5, LoadedRows DEF PlanOK, Planned
<1> QED
  BY <1>4, <1>6

LEMMA RequestKeeps ==
  ASSUME TreeOK, ~raced', scene = "tree", scene' = scene, NEW r \in Relaters,
         \/ RequestSetParent(r) \/ RequestLinkSpouse(r) \/ RequestUnlinkSpouse(r)
         \/ RequestLinkChild(r) \/ RequestAddRelative(r) \/ RequestCreate(r)
  PROVE  TreeOK' /\ UNCHANGED kin
<1>0. /\ KinRowsOK /\ RefsLive /\ Acyclic(ParentSets(Loaded))
      /\ DOMAIN Loaded.kin = LiveKin /\ LiveKin \subseteq Kin /\ NoKin \notin Kin
      /\ \A target : PlanOK(Loaded, Loaded.kin, target)
  BY LoadedIs, LoadedRows, LoadedOK, KinFinite DEF TreeOK
<1>1. ASSUME NEW op, NEW target, NEW g, Plan(r, op, target, g) PROVE UNCHANGED kin
  BY <1>1 DEF Plan
<1>2. CASE RequestSetParent(r)
  <2>1. PICK c \in LiveKin, slot \in Slots, p \in LiveKin \cup {NoKin} :
          Plan(r, "set", <<c, slot>>, SetParent(Loaded, c, slot, p))
    BY <1>2 DEF RequestSetParent
  <2>2. PlanOK(SetParent(Loaded, c, slot, p), Loaded.kin, <<c, slot>>)
    BY <1>0, SetParentOK
  <2> QED
    BY <1>1, <2>1, <2>2, PlanKeeps
<1>3. CASE RequestLinkSpouse(r)
  <2>1. PICK a \in LiveKin, b \in LiveKin : a # b /\ Plan(r, "spouse", <<>>, LinkSpouse(Loaded, a, b))
    BY <1>3 DEF RequestLinkSpouse
  <2>2. PlanOK(LinkSpouse(Loaded, a, b), Loaded.kin, <<>>)
    BY <1>0, <2>1, LinkSpouseOK
  <2> QED
    BY <1>1, <2>1, <2>2, PlanKeeps
<1>4. CASE RequestUnlinkSpouse(r)
  <2>1. PICK a \in LiveKin, b \in LiveKin : Plan(r, "unlink", <<>>, [Loaded EXCEPT !.parted = {{a, b}}])
    BY <1>4 DEF RequestUnlinkSpouse
  <2>2. PlanOK([Loaded EXCEPT !.parted = {{a, b}}], Loaded.kin, <<>>)
    BY <1>0, PartedOK
  <2> QED
    BY <1>1, <2>1, <2>2, PlanKeeps
<1>5. CASE RequestLinkChild(r)
  <2>1. PICK p \in LiveKin, c \in LiveKin, other \in LiveKin \cup {NoKin} :
          Plan(r, "child", <<>>, LinkChild(Loaded, p, c, other))
    BY <1>5 DEF RequestLinkChild
  <2>2. PlanOK(LinkChild(Loaded, p, c, other), Loaded.kin, <<>>)
    BY <1>0, LinkChildOK
  <2> QED
    BY <1>1, <2>1, <2>2, PlanKeeps
<1>6. CASE RequestAddRelative(r)
  <2>1. PICK anchor \in LiveKin, kind \in Slots \cup {"spouse", "child", "sibling"},
             gender \in Genders, other \in LiveKin \cup {NoKin} :
          /\ FreshKin # {}
          /\ Plan(r, "add", <<>>, AddRelative(Loaded, anchor, kind, gender, other, NewKin))
    BY <1>6 DEF RequestAddRelative
  <2>2. PlanOK(AddRelative(Loaded, anchor, kind, gender, other, NewKin), Loaded.kin, <<>>)
    BY <1>0, <2>1, NewKinIsFresh, AddRelativeOK
  <2> QED
    BY <1>1, <2>1, <2>2, PlanKeeps
<1>7. CASE RequestCreate(r)
  <2>1. PICK label \in Labels, gender \in Genders :
          /\ FreshKin # {}
          /\ Plan(r, "create", <<>>, CreateStandalone(Loaded, self, label, gender, NewKin))
    BY <1>7 DEF RequestCreate
  <2>2. PICK g : g = CreateStandalone(Loaded, self, label, gender, NewKin)
    OBVIOUS
  <2>3. g.ok /\ Plan(r, "create", <<>>, g)
    BY <2>1, <2>2 DEF Plan
  <2>4. PlanOK(g, Loaded.kin, <<>>)
    BY <1>0, <2>1, <2>2, NewKinIsFresh, CreateStandaloneOK
  <2>5. LiveKin = {} => g.born # {}
    BY <1>0, <2>1, <2>2, <2>3, NewKinIsFresh, CreatedIsBorn
  <2> QED
    BY <1>1, <2>3, <2>4, <2>5, PlanKeeps
<1> QED
  BY <1>2, <1>3, <1>4, <1>5, <1>6, <1>7

(* The row a commit leaves.                                                *)
LEMMA RowCommitted ==
  ASSUME ColumnsIn(kin), NEW w, NewRows(w.born), \A b \in w.born : b[1] \notin LiveIn(kin),
         NEW p \in Kin
  PROVE  LET row == RowAfter(w, p)
         IN /\ KinColumns \subseteq DOMAIN row
            /\ p \in Known(kin, w) => /\ row.there = "live"
                                      /\ \A slot \in Slots : row[slot] = SlotAfter(kin, w, p, slot)
            /\ p \notin Known(kin, w) => row = kin[p]
<1>1. CASE p \in LiveIn(kin)
  <2>1. Inserted(w, p) = {}
    BY <1>1 DEF Inserted
  <2>2. PICK old : old = kin[p]
    OBVIOUS
  <2>3. KinColumns \subseteq DOMAIN old /\ old.there = "live"
    BY <1>1, <2>2 DEF ColumnsIn, LiveIn
  <2>4. RowAfter(w, p) = [old EXCEPT !.father = SlotAfter(kin, w, p, "father"),
                                     !.mother = SlotAfter(kin, w, p, "mother")]
    BY <1>1, <2>1, <2>2, <2>3 DEF RowAfter, SlotAfter
  <2>5. p \in Known(kin, w)
    BY <1>1 DEF Known
  <2> QED
    BY <2>3, <2>4, <2>5 DEF KinColumns, Slots
<1>2. CASE p \notin LiveIn(kin) /\ \E b \in w.born : b[1] = p
  <2>1. PICK old : old = CHOOSE n \in Inserted(w, p) : TRUE
    OBVIOUS
  <2>2. Inserted(w, p) # {}
    BY <1>2 DEF Inserted
  <2>3. PICK b \in w.born : old = b[2]
    BY <2>1, <2>2 DEF Inserted
  <2>4. KinColumns \subseteq DOMAIN old /\ old.there = "live" /\ old.father = NoKin /\ old.mother = NoKin
    BY <2>3 DEF NewRows
  <2>5. old["father"] = NoKin /\ old["mother"] = NoKin
    BY <2>4
  <2>6. RowAfter(w, p) = [old EXCEPT !.father = SlotAfter(kin, w, p, "father"),
                                     !.mother = SlotAfter(kin, w, p, "mother")]
    BY <1>2, <2>1, <2>2, <2>4, <2>5 DEF RowAfter, SlotAfter
  <2>7. p \in Known(kin, w)
    BY <1>2 DEF Known
  <2> QED
    BY <2>4, <2>6, <2>7 DEF KinColumns, Slots
<1>3. CASE p \notin LiveIn(kin) /\ ~\E b \in w.born : b[1] = p
  <2>1. Inserted(w, p) = {} /\ p \notin Known(kin, w)
    BY <1>3 DEF Inserted, Known
  <2>2. kin[p].there # "live"
    BY <1>3 DEF LiveIn
  <2>3. RowAfter(w, p) = kin[p]
    BY <2>1, <2>2 DEF RowAfter
  <2> QED
    BY <2>1, <2>3 DEF ColumnsIn
<1> QED
  BY <1>1, <1>2, <1>3

LEMMA CommitKeeps ==
  ASSUME TreeOK, scene' = scene, NEW r \in Relaters, CommitPlan(r)
  PROVE  TreeOK' /\ \A c \in LiveKin : \A slot \in Slots : SlotKept(c, slot)
<1>1. PICK w : w = work[r]
  OBVIOUS
<1>2. r \in Working /\ PlanFits(kin, w) /\ TreeRows(kin) /\ ColumnsIn(kin)
  BY <1>1 DEF TreeOK, Working, CommitPlan, TreeRows
<1>3. /\ work' = [work EXCEPT ![r] = NoWork] /\ DOMAIN work' = Relaters /\ work'[r] = NoWork
      /\ Working' = {}
  <2>1. work' = [work EXCEPT ![r] = NoWork] /\ DOMAIN work = Relaters
    BY DEF TreeOK, CommitPlan
  <2>2. \A s \in Relaters : work'[s] = NoWork
    BY <1>2, <2>1 DEF TreeOK, Working
  <2> QED
    BY <2>1, <2>2 DEF Working
<1>4. CASE ~StillThere(w)
  <2>1. UNCHANGED kin
    BY <1>1, <1>4 DEF CommitPlan
  <2> QED
    BY <1>2, <1>3, <2>1 DEF TreeOK, SlotKept
<1>5. CASE StillThere(w)
  <2>1. kin' = [p \in Kin |-> RowAfter(w, p)]
    BY <1>1, <1>5 DEF CommitPlan
  <2>2. NewRows(w.born) /\ \A b \in w.born : b[1] \notin LiveIn(kin)
    BY <1>2 DEF PlanFits
  <2>3. \A p \in Kin :
           /\ KinColumns \subseteq DOMAIN kin'[p]
           /\ p \in Known(kin, w) => /\ kin'[p].there = "live"
                                     /\ \A slot \in Slots : kin'[p][slot] = SlotAfter(kin, w, p, slot)
           /\ p \notin Known(kin, w) => kin'[p] = kin[p]
    BY <1>2, <2>1, <2>2, RowCommitted
  <2>4. Known(kin, w) \subseteq Kin /\ LiveIn(kin) \subseteq Known(kin, w) /\ LiveKin = LiveIn(kin)
    BY <2>2 DEF Known, LiveIn, LiveKin, NewRows
  <2>5. LiveIn(kin') = Known(kin, w)
    <3>1. \A p \in Kin : p \notin LiveIn(kin) => kin[p].there # "live"
      BY DEF LiveIn
    <3> QED
      BY <2>3, <2>4, <3>1 DEF LiveIn
  <2>6. EdgesIn(kin') = EdgesAfter(kin, w)
    <3>1. \A p \in Known(kin, w) : /\ kin'[p].father = SlotAfter(kin, w, p, "father")
                                   /\ kin'[p].mother = SlotAfter(kin, w, p, "mother")
      BY <2>3, <2>4, SlotNames
    <3> QED
      BY <2>5, <3>1 DEF EdgesIn, EdgesAfter
  <2>7. ASSUME NEW c \in Known(kin, w), NEW slot \in Slots
        PROVE  SlotAfter(kin, w, c, slot) \in Known(kin, w) \cup {NoKin}
    <3>1. CASE <<c, slot>> \in DOMAIN w.sets
      <4>1. \A k \in DOMAIN w.sets : k[1] \in Known(kin, w) => w.sets[k] \in Known(kin, w) \cup {NoKin}
        BY <1>5, <2>4 DEF StillThere, Known
      <4>2. <<c, slot>>[1] \in Known(kin, w)
        OBVIOUS
      <4> QED
        BY <3>1, <4>1, <4>2 DEF SlotAfter
    <3>2. CASE <<c, slot>> \notin DOMAIN w.sets
      BY <1>2, <2>4, <3>2 DEF SlotAfter, TreeRows
    <3> QED
      BY <3>1, <3>2
  <2>8. TreeRows(kin')
    <3>1. ColumnsIn(kin')
      BY <2>1, <2>3 DEF ColumnsIn
    <3>2. Acyclic(EdgesIn(kin'))
      BY <1>2, <2>6 DEF PlanFits
    <3> QED
      BY <2>3, <2>4, <2>5, <2>7, <3>1, <3>2 DEF TreeRows
  <2>9. ASSUME NEW c \in LiveKin, NEW slot \in Slots PROVE SlotKept(c, slot)
    <3>1. kin'[c][slot] = SlotAfter(kin, w, c, slot)
      BY <2>3, <2>4
    <3>2. CASE <<c, slot>> \in DOMAIN w.sets
      <4>1. <<c, slot>> = w.target \/ kin[c][slot] = NoKin \/ kin[c][slot] = w.sets[<<c, slot>>]
        BY <1>2, <2>4, <3>2 DEF PlanFits, KeptIn
      <4> QED
        BY <1>1, <1>3, <3>1, <3>2, <4>1 DEF SlotKept, SlotAfter
    <3>3. CASE <<c, slot>> \notin DOMAIN w.sets
      BY <2>4, <3>1, <3>3 DEF SlotKept, SlotAfter
    <3> QED
      BY <3>2, <3>3
  <2> QED
    BY <1>3, <2>8, <2>9 DEF TreeOK
<1> QED
  BY <1>4, <1>5


-----------------------------------------------------------------------------
(***************************************************************************)
(* Parents put one after the other into rows, where the rules allow it: an *)
(* upload, and an import from a clan.                                      *)
(***************************************************************************)
EdgesOf(rows) == [p \in DOMAIN rows |-> {rows[p].father, rows[p].mother} \ {NoKin}]
RowsOK(rows) ==
  /\ DOMAIN rows \subseteq Kin /\ rows = [p \in DOMAIN rows |-> rows[p]]
  /\ \A p \in DOMAIN rows : KinColumns \subseteq DOMAIN rows[p]
  /\ \A p \in DOMAIN rows : \A slot \in Slots : rows[p][slot] \in DOMAIN rows \cup {NoKin}
  /\ Acyclic(EdgesOf(rows))

WithParents(row, a, b) == [row EXCEPT !.father = a, !.mother = b]
Variants(row, ids) == {row} \cup {WithParents(row, ab[1], ab[2]) : ab \in ids \X ids}
ParentsOver(base) == DOMAIN base \cup {NoKin}
KeepsParents(base, rows) ==
  \A p \in DOMAIN base : \A slot \in Slots : base[p][slot] \in {NoKin, rows[p][slot]}
Parented(base) ==
  {rows \in [DOMAIN base -> UNION {Variants(base[p], ParentsOver(base)) : p \in DOMAIN base}] :
     /\ \A p \in DOMAIN base : rows[p] \in Variants(base[p], ParentsOver(base))
     /\ KeepsParents(base, rows)
     /\ Acyclic(EdgesOf(rows))}

LEMMA GraphEdges == ASSUME NEW rows, NEW spouses PROVE ParentSets(Graph(rows, spouses)) = EdgesOf(rows)
BY DEF ParentSets, Graph, EdgesOf

LEMMA VariantFields ==
  ASSUME NEW row, KinColumns \subseteq DOMAIN row, NEW ids, \A slot \in Slots : row[slot] \in ids,
         NEW v \in Variants(row, ids)
  PROVE  /\ KinColumns \subseteq DOMAIN v /\ v.there = row.there
         /\ \A slot \in Slots : v[slot] \in ids
<1>1. CASE v = row
  BY <1>1
<1>2. CASE v # row
  <2>1. PICK ab \in ids \X ids : v = WithParents(row, ab[1], ab[2])
    BY <1>2 DEF Variants
  <2>2. ab[1] \in ids /\ ab[2] \in ids
    OBVIOUS
  <2>3. PICK a, b : a = ab[1] /\ b = ab[2]
    OBVIOUS
  <2>4. v = [row EXCEPT !.father = a, !.mother = b] /\ a \in ids /\ b \in ids
    BY <2>1, <2>2, <2>3 DEF WithParents
  <2> QED
    BY <2>4 DEF KinColumns, Slots
<1> QED
  BY <1>1, <1>2

LEMMA VariantPut ==
  ASSUME NEW row, KinColumns \subseteq DOMAIN row, NEW ids, \A slot \in Slots : row[slot] \in ids,
         NEW v \in Variants(row, ids), NEW slot \in Slots, NEW q \in ids
  PROVE  [v EXCEPT ![slot] = q] \in Variants(row, ids)
<1>1. PICK a \in ids, b \in ids : \/ v = row /\ a = row["father"] /\ b = row["mother"]
                               \/ v = [row EXCEPT !.father = a, !.mother = b]
  <2>1. CASE v = row
    BY <2>1, SlotNames
  <2>2. CASE v # row
    <3>1. PICK ab \in ids \X ids : v = WithParents(row, ab[1], ab[2])
      BY <2>2 DEF Variants
    <3> QED
      BY <3>1 DEF WithParents
  <2> QED
    BY <2>1, <2>2
<1>2. PICK w : w = [v EXCEPT ![slot] = q]
  OBVIOUS
<1>3. ASSUME NEW x \in ids, NEW y \in ids, w = [row EXCEPT !.father = x, !.mother = y]
      PROVE  w \in Variants(row, ids)
  <2>1. w = WithParents(row, <<x, y>>[1], <<x, y>>[2]) /\ <<x, y>> \in ids \X ids
    BY <1>3 DEF WithParents
  <2> QED
    BY <2>1 DEF Variants
<1>4. CASE slot = "father"
  <2>1. w = [row EXCEPT !.father = q, !.mother = b]
    BY <1>1, <1>2, <1>4 DEF KinColumns
  <2> QED
    BY <1>2, <1>3, <2>1
<1>5. CASE slot = "mother"
  <2>1. w = [row EXCEPT !.father = a, !.mother = q]
    BY <1>1, <1>2, <1>5 DEF KinColumns
  <2> QED
    BY <1>2, <1>3, <2>1
<1> QED
  BY <1>4, <1>5 DEF Slots

LEMMA ParentedStart == ASSUME NEW base, RowsOK(base) PROVE base \in Parented(base)
<1>1. \A p \in DOMAIN base : base[p] \in Variants(base[p], ParentsOver(base))
  BY DEF Variants
<1>2. base \in [DOMAIN base -> UNION {Variants(base[p], ParentsOver(base)) : p \in DOMAIN base}]
  <2>1. PICK V : V = UNION {Variants(base[p], ParentsOver(base)) : p \in DOMAIN base}
    OBVIOUS
  <2>2. \A p \in DOMAIN base : base[p] \in V
    BY <1>1, <2>1
  <2>3. base = [p \in DOMAIN base |-> base[p]]
    BY DEF RowsOK
  <2> QED
    BY <2>1, <2>2, <2>3
<1> QED
  BY <1>1, <1>2 DEF Parented, KeepsParents, RowsOK

(* What is put in stays a tree with the parents there were.                *)
LEMMA ParentedOK ==
  ASSUME NEW base, RowsOK(base), NEW rows \in Parented(base)
  PROVE  /\ RowsOK(rows) /\ DOMAIN rows = DOMAIN base /\ KeepsParents(base, rows)
         /\ \A p \in DOMAIN base : rows[p].there = base[p].there
<1>1. DOMAIN rows = DOMAIN base /\ rows = [p \in DOMAIN rows |-> rows[p]]
  BY DEF Parented
<1>2. \A p \in DOMAIN base : rows[p] \in Variants(base[p], ParentsOver(base))
  BY DEF Parented
<1>3. \A p \in DOMAIN base : /\ KinColumns \subseteq DOMAIN base[p]
                             /\ \A slot \in Slots : base[p][slot] \in ParentsOver(base)
  BY DEF RowsOK, ParentsOver
<1>4. \A p \in DOMAIN base : /\ KinColumns \subseteq DOMAIN rows[p] /\ rows[p].there = base[p].there
                             /\ \A slot \in Slots : rows[p][slot] \in ParentsOver(base)
  BY <1>2, <1>3, VariantFields
<1>5. KeepsParents(base, rows) /\ Acyclic(EdgesOf(rows))
  BY DEF Parented
<1> QED
  BY <1>1, <1>4, <1>5 DEF RowsOK, ParentsOver

LEMMA ParentPut ==
  ASSUME NEW base, RowsOK(base), NEW rows \in Parented(base), NEW c, NEW slot \in Slots, NEW q,
         NEW spouses, CheckSetParent(Graph(rows, spouses), c, slot, q),
         c \in DOMAIN base =>
           base[c][slot] = NoKin \/ CheckSlotFree(Graph(rows, spouses), c, slot, q)
  PROVE  [rows EXCEPT ![c][slot] = q] \in Parented(base)
<1>1. /\ RowsOK(rows) /\ DOMAIN rows = DOMAIN base /\ KeepsParents(base, rows)
      /\ \A p \in DOMAIN base : rows[p].there = base[p].there
  BY ParentedOK
<1>2. /\ c # q /\ q \in DOMAIN base /\ q \notin Descendants(EdgesOf(rows), c)
      /\ c \in DOMAIN base => base[c][slot] = NoKin \/ rows[c][slot] \in {NoKin, q}
  <2>1. PICK g : g = Graph(rows, spouses)
    OBVIOUS
  <2>2. g.kin = rows /\ ParentSets(g) = EdgesOf(rows)
    BY <2>1, GraphEdges DEF Graph
  <2> QED
    BY <1>1, <2>1, <2>2 DEF CheckSetParent, CheckSlotFree, Has, DescendantsOf
<1>3. PICK after : after = [rows EXCEPT ![c][slot] = q]
  OBVIOUS
<1>4. CASE c \notin DOMAIN base
  <2>1. after = rows
    BY <1>1, <1>3, <1>4 DEF RowsOK
  <2> QED
    BY <1>3, <2>1
<1>5. CASE c \in DOMAIN base
  <2>1. /\ DOMAIN after = DOMAIN base /\ after = [p \in DOMAIN base |-> after[p]]
        /\ \A p \in DOMAIN base : after[p] = IF p = c THEN [rows[c] EXCEPT ![slot] = q] ELSE rows[p]
    BY <1>1, <1>3, <1>5
  <2>2. \A p \in DOMAIN base : /\ KinColumns \subseteq DOMAIN base[p]
                               /\ \A s \in Slots : base[p][s] \in ParentsOver(base)
                               /\ rows[p] \in Variants(base[p], ParentsOver(base))
    BY DEF RowsOK, ParentsOver, Parented
  <2>3. q \in ParentsOver(base)
    BY <1>2 DEF ParentsOver
  <2>4. \A p \in DOMAIN base : after[p] \in Variants(base[p], ParentsOver(base))
    BY <2>1, <2>2, <2>3, VariantPut
  <2>5. \A p \in DOMAIN base : \A s \in Slots :
          after[p][s] = IF p = c /\ s = slot THEN q ELSE rows[p][s]
    BY <1>1, <2>1 DEF RowsOK, KinColumns, Slots
  <2>6. KeepsParents(base, after)
    BY <1>1, <1>2, <2>5 DEF KeepsParents
  <2>7. Acyclic(EdgesOf(after))
    <3>1. DOMAIN EdgesOf(rows) = DOMAIN base /\ DOMAIN EdgesOf(after) = DOMAIN base
      BY <1>1, <2>1 DEF EdgesOf
    <3>2. \A p \in DOMAIN base : /\ EdgesOf(rows)[p] = {rows[p].father, rows[p].mother} \ {NoKin}
                                 /\ EdgesOf(after)[p] = {after[p].father, after[p].mother} \ {NoKin}
      BY <1>1, <2>1 DEF EdgesOf
    <3>3. \A p \in DOMAIN base :
            /\ after[p].father \in {rows[p].father} \cup (IF p \in {c} THEN {q} ELSE {})
            /\ after[p].mother \in {rows[p].mother} \cup (IF p \in {c} THEN {q} ELSE {})
      BY <2>5, SlotNames
    <3>4. Adopted(EdgesOf(rows), EdgesOf(after), q, {c})
      BY <3>1, <3>2, <3>3 DEF Adopted
    <3>5. IsFiniteSet(DOMAIN EdgesOf(rows))
      <4>1. DOMAIN base \in SUBSET Kin
        BY DEF RowsOK
      <4> QED
        BY <3>1, <4>1, KinFinite, FS_Subset
    <3>6. Acyclic(EdgesOf(rows))
      BY <1>1 DEF RowsOK
    <3> QED
      BY <1>2, <3>4, <3>5, <3>6, AdoptionKeepsAcyclic
  <2>8. after \in [DOMAIN base -> UNION {Variants(base[p], ParentsOver(base)) : p \in DOMAIN base}]
    <3>1. PICK V : V = UNION {Variants(base[p], ParentsOver(base)) : p \in DOMAIN base}
      OBVIOUS
    <3>2. \A p \in DOMAIN base : after[p] \in V
      BY <2>4, <3>1
    <3> QED
      BY <2>1, <3>1, <3>2
  <2> QED
    BY <1>3, <2>4, <2>6, <2>7, <2>8 DEF Parented
<1> QED
  BY <1>4, <1>5

LEMMA IterationStays ==
  ASSUME NEW V, NEW N \in Nat, NEW f, f[0] \in V, \A i \in 1..N : f[i - 1] \in V => f[i] \in V
  PROVE  f[N] \in V
<1> DEFINE Off == {i \in 0..N : f[i] \notin V}
<1> SUFFICES ASSUME Off # {} PROVE FALSE
  OBVIOUS
<1>1. PICK n \in Off : \A m \in Off : n <= m
  <2>1. Off \in SUBSET Nat
    OBVIOUS
  <2> HIDE DEF Off
  <2> QED
    BY <2>1, LeastNat
<1>2. n # 0
  BY <1>1
<1>3. n \in 1..N /\ n - 1 \in 0..N /\ ~(n <= n - 1)
  BY <1>1, <1>2
<1>4. f[n - 1] \in V
  BY <1>1, <1>3
<1>5. f[n] \in V
  BY <1>3, <1>4
<1> QED
  BY <1>1, <1>5

LEMMA SlotOf == ASSUME NEW i PROVE NthSlot(i)[2] \in Slots
BY DEF NthSlot, Slots

-----------------------------------------------------------------------------
(***************************************************************************)
(* An upload: everybody starts without parents, and the references that    *)
(* the rules allow are taken.                                              *)
(***************************************************************************)
LEMMA NormalizedRows ==
  ASSUME NEW raw, DOMAIN raw \subseteq Kin, NEW base, base = [c \in DOMAIN raw |-> Normalized(raw[c])]
  PROVE  /\ RowsOK(base) /\ DOMAIN base = DOMAIN raw
         /\ \A c \in DOMAIN base : base[c].there = "live"
         /\ \A c \in DOMAIN base : \A slot \in Slots : base[c][slot] = NoKin
<1>1. ASSUME NEW c \in DOMAIN raw
      PROVE  /\ KinColumns \subseteq DOMAIN base[c] /\ base[c].there = "live"
             /\ base[c].father = NoKin /\ base[c].mother = NoKin
  <2>1. base[c] = [Unborn EXCEPT !.there = "live",
                      !.gender = IF raw[c].gender \in Genders THEN raw[c].gender ELSE "unknown"]
    BY DEF Normalized
  <2> QED
    BY <2>1, UnbornFields DEF KinColumns
<1>2. \A c \in DOMAIN base : \A slot \in Slots : base[c][slot] = NoKin
  BY <1>1 DEF Slots
<1>3. Acyclic(EdgesOf(base))
  <2>1. DOMAIN EdgesOf(base) \in SUBSET Kin
    BY DEF EdgesOf
  <2>2. IsFiniteSet(DOMAIN EdgesOf(base))
    BY <2>1, KinFinite, FS_Subset
  <2>3. \A p : Children(EdgesOf(base), p) = {}
    BY <1>1 DEF Children, EdgesOf
  <2> QED
    BY <2>2, <2>3, NoDescendants DEF Acyclic
<1> QED
  BY <1>1, <1>2, <1>3 DEF RowsOK

LEMMA TakenParented ==
  ASSUME NEW base, RowsOK(base), \A c \in DOMAIN base : \A slot \in Slots : base[c][slot] = NoKin,
         NEW rows \in Parented(base), NEW c, NEW slot \in Slots, NEW q
  PROVE  TakeParent(rows, c, slot, q) \in Parented(base)
BY ParentPut DEF TakeParent

LEMMA PlanParentsOK ==
  ASSUME NEW raw, Len(raw) \in Nat, DOMAIN raw \subseteq Kin
  PROVE  PlanParents(raw) \in Parented([c \in DOMAIN raw |-> Normalized(raw[c])])
<1> DEFINE start == [c \in DOMAIN raw |-> Normalized(raw[c])]
           Tried(rows, i) ==
             LET c == NthSlot(i)[1]
                 slot == NthSlot(i)[2]
             IN TakeParent(rows, c, slot, raw[c][slot])
           N == 2 * Len(raw)
           V == Parented(start)
           Defines(f) == f = [i \in 0..N |-> IF i = 0 THEN start ELSE Tried(f[i - 1], i)]
           step == [i \in 1..N |-> [rows \in V |-> Tried(rows, i)]]
<1>1. N \in Nat
  OBVIOUS
<1>2. /\ RowsOK(start) /\ start \in V
      /\ \A c \in DOMAIN start : \A slot \in Slots : start[c][slot] = NoKin
  <2> HIDE DEF start
  <2>1. RowsOK(start) /\ \A c \in DOMAIN start : \A slot \in Slots : start[c][slot] = NoKin
    BY NormalizedRows DEF start
  <2> QED
    BY <2>1, ParentedStart
<1>3. \A rows \in V : \A i : Tried(rows, i) \in V
  <2> HIDE DEF start
  <2> QED
    BY <1>2, SlotOf, TakenParented
<1>4. step \in [1..N -> [V -> V]]
  <2> HIDE DEF V, Tried
  <2> QED
    BY <1>3
<1>5. PICK h \in [0..N -> V] : h[0] = start /\ \A i \in 1..N : h[i] = step[i][h[i - 1]]
  <2> HIDE DEF N, step, V, start
  <2>1. \E f : Iterates(f, V, start, step, N)
    BY <1>1, <1>2, <1>4, IterationExists
  <2> QED
    BY <2>1 DEF Iterates
<1>6. \A i \in 1..N : h[i] = Tried(h[i - 1], i)
  <2> TAKE i \in 1..N
  <2>1. h[i - 1] \in V
    BY <1>1
  <2> HIDE DEF V, Tried
  <2> QED
    BY <1>5, <2>1
<1>7. Defines(h)
  <2> HIDE DEF V, Tried, start
  <2> QED
    BY <1>1, <1>5, <1>6
<1>8. PICK f : f = CHOOSE k : Defines(k)
  OBVIOUS
<1>9. Defines(f)
  BY <1>7, <1>8
<1>10. f[0] = start /\ \A i \in 1..N : f[i] = Tried(f[i - 1], i)
  <2> HIDE DEF Tried, start
  <2> QED
    BY <1>1, <1>9
<1>11. f[N] \in V
  <2> HIDE DEF Tried, start, N, V
  <2> QED
    BY <1>1, <1>2, <1>3, <1>10, IterationStays, SMTT(30)
<1>12. PlanParents(raw) = f[N]
  BY <1>8 DEF PlanParents
<1> QED
  BY <1>11, <1>12

(* The rows that are written are a tree again.                             *)
LEMMA WrittenTree ==
  ASSUME NEW old, ColumnsIn(old), NEW base, RowsOK(base), \A p \in DOMAIN base : base[p].there = "live",
         LiveIn(old) \subseteq DOMAIN base, NEW rows \in Parented(base),
         NEW after, after = [f \in Kin |-> IF f \in DOMAIN base THEN rows[f] ELSE old[f]]
  PROVE  /\ TreeRows(after) /\ LiveIn(after) = DOMAIN base
         /\ \A f \in DOMAIN base : after[f] = rows[f]
<1>1. /\ RowsOK(rows) /\ DOMAIN rows = DOMAIN base /\ DOMAIN base \subseteq Kin
      /\ \A p \in DOMAIN base : rows[p].there = "live"
  BY ParentedOK DEF RowsOK
<1>2. /\ \A f \in DOMAIN base : after[f] = rows[f] /\ after[f].there = "live"
      /\ \A f \in Kin : f \notin DOMAIN base => after[f] = old[f] /\ old[f].there # "live"
  BY <1>1 DEF LiveIn
<1>3. LiveIn(after) = DOMAIN base
  BY <1>1, <1>2 DEF LiveIn
<1>4. ColumnsIn(after)
  BY <1>1, <1>2 DEF ColumnsIn, RowsOK
<1>5. EdgesIn(after) = EdgesOf(rows)
  BY <1>1, <1>2, <1>3 DEF EdgesIn, EdgesOf
<1> QED
  BY <1>1, <1>2, <1>3, <1>4, <1>5 DEF TreeRows, RowsOK

LEMMA ImportRows ==
  ASSUME ColumnsIn(kin), NEW raw \in RawTrees, NEW me, Import(raw, me)
  PROVE  TreeRows(kin') /\ LiveKin = {} /\ FreshKin = Kin /\ UNCHANGED work
<1>1. Len(raw) \in Nat /\ DOMAIN raw \subseteq Kin
  <2>1. Len(raw) \in 0..MaxKin /\ DOMAIN raw = 1..Len(raw)
    BY UploadAssumption
  <2> QED
    BY <2>1, KinAssumption DEF Kin
<1>2. PICK base, rows : base = [c \in DOMAIN raw |-> Normalized(raw[c])] /\ rows = PlanParents(raw)
  OBVIOUS
<1>3. /\ RowsOK(base) /\ DOMAIN base = DOMAIN raw /\ rows \in Parented(base)
      /\ \A c \in DOMAIN base : base[c].there = "live"
  BY <1>1, <1>2, NormalizedRows, PlanParentsOK
<1>4. DOMAIN rows = DOMAIN base
  BY <1>3, ParentedOK
<1>5. kin' = [f \in Kin |-> IF f \in DOMAIN base THEN rows[f] ELSE kin[f]]
  BY <1>2, <1>4 DEF Import, WriteImport, PlanImport
<1>6. LiveKin = {} /\ FreshKin = Kin /\ UNCHANGED work
  BY DEF Import
<1>7. ColumnsIn(kin) /\ LiveIn(kin) = {}
  BY <1>6 DEF LiveIn, LiveKin
<1>8. TreeRows(kin')
  BY <1>3, <1>5, <1>7, WrittenTree
<1> QED
  BY <1>6, <1>8

LEMMA ImportKeeps ==
  ASSUME TreeOK, scene' = scene, NEW raw \in RawTrees, NEW me, Import(raw, me)
  PROVE  TreeOK' /\ LiveKin = {}
<1>1. TreeRows(kin') /\ LiveKin = {} /\ FreshKin = Kin /\ UNCHANGED work
  BY ImportRows DEF TreeOK, TreeRows
<1>2. Working = {}
  <2> SUFFICES ASSUME NEW r \in Working PROVE FALSE
    OBVIOUS
  <2>1. PlanFits(kin, work[r]) /\ r \in Relaters
    BY DEF TreeOK, Working
  <2>2. CASE work[r].born # {}
    <3>1. PICK b \in work[r].born : TRUE
      BY <2>2
    <3>2. b[1] \in Kin
      BY <2>1, <3>1 DEF PlanFits, NewRows
    <3> QED
      BY <1>1, <2>1, <3>1, <3>2 DEF FreshKin
  <2>3. CASE \E p \in Kin : kin[p].there # "unborn"
    BY <1>1, <2>3 DEF FreshKin
  <2> QED
    BY <2>1, <2>2, <2>3 DEF PlanFits
<1>3. Working' = {}
  BY <1>1, <1>2 DEF Working
<1> QED
  BY <1>1, <1>3 DEF TreeOK

-----------------------------------------------------------------------------
(***************************************************************************)
(* An import from a clan: the persons who come have no parents and are     *)
(* named by nobody; the edges of the clan go into free slots.              *)
(***************************************************************************)
LEMMA ConnectedParented ==
  ASSUME NEW base, RowsOK(base), NEW rows \in Parented(base), NEW kinOf, NEW child, NEW slot \in Slots, NEW new
  PROVE  ConnectParent(rows, kinOf, child, slot, new) \in Parented(base)
BY ParentPut DEF ConnectParent

LEMMA ConnectParentsOK ==
  ASSUME NEW base, RowsOK(base), NEW c, NEW kinOf, NEW new
  PROVE  ConnectParents(base, c, kinOf, new) \in Parented(base)
<1> DEFINE Connected(rows, i) ==
             LET child == NthSlot(i)[1]
                 slot == NthSlot(i)[2]
             IN IF child \in PersonsOf(c) THEN ConnectParent(rows, kinOf, child, slot, new) ELSE rows
           N == 2 * MaxPersons
           V == Parented(base)
           Defines(f) == f = [i \in 0..N |-> IF i = 0 THEN base ELSE Connected(f[i - 1], i)]
           step == [i \in 1..N |-> [rows \in V |-> Connected(rows, i)]]
<1>1. N \in Nat
  BY ClansAssumption
<1>2. base \in V
  BY ParentedStart
<1>3. \A rows \in V : \A i : Connected(rows, i) \in V
  BY SlotOf, ConnectedParented
<1>4. step \in [1..N -> [V -> V]]
  <2> HIDE DEF V, Connected
  <2> QED
    BY <1>3
<1>5. PICK h \in [0..N -> V] : h[0] = base /\ \A i \in 1..N : h[i] = step[i][h[i - 1]]
  <2> HIDE DEF N, step, V
  <2>1. \E f : Iterates(f, V, base, step, N)
    BY <1>1, <1>2, <1>4, IterationExists
  <2> QED
    BY <2>1 DEF Iterates
<1>6. \A i \in 1..N : h[i] = Connected(h[i - 1], i)
  <2> TAKE i \in 1..N
  <2>1. h[i - 1] \in V
    BY <1>1
  <2> HIDE DEF V, Connected
  <2> QED
    BY <1>5, <2>1
<1>7. Defines(h)
  <2> HIDE DEF V, Connected
  <2> QED
    BY <1>1, <1>5, <1>6
<1>8. PICK f : f = CHOOSE k : Defines(k)
  OBVIOUS
<1>9. Defines(f)
  BY <1>7, <1>8
<1>10. f[0] = base /\ \A i \in 1..N : f[i] = Connected(f[i - 1], i)
  <2> HIDE DEF Connected
  <2> QED
    BY <1>1, <1>9
<1>11. f[N] \in V
  <2> HIDE DEF Connected, N, V
  <2> QED
    BY <1>1, <1>2, <1>3, <1>10, IterationStays
<1>12. ConnectParents(base, c, kinOf, new) = f[N]
  BY <1>8 DEF ConnectParents
<1> QED
  BY <1>11, <1>12

(* The rows that an import starts from.                                    *)
Comes(ids, coming, base) ==
  /\ ids \subseteq FreshKin /\ DOMAIN coming = ids
  /\ \A f \in ids : /\ KinColumns \subseteq DOMAIN coming[f] /\ coming[f].there = "live"
                    /\ coming[f].father = NoKin /\ coming[f].mother = NoKin
  /\ base = Over([f \in LiveKin |-> kin[f]], coming)
Came(ids, base) ==
  /\ RowsOK(base) /\ DOMAIN base = LiveKin \cup ids
  /\ \A f \in DOMAIN base : base[f].there = "live"
  /\ \A f \in LiveKin : base[f] = kin[f]

LEMMA ComingRows ==
  ASSUME TreeRows(kin), NEW ids, NEW coming, NEW base, Comes(ids, coming, base) PROVE Came(ids, base)
<1>1. /\ DOMAIN base = LiveKin \cup ids /\ base = [f \in DOMAIN base |-> base[f]]
      /\ \A f \in LiveKin : base[f] = kin[f]
      /\ \A f \in ids : f \notin LiveKin => base[f] = coming[f]
  BY DEF Over, Comes
<1>2. LiveKin = LiveIn(kin) /\ LiveKin \subseteq Kin /\ ids \subseteq Kin /\ ids \cap LiveKin = {}
  BY DEF Comes, LiveKin, LiveIn, FreshKin
<1>3. \A f \in DOMAIN base : base[f].there = "live" /\ KinColumns \subseteq DOMAIN base[f]
  BY <1>1, <1>2 DEF Comes, LiveKin, TreeRows, ColumnsIn
<1>4. \A f \in LiveKin : \A slot \in Slots : base[f][slot] \in LiveKin \cup {NoKin}
  BY <1>1, <1>2 DEF TreeRows
<1>5. \A f \in ids : base[f].father = NoKin /\ base[f].mother = NoKin
  BY <1>1, <1>2 DEF Comes
<1>6. \A f \in ids : \A slot \in Slots : base[f][slot] = NoKin
  BY <1>5 DEF Slots
<1>7. Acyclic(EdgesOf(base))
  <2>1. DOMAIN EdgesOf(base) \in SUBSET Kin
    BY <1>1, <1>2 DEF EdgesOf
  <2>2. IsFiniteSet(DOMAIN EdgesOf(base)) /\ IsFiniteSet(DOMAIN EdgesIn(kin))
    BY <2>1, KinFinite, FS_Subset, EdgesFinite
  <2>3. \A f \in LiveKin : /\ f \in DOMAIN EdgesIn(kin) /\ EdgesOf(base)[f] = EdgesIn(kin)[f]
                           /\ EdgesOf(base)[f] \subseteq LiveKin
    BY <1>1, <1>2, <1>4, SlotNames DEF EdgesOf, EdgesIn
  <2>4. \A f \in ids : EdgesOf(base)[f] = {}
    BY <1>1, <1>5 DEF EdgesOf
  <2>5. DOMAIN EdgesOf(base) = LiveKin \cup ids
    BY <1>1 DEF EdgesOf
  <2>6. Pruned(EdgesIn(kin), EdgesOf(base), ids)
    BY <1>2, <2>3, <2>4, <2>5 DEF Pruned, Children
  <2> QED
    BY <2>2, <2>6, LeavesKeepAcyclic DEF TreeRows
<1> QED
  BY <1>1, <1>2, <1>3, <1>4, <1>6, <1>7 DEF RowsOK, Came

LEMMA VariantOwn ==
  ASSUME NEW row, KinColumns \subseteq DOMAIN row, NEW ids, NEW v \in Variants(row, ids)
  PROVE  v.gender = row.gender /\ v.value = row.value
<1>1. CASE v = row
  BY <1>1
<1>2. CASE v # row
  <2>1. PICK ab \in ids \X ids : v = WithParents(row, ab[1], ab[2])
    BY <1>2 DEF Variants
  <2>2. PICK a, b : a = ab[1] /\ b = ab[2]
    OBVIOUS
  <2>3. v = [row EXCEPT !.father = a, !.mother = b]
    BY <2>1, <2>2 DEF WithParents
  <2> QED
    BY <2>3 DEF KinColumns
<1> QED
  BY <1>1, <1>2

(* What an import does to the tree, and the links it makes.                *)
Imports(c, new, born) ==
  /\ c \in Clans /\ IsMember(c) /\ new \in SUBSET PersonsOf(c) /\ IsFiniteSet(new)
  /\ Cardinality(new) <= Cardinality(FreshLinks) /\ born \in [new -> FreshKin]
  /\ link' = WithLinks(c, {<<born[p], p>> : p \in new})
  /\ pairs' = pairs \cup ConnectSpouses(c, Over(born, [p \in {link[l].person : l \in LinksIn(c)} |->
                                                          CHOOSE f \in KinOf(p) : TRUE]), new)
  /\ TreeRows(kin') /\ LiveKin' = LiveKin \cup {born[p] : p \in new}
  /\ \A f \in LiveKin : /\ Own(f)' = Own(f)
                        /\ \A slot \in Slots : kin[f][slot] \in {NoKin, kin'[f][slot]}

LEMMA ImportEffect ==
  ASSUME TreeOK, ImportFromClan PROVE \E c, new, born : Imports(c, new, born)
<1>0. PICK c \in Clans : \E wanted \in SUBSET PersonsOf(c) :
         LET new == wanted \ {link[l].person : l \in LinksIn(c)}
         IN /\ IsMember(c)
            /\ Cardinality(new) <= Min({Cardinality(FreshKin), Cardinality(FreshLinks)})
            /\ ImportPersons(c, new, Numbered(new, FreshKin))
  BY DEF ImportFromClan
<1>1. PICK wanted \in SUBSET PersonsOf(c) :
         LET new == wanted \ {link[l].person : l \in LinksIn(c)}
         IN /\ IsMember(c)
            /\ Cardinality(new) <= Min({Cardinality(FreshKin), Cardinality(FreshLinks)})
            /\ ImportPersons(c, new, Numbered(new, FreshKin))
  BY <1>0
<1>2. PICK new : new = wanted \ {link[l].person : l \in LinksIn(c)}
  OBVIOUS
<1>3. new \in SUBSET Nat /\ IsFiniteSet(new) /\ new \in SUBSET PersonsOf(c)
  <2>1. Persons \in SUBSET Nat /\ IsFiniteSet(Persons)
    BY ClansAssumption, FS_Interval DEF Persons
  <2>2. new \in SUBSET Persons
    BY <1>2 DEF PersonsOf
  <2> QED
    BY <1>2, <2>1, <2>2, FS_Subset
<1>4. PICK born : born = Numbered(new, FreshKin)
  OBVIOUS
<1>5. born \in [new -> FreshKin] /\ ImportPersons(c, new, born)
  BY <1>1, <1>2, <1>3, <1>4, FreshAreFinite, NumberedPersons
<1>6. PICK ids : ids = {born[p] : p \in new}
  OBVIOUS
<1>7. PICK coming : coming = [f \in ids |-> With([Unborn EXCEPT !.there = "live"],
                                              ClanToFamily(CHOOSE p \in new : born[p] = f))]
  OBVIOUS
<1>8. PICK base : base = Over([f \in LiveKin |-> kin[f]], coming)
  OBVIOUS
<1>9. /\ RowsOK(base) /\ DOMAIN base = LiveKin \cup ids
      /\ \A f \in DOMAIN base : base[f].there = "live"
      /\ \A f \in LiveKin : base[f] = kin[f]
  <2>1. ids \subseteq FreshKin
    BY <1>5, <1>6
  <2>2. \A f \in ids : /\ KinColumns \subseteq DOMAIN coming[f] /\ coming[f].there = "live"
                        /\ coming[f].father = NoKin /\ coming[f].mother = NoKin
    BY <1>7, UnbornFields DEF With, KinColumns
  <2>3. Comes(ids, coming, base) /\ TreeRows(kin)
    BY <1>7, <1>8, <2>1, <2>2 DEF Comes, TreeOK
  <2>4. Came(ids, base)
    BY <2>3, ComingRows
  <2> QED
    BY <2>4 DEF Came
<1>10. PICK linked : linked = [p \in {link[l].person : l \in LinksIn(c)} |-> CHOOSE f \in KinOf(p) : TRUE]
  OBVIOUS
<1>11. PICK kinOf : kinOf = Over(born, linked)
  OBVIOUS
<1>12. PICK rows : rows = ConnectParents(base, c, kinOf, new)
  OBVIOUS
<1>13. rows \in Parented(base)
  BY <1>9, <1>12, ConnectParentsOK
<1>14. kin' = [f \in Kin |-> IF f \in DOMAIN base THEN rows[f] ELSE kin[f]]
  BY <1>5, <1>6, <1>7, <1>8, <1>10, <1>11, <1>12 DEF ImportPersons
<1>15. pairs' = pairs \cup ConnectSpouses(c, kinOf, new) /\ link' = WithLinks(c, {<<born[p], p>> : p \in new})
  BY <1>5, <1>10, <1>11 DEF ImportPersons
<1>16. LiveKin = LiveIn(kin) /\ ColumnsIn(kin) /\ LiveKin' = LiveIn(kin')
  BY DEF LiveKin, LiveIn, TreeRows, TreeOK
<1>17. TreeRows(kin') /\ LiveIn(kin') = DOMAIN base /\ \A f \in DOMAIN base : kin'[f] = rows[f]
  BY <1>9, <1>13, <1>14, <1>16, WrittenTree
<1>18. ASSUME NEW f \in LiveKin
       PROVE  Own(f)' = Own(f) /\ \A slot \in Slots : kin[f][slot] \in {NoKin, kin'[f][slot]}
  <2>1. f \in DOMAIN base /\ KinColumns \subseteq DOMAIN base[f] /\ base[f] = kin[f] /\ kin'[f] = rows[f]
    BY <1>9, <1>17 DEF RowsOK
  <2>2. rows[f] \in Variants(base[f], ParentsOver(base))
    BY <1>13, <2>1 DEF Parented
  <2>3. rows[f].gender = base[f].gender /\ rows[f].value = base[f].value
    BY <2>1, <2>2, VariantOwn
  <2>4. KeepsParents(base, rows)
    BY <1>9, <1>13, ParentedOK
  <2> QED
    BY <2>1, <2>3, <2>4 DEF Own, KeepsParents
<1>19. Cardinality(new) <= Cardinality(FreshLinks) /\ IsMember(c)
  <2>1. Cardinality(FreshKin) \in Nat /\ Cardinality(FreshLinks) \in Nat /\ Cardinality(new) \in Nat
    BY <1>3, FreshAreFinite, FS_CardinalityType
  <2>2. Cardinality(new) <= Min({Cardinality(FreshKin), Cardinality(FreshLinks)}) /\ IsMember(c)
    BY <1>1, <1>2
  <2> QED
    BY <2>1, <2>2, MinOfTwo
<1>20. Imports(c, new, born)
  BY <1>3, <1>5, <1>6, <1>9, <1>10, <1>11, <1>15, <1>16, <1>17, <1>18, <1>19 DEF Imports
<1> QED
  BY <1>20

LEMMA ClanImportKeeps ==
  ASSUME TreeOK, scene = "links", scene' = scene, ImportFromClan
  PROVE  TreeOK' /\ \A c \in LiveKin : \A slot \in Slots : SlotKept(c, slot)
<1>1. PICK c, new, born : Imports(c, new, born)
  BY ImportEffect
<1>2. ASSUME NEW f \in LiveKin, NEW slot \in Slots PROVE SlotKept(f, slot)
  <2>1. kin[f][slot] \in {NoKin, kin'[f][slot]}
    BY <1>1 DEF Imports
  <2> QED
    BY <2>1 DEF SlotKept
<1>3. UNCHANGED work /\ TreeRows(kin')
  BY <1>1 DEF ImportFromClan, Imports
<1> QED
  BY <1>2, <1>3 DEF TreeOK, Working

-----------------------------------------------------------------------------
(***************************************************************************)
(* Every step: the tree stays a tree unless requests have overlapped, and  *)
(* a parent stays unless chosen anew or deleted.                           *)
(***************************************************************************)
AllSlotsKept == \A c \in LiveKin : \A slot \in Slots : SlotKept(c, slot)
TreeKept == TreeOK' /\ AllSlotsKept /\ UNCHANGED raced

LEMMA SameTreeKept ==
  ASSUME TreeOK, SameTree(kin, kin'), UNCHANGED <<work, scene, raced>> PROVE TreeKept
<1>1. \A p \in Kin : \A slot \in Slots : kin'[p][slot] = kin[p][slot]
  BY DEF SameTree, Slots
<1>2. AllSlotsKept
  BY <1>1 DEF AllSlotsKept, SlotKept, LiveKin
<1> QED
  BY <1>2, SameTreeKeeps DEF TreeKept

LEMMA QuietKept == ASSUME TreeOK, UNCHANGED <<kin, work, scene, raced>> PROVE TreeKept
<1>1. SameTree(kin, kin)
  BY DEF SameTree, TreeOK, TreeRows
<1>2. SameTree(kin, kin')
  BY <1>1
<1> QED
  BY <1>2, SameTreeKept

LEMMA WithSameTree ==
  ASSUME ColumnsIn(kin), NEW after, DOMAIN after = Kin,
         \A f \in Kin : after[f] = kin[f] \/ \E shared : after[f] = With(kin[f], shared)
  PROVE  SameTree(kin, after)
<1>1. ASSUME NEW f \in Kin
      PROVE  /\ KinColumns \subseteq DOMAIN after[f] /\ after[f].there = kin[f].there
             /\ after[f].father = kin[f].father /\ after[f].mother = kin[f].mother
  <2>1. KinColumns \subseteq DOMAIN kin[f]
    BY DEF ColumnsIn
  <2>2. CASE after[f] = kin[f]
    BY <2>1, <2>2
  <2>3. ASSUME NEW shared, after[f] = With(kin[f], shared)
        PROVE  /\ KinColumns \subseteq DOMAIN after[f] /\ after[f].there = kin[f].there
               /\ after[f].father = kin[f].father /\ after[f].mother = kin[f].mother
    BY <2>1, <2>3 DEF With, KinColumns
  <2> QED
    BY <2>2, <2>3
<1> QED
  BY <1>1 DEF SameTree, ColumnsIn

LEMMA DeletePersonKeepsTree ==
  ASSUME TreeOK, NEW f \in LiveKin, DeleteRow(f), UNCHANGED <<work, scene, raced>> PROVE TreeKept
<1>1. kin' = WithoutKin(kin, f)
  BY DEF DeleteRow
<1>2. \A c \in LiveKin : c \in Kin /\ KinColumns \subseteq DOMAIN kin[c]
  BY DEF TreeOK, TreeRows, ColumnsIn, LiveKin
<1>3. kin'[f].there = "deleted"
  BY <1>1, <1>2, UnbornFields DEF WithoutKin, KinColumns
<1>4. ASSUME NEW c \in LiveKin, c # f, NEW slot \in Slots, kin[c][slot] # f
      PROVE  kin'[c][slot] = kin[c][slot]
  <2>1. PICK row : row = kin[c]
    OBVIOUS
  <2>2. kin'[c] = [row EXCEPT !.father = IF @ = f THEN NoKin ELSE @,
                              !.mother = IF @ = f THEN NoKin ELSE @]
    BY <1>1, <1>2, <1>4, <2>1 DEF WithoutKin
  <2> QED
    BY <1>2, <1>4, <2>1, <2>2 DEF KinColumns, Slots
<1>5. AllSlotsKept
  BY <1>3, <1>4 DEF AllSlotsKept, SlotKept
<1> QED
  BY <1>1, <1>5, DeleteKeeps DEF TreeKept

LEMMA RequestRaces ==
  ASSUME NEW r,
         \/ RequestSetParent(r) \/ RequestLinkSpouse(r) \/ RequestUnlinkSpouse(r)
         \/ RequestLinkChild(r) \/ RequestAddRelative(r) \/ RequestCreate(r)
  PROVE  UNCHANGED kin /\ (raced => raced')
<1>1. ASSUME NEW op, NEW target, NEW g, Plan(r, op, target, g)
      PROVE  UNCHANGED kin /\ (raced => raced')
  BY <1>1 DEF Plan
<1>2. CASE RequestSetParent(r)
  BY <1>1, <1>2 DEF RequestSetParent
<1>3. CASE RequestLinkSpouse(r)
  BY <1>1, <1>3 DEF RequestLinkSpouse
<1>4. CASE RequestUnlinkSpouse(r)
  BY <1>1, <1>4 DEF RequestUnlinkSpouse
<1>5. CASE RequestLinkChild(r)
  BY <1>1, <1>5 DEF RequestLinkChild
<1>6. CASE RequestAddRelative(r)
  BY <1>1, <1>6 DEF RequestAddRelative
<1>7. CASE RequestCreate(r)
  BY <1>1, <1>7 DEF RequestCreate
<1> QED
  BY <1>2, <1>3, <1>4, <1>5, <1>6, <1>7

TreeStep == (raced' \/ TreeOK') /\ AllSlotsKept

LEMMA UnchangedSlots == ASSUME UNCHANGED kin PROVE AllSlotsKept
BY DEF AllSlotsKept, SlotKept

LEMMA TreeRequestStep ==
  ASSUME TreeOK, scene = "tree", scene' = scene, TreeRequest PROVE TreeStep
<1>1. ASSUME NEW r \in Relaters,
             \/ RequestSetParent(r) \/ RequestLinkSpouse(r) \/ RequestUnlinkSpouse(r)
             \/ RequestLinkChild(r) \/ RequestAddRelative(r) \/ RequestCreate(r)
      PROVE  TreeStep
  <2>1. UNCHANGED kin
    BY <1>1, RequestRaces
  <2>2. raced' \/ TreeOK'
    <3> SUFFICES ASSUME ~raced' PROVE TreeOK'
      OBVIOUS
    <3> QED
      BY <1>1, RequestKeeps
  <2> QED
    BY <2>1, <2>2, UnchangedSlots DEF TreeStep
<1>2. ASSUME NEW r \in Relaters, CommitPlan(r) PROVE TreeStep
  BY <1>2, CommitKeeps DEF TreeStep, AllSlotsKept
<1>3. CASE PatchPerson
  <2>1. PICK p \in LiveKin, gender \in Genders : kin' = [kin EXCEPT ![p].gender = gender]
    BY <1>3 DEF PatchPerson
  <2>2. ColumnsIn(kin) /\ p \in Kin
    BY DEF TreeOK, TreeRows, LiveKin
  <2>3. PICK row : row = kin[p]
    OBVIOUS
  <2>4. /\ DOMAIN kin' = Kin /\ kin'[p] = [row EXCEPT !.gender = gender]
        /\ \A f \in Kin : f # p => kin'[f] = kin[f]
    BY <2>1, <2>2, <2>3 DEF ColumnsIn
  <2>5. SameTree(kin, kin')
    <3>1. KinColumns \subseteq DOMAIN row
      BY <2>2, <2>3 DEF ColumnsIn
    <3>2. /\ KinColumns \subseteq DOMAIN kin'[p] /\ kin'[p].there = row.there
          /\ kin'[p].father = row.father /\ kin'[p].mother = row.mother
      BY <2>4, <3>1 DEF KinColumns
    <3> QED
      BY <2>2, <2>3, <2>4, <3>2 DEF SameTree, ColumnsIn
  <2>6. UNCHANGED <<work, raced>>
    BY <1>3 DEF PatchPerson
  <2> QED
    BY <2>5, <2>6, SameTreeKept DEF TreeKept, TreeStep
<1>4. CASE PutSelf
  BY <1>4, QuietKept DEF PutSelf, TreeKept, TreeStep
<1>5. ASSUME NEW raw \in RawTrees, NEW me, Import(raw, me) PROVE TreeStep
  <2>1. TreeOK' /\ LiveKin = {}
    BY <1>5, ImportKeeps
  <2> QED
    BY <2>1 DEF TreeStep, AllSlotsKept
<1> QED
  BY <1>1, <1>2, <1>3, <1>4, <1>5 DEF TreeRequest

LEMMA LinkRequestStep ==
  ASSUME TreeOK, scene = "links", scene' = scene, LinkRequest PROVE TreeStep
<1>0. ColumnsIn(kin)
  BY DEF TreeOK, TreeRows
<1>1. ASSUME SameTree(kin, kin'), UNCHANGED <<work, raced>> PROVE TreeStep
  BY <1>1, SameTreeKept DEF TreeKept, TreeStep
<1>2. ASSUME UNCHANGED <<kin, work, raced>> PROVE TreeStep
  BY <1>2, QuietKept DEF TreeKept, TreeStep
<1>3. ASSUME NEW snapshot, kin' = Snapshotted(snapshot) PROVE SameTree(kin, kin')
  <2>1. /\ DOMAIN kin' = Kin
        /\ \A f \in Kin : kin'[f] = kin[f] \/ \E shared : kin'[f] = With(kin[f], shared)
    BY <1>3 DEF Snapshotted
  <2> QED
    BY <1>0, <2>1, WithSameTree
<1>4. CASE RequestLinks \/ InsertLinks
  BY <1>2, <1>4 DEF RequestLinks, InsertLinks, treeVars
<1>5. ASSUME NEW op, NEW c, NEW ls, Begin(op, c, ls) PROVE TreeStep
  BY <1>2, <1>5 DEF Begin, treeVars
<1>6. CASE RequestDetach \/ RequestRemoval \/ RequestClanDeletion
  BY <1>5, <1>6 DEF RequestDetach, RequestRemoval, RequestClanDeletion
<1>7. CASE Detach
  BY <1>1, <1>3, <1>7 DEF Detach
<1>8. CASE EditClanPerson
  BY <1>2, <1>8 DEF EditClanPerson, treeVars
<1>9. CASE DeleteClanPerson
  BY <1>1, <1>3, <1>9 DEF DeleteClanPerson
<1>10. CASE PatchUnlinked
  <2>1. PICK f \in LiveKin, shared \in Edits : kin' = [kin EXCEPT ![f] = With(@, shared)]
    BY <1>10 DEF PatchUnlinked
  <2>2. SameTree(kin, kin')
    <3>1. DOMAIN kin' = Kin /\ \A p \in Kin : kin'[p] = IF p = f THEN With(kin[f], shared) ELSE kin[p]
      BY <1>0, <2>1 DEF ColumnsIn
    <3>2. \A p \in Kin : kin'[p] = kin[p] \/ \E x : kin'[p] = With(kin[p], x)
      BY <3>1
    <3> QED
      BY <1>0, <3>1, <3>2, WithSameTree
  <2>3. UNCHANGED <<work, raced>>
    BY <1>10 DEF PatchUnlinked
  <2> QED
    BY <1>1, <2>2, <2>3
<1>11. CASE PatchLinked
  BY <1>2, <1>11 DEF PatchLinked, treeVars
<1>12. ASSUME NEW f, NEW c, NEW parents, Contribute(f, c, parents) PROVE TreeStep
  BY <1>2, <1>12 DEF Contribute, treeVars
<1>13. CASE ContributePerson \/ ContributeRelative
  BY <1>12, <1>13 DEF ContributePerson, ContributeRelative
<1>14. CASE Approve
  BY <1>2, <1>14 DEF Approve, treeVars
<1>15. CASE ImportFromClan
  BY <1>15, ClanImportKeeps DEF TreeStep, AllSlotsKept
<1>16. CASE BootstrapClan
  BY <1>2, <1>16 DEF BootstrapClan, treeVars
<1> QED
  BY <1>4, <1>6, <1>7, <1>8, <1>9, <1>10, <1>11, <1>13, <1>14, <1>15, <1>16 DEF LinkRequest

LEMMA TreeNext == ASSUME TreeOK, [Next]_vars PROVE TreeStep
<1>1. CASE UNCHANGED vars
  BY <1>1, QuietKept DEF vars, treeVars, TreeKept, TreeStep
<1>2. CASE Next /\ scene \in {"kinship", "marriages"} /\ UNCHANGED treeVars
  BY <1>2, QuietKept DEF Next, treeVars, TreeKept, TreeStep
<1>3. CASE Next /\ scene = "tree" /\ TreeRequest
  BY <1>3, TreeRequestStep DEF Next
<1>4. CASE Next /\ scene = "links" /\ LinkRequest
  BY <1>4, LinkRequestStep DEF Next
<1>5. CASE Next /\ DeletePerson
  <2>1. PICK f \in LiveKin : DeleteRow(f)
    BY <1>5 DEF DeletePerson
  <2>2. UNCHANGED <<work, raced, scene>>
    BY <1>5 DEF DeletePerson, Next
  <2> QED
    BY <2>1, <2>2, DeletePersonKeepsTree DEF TreeKept, TreeStep
<1> QED
  BY <1>1, <1>2, <1>3, <1>4, <1>5 DEF Next

LEMMA RacedStays == ASSUME raced, [Next]_vars PROVE raced'
<1>1. CASE UNCHANGED raced
  BY <1>1
<1>2. ASSUME NEW r,
         \/ RequestSetParent(r) \/ RequestLinkSpouse(r) \/ RequestUnlinkSpouse(r)
         \/ RequestLinkChild(r) \/ RequestAddRelative(r) \/ RequestCreate(r)
      PROVE  raced'
  BY <1>2, RequestRaces
<1>3. ASSUME TreeRequest PROVE raced'
  <2>1. ASSUME NEW r, CommitPlan(r) PROVE UNCHANGED raced
    BY <2>1 DEF CommitPlan
  <2>2. ASSUME NEW raw, NEW me, Import(raw, me) PROVE UNCHANGED raced
    BY <2>2 DEF Import
  <2>3. PatchPerson \/ PutSelf => UNCHANGED raced
    BY DEF PatchPerson, PutSelf
  <2> QED
    BY <1>1, <1>2, <1>3, <2>1, <2>2, <2>3 DEF TreeRequest
<1>4. ASSUME LinkRequest PROVE UNCHANGED raced
  <2>1. ASSUME NEW op, NEW c, NEW ls, Begin(op, c, ls) PROVE UNCHANGED raced
    BY <2>1 DEF Begin, treeVars
  <2>2. ASSUME NEW f, NEW c, NEW parents, Contribute(f, c, parents) PROVE UNCHANGED raced
    BY <2>2 DEF Contribute, treeVars
  <2>3. RequestDetach \/ RequestRemoval \/ RequestClanDeletion => UNCHANGED raced
    BY <2>1 DEF RequestDetach, RequestRemoval, RequestClanDeletion
  <2>4. ContributePerson \/ ContributeRelative => UNCHANGED raced
    BY <2>2 DEF ContributePerson, ContributeRelative
  <2>5. RequestLinks \/ InsertLinks \/ Detach \/ EditClanPerson \/ DeleteClanPerson => UNCHANGED raced
    BY DEF RequestLinks, InsertLinks, Detach, EditClanPerson, DeleteClanPerson, treeVars
  <2>6. PatchUnlinked \/ PatchLinked \/ Approve \/ ImportFromClan \/ BootstrapClan => UNCHANGED raced
    BY DEF PatchUnlinked, PatchLinked, Approve, ImportFromClan, BootstrapClan, treeVars
  <2> QED
    BY <1>4, <2>3, <2>4, <2>5, <2>6 DEF LinkRequest
<1>5. DeletePerson => UNCHANGED raced
  BY DEF DeletePerson
<1>6. UNCHANGED vars \/ UNCHANGED treeVars => UNCHANGED raced
  BY DEF vars, treeVars
<1> QED
  BY <1>1, <1>3, <1>4, <1>5, <1>6 DEF Next

LEMMA TreeInit == ASSUME Init PROVE TreeInv
<1>1. PICK s \in Scenes : kin = s.kin /\ work = [r \in Relaters |-> NoWork]
  BY DEF Init
<1>2. /\ DOMAIN s.kin = Kin /\ \A f \in Kin : DOMAIN s.kin[f] = DOMAIN Unborn
      /\ LET live == {f \in Kin : s.kin[f].there = "live"}
             parents == [f \in live |-> {s.kin[f].father, s.kin[f].mother} \ {NoKin}]
         IN \A f \in live : parents[f] \subseteq live /\ f \notin Descendants(parents, f)
  BY ScenesAssumption DEF SceneOK
<1>3. \A f \in LiveIn(kin) : EdgesIn(kin)[f] \subseteq LiveIn(kin) /\ f \notin Descendants(EdgesIn(kin), f)
  BY <1>1, <1>2 DEF LiveIn, EdgesIn
<1>4. \A f \in LiveIn(kin) : EdgesIn(kin)[f] = {kin[f].father, kin[f].mother} \ {NoKin}
  BY DEF EdgesIn
<1>5. \A f \in LiveIn(kin) : /\ kin[f].father \in LiveIn(kin) \cup {NoKin}
                             /\ kin[f].mother \in LiveIn(kin) \cup {NoKin}
  BY <1>3, <1>4
<1>6. ColumnsIn(kin)
  BY <1>1, <1>2, UnbornFields DEF ColumnsIn
<1>7. TreeRows(kin)
  BY <1>3, <1>5, <1>6 DEF TreeRows, Acyclic, EdgesIn, Slots
<1>8. DOMAIN work = Relaters /\ Working = {}
  BY <1>1 DEF Working
<1> QED
  BY <1>7, <1>8 DEF TreeInv, TreeOK

LEMMA TreeInvNext == ASSUME TreeInv, [Next]_vars PROVE TreeInv'
<1>1. CASE raced
  BY <1>1, RacedStays DEF TreeInv
<1>2. CASE ~raced
  BY <1>2, TreeNext DEF TreeInv, TreeStep
<1> QED
  BY <1>1, <1>2

(***************************************************************************)
(* Nobody in a personal tree is their own ancestor, unless two relation    *)
(* requests have overlapped (services/family_rules.py, check_set_parent).  *)
(***************************************************************************)
THEOREM TreesAreAcyclic == Spec => []FamilyIsAcyclic
<1>1. Init => TreeInv
  BY TreeInit
<1>2. TreeInv /\ [Next]_vars => TreeInv'
  BY TreeInvNext
<1>3. TreeInv => FamilyIsAcyclic
  <2> SUFFICES ASSUME TreeOK PROVE \A p \in LiveKin : p \notin DescendantsOf(Loaded, p)
    BY DEF TreeInv, FamilyIsAcyclic
  <2>1. Acyclic(ParentSets(Loaded)) /\ DOMAIN ParentSets(Loaded) = LiveKin
    BY LoadedIs, LoadedRows DEF TreeOK, ParentSets
  <2> QED
    BY <2>1 DEF Acyclic, DescendantsOf
<1> QED
  BY <1>1, <1>2, <1>3, PTL DEF Spec

(***************************************************************************)
(* A recorded parent gives way only to a choice made for that slot, or to  *)
(* the deletion of that parent (views/family_link_flow.py), unless two     *)
(* relation requests have overlapped.                                      *)
(***************************************************************************)
THEOREM ParentsAreNotReplaced == Spec => NoSilentReplacement
<1>1. Init => TreeInv
  BY TreeInit
<1>2. TreeInv /\ [Next]_vars => TreeInv'
  BY TreeInvNext
<1>3. TreeInv /\ [Next]_vars =>
        [raced \/ \A c \in LiveKin : \A slot \in Slots : SlotKept(c, slot)]_<<kin, work, raced>>
  BY TreeNext DEF TreeInv, TreeStep, AllSlotsKept
<1> QED
  BY <1>1, <1>2, <1>3, PTL DEF Spec, NoSilentReplacement

-----------------------------------------------------------------------------
(***************************************************************************)
(* Links and what they point at: both ends of a live link are there, a     *)
(* person of the tree has one live link to a clan, ids are given out in    *)
(* order, and what requests in flight have read of it still holds.         *)
(***************************************************************************)
LinkColumns == {"there", "kin", "clan", "person"}
Founded(c) == c \in Clans /\ clanState[c] # "none"
OfClan(p, c) == p \in Persons /\ person[p].there # "unborn" /\ person[p].clan = c

ColumnsOK ==
  /\ DOMAIN person = Persons /\ \A p \in Persons : DOMAIN UnbornPerson \subseteq DOMAIN person[p]
  /\ DOMAIN link = Links /\ \A l \in Links : LinkColumns \subseteq DOMAIN link[l]
  /\ DOMAIN clanState = Clans /\ Owner \in DOMAIN member /\ DOMAIN member[Owner] = Clans
LinkEnds ==
  \A l \in Links : There(l) =>
    link[l].kin \in LiveKin /\ Founded(link[l].clan) /\ OfClan(link[l].person, link[l].clan)
OneEach ==
  \A l, m \in Links :
    There(l) /\ There(m) /\ link[l].kin = link[m].kin /\ link[l].clan = link[m].clan => l = m
IdsInOrder == \A l \in FreshLinks : \A m \in Links \ FreshLinks : m < l

LinkingOK ==
  linking # NoLinking =>
    /\ Founded(linking.clan) /\ IsFiniteSet(linking.pairs)
    /\ \A fp \in linking.pairs : OfClan(fp[2], linking.clan)
DetachingOK ==
  detaching # NoDetach =>
    \A l \in DOMAIN detaching.snapshot : l \in Links \ FreshLinks /\ link[l].clan = detaching.clan
OffersOK == \A o \in offers : o.clan \in Clans

TiesInv == ColumnsOK /\ LinkEnds /\ OneEach /\ IdsInOrder /\ LinkingOK /\ DetachingOK /\ OffersOK

(* The persons to be inserted are not there yet, whoever else is at work.  *)
BornInv ==
  /\ ColumnsIn(kin) /\ DOMAIN work = Relaters
  /\ scene # "tree" => ~raced
  /\ \A r \in Relaters : \A b \in work[r].born :
       b[1] \in Kin /\ kin[b[1]].there = "unborn" /\ KinColumns \subseteq DOMAIN b[2]
  /\ \A r, s \in Relaters : \A a \in work[r].born, b \in work[s].born : r # s => a[1] # b[1]

(***************************************************************************)
(* Ids that are given out are the first ones.                              *)
(***************************************************************************)
LEMMA PositionsGrow ==
  ASSUME NEW S \in SUBSET Nat, IsFiniteSet(S), NEW x \in S
  PROVE  /\ Position(x, S) \in 1..Cardinality(S)
         /\ \A y \in S : y < x => Position(y, S) < Position(x, S)
<1> DEFINE below(z) == {y \in S : y <= z}
<1>1. \A z \in S : /\ below(z) \in SUBSET S /\ z \in below(z)
                   /\ IsFiniteSet(below(z)) /\ Position(z, S) = Cardinality(below(z))
  <2> SUFFICES ASSUME NEW z \in S
               PROVE  /\ below(z) \in SUBSET S /\ z \in below(z)
                      /\ IsFiniteSet(below(z)) /\ Position(z, S) = Cardinality(below(z))
    OBVIOUS
  <2>1. below(z) \in SUBSET S /\ z \in below(z)
    OBVIOUS
  <2>2. Position(z, S) = Cardinality(below(z))
    BY DEF Position
  <2> QED
    BY <2>1, <2>2, FS_Subset
<1>2. Position(x, S) \in 1..Cardinality(S)
  <2>1. Cardinality(below(x)) <= Cardinality(S)
    BY <1>1, FS_Subset
  <2>2. Cardinality(below(x)) \in Nat /\ Cardinality(below(x)) # 0 /\ Cardinality(S) \in Nat
    BY <1>1, FS_CardinalityType, FS_EmptySet
  <2> QED
    BY <1>1, <2>1, <2>2
<1>3. ASSUME NEW y \in S, y < x PROVE Position(y, S) < Position(x, S)
  <2>1. below(y) \in SUBSET below(x) /\ below(y) # below(x)
    <3>1. \A z \in S : z \in Nat
      OBVIOUS
    <3>2. \A z \in S : z <= y => z <= x
      BY <1>3, <3>1
    <3>3. x \in below(x) /\ x \notin below(y)
      BY <1>3, <3>1
    <3> QED
      BY <3>2, <3>3
  <2>2. Cardinality(below(y)) \in Nat /\ Cardinality(below(x)) \in Nat
    BY <1>1, FS_CardinalityType
  <2>3. Cardinality(below(y)) <= Cardinality(below(x)) /\ Cardinality(below(y)) # Cardinality(below(x))
    <3> HIDE DEF below
    <3> QED
      BY <1>1, <2>1, FS_Subset
  <2> QED
    BY <1>1, <2>2, <2>3
<1> QED
  BY <1>2, <1>3

LEMMA NumberedFirst ==
  ASSUME NEW new \in SUBSET Nat, IsFiniteSet(new), NEW fresh \in SUBSET Nat, IsFiniteSet(fresh),
         Cardinality(new) <= Cardinality(fresh),
         NEW x \in new, NEW low \in fresh, low < Numbered(new, fresh)[x]
  PROVE  \E y \in new : Numbered(new, fresh)[y] = low
<1>1. Numbered(new, fresh) \in [new -> fresh]
  BY NumberedInto
<1>2. PICK id \in fresh : id = Numbered(new, fresh)[x]
  BY <1>1
<1>3. \A z \in new : Numbered(new, fresh)[z] = CHOOSE i \in fresh : Position(i, fresh) = Position(z, new)
  BY DEF Numbered
<1>4. Position(id, fresh) = Position(x, new)
  <2>1. Position(x, new) \in 1..Cardinality(fresh)
    <3>1. Position(x, new) \in 1..Cardinality(new)
      BY PositionsGrow
    <3>2. Cardinality(new) \in Nat /\ Cardinality(fresh) \in Nat
      BY FS_CardinalityType
    <3> QED
      BY <3>1, <3>2
  <2>2. \E i \in fresh : Position(i, fresh) = Position(x, new)
    BY <2>1, PositionsAreTaken
  <2> QED
    BY <1>2, <1>3, <2>2
<1>5. Position(low, fresh) \in 1..Cardinality(new)
  <2>1. Position(low, fresh) < Position(id, fresh) /\ Position(low, fresh) \in 1..Cardinality(fresh)
    BY <1>2, PositionsGrow
  <2>2. Position(x, new) \in 1..Cardinality(new)
    BY PositionsGrow
  <2>3. Cardinality(new) \in Nat /\ Cardinality(fresh) \in Nat
    BY FS_CardinalityType
  <2> QED
    BY <1>4, <2>1, <2>2, <2>3
<1>6. PICK y \in new : Position(y, new) = Position(low, fresh)
  BY <1>5, PositionsAreTaken
<1>7. \A i \in fresh : Position(i, fresh) = Position(low, fresh) => i = low
  <2> SUFFICES ASSUME NEW i \in fresh, Position(i, fresh) = Position(low, fresh) PROVE i = low
    OBVIOUS
  <2>1. i \in Nat /\ low \in Nat
    OBVIOUS
  <2>2. Position(i, fresh) \in 1..Cardinality(fresh) /\ Cardinality(fresh) \in Nat
    BY PositionsGrow, FS_CardinalityType
  <2>3. ~(i < low) /\ ~(low < i)
    BY <2>2, PositionsGrow
  <2> QED
    BY <2>1, <2>3
<1> QED
  BY <1>3, <1>6, <1>7

(* The rows that create_links adds: N are the first free ids, one for each *)
(* person of the tree.                                                     *)
Adds(c, ps, rows, N) ==
  /\ N \subseteq FreshLinks /\ DOMAIN rows = Links
  /\ \A l \in N : \A m \in FreshLinks : m < l => m \in N
  /\ \A l \in Links \ N : rows[l] = link[l]
  /\ \A l \in N : \E fp \in ps : rows[l] = [there |-> "live", kin |-> fp[1], clan |-> c, person |-> fp[2]]
  /\ \A l, m \in N : rows[l].kin = rows[m].kin => l = m

LEMMA LinksMade ==
  ASSUME ColumnsOK, NEW c, NEW ps, NEW first \in SUBSET Nat, first = {fp[1] : fp \in ps},
         IsFiniteSet(first), Cardinality(first) <= Cardinality(FreshLinks)
  PROVE  \E N : Adds(c, ps, WithLinks(c, ps), N)
<1>1. PICK idOf : idOf = Numbered(first, FreshLinks)
  OBVIOUS
<1>2. idOf \in [first -> FreshLinks]
  BY <1>1, FreshAreFinite, NumberedInto
<1>3. PICK N : N = {idOf[fp[1]] : fp \in ps}
  OBVIOUS
<1>4. PICK new : new = [l \in N |->
             LET fp == CHOOSE x \in ps : idOf[x[1]] = l
             IN [there |-> "live", kin |-> fp[1], clan |-> c, person |-> fp[2]]]
  OBVIOUS
<1>5. PICK rows : rows = WithLinks(c, ps)
  OBVIOUS
<1>6. rows = Over(new, link)
  BY <1>1, <1>3, <1>4, <1>5 DEF WithLinks
<1>7. N \subseteq FreshLinks /\ FreshLinks \subseteq Links
  BY <1>2, <1>3 DEF FreshLinks
<1>8. DOMAIN rows = Links /\ \A l \in Links : rows[l] = IF l \in N THEN new[l] ELSE link[l]
  BY <1>4, <1>6, <1>7 DEF Over, ColumnsOK
<1>9. \A l \in N : \E fp \in ps : /\ idOf[fp[1]] = l
                                 /\ new[l] = [there |-> "live", kin |-> fp[1], clan |-> c, person |-> fp[2]]
  <2> SUFFICES ASSUME NEW l \in N
               PROVE  \E fp \in ps : /\ idOf[fp[1]] = l
                                     /\ new[l] = [there |-> "live", kin |-> fp[1], clan |-> c, person |-> fp[2]]
    OBVIOUS
  <2>1. PICK fp : fp = CHOOSE x \in ps : idOf[x[1]] = l
    OBVIOUS
  <2>2. fp \in ps /\ idOf[fp[1]] = l
    BY <1>3, <2>1
  <2>3. new[l] = [there |-> "live", kin |-> fp[1], clan |-> c, person |-> fp[2]]
    BY <1>4, <2>1
  <2> QED
    BY <2>2, <2>3
<1>10. \A l \in N : idOf[new[l].kin] = l
  <2> SUFFICES ASSUME NEW l \in N PROVE idOf[new[l].kin] = l
    OBVIOUS
  <2>1. PICK fp \in ps : /\ idOf[fp[1]] = l
                         /\ new[l] = [there |-> "live", kin |-> fp[1], clan |-> c, person |-> fp[2]]
    BY <1>9
  <2>2. new[l].kin = fp[1]
    BY <2>1
  <2> QED
    BY <2>1, <2>2
<1>11. \A l \in N : \A m \in FreshLinks : m < l => m \in N
  <2> SUFFICES ASSUME NEW fp \in ps, NEW m \in FreshLinks, m < idOf[fp[1]] PROVE m \in N
    BY <1>3
  <2>1. fp[1] \in first
    OBVIOUS
  <2>2. PICK x \in first : x = fp[1]
    BY <2>1
  <2>3. m < Numbered(first, FreshLinks)[x]
    BY <1>1, <2>2
  <2>4. \E y \in first : idOf[y] = m
    <3>1. PICK fresh : fresh = FreshLinks
      OBVIOUS
    <3>2. /\ fresh \in SUBSET Nat /\ IsFiniteSet(fresh) /\ Cardinality(first) <= Cardinality(fresh)
          /\ m \in fresh /\ m < Numbered(first, fresh)[x]
      <4>1. fresh \in SUBSET Nat /\ IsFiniteSet(fresh)
        BY <3>1, FreshAreFinite
      <4>2. Cardinality(first) <= Cardinality(fresh)
        BY <3>1
      <4>3. m \in fresh
        BY <3>1
      <4>4. m < Numbered(first, fresh)[x]
        BY <2>3, <3>1
      <4> QED
        BY <4>1, <4>2, <4>3, <4>4
    <3>3. \E y \in first : Numbered(first, fresh)[y] = m
      BY <3>2, NumberedFirst, ZenonT(60)
    <3> QED
      BY <1>1, <3>1, <3>3
  <2> QED
    BY <1>3, <2>4
<1>12. \A l \in N : \E fp \in ps : rows[l] = [there |-> "live", kin |-> fp[1], clan |-> c, person |-> fp[2]]
  BY <1>7, <1>8, <1>9
<1>13. \A l, m \in N : rows[l].kin = rows[m].kin => l = m
  BY <1>7, <1>8, <1>10
<1>14. \A l \in Links \ N : rows[l] = link[l]
  BY <1>8
<1>15. Adds(c, ps, rows, N)
  BY <1>7, <1>8, <1>11, <1>12, <1>13, <1>14 DEF Adds
<1> QED
  BY <1>5, <1>15

(***************************************************************************)
(* What a step does to the two ends, to the links and to the requests.     *)
(***************************************************************************)
PeopleStay ==
  /\ DOMAIN person' = Persons
  /\ \A p \in Persons : /\ DOMAIN UnbornPerson \subseteq DOMAIN person'[p]
                        /\ \A c : OfClan(p, c) => OfClan(p, c)'
ClansStay ==
  /\ DOMAIN clanState' = Clans /\ Owner \in DOMAIN member' /\ DOMAIN member'[Owner] = Clans
  /\ \A c : Founded(c) => Founded(c)'
TiesOK == ColumnsOK /\ LinkEnds /\ OneEach /\ IdsInOrder
LinksStay == \A l \in Links \ FreshLinks : l \notin FreshLinks' /\ link'[l].clan = link[l].clan
TiesKept == TiesOK' /\ LinksStay
EndsStay == PeopleStay /\ ClansStay

(* A person of the tree is not linked to c yet; both ends are there.       *)
MayLink(c, ps) ==
  /\ Founded(c)'
  /\ \A fp \in ps : /\ fp[1] \in LiveKin' /\ OfClan(fp[2], c)'
                    /\ \A l \in LinksIn(c) : link[l].kin # fp[1]

LEMMA SameTies == ASSUME TiesOK, EndsStay, LiveKin \subseteq LiveKin', UNCHANGED link PROVE TiesKept
<1>1. ColumnsOK'
  BY DEF TiesOK, ColumnsOK, EndsStay, PeopleStay, ClansStay
<1>2. LinkEnds'
  BY DEF TiesOK, LinkEnds, There, EndsStay, PeopleStay, ClansStay, OfClan
<1>3. OneEach' /\ IdsInOrder' /\ LinksStay
  BY DEF TiesOK, OneEach, IdsInOrder, There, FreshLinks, LinksStay
<1> QED
  BY <1>1, <1>2, <1>3 DEF TiesKept, TiesOK

LEMMA AddedTies ==
  ASSUME TiesOK, EndsStay, LiveKin \subseteq LiveKin', NEW c, NEW ps, NEW N, Adds(c, ps, link', N),
         MayLink(c, ps)
  PROVE  TiesKept
<1>1. /\ N \subseteq FreshLinks /\ FreshLinks \subseteq Links /\ DOMAIN link' = Links
      /\ \A l \in N : ~There(l)
      /\ \A l \in Links \ N : link'[l] = link[l] /\ (There(l)' <=> There(l))
  BY DEF Adds, FreshLinks, There
<1>2. \A l \in N : /\ LinkColumns \subseteq DOMAIN link'[l] /\ There(l)' /\ link'[l].clan = c
                   /\ \E fp \in ps : link'[l].kin = fp[1] /\ link'[l].person = fp[2]
  <2> SUFFICES ASSUME NEW l \in N
               PROVE  /\ LinkColumns \subseteq DOMAIN link'[l] /\ There(l)' /\ link'[l].clan = c
                      /\ \E fp \in ps : link'[l].kin = fp[1] /\ link'[l].person = fp[2]
    OBVIOUS
  <2>1. PICK fp \in ps : link'[l] = [there |-> "live", kin |-> fp[1], clan |-> c, person |-> fp[2]]
    BY DEF Adds
  <2> QED
    BY <2>1 DEF There, LinkColumns
<1>3. FreshLinks' = FreshLinks \ N
  BY <1>1, <1>2 DEF FreshLinks, There
<1>4. ColumnsOK'
  BY <1>1, <1>2 DEF TiesOK, ColumnsOK, EndsStay, PeopleStay, ClansStay
<1>5. LinkEnds'
  <2> SUFFICES ASSUME NEW l \in Links, There(l)'
               PROVE  (link[l].kin \in LiveKin /\ Founded(link[l].clan) /\ OfClan(link[l].person, link[l].clan))'
    BY DEF LinkEnds
  <2>1. CASE l \in N
    BY <1>2, <2>1 DEF MayLink
  <2>2. CASE l \notin N
    BY <1>1, <2>2 DEF TiesOK, LinkEnds, EndsStay, PeopleStay, ClansStay, OfClan
  <2> QED
    BY <2>1, <2>2
<1>6. OneEach'
  <2> SUFFICES ASSUME NEW l \in Links, NEW m \in Links, There(l)', There(m)',
                      link'[l].kin = link'[m].kin, link'[l].clan = link'[m].clan
               PROVE  l = m
    BY DEF OneEach
  <2>1. CASE l \in N /\ m \in N
    BY <2>1 DEF Adds
  <2>2. ASSUME NEW i \in N, NEW j \in Links \ N, There(j)', link'[i].kin = link'[j].kin, link'[i].clan = link'[j].clan
        PROVE  FALSE
    <3>1. j \in LinksIn(c)
      BY <1>1, <1>2, <2>2 DEF LinksIn
    <3> QED
      BY <1>1, <1>2, <2>2, <3>1 DEF MayLink
  <2>3. CASE l \notin N /\ m \notin N
    BY <1>1, <2>3 DEF TiesOK, OneEach
  <2> QED
    BY <2>1, <2>2, <2>3
<1>7. IdsInOrder'
  <2> SUFFICES ASSUME NEW l \in FreshLinks, l \notin N, NEW m \in Links, m \notin FreshLinks \ N PROVE m < l
    BY <1>3 DEF IdsInOrder
  <2>1. CASE m \in N
    <3>1. l \in Nat /\ m \in Nat
      BY <1>1, LinksAssumption DEF Links
    <3>2. ~(l < m) /\ l # m
      BY <2>1 DEF Adds
    <3> QED
      BY <3>1, <3>2
  <2>2. CASE m \notin N
    BY <2>2 DEF TiesOK, IdsInOrder
  <2> QED
    BY <2>1, <2>2
<1>8. LinksStay
  BY <1>1, <1>3 DEF LinksStay
<1> QED
  BY <1>4, <1>5, <1>6, <1>7, <1>8 DEF TiesKept, TiesOK

LEMMA EndedTies ==
  ASSUME TiesOK, EndsStay, NEW D, D \subseteq Links \ FreshLinks, link' = WithoutLinks(D),
         \A l \in Links \ D : There(l) => link[l].kin \in LiveKin'
  PROVE  TiesKept
<1>1. /\ DOMAIN link' = Links
      /\ \A l \in Links : link'[l] = IF l \in D THEN [link[l] EXCEPT !.there = "gone"] ELSE link[l]
  BY DEF WithoutLinks
<1>2. \A l \in Links : /\ LinkColumns \subseteq DOMAIN link'[l]
                       /\ link'[l].clan = link[l].clan
                       /\ l \in D => link'[l].there = "gone"
  BY <1>1 DEF TiesOK, ColumnsOK, LinkColumns
<1>3. \A l \in Links : There(l)' <=> l \notin D /\ There(l)
  BY <1>1, <1>2 DEF There
<1>4. FreshLinks' = FreshLinks
  BY <1>1, <1>2 DEF FreshLinks
<1>5. ColumnsOK'
  BY <1>1, <1>2 DEF TiesOK, ColumnsOK, EndsStay, PeopleStay, ClansStay
<1>6. LinkEnds'
  <2> SUFFICES ASSUME NEW l \in Links, There(l)'
               PROVE  (link[l].kin \in LiveKin /\ Founded(link[l].clan) /\ OfClan(link[l].person, link[l].clan))'
    BY DEF LinkEnds
  <2>1. link'[l] = link[l] /\ There(l) /\ link[l].kin \in LiveKin'
    BY <1>1, <1>3
  <2> QED
    BY <2>1 DEF TiesOK, LinkEnds, EndsStay, PeopleStay, ClansStay, OfClan
<1>7. OneEach' /\ IdsInOrder' /\ LinksStay
  BY <1>1, <1>2, <1>3, <1>4 DEF TiesOK, OneEach, IdsInOrder, LinksStay
<1> QED
  BY <1>5, <1>6, <1>7 DEF TiesKept, TiesOK

(* What requests in flight have read still holds.                          *)
LEMMA LinkingStays ==
  ASSUME LinkingOK, EndsStay, linking' = linking \/ linking' = NoLinking PROVE LinkingOK'
BY DEF LinkingOK, EndsStay, PeopleStay, ClansStay, OfClan

LEMMA DetachingStays ==
  ASSUME DetachingOK, LinksStay, detaching' = detaching \/ detaching' = NoDetach PROVE DetachingOK'
BY DEF DetachingOK, LinksStay

-----------------------------------------------------------------------------
(***************************************************************************)
(* What is shown of a person, and why it may change.                       *)
(***************************************************************************)
Explained(f) ==
  \/ Shown(f)' = Shown(f)
  \/ PatchPerson \/ PatchUnlinked \/ ClanEdited(f) \/ TakenOver(f) \/ Overtaken(f)

LEMMA MinIsLeast ==
  ASSUME NEW S \in SUBSET Nat
  PROVE  /\ S # {} => Min(S) \in S /\ \A y \in S : Min(S) <= y
         /\ \A x \in S : (\A y \in S : x <= y) => Min(S) = x
<1>1. ASSUME S # {} PROVE Min(S) \in S /\ \A y \in S : Min(S) <= y
  <2>1. \E x \in S : \A y \in S : x <= y
    BY <1>1, LeastNat
  <2> QED
    BY <2>1 DEF Min
<1>2. ASSUME NEW x \in S, \A y \in S : x <= y PROVE Min(S) = x
  <2>1. Min(S) \in S /\ Min(S) <= x /\ x <= Min(S)
    BY <1>1, <1>2
  <2>2. x \in Nat /\ Min(S) \in Nat
    BY <2>1
  <2> QED
    BY <2>1, <2>2
<1> QED
  BY <1>1, <1>2

LEMMA SourceIs ==
  ASSUME NEW f
  PROVE  /\ SourceLink(f) = 0 <=> ActiveLinksOf(f) = {}
         /\ SourceLink(f) # 0 => /\ SourceLink(f) \in ActiveLinksOf(f)
                                 /\ \A l \in ActiveLinksOf(f) : SourceLink(f) <= l
<1>1. ActiveLinksOf(f) \in SUBSET Nat /\ 0 \notin ActiveLinksOf(f)
  BY LinksAssumption DEF ActiveLinksOf, Links
<1>2. CASE ActiveLinksOf(f) = {}
  BY <1>2 DEF SourceLink
<1>3. CASE ActiveLinksOf(f) # {}
  <2>1. SourceLink(f) = Min(ActiveLinksOf(f))
    BY <1>3 DEF SourceLink
  <2>2. Min(ActiveLinksOf(f)) \in ActiveLinksOf(f) /\ \A l \in ActiveLinksOf(f) : Min(ActiveLinksOf(f)) <= l
    BY <1>1, <1>3, MinIsLeast
  <2> QED
    BY <1>1, <1>3, <2>1, <2>2
<1> QED
  BY <1>2, <1>3

(* The source after the step, when it is the least of what is active then. *)
LEMMA SourceAfter ==
  ASSUME NEW f, NEW S, ActiveLinksOf(f)' = S, NEW x \in S, \A y \in S : x <= y
  PROVE  SourceLink(f)' = x
<1>1. S \in SUBSET Nat
  BY LinksAssumption DEF ActiveLinksOf, Links
<1>2. Min(S) = x
  BY <1>1, MinIsLeast
<1>3. SourceLink(f)' = IF ActiveLinksOf(f)' = {} THEN 0 ELSE Min(ActiveLinksOf(f)')
  BY DEF SourceLink
<1> QED
  BY <1>2, <1>3

LEMMA SourceGone == ASSUME NEW f, ActiveLinksOf(f)' = {} PROVE SourceLink(f)' = 0
BY DEF SourceLink

LEMMA ShownUnlinked == ASSUME NEW f, SourceLink(f)' = 0 PROVE Shown(f)' = Own(f)'
BY DEF Shown

LEMMA ShownLinked ==
  ASSUME NEW f, NEW l, SourceLink(f)' = l, l # 0, NEW p, link'[l].person = p
  PROVE  Shown(f)' = ClanToFamily(p)'
<1>1. Shown(f)' = IF SourceLink(f)' = 0 THEN Own(f)'
                  ELSE [gender |-> CHOOSE g \in Genders :
                                     Matching[g] = person'[link'[SourceLink(f)'].person].gender,
                        value |-> person'[link'[SourceLink(f)'].person].value]
  BY DEF Shown, ClanToFamily
<1> QED
  BY <1>1 DEF ClanToFamily

LEMMA SourceStays ==
  ASSUME NEW f, SourceLink(f)' = SourceLink(f),
         SourceLink(f) = 0 => Own(f)' = Own(f),
         SourceLink(f) # 0 => link'[SourceLink(f)] = link[SourceLink(f)]
  PROVE  Explained(f)
<1>1. CASE SourceLink(f) = 0
  <2>1. Shown(f) = Own(f)
    BY <1>1 DEF Shown
  <2>2. Shown(f)' = Own(f)'
    BY <1>1, ShownUnlinked
  <2> QED
    BY <1>1, <2>1, <2>2 DEF Explained
<1>2. CASE SourceLink(f) # 0
  <2>1. PICK p : p = link[SourceLink(f)].person
    OBVIOUS
  <2>2. CASE person'[p] # person[p]
    <3>1. ClanEdited(f)
      BY <1>2, <2>1, <2>2 DEF ClanEdited, StillLinked
    <3> QED
      BY <3>1 DEF Explained
  <2>3. CASE person'[p] = person[p]
    <3>1. Shown(f) = ClanToFamily(p)
      BY <1>2, <2>1 DEF Shown
    <3>2. Shown(f)' = ClanToFamily(p)'
      BY <1>2, <2>1, ShownLinked
    <3>3. ClanToFamily(p)' = ClanToFamily(p)
      BY <2>3 DEF ClanToFamily
    <3> QED
      BY <3>1, <3>2, <3>3 DEF Explained
  <2> QED
    BY <2>2, <2>3
<1> QED
  BY <1>1, <1>2

(* The links the person has stay as they are; new ones have larger ids.    *)
LEMMA GrownExplained ==
  ASSUME NEW f, Own(f)' = Own(f),
         \A l \in Links : There(l) /\ link[l].kin = f =>
            link'[l] = link[l] /\ (IsActive(l)' <=> IsActive(l)),
         \A l \in Links : IsActive(l)' /\ link'[l].kin = f =>
            \/ There(l) /\ link[l].kin = f
            \/ \A m \in Links : There(m) => m < l
  PROVE  Explained(f)
<1>1. \A l \in ActiveLinksOf(f) : /\ l \in Links /\ There(l) /\ link[l].kin = f
                                  /\ link'[l] = link[l] /\ l \in ActiveLinksOf(f)'
  BY DEF ActiveLinksOf, IsActive
<1>2. \A l \in ActiveLinksOf(f)' : l \in ActiveLinksOf(f) \/ \A m \in Links : There(m) => m < l
  BY DEF ActiveLinksOf
<1>3. CASE SourceLink(f) = 0 /\ SourceLink(f)' = 0
  BY <1>3, SourceStays
<1>4. CASE SourceLink(f) = 0 /\ SourceLink(f)' # 0
  BY <1>4 DEF Explained, TakenOver
<1>5. CASE SourceLink(f) # 0
  <2>1. PICK S : S = ActiveLinksOf(f)'
    OBVIOUS
  <2>2. SourceLink(f) \in ActiveLinksOf(f) /\ \A l \in ActiveLinksOf(f) : SourceLink(f) <= l
    BY <1>5, SourceIs
  <2>3. S \subseteq Nat /\ ActiveLinksOf(f) \subseteq Nat
    BY <2>1, LinksAssumption DEF ActiveLinksOf, Links
  <2>4. \A y \in S : SourceLink(f) <= y
    <3> SUFFICES ASSUME NEW y \in S PROVE SourceLink(f) <= y
      OBVIOUS
    <3>1. SourceLink(f) \in Nat /\ y \in Nat
      BY <2>2, <2>3
    <3>2. CASE y \in ActiveLinksOf(f)
      BY <2>2, <3>2
    <3>3. CASE \A m \in Links : There(m) => m < y
      BY <1>1, <2>2, <3>1, <3>3
    <3> QED
      BY <1>2, <2>1, <3>2, <3>3
  <2>5. SourceLink(f) \in S
    BY <1>1, <2>1, <2>2
  <2>6. SourceLink(f)' = SourceLink(f)
    BY <2>1, <2>4, <2>5, SourceAfter
  <2> QED
    BY <1>1, <1>5, <2>2, <2>6, SourceStays
<1> QED
  BY <1>3, <1>4, <1>5

LEMMA OwnSnapshot ==
  ASSUME ColumnsIn(kin), NEW f \in LiveKin, NEW p, kin'[f] = With(kin[f], ClanToFamily(p))
  PROVE  Own(f)' = ClanToFamily(p)
<1>1. PICK row : row = kin[f]
  OBVIOUS
<1>2. KinColumns \subseteq DOMAIN row
  BY <1>1 DEF ColumnsIn, LiveKin
<1>3. PICK gender, value : ClanToFamily(p) = [gender |-> gender, value |-> value]
  BY DEF ClanToFamily
<1>4. kin'[f] = [row EXCEPT !.gender = gender, !.value = value]
  BY <1>1, <1>3 DEF With
<1>5. kin'[f].gender = gender /\ kin'[f].value = value
  BY <1>2, <1>4 DEF KinColumns
<1> QED
  BY <1>3, <1>5 DEF Own

(* Links of c end, and leave the values that were shown.                   *)
Leaves(f, c, D, snapshot) ==
  /\ D \subseteq Links /\ DOMAIN snapshot = D
  /\ link' = WithoutLinks(D) /\ kin' = Snapshotted(snapshot)
  /\ \A l \in D : link[l].kin = f =>
       IsActive(l) /\ link[l].clan = c /\ snapshot[l] = ClanToFamily(link[l].person)
  /\ \A l \in Links \ D : There(l) /\ link[l].kin = f => (IsActive(l)' <=> IsActive(l))

LEMMA EndedExplained ==
  ASSUME TiesOK, ColumnsIn(kin), NEW f \in LiveKin, NEW c, NEW D, NEW snapshot,
         Leaves(f, c, D, snapshot)
  PROVE  Explained(f)
<1>0. /\ D \subseteq Links /\ DOMAIN snapshot = D
      /\ link' = WithoutLinks(D) /\ kin' = Snapshotted(snapshot)
      /\ \A l \in D : link[l].kin = f =>
           IsActive(l) /\ link[l].clan = c /\ snapshot[l] = ClanToFamily(link[l].person)
      /\ \A l \in Links \ D : There(l) /\ link[l].kin = f => (IsActive(l)' <=> IsActive(l))
  BY DEF Leaves
<1>1. /\ \A l \in Links \ D : link'[l] = link[l] /\ (There(l)' <=> There(l))
      /\ \A l \in D : link'[l].there = "gone" /\ ~There(l)'
  BY <1>0 DEF WithoutLinks, There, TiesOK, ColumnsOK, LinkColumns
<1>2. \A l \in Links : IsActive(l)' => There(l)' /\ l \notin D /\ link'[l] = link[l] /\ There(l)
  BY <1>1 DEF IsActive
<1>3. PICK E : E = {l \in D : link[l].kin = f}
  OBVIOUS
<1>4. kin'[f] = IF E = {} THEN kin[f] ELSE With(kin[f], snapshot[Max(E)])
  <2>1. {l \in DOMAIN snapshot : link[l].kin = f} = E
    BY <1>0, <1>3
  <2>2. f \in Kin
    BY DEF LiveKin
  <2> QED
    BY <1>0, <2>1, <2>2 DEF Snapshotted
<1>5. CASE E = {}
  <2>1. Own(f)' = Own(f)
    BY <1>4, <1>5 DEF Own
  <2>2. \A l \in Links : There(l) /\ link[l].kin = f =>
            link'[l] = link[l] /\ (IsActive(l)' <=> IsActive(l))
    BY <1>0, <1>1, <1>3, <1>5
  <2>3. \A l \in Links : IsActive(l)' /\ link'[l].kin = f => There(l) /\ link[l].kin = f
    BY <1>2
  <2> QED
    BY <2>1, <2>2, <2>3, GrownExplained
<1>6. CASE E # {}
  <2>1. PICK e \in E : TRUE
    BY <1>6
  <2>2. e \in Links /\ e \in D /\ link[e].kin = f /\ IsActive(e) /\ snapshot[e] = ClanToFamily(link[e].person)
    BY <1>0, <1>3, <2>1
  <2>3. E = {e}
    <3>1. \A l \in E : l \in Links /\ There(l) /\ link[l].kin = f /\ link[l].clan = c
      BY <1>0, <1>3 DEF IsActive
    <3>2. \A l \in E : l = e
      BY <2>1, <3>1 DEF TiesOK, OneEach
    <3> QED
      BY <2>1, <3>2
  <2>4. Max(E) = e
    <3>1. e \in Nat
      BY <2>2, LinksAssumption DEF Links
    <3>2. \E x \in {e} : \A y \in {e} : x >= y
      BY <3>1
    <3>3. Max({e}) \in {e}
      BY <3>2 DEF Max
    <3> QED
      BY <2>3, <3>3
  <2>5. Own(f)' = ClanToFamily(link[e].person)
    BY <1>4, <1>6, <2>2, <2>4, OwnSnapshot
  <2>6. PICK R : R = ActiveLinksOf(f) \ {e}
    OBVIOUS
  <2>7. ActiveLinksOf(f)' = R
    <3>1. \A l \in Links : l # e /\ link[l].kin = f => l \notin D
      BY <1>3, <2>3
    <3>2. ASSUME NEW l \in ActiveLinksOf(f)' PROVE l \in R
      <4>1. l \in Links /\ IsActive(l)' /\ link'[l].kin = f
        BY <3>2 DEF ActiveLinksOf
      <4>2. l \notin D /\ link[l].kin = f /\ There(l) /\ l # e
        BY <1>2, <2>2, <4>1
      <4> QED
        BY <1>0, <2>6, <4>1, <4>2 DEF ActiveLinksOf
    <3>3. ASSUME NEW l \in R PROVE l \in ActiveLinksOf(f)'
      <4>1. l \in Links /\ IsActive(l) /\ There(l) /\ link[l].kin = f /\ l # e
        BY <2>6, <3>3 DEF ActiveLinksOf, IsActive
      <4>2. l \notin D
        BY <3>1, <4>1
      <4>3. IsActive(l)' /\ link'[l].kin = f
        BY <1>0, <1>1, <4>1, <4>2
      <4> QED
        BY <4>1, <4>3 DEF ActiveLinksOf
    <3> QED
      BY <3>2, <3>3
  <2>8. e \in ActiveLinksOf(f) /\ 0 \notin ActiveLinksOf(f)
    BY <2>2, LinksAssumption DEF ActiveLinksOf, Links
  <2>9. /\ SourceLink(f) # 0 /\ SourceLink(f) \in ActiveLinksOf(f)
        /\ \A l \in ActiveLinksOf(f) : SourceLink(f) <= l
    BY <2>8, SourceIs
  <2>10. CASE R = {}
    <3>1. SourceLink(f) = e
      BY <2>6, <2>9, <2>10
    <3>2. Shown(f) = ClanToFamily(link[e].person)
      BY <2>9, <3>1 DEF Shown
    <3>3. Shown(f)' = Own(f)'
      BY <2>7, <2>10, SourceGone, ShownUnlinked
    <3> QED
      BY <2>5, <3>2, <3>3 DEF Explained
  <2>11. CASE R # {} /\ SourceLink(f) = e
    <3>1. SourceLink(f)' # 0
      <4>1. ActiveLinksOf(f)' # {} /\ ActiveLinksOf(f)' \in SUBSET Nat /\ 0 \notin ActiveLinksOf(f)'
        BY <2>7, <2>11, LinksAssumption DEF ActiveLinksOf, Links
      <4>2. Min(ActiveLinksOf(f)') \in ActiveLinksOf(f)'
        BY <4>1, MinIsLeast
      <4> QED
        BY <4>1, <4>2 DEF SourceLink
    <3>2. link'[SourceLink(f)].there = "gone"
      BY <1>1, <2>2, <2>11
    <3> QED
      BY <3>1, <3>2 DEF Explained, TakenOver
  <2>12. CASE SourceLink(f) # e
    <3>1. SourceLink(f) \in R /\ \A l \in R : SourceLink(f) <= l
      BY <2>6, <2>9, <2>12
    <3>2. SourceLink(f)' = SourceLink(f)
      BY <2>7, <3>1, SourceAfter
    <3>3. link'[SourceLink(f)] = link[SourceLink(f)]
      <4>1. PICK s \in R : s = SourceLink(f)
        BY <3>1
      <4>2. s \in Links /\ IsActive(s)'
        BY <2>7, <4>1 DEF ActiveLinksOf
      <4> QED
        BY <1>2, <4>1, <4>2
    <3> QED
      BY <2>9, <3>2, <3>3, SourceStays
  <2> QED
    BY <2>10, <2>11, <2>12
<1> QED
  BY <1>5, <1>6

-----------------------------------------------------------------------------
(***************************************************************************)
(* Steps that leave the persons of the clans, or add to them.              *)
(***************************************************************************)
PeopleGrow ==
  /\ PeopleStay
  /\ \A p \in Persons : person[p].there # "unborn" =>
       (person'[p].there = "live" <=> person[p].there = "live")
ClansGrow ==
  /\ ClansStay
  /\ \A c : Founded(c) => clanState'[c] = clanState[c] /\ member'[Owner][c] = member[Owner][c]
KinGrow == \A f \in LiveKin : f \in LiveKin' /\ (Explained(f) \/ Own(f)' = Own(f))
PendingOK == LinkingOK /\ DetachingOK /\ OffersOK
Fine == TiesInv' /\ LiveKin \subseteq LiveKin' /\ \A f \in LiveKin : Explained(f)

LEMMA ActiveStays ==
  ASSUME TiesOK, PeopleGrow, ClansGrow, NEW l \in Links, There(l), link'[l] = link[l]
  PROVE  IsActive(l)' <=> IsActive(l)
<1>1. PICK c, p : c = link[l].clan /\ p = link[l].person
  OBVIOUS
<1>2. Founded(c) /\ OfClan(p, c)
  BY <1>1 DEF TiesOK, LinkEnds
<1>3. person'[p].there = "live" <=> person[p].there = "live"
  BY <1>2 DEF PeopleGrow, OfClan
<1>4. clanState'[c] = clanState[c] /\ member'[Owner][c] = member[Owner][c]
  BY <1>2 DEF ClansGrow
<1>5. IsActive(l) <=> There(l) /\ clanState[c] = "live" /\ member[Owner][c].role # "none" /\ person[p].there = "live"
  BY <1>1 DEF IsActive, IsMember
<1>6. IsActive(l)' <=> There(l)' /\ clanState'[c] = "live" /\ member'[Owner][c].role # "none" /\ person'[p].there = "live"
  BY <1>1 DEF IsActive, IsMember
<1>7. There(l)'
  BY DEF There
<1> QED
  BY <1>3, <1>4, <1>5, <1>6, <1>7

LEMMA ClansUnchanged == ASSUME TiesOK, UNCHANGED <<clanState, member>> PROVE ClansGrow
BY DEF TiesOK, ColumnsOK, ClansGrow, ClansStay, Founded

LEMMA PeopleUnchanged == ASSUME TiesOK, UNCHANGED person PROVE PeopleGrow
BY DEF TiesOK, ColumnsOK, PeopleGrow, PeopleStay, OfClan

LEMMA KinUnchanged == ASSUME UNCHANGED kin PROVE KinGrow
BY DEF KinGrow, LiveKin, Own

LEMMA QuietFine ==
  ASSUME TiesInv, PeopleGrow, ClansGrow, KinGrow, UNCHANGED link,
         LinksStay => PendingOK'
  PROVE  Fine
<1>1. TiesOK /\ EndsStay /\ LiveKin \subseteq LiveKin'
  BY DEF TiesInv, TiesOK, EndsStay, PeopleGrow, ClansGrow, KinGrow
<1>2. TiesKept
  BY <1>1, SameTies
<1>3. ASSUME NEW f \in LiveKin, Own(f)' = Own(f) PROVE Explained(f)
  <2>1. \A l \in Links : There(l) => link'[l] = link[l] /\ (IsActive(l)' <=> IsActive(l))
    BY <1>1, ActiveStays
  <2>2. \A l \in Links : IsActive(l)' /\ link'[l].kin = f => There(l) /\ link[l].kin = f
    BY DEF IsActive, There
  <2> QED
    BY <1>3, <2>1, <2>2, GrownExplained
<1> QED
  BY <1>1, <1>2, <1>3 DEF Fine, TiesInv, TiesKept, TiesOK, KinGrow, PendingOK

LEMMA AddedFine ==
  ASSUME TiesInv, PeopleGrow, ClansGrow, KinGrow,
         NEW c, NEW ps, NEW first \in SUBSET Nat, first = {fp[1] : fp \in ps},
         IsFiniteSet(first), Cardinality(first) <= Cardinality(FreshLinks),
         link' = WithLinks(c, ps), MayLink(c, ps), LinksStay => PendingOK'
  PROVE  Fine
<1>1. TiesOK /\ EndsStay /\ LiveKin \subseteq LiveKin'
  BY DEF TiesInv, TiesOK, EndsStay, PeopleGrow, ClansGrow, KinGrow
<1>2. PICK N : Adds(c, ps, link', N)
  BY <1>1, LinksMade DEF TiesOK
<1>3. TiesKept
  BY <1>1, <1>2, AddedTies
<1>4. ASSUME NEW f \in LiveKin, Own(f)' = Own(f) PROVE Explained(f)
  <2>1. \A l \in N : l \in FreshLinks /\ l \in Links /\ ~There(l)
    BY <1>2 DEF Adds, FreshLinks, There
  <2>2. \A l \in Links : There(l) => link'[l] = link[l]
    BY <1>2, <2>1 DEF Adds
  <2>3. \A l \in Links : There(l) => link'[l] = link[l] /\ (IsActive(l)' <=> IsActive(l))
    BY <1>1, <2>2, ActiveStays
  <2>4. \A l \in Links : IsActive(l)' => l \in N \/ (There(l) /\ link'[l] = link[l])
    BY <1>2, <2>2 DEF Adds, IsActive, There
  <2>5. \A l \in N : \A m \in Links : There(m) => m < l
    BY <1>1, <2>1 DEF TiesOK, IdsInOrder, FreshLinks, There
  <2> QED
    BY <1>4, <2>3, <2>4, <2>5, GrownExplained
<1> QED
  BY <1>1, <1>3, <1>4 DEF Fine, TiesInv, TiesKept, TiesOK, KinGrow, PendingOK

LEMMA WrittenStay ==
  ASSUME ColumnsOK, NEW p \in Persons, NEW row, DOMAIN UnbornPerson \subseteq DOMAIN row,
         row.there # "unborn", person[p].there # "unborn" => row.clan = person[p].clan,
         person' = [person EXCEPT ![p] = row]
  PROVE  PeopleStay
<1>1. DOMAIN person' = Persons /\ \A q \in Persons : person'[q] = IF q = p THEN row ELSE person[q]
  BY DEF ColumnsOK
<1> QED
  BY <1>1 DEF ColumnsOK, PeopleStay, OfClan

LEMMA WrittenGrow ==
  ASSUME ColumnsOK, NEW p \in Persons, NEW row, DOMAIN UnbornPerson \subseteq DOMAIN row,
         row.there # "unborn",
         person[p].there # "unborn" => row.clan = person[p].clan /\ row.there = person[p].there,
         person' = [person EXCEPT ![p] = row]
  PROVE  PeopleGrow /\ person'[p] = row
<1>1. DOMAIN person' = Persons /\ \A q \in Persons : person'[q] = IF q = p THEN row ELSE person[q]
  BY DEF ColumnsOK
<1>2. PeopleStay
  BY WrittenStay
<1> QED
  BY <1>1, <1>2 DEF PeopleGrow

LEMMA EditedColumns ==
  ASSUME ColumnsOK, NEW p \in Persons, NEW shared
  PROVE  /\ DOMAIN UnbornPerson \subseteq DOMAIN Edited(p, shared)
         /\ Edited(p, shared).there = person[p].there /\ Edited(p, shared).clan = person[p].clan
<1>1. PICK row : row = person[p]
  OBVIOUS
<1>2. PICK new : new = FamilyToClan(shared)
  OBVIOUS
<1>3. DOMAIN UnbornPerson \subseteq DOMAIN row /\ {"there", "clan"} \subseteq DOMAIN row
  BY <1>1 DEF ColumnsOK, UnbornPerson
<1>4. PICK with : with = [row EXCEPT !.gender = new.gender, !.value = new.value]
  OBVIOUS
<1>5. DOMAIN with = DOMAIN row /\ with.there = row.there /\ with.clan = row.clan
  BY <1>3, <1>4
<1>6. PICK edited : edited = [with EXCEPT !.version = @ + 1]
  OBVIOUS
<1>7. DOMAIN edited = DOMAIN row /\ edited.there = row.there /\ edited.clan = row.clan
  BY <1>3, <1>5, <1>6
<1>8. Edited(p, shared) = edited
  BY <1>1, <1>2, <1>4, <1>6 DEF Edited, With
<1> QED
  BY <1>1, <1>3, <1>7, <1>8

LEMMA BornColumns ==
  ASSUME NEW c, NEW shared, NEW parents
  PROVE  /\ DOMAIN UnbornPerson \subseteq DOMAIN BornInto(c, shared, parents)
         /\ BornInto(c, shared, parents).there = "live" /\ BornInto(c, shared, parents).clan = c
<1>1. PICK new : new = FamilyToClan(shared)
  OBVIOUS
<1>2. PICK row : row = [UnbornPerson EXCEPT !.there = "live", !.clan = c, !.father = parents[1],
                                            !.mother = parents[2], !.version = 1]
  OBVIOUS
<1>3. row = [there |-> "live", clan |-> c, gender |-> "?", order |-> 0,
             father |-> parents[1], mother |-> parents[2], value |-> "new", version |-> 1]
  BY <1>2 DEF UnbornPerson
<1>4. BornInto(c, shared, parents) = [row EXCEPT !.gender = new.gender, !.value = new.value]
  BY <1>1, <1>2 DEF BornInto, With
<1> QED
  BY <1>3, <1>4 DEF UnbornPerson

(* A person written into a free row, and linked.                           *)
LEMMA FirstFreePerson ==
  ASSUME FreshPersons # {}
  PROVE  Min(FreshPersons) \in Persons /\ person[Min(FreshPersons)].there = "unborn"
<1>1. Min(FreshPersons) \in FreshPersons
  BY FreshAreFinite, MinIsLeast
<1> QED
  BY <1>1 DEF FreshPersons

(***************************************************************************)
(* The steps.                                                              *)
(***************************************************************************)
LEMMA SameClansFine ==
  ASSUME TiesInv, PeopleGrow, KinGrow, UNCHANGED <<clanState, member, link>>,
         LinksStay => PendingOK'
  PROVE  Fine
BY ClansUnchanged, QuietFine DEF TiesInv, TiesOK

LEMMA NothingFine ==
  ASSUME TiesInv, UNCHANGED <<person, clanState, member, link, linking, detaching, offers>>, KinGrow
  PROVE  Fine
<1>1. PeopleGrow /\ EndsStay
  BY PeopleUnchanged, ClansUnchanged DEF TiesInv, TiesOK, EndsStay, PeopleGrow, ClansGrow
<1>2. LinksStay => PendingOK'
  BY <1>1, LinkingStays, DetachingStays DEF TiesInv, PendingOK, OffersOK
<1> QED
  BY <1>1, <1>2, SameClansFine

LEMMA RequestLinksFine == ASSUME TiesInv, RequestLinks PROVE Fine
<1>1. UNCHANGED <<person, clanState, member, link, kin, detaching, offers>>
  BY DEF RequestLinks, clanVars, treeVars
<1>2. PeopleGrow /\ KinGrow /\ ClansGrow
  BY <1>1, PeopleUnchanged, ClansUnchanged, KinUnchanged DEF TiesInv, TiesOK
<1>3. PICK c \in Clans, n \in 1..MaxPairs : \E ps \in kSubset(n, LiveKin \X PersonsOf(c)) :
         IsMember(c) /\ linking' = [clan |-> c, pairs |-> ps]
  BY DEF RequestLinks
<1>4. PICK ps \in SUBSET (LiveKin \X PersonsOf(c)) : IsMember(c) /\ linking' = [clan |-> c, pairs |-> ps]
  BY <1>3 DEF kSubset
<1>5. IsFiniteSet(ps)
  <2>1. IsFiniteSet(LiveKin) /\ IsFiniteSet(PersonsOf(c))
    <3>1. LiveKin \in SUBSET (1..MaxKin) /\ PersonsOf(c) \in SUBSET (1..MaxPersons)
      BY DEF LiveKin, Kin, PersonsOf, Persons
    <3>2. IsFiniteSet(1..MaxKin) /\ IsFiniteSet(1..MaxPersons)
      BY ClansAssumption, KinAssumption, FS_Interval
    <3> QED
      BY <3>1, <3>2, FS_Subset
  <2>2. IsFiniteSet(LiveKin \X PersonsOf(c))
    BY <2>1, FS_Product
  <2> QED
    BY <2>2, FS_Subset
<1>6. \A fp \in ps : OfClan(fp[2], c)
  BY DEF OfClan, PersonsOf
<1>7. Founded(c)
  BY <1>4 DEF IsMember, Founded
<1>8. LinkingOK'
  <2>1. Founded(c)' /\ \A fp \in ps : OfClan(fp[2], c)'
    <3>1. \A p : OfClan(p, c) => OfClan(p, c)'
      BY <1>2 DEF PeopleGrow, PeopleStay, OfClan
    <3> QED
      BY <1>2, <1>6, <1>7, <3>1 DEF ClansGrow, ClansStay
  <2>2. linking'.clan = c /\ linking'.pairs = ps
    BY <1>4
  <2> QED
    BY <1>5, <2>1, <2>2 DEF LinkingOK
<1>9. LinksStay => PendingOK'
  BY <1>1, <1>8, DetachingStays DEF TiesInv, PendingOK, OffersOK
<1> QED
  BY <1>1, <1>2, <1>9, SameClansFine

LEMMA InsertLinksFine == ASSUME TiesInv, LinksInv, scene = "links", InsertLinks PROVE Fine
<1>1. UNCHANGED <<person, clanState, member, kin, detaching, offers>> /\ linking' = NoLinking
  BY DEF InsertLinks, clanVars, treeVars
<1>2. PeopleGrow /\ KinGrow /\ ClansGrow /\ EndsStay
  BY <1>1, PeopleUnchanged, ClansUnchanged, KinUnchanged DEF TiesInv, TiesOK, EndsStay, PeopleGrow, ClansGrow
<1>3. LinksStay => PendingOK'
  BY <1>1, <1>2, LinkingStays, DetachingStays DEF TiesInv, PendingOK, OffersOK
<1>4. CASE UNCHANGED link
  BY <1>1, <1>2, <1>3, <1>4, SameClansFine
<1>5. CASE ~UNCHANGED link
  <2>1. PICK c, ps : c = linking.clan /\ ps = linking.pairs
    OBVIOUS
  <2>2. /\ linking # NoLinking /\ ~Conflict(c, ps) /\ \A fp \in ps : fp[1] \in LiveKin
        /\ Cardinality(FreshLinks) >= Cardinality(ps) /\ link' = WithLinks(c, ps)
    BY <1>5, <2>1 DEF InsertLinks
  <2>3. IsFiniteSet(ps) /\ Founded(c) /\ \A fp \in ps : OfClan(fp[2], c)
    BY <2>1, <2>2 DEF TiesInv, LinkingOK
  <2>4. PICK first : first = {fp[1] : fp \in ps}
    OBVIOUS
  <2>5. first \in SUBSET Nat
    <3>1. LiveKin \subseteq Nat
      BY KinAssumption DEF LiveKin, Kin
    <3> QED
      BY <2>2, <2>4, <3>1
  <2>6. IsFiniteSet(first) /\ Cardinality(first) <= Cardinality(ps)
    <3>1. PICK g : g = [fp \in ps |-> fp[1]]
      OBVIOUS
    <3>2. g \in Surjection(ps, first)
      BY <2>4, <3>1 DEF Surjection
    <3> QED
      BY <2>3, <3>2, FS_Surjection
  <2>7. Cardinality(first) <= Cardinality(FreshLinks)
    <3>1. Cardinality(first) \in Nat /\ Cardinality(ps) \in Nat /\ Cardinality(FreshLinks) \in Nat
      BY <2>3, <2>6, FreshAreFinite, FS_CardinalityType
    <3> QED
      BY <2>2, <2>6, <3>1
  <2>8. MayLink(c, ps)
    <3>1. \A p : OfClan(p, c) => OfClan(p, c)'
      BY <1>2 DEF PeopleGrow, PeopleStay, OfClan
    <3>2. Founded(c)' /\ \A fp \in ps : OfClan(fp[2], c)'
      BY <1>2, <2>3, <3>1 DEF ClansGrow, ClansStay
    <3>3. \A fp \in ps : fp[1] \in LiveKin' /\ \A l \in LinksIn(c) : link[l].kin # fp[1]
      BY <1>2, <2>2 DEF Conflict, KinGrow
    <3> QED
      BY <3>2, <3>3 DEF MayLink
  <2> QED
    BY <1>2, <1>3, <2>2, <2>4, <2>5, <2>6, <2>7, <2>8, AddedFine
<1> QED
  BY <1>4, <1>5

LEMMA BeginFine ==
  ASSUME TiesInv, NEW op, NEW c, NEW ls, ls \subseteq LinksIn(c), Begin(op, c, ls) PROVE Fine
<1>1. UNCHANGED <<person, clanState, member, link, kin, linking, offers>>
  BY DEF Begin, clanVars, treeVars
<1>2. PeopleGrow /\ KinGrow /\ EndsStay
  BY <1>1, PeopleUnchanged, ClansUnchanged, KinUnchanged DEF TiesInv, TiesOK, EndsStay, PeopleGrow, ClansGrow
<1>3. DOMAIN detaching'.snapshot = ls /\ detaching'.clan = c
  BY DEF Begin, Snapshot
<1>4. \A l \in ls : l \in Links \ FreshLinks /\ link[l].clan = c
  BY DEF LinksIn, FreshLinks, There
<1>5. DetachingOK'
  BY <1>1, <1>3, <1>4 DEF DetachingOK, FreshLinks
<1>6. LinksStay => PendingOK'
  BY <1>1, <1>2, <1>5, LinkingStays DEF TiesInv, PendingOK, OffersOK
<1> QED
  BY <1>1, <1>2, <1>6, SameClansFine

(* Snapshots leave everybody where they were.                              *)
LEMMA SnapshotStays ==
  ASSUME ColumnsIn(kin), NEW snapshot, kin' = Snapshotted(snapshot) PROVE LiveKin' = LiveKin
<1>1. /\ DOMAIN kin' = Kin
      /\ \A f \in Kin : kin'[f] = kin[f] \/ \E shared : kin'[f] = With(kin[f], shared)
  BY DEF Snapshotted
<1>2. SameTree(kin, kin')
  BY <1>1, WithSameTree
<1> QED
  BY <1>2 DEF SameTree, LiveKin

LEMMA DetachEnds ==
  ASSUME TiesInv, Detach
  PROVE  /\ EndsStay
         /\ \A c : c # detaching.clan =>
              /\ clanState'[c] = "live" <=> clanState[c] = "live"
              /\ c \in Clans => member'[Owner][c] = member[Owner][c]
<1>1. PICK c, op : c = detaching.clan /\ op = detaching.op
  OBVIOUS
<1>2. /\ member' = IF op = "member" THEN [member EXCEPT ![Owner][c] = NotAMember] ELSE member
      /\ clanState' = IF op = "clan" THEN [clanState EXCEPT ![c] = "deleted"] ELSE clanState
      /\ UNCHANGED person
  BY <1>1 DEF Detach
<1>3. DOMAIN clanState = Clans /\ Owner \in DOMAIN member /\ DOMAIN member[Owner] = Clans
  BY DEF TiesInv, ColumnsOK
<1>4. /\ DOMAIN clanState' = Clans
      /\ \A d \in Clans : clanState'[d] = clanState[d] \/ (d = c /\ clanState'[d] = "deleted")
      /\ \A d : d # c => (clanState'[d] = "live" <=> clanState[d] = "live")
  BY <1>2, <1>3
<1>5. /\ Owner \in DOMAIN member' /\ DOMAIN member'[Owner] = Clans
      /\ \A d \in Clans : d # c => member'[Owner][d] = member[Owner][d]
  BY <1>2, <1>3
<1>6. \A d : Founded(d) => Founded(d)'
  BY <1>4 DEF Founded
<1>7. PeopleStay
  BY <1>2, PeopleUnchanged DEF TiesInv, TiesOK, PeopleGrow
<1> QED
  BY <1>1, <1>4, <1>5, <1>6, <1>7 DEF EndsStay, ClansStay

LEMMA DetachFine == ASSUME TiesInv, ColumnsIn(kin), Detach PROVE Fine
<1>1. PICK c, snapshot, D : c = detaching.clan /\ snapshot = detaching.snapshot /\ D = DOMAIN snapshot
  OBVIOUS
<1>2. /\ detaching # NoDetach /\ kin' = Snapshotted(snapshot) /\ link' = WithoutLinks(D)
      /\ detaching' = NoDetach /\ offers' \subseteq offers /\ UNCHANGED <<person, linking>>
  BY <1>1 DEF Detach
<1>3. D \subseteq Links \ FreshLinks /\ \A l \in D : link[l].clan = c
  BY <1>1, <1>2 DEF TiesInv, DetachingOK
<1>4. LiveKin' = LiveKin
  BY <1>2, SnapshotStays
<1>5. TiesOK /\ EndsStay
  BY DetachEnds DEF TiesInv, TiesOK
<1>6. TiesKept
  <2>1. \A l \in Links \ D : There(l) => link[l].kin \in LiveKin'
    BY <1>4 DEF TiesInv, LinkEnds
  <2> QED
    BY <1>2, <1>3, <1>5, <2>1, EndedTies
<1>7. PendingOK'
  BY <1>2, <1>5, <1>6, LinkingStays, DetachingStays DEF TiesInv, TiesKept, PendingOK, OffersOK
<1>8. ASSUME NEW f \in LiveKin, ~Overtaken(f) PROVE Explained(f)
  <2>1. \A l \in D : link[l].kin = f =>
            IsActive(l) /\ link[l].clan = c /\ snapshot[l] = ClanToFamily(link[l].person)
    <3> SUFFICES ASSUME NEW l \in D, link[l].kin = f
                 PROVE  IsActive(l) /\ snapshot[l] = ClanToFamily(link[l].person)
      BY <1>3
    <3>1. There(l) /\ snapshot[l] = ClanToFamily(link[l].person)
      BY <1>1, <1>8 DEF Overtaken
    <3>2. IsActive(l)
      BY <1>3, <1>8, <3>1 DEF Overtaken
    <3> QED
      BY <3>1, <3>2
  <2>2. ASSUME NEW l \in Links \ D, There(l), link[l].kin = f PROVE IsActive(l)' <=> IsActive(l)
    <3>1. PICK d, p : d = link[l].clan /\ p = link[l].person
      OBVIOUS
    <3>2. d # c
      BY <1>1, <1>8, <2>2, <3>1 DEF Overtaken
    <3>3. d \in Clans
      BY <2>2, <3>1 DEF TiesInv, LinkEnds, Founded
    <3>4. link'[l] = link[l]
      BY <1>2 DEF WithoutLinks
    <3>5. (clanState'[d] = "live" <=> clanState[d] = "live") /\ member'[Owner][d] = member[Owner][d]
      BY <1>1, <3>2, <3>3, DetachEnds
    <3>6. IsActive(l) <=> There(l) /\ clanState[d] = "live" /\ member[Owner][d].role # "none" /\ person[p].there = "live"
      BY <3>1 DEF IsActive, IsMember
    <3>7. IsActive(l)' <=> There(l)' /\ clanState'[d] = "live" /\ member'[Owner][d].role # "none" /\ person'[p].there = "live"
      BY <3>1, <3>4 DEF IsActive, IsMember
    <3> QED
      BY <1>2, <3>4, <3>5, <3>6, <3>7 DEF There
  <2>3. Leaves(f, c, D, snapshot)
    BY <1>1, <1>2, <1>3, <2>1, <2>2 DEF Leaves
  <2> QED
    BY <1>5, <2>3, EndedExplained
<1>9. \A f \in LiveKin : Explained(f)
  BY <1>8 DEF Explained
<1> QED
  BY <1>4, <1>6, <1>7, <1>9 DEF Fine, TiesInv, TiesKept, TiesOK, PendingOK

LEMMA EditFine == ASSUME TiesInv, EditClanPerson PROVE Fine
<1>1. UNCHANGED <<kin, clanState, member, link, linking, detaching, offers>>
  BY DEF EditClanPerson, treeVars, linkVars
<1>2. PICK c \in Clans, shared \in Edits : \E p \in PersonsOf(c) :
         person' = [person EXCEPT ![p] = Edited(p, shared)]
  BY DEF EditClanPerson
<1>3. PICK p \in PersonsOf(c) : person' = [person EXCEPT ![p] = Edited(p, shared)]
  BY <1>2
<1>4. p \in Persons /\ person[p].there = "live" /\ ColumnsOK
  BY DEF PersonsOf, TiesInv
<1>5. PeopleGrow
  BY <1>3, <1>4, EditedColumns, WrittenGrow
<1>6. EndsStay /\ KinGrow
  BY <1>1, <1>5, ClansUnchanged, KinUnchanged DEF TiesInv, TiesOK, EndsStay, PeopleGrow, ClansGrow
<1>7. LinksStay => PendingOK'
  BY <1>1, <1>6, LinkingStays, DetachingStays DEF TiesInv, PendingOK, OffersOK
<1> QED
  BY <1>1, <1>5, <1>6, <1>7, SameClansFine

LEMMA DeleteClanPersonFine == ASSUME TiesInv, ColumnsIn(kin), DeleteClanPerson PROVE Fine
<1>1. PICK c \in Clans : \E p \in PersonsOf(c) :
       LET links == {l \in LinksIn(c) : link[l].person = p}
       IN /\ person' = [person EXCEPT ![p].there = "deleted", ![p].version = @ + 1]
          /\ kin' = Snapshotted(Snapshot(links)) /\ link' = WithoutLinks(links)
  BY DEF DeleteClanPerson
<1>2. PICK p \in PersonsOf(c) :
       LET links == {l \in LinksIn(c) : link[l].person = p}
       IN /\ person' = [person EXCEPT ![p].there = "deleted", ![p].version = @ + 1]
          /\ kin' = Snapshotted(Snapshot(links)) /\ link' = WithoutLinks(links)
  BY <1>1
<1>3. PICK D : D = {l \in LinksIn(c) : link[l].person = p}
  OBVIOUS
<1>4. PICK snapshot : snapshot = Snapshot(D)
  OBVIOUS
<1>5. /\ person' = [person EXCEPT ![p].there = "deleted", ![p].version = @ + 1]
      /\ kin' = Snapshotted(snapshot) /\ link' = WithoutLinks(D)
      /\ UNCHANGED <<clanState, member, linking, detaching, offers>>
  BY <1>2, <1>3, <1>4 DEF DeleteClanPerson
<1>6. p \in Persons /\ person[p].there = "live" /\ person[p].clan = c /\ ColumnsOK
  BY DEF PersonsOf, TiesInv
<1>7. /\ DOMAIN snapshot = D /\ \A l \in D : snapshot[l] = ClanToFamily(link[l].person)
      /\ D \subseteq Links \ FreshLinks /\ \A l \in D : link[l].clan = c
  BY <1>3, <1>4 DEF Snapshot, LinksIn, FreshLinks, There
<1>8. PICK row : row = person[p]
  OBVIOUS
<1>9. PICK gone : gone = [row EXCEPT !.there = "deleted"]
  OBVIOUS
<1>10. PICK new : new = [gone EXCEPT !.version = @ + 1]
  OBVIOUS
<1>11. DOMAIN UnbornPerson \subseteq DOMAIN new /\ new.there = "deleted" /\ new.clan = row.clan
  BY <1>6, <1>8, <1>9, <1>10 DEF ColumnsOK, UnbornPerson
<1>12. person' = [person EXCEPT ![p] = new]
  <2>1. new = [person[p] EXCEPT !.there = "deleted", !.version = @ + 1]
    BY <1>8, <1>9, <1>10
  <2> QED
    BY <1>5, <2>1
<1>13. PeopleStay /\ \A q \in Persons : q # p => person'[q] = person[q]
  BY <1>6, <1>8, <1>11, <1>12, WrittenStay DEF ColumnsOK
<1>14. TiesOK /\ EndsStay /\ LiveKin' = LiveKin
  BY <1>5, <1>13, ClansUnchanged, SnapshotStays DEF TiesInv, TiesOK, EndsStay, ClansGrow
<1>15. TiesKept
  <2>1. \A l \in Links \ D : There(l) => link[l].kin \in LiveKin'
    BY <1>14 DEF TiesOK, LinkEnds
  <2> QED
    BY <1>5, <1>7, <1>14, <2>1, EndedTies
<1>16. PendingOK'
  BY <1>5, <1>14, <1>15, LinkingStays, DetachingStays DEF TiesInv, TiesKept, PendingOK, OffersOK
<1>17. ASSUME NEW f \in LiveKin PROVE Explained(f)
  <2>1. CASE \E l \in D : link[l].kin = f /\ ~IsActive(l)
    <3>1. \A l \in D : l \in Links /\ There(l)
      BY <1>3 DEF LinksIn
    <3> QED
      BY <2>1, <3>1 DEF Explained, Overtaken
  <2>2. CASE \A l \in D : link[l].kin = f => IsActive(l)
    <3>1. ASSUME NEW l \in Links \ D, There(l), link[l].kin = f PROVE IsActive(l)' <=> IsActive(l)
      <4>1. PICK d, q : d = link[l].clan /\ q = link[l].person
        OBVIOUS
      <4>2. OfClan(q, d)
        BY <1>14, <3>1, <4>1 DEF TiesOK, LinkEnds
      <4>3. q # p
        BY <1>3, <1>6, <3>1, <4>1, <4>2 DEF LinksIn, OfClan
      <4>4. person'[q] = person[q]
        BY <1>13, <4>2, <4>3 DEF OfClan
      <4>5. link'[l] = link[l]
        BY <1>5 DEF WithoutLinks
      <4> QED
        BY <1>5, <4>1, <4>4, <4>5 DEF IsActive, IsMember, There
    <3>2. \A l \in D : link[l].kin = f =>
            IsActive(l) /\ link[l].clan = c /\ snapshot[l] = ClanToFamily(link[l].person)
      BY <1>7, <2>2
    <3>3. Leaves(f, c, D, snapshot)
      BY <1>5, <1>7, <3>1, <3>2 DEF Leaves
    <3> QED
      BY <1>14, <3>3, EndedExplained
  <2> QED
    BY <2>1, <2>2
<1> QED
  BY <1>14, <1>15, <1>16, <1>17 DEF Fine, TiesInv, TiesKept, TiesOK, PendingOK

(* Requests in flight are finished, or go on.                              *)
LEMMA PendingStay ==
  ASSUME TiesInv, EndsStay, linking' = linking \/ linking' = NoLinking,
         detaching' = detaching \/ detaching' = NoDetach, OffersOK'
  PROVE  LinksStay => PendingOK'
BY LinkingStays, DetachingStays DEF TiesInv, PendingOK

LEMMA PatchUnlinkedFine == ASSUME TiesInv, ColumnsIn(kin), PatchUnlinked PROVE Fine
<1>1. UNCHANGED <<person, clanState, member, link, linking, detaching, offers>>
  BY DEF PatchUnlinked, clanVars, linkVars
<1>2. PICK f \in LiveKin, shared \in Edits : kin' = [kin EXCEPT ![f] = With(@, shared)]
  BY DEF PatchUnlinked
<1>3. DOMAIN kin' = Kin /\ \A p \in Kin : kin'[p] = kin[p] \/ \E s : kin'[p] = With(kin[p], s)
  BY <1>2 DEF ColumnsIn
<1>4. SameTree(kin, kin')
  BY <1>3, WithSameTree
<1>5. KinGrow
  BY <1>4 DEF SameTree, KinGrow, LiveKin, Explained
<1> QED
  BY <1>1, <1>5, NothingFine

LEMMA ActiveEnds ==
  ASSUME TiesInv, NEW l \in Links, There(l)
  PROVE  link[l].kin \in LiveKin /\ link[l].clan \in Clans /\ link[l].person \in Persons
BY DEF TiesInv, LinkEnds, Founded, OfClan

LEMMA PatchLinkedFine == ASSUME TiesInv, PatchLinked PROVE Fine
<1>1. UNCHANGED <<kin, clanState, member, link, linking, detaching>>
  BY DEF PatchLinked, treeVars
<1>2. PICK f \in LiveKin, shared \in Edits :
     LET differ == {l \in ActiveLinksOf(f) : ClanToFamily(link[l].person) # shared}
         writable == {l \in differ : CanWrite(Owner, link[l].clan, link[l].person)}
     IN \E outdated \in SUBSET writable :
        LET applied == {link[l].person : l \in writable \ outdated}
        IN /\ person' = [p \in Persons |-> IF p \in applied THEN Edited(p, shared) ELSE person[p]]
           /\ offers' = offers \cup {Proposal("update", link[l].clan, link[l].person, NoKin, <<>>, shared) :
                                       l \in differ \ writable}
  BY DEF PatchLinked
<1>3. PICK proposers, applied :
        /\ proposers \subseteq ActiveLinksOf(f)
        /\ person' = [p \in Persons |-> IF p \in applied THEN Edited(p, shared) ELSE person[p]]
        /\ offers' = offers \cup {Proposal("update", link[l].clan, link[l].person, NoKin, <<>>, shared) :
                                       l \in proposers}
  BY <1>2
<1>4. ASSUME NEW p \in Persons
      PROVE  /\ DOMAIN UnbornPerson \subseteq DOMAIN person'[p]
             /\ person'[p].there = person[p].there /\ person'[p].clan = person[p].clan
  <2>1. person'[p] = IF p \in applied THEN Edited(p, shared) ELSE person[p]
    BY <1>3
  <2>2. ColumnsOK /\ DOMAIN UnbornPerson \subseteq DOMAIN person[p]
    BY DEF TiesInv, ColumnsOK
  <2> QED
    BY <2>1, <2>2, EditedColumns
<1>5. PeopleGrow
  <2>1. DOMAIN person' = Persons
    BY <1>3
  <2> QED
    BY <1>4, <2>1 DEF PeopleGrow, PeopleStay, OfClan
<1>6. OffersOK'
  <2>1. \A l \in proposers : l \in Links /\ There(l)
    BY <1>3 DEF ActiveLinksOf, IsActive
  <2>2. \A l \in proposers : link[l].clan \in Clans
    BY <2>1, ActiveEnds
  <2>3. \A o \in offers' : o \in offers \/ \E l \in proposers : o.clan = link[l].clan
    BY <1>3 DEF Proposal
  <2> QED
    BY <2>2, <2>3 DEF TiesInv, OffersOK
<1>7. KinGrow /\ EndsStay
  BY <1>1, <1>5, KinUnchanged, ClansUnchanged DEF TiesInv, TiesOK, EndsStay, PeopleGrow, ClansGrow
<1> QED
  BY <1>1, <1>5, <1>6, <1>7, PendingStay, SameClansFine

(* One person of the tree is linked to a new person of a clan.             *)
NewPersonFor(c, f, p, row) ==
  /\ Founded(c) /\ f \in LiveKin /\ \A l \in LinksIn(c) : link[l].kin # f
  /\ p \in Persons /\ person[p].there = "unborn"
  /\ DOMAIN UnbornPerson \subseteq DOMAIN row /\ row.there = "live" /\ row.clan = c
  /\ person' = [person EXCEPT ![p] = row]

LEMMA NewPersonFine ==
  ASSUME TiesInv, NEW c, NEW f, NEW p, NEW row, NewPersonFor(c, f, p, row),
         link' = WithLinks(c, {<<f, p>>}), FreshLinks # {}, OffersOK',
         UNCHANGED <<kin, clanState, member, linking, detaching>>
  PROVE  Fine
<1>1. PeopleGrow /\ person'[p] = row
  BY WrittenGrow DEF TiesInv, NewPersonFor
<1>2. KinGrow /\ ClansGrow /\ EndsStay
  BY <1>1, KinUnchanged, ClansUnchanged DEF TiesInv, TiesOK, EndsStay, PeopleGrow, ClansGrow
<1>3. LinksStay => PendingOK'
  BY <1>2, PendingStay
<1>4. PICK ps : ps = {<<f, p>>}
  OBVIOUS
<1>5. MayLink(c, ps)
  <2>1. Founded(c)' /\ f \in LiveKin' /\ OfClan(p, c)'
    BY <1>1, <1>2 DEF NewPersonFor, ClansGrow, ClansStay, KinGrow, OfClan
  <2> QED
    BY <1>4, <2>1 DEF MayLink, NewPersonFor
<1>6. {f} \in SUBSET Nat /\ {f} = {fp[1] : fp \in ps}
  BY <1>4, KinAssumption DEF NewPersonFor, LiveKin, Kin
<1>7. IsFiniteSet({f}) /\ Cardinality({f}) <= Cardinality(FreshLinks)
  <2>1. IsFiniteSet({f}) /\ Cardinality({f}) = 1
    BY FS_Singleton
  <2>2. Cardinality(FreshLinks) \in Nat /\ Cardinality(FreshLinks) # 0
    BY FreshAreFinite, FS_CardinalityType, FS_EmptySet
  <2> QED
    BY <2>1, <2>2
<1>8. link' = WithLinks(c, ps)
  BY <1>4
<1> QED
  BY <1>1, <1>2, <1>3, <1>5, <1>6, <1>7, <1>8, AddedFine

LEMMA ContributeFine ==
  ASSUME TiesInv, NEW f \in LiveKin, NEW c \in Clans, NEW parents, Contribute(f, c, parents) PROVE Fine
<1>1. UNCHANGED <<kin, clanState, member, linking, detaching>>
  BY DEF Contribute, treeVars
<1>2. CASE InScope(c, parents)
  <2>1. PICK p, row : p = Min(FreshPersons) /\ row = BornInto(c, Own(f), parents)
    OBVIOUS
  <2>2. /\ IsMember(c) /\ CounterpartIn(c, f) = NoPerson /\ FreshPersons # {} /\ FreshLinks # {}
        /\ person' = [person EXCEPT ![p] = row] /\ link' = WithLinks(c, {<<f, p>>}) /\ UNCHANGED offers
    BY <1>2, <2>1 DEF Contribute
  <2>3. \A l \in LinksIn(c) : link[l].kin # f
    <3> SUFFICES ASSUME NEW l \in LinksIn(c), link[l].kin = f PROVE FALSE
      OBVIOUS
    <3>1. PICK m \in LinksIn(c) : CounterpartIn(c, f) = link[m].person
      BY DEF CounterpartIn
    <3>2. link[m].person \in Persons
      BY ActiveEnds DEF LinksIn
    <3> QED
      BY <2>2, <3>1, <3>2, ClansAssumption DEF Persons, NoPerson
  <2>4. Founded(c)
    BY <2>2 DEF IsMember, Founded
  <2>5. NewPersonFor(c, f, p, row)
    BY <2>1, <2>2, <2>3, <2>4, FirstFreePerson, BornColumns DEF NewPersonFor
  <2>6. OffersOK'
    BY <2>2 DEF TiesInv, OffersOK
  <2> QED
    BY <1>1, <2>2, <2>5, <2>6, NewPersonFine
<1>3. CASE ~InScope(c, parents)
  <2>1. offers' = offers \cup {Proposal("create", c, NoPerson, f, parents, Own(f))} /\ UNCHANGED <<person, link>>
    BY <1>3 DEF Contribute
  <2>2. OffersOK'
    <3>1. \A o \in offers' : o \in offers \/ o.clan = c
      BY <2>1 DEF Proposal
    <3> QED
      BY <3>1 DEF TiesInv, OffersOK
  <2>3. PeopleGrow /\ KinGrow /\ EndsStay
    BY <1>1, <2>1, PeopleUnchanged, KinUnchanged, ClansUnchanged
       DEF TiesInv, TiesOK, EndsStay, PeopleGrow, ClansGrow
  <2> QED
    BY <1>1, <2>1, <2>2, <2>3, PendingStay, SameClansFine
<1> QED
  BY <1>2, <1>3

LEMMA ApproveFine == ASSUME TiesInv, Approve PROVE Fine
<1>1. UNCHANGED <<kin, clanState, member, linking, detaching>>
  BY DEF Approve, treeVars
<1>2. PICK o \in offers : /\ clanState[o.clan] = "live" /\ (ApproveCreation(o) \/ ApproveUpdate(o))
                          /\ offers' = offers \ {o}
  BY DEF Approve
<1>3. PICK c, f, p : c = o.clan /\ f = o.kin /\ p = Min(FreshPersons)
  OBVIOUS
<1>4. OffersOK' /\ c \in Clans /\ Founded(c) /\ ColumnsOK
  BY <1>2, <1>3 DEF TiesInv, OffersOK, Founded
<1>5. ASSUME PeopleGrow, UNCHANGED link PROVE Fine
  <2>1. KinGrow /\ EndsStay
    BY <1>1, <1>5, KinUnchanged, ClansUnchanged DEF TiesInv, TiesOK, EndsStay, PeopleGrow, ClansGrow
  <2> QED
    BY <1>1, <1>4, <1>5, <2>1, PendingStay, SameClansFine
<1>6. CASE ApproveCreation(o)
  <2>1. PICK row : row = BornInto(c, o.shared, o.parents)
    OBVIOUS
  <2>2. /\ FreshPersons # {} /\ FreshLinks # {} /\ person' = [person EXCEPT ![p] = row]
        /\ link' = IF MayLinkBack(o) THEN WithLinks(c, {<<f, p>>}) ELSE link
    BY <1>3, <1>6, <2>1 DEF ApproveCreation
  <2>3. /\ p \in Persons /\ person[p].there = "unborn"
        /\ DOMAIN UnbornPerson \subseteq DOMAIN row /\ row.there = "live" /\ row.clan = c
    BY <1>3, <2>1, <2>2, FirstFreePerson, BornColumns
  <2>4. CASE MayLinkBack(o)
    <3>1. f \in LiveKin /\ \A l \in LinksIn(c) : link[l].kin # f
      <4>1. f \in LiveKin /\ ~Conflict(c, {<<f, NoPerson>>})
        BY <1>3, <2>4 DEF MayLinkBack
      <4> QED
        BY <4>1 DEF Conflict
    <3>2. NewPersonFor(c, f, p, row)
      BY <1>4, <2>2, <2>3, <3>1 DEF NewPersonFor
    <3> QED
      BY <1>1, <1>4, <2>2, <2>4, <3>2, NewPersonFine
  <2>5. CASE ~MayLinkBack(o)
    <3>1. PeopleGrow
      BY <1>4, <2>2, <2>3, WrittenGrow
    <3> QED
      BY <1>5, <2>2, <2>5, <3>1
  <2> QED
    BY <2>4, <2>5
<1>7. CASE ApproveUpdate(o)
  <2>1. PICK q, row : q = o.person /\ row = Edited(q, o.shared)
    OBVIOUS
  <2>2. person[q].there = "live" /\ person' = [person EXCEPT ![q] = row] /\ UNCHANGED link
    BY <1>7, <2>1 DEF ApproveUpdate
  <2>3. CASE q \in Persons
    <3>1. PeopleGrow
      BY <1>4, <2>1, <2>2, <2>3, EditedColumns, WrittenGrow
    <3> QED
      BY <1>5, <2>2, <3>1
  <2>4. CASE q \notin Persons
    <3>1. DOMAIN person' = Persons /\ \A r \in Persons : person'[r] = person[r]
      BY <1>4, <2>2, <2>4 DEF ColumnsOK
    <3>2. PeopleGrow
      BY <1>4, <3>1 DEF ColumnsOK, PeopleGrow, PeopleStay, OfClan
    <3> QED
      BY <1>5, <2>2, <3>2
  <2> QED
    BY <2>3, <2>4
<1> QED
  BY <1>2, <1>6, <1>7

(* Imported persons are new in the tree, and linked.                       *)
LEMMA ImportFine == ASSUME TiesInv, TreeOK, ImportFromClan PROVE Fine
<1>1. PICK c, new, born : Imports(c, new, born)
  BY ImportEffect
<1>2. UNCHANGED <<person, clanState, member, linking, detaching, offers>>
  BY DEF ImportFromClan, clanVars
<1>3. PeopleGrow /\ ClansGrow /\ EndsStay /\ KinGrow
  <2>1. KinGrow
    BY <1>1 DEF Imports, KinGrow
  <2> QED
    BY <1>2, <2>1, PeopleUnchanged, ClansUnchanged DEF TiesInv, TiesOK, EndsStay, PeopleGrow, ClansGrow
<1>4. LinksStay => PendingOK'
  <2>1. OffersOK'
    BY <1>2 DEF TiesInv, OffersOK
  <2> QED
    BY <1>2, <1>3, <2>1, PendingStay
<1>5. PICK ps, first : ps = {<<born[p], p>> : p \in new} /\ first = {born[p] : p \in new}
  OBVIOUS
<1>6. first = {fp[1] : fp \in ps} /\ first \in SUBSET FreshKin /\ first \in SUBSET Nat
  <2>1. born \in [new -> FreshKin]
    BY <1>1 DEF Imports
  <2>2. first \in SUBSET FreshKin /\ FreshKin \in SUBSET Nat
    BY <1>5, <2>1, FreshAreFinite
  <2>3. \A fp \in ps : \E p \in new : fp = <<born[p], p>>
    BY <1>5
  <2>4. \A fp \in ps : fp[1] \in first
    BY <1>5, <2>3
  <2>5. ASSUME NEW x \in first PROVE \E fp \in ps : fp[1] = x
    <3>1. PICK p \in new : x = born[p]
      BY <1>5
    <3>2. <<born[p], p>> \in ps /\ <<born[p], p>>[1] = x
      BY <1>5, <3>1
    <3> QED
      BY <3>2
  <2>6. first = {fp[1] : fp \in ps}
    BY <2>4, <2>5
  <2> QED
    BY <2>2, <2>6
<1>7. IsFiniteSet(first) /\ Cardinality(first) <= Cardinality(FreshLinks)
  <2>1. born \in Surjection(new, first) /\ IsFiniteSet(new)
    BY <1>1, <1>5 DEF Imports, Surjection
  <2>2. IsFiniteSet(first) /\ Cardinality(first) <= Cardinality(new)
    BY <2>1, FS_Surjection
  <2>3. Cardinality(first) \in Nat /\ Cardinality(new) \in Nat /\ Cardinality(FreshLinks) \in Nat
    BY <2>1, <2>2, FreshAreFinite, FS_CardinalityType
  <2> QED
    BY <1>1, <2>2, <2>3 DEF Imports
<1>8. MayLink(c, ps)
  <2>1. Founded(c)'
    BY <1>1, <1>2 DEF Imports, IsMember, Founded
  <2>2. ASSUME NEW p \in new
        PROVE  /\ born[p] \in LiveKin' /\ OfClan(p, c)'
               /\ \A l \in LinksIn(c) : link[l].kin # born[p]
    <3>1. p \in PersonsOf(c) /\ born[p] \in FreshKin /\ born[p] \in LiveKin'
      BY <1>1 DEF Imports
    <3>2. OfClan(p, c)'
      BY <1>2, <3>1 DEF PersonsOf, OfClan
    <3>3. born[p] \notin LiveKin
      BY <3>1 DEF FreshKin, LiveKin
    <3>4. \A l \in LinksIn(c) : link[l].kin \in LiveKin
      BY ActiveEnds DEF LinksIn
    <3> QED
      BY <3>1, <3>2, <3>3, <3>4
  <2> QED
    BY <1>5, <2>1, <2>2 DEF MayLink
<1>9. link' = WithLinks(c, ps)
  BY <1>1, <1>5 DEF Imports
<1> QED
  BY <1>3, <1>4, <1>6, <1>7, <1>8, <1>9, AddedFine

(* Couples are of persons who are there.                                   *)
CouplesThere == scene = "links" => pairs \subseteq SUBSET LiveKin

LEMMA ImportCouples ==
  ASSUME TiesInv, CouplesThere, scene = "links", TreeOK, ImportFromClan PROVE CouplesThere'
<1>1. PICK c, new, born : Imports(c, new, born)
  BY ImportEffect
<1>2. PICK linked : linked = [p \in {link[l].person : l \in LinksIn(c)} |-> CHOOSE f \in KinOf(p) : TRUE]
  OBVIOUS
<1>3. PICK kinOf : kinOf = Over(born, linked)
  OBVIOUS
<1>4. pairs' = pairs \cup ConnectSpouses(c, kinOf, new) /\ born \in [new -> FreshKin]
      /\ LiveKin' = LiveKin \cup {born[p] : p \in new}
  BY <1>1, <1>2, <1>3 DEF Imports
<1>5. \A p \in DOMAIN linked : linked[p] \in LiveKin
  <2> SUFFICES ASSUME NEW l \in LinksIn(c) PROVE (CHOOSE f \in KinOf(link[l].person) : TRUE) \in LiveKin
    BY <1>2
  <2>1. link[l].kin \in KinOf(link[l].person)
    BY DEF KinOf, LinksIn
  <2>2. KinOf(link[l].person) \subseteq LiveKin
    BY ActiveEnds DEF KinOf
  <2> QED
    BY <2>1, <2>2
<1>6. \A p \in DOMAIN kinOf : kinOf[p] \in LiveKin'
  BY <1>3, <1>4, <1>5 DEF Over
<1>7. ConnectSpouses(c, kinOf, new) \subseteq SUBSET LiveKin'
  BY <1>6 DEF ConnectSpouses
<1> QED
  BY <1>4, <1>7 DEF CouplesThere

(* What founding a clan does, and the links it makes.                      *)
Founds(c, copy, idOf) ==
  /\ c \in Clans /\ clanState[c] = "none"
  /\ copy \in SUBSET LiveKin /\ Cardinality(copy) <= Cardinality(FreshLinks)
  /\ idOf \in [copy -> FreshPersons]
  /\ clanState' = [clanState EXCEPT ![c] = "live"]
  /\ \E row : member' = [member EXCEPT ![Owner][c] = row]
  /\ \E new : /\ person' = Over(new, person) /\ DOMAIN new = {idOf[f] : f \in copy}
              /\ \A p \in DOMAIN new : /\ DOMAIN UnbornPerson \subseteq DOMAIN new[p]
                                       /\ new[p].there = "live" /\ new[p].clan = c
  /\ link' = WithLinks(c, {<<f, idOf[f]>> : f \in copy})

LEMMA BootstrapFounds ==
  ASSUME CouplesThere, scene = "links", BootstrapClan PROVE \E c, copy, idOf : Founds(c, copy, idOf)
<1>1. PICK c \in Clans, root \in LiveKin :
         /\ clanState[c] = "none"
         /\ Cardinality(CopySet(root)) <= Min({Cardinality(FreshPersons), Cardinality(FreshLinks)})
         /\ CopyInto(c, CopySet(root), Numbered(CopySet(root), FreshPersons),
                     Weddings(CopySet(root), Numbered(CopySet(root), FreshPersons)))
  BY DEF BootstrapClan
<1>2. PICK copy : copy = CopySet(root)
  OBVIOUS
<1>3. copy \in SUBSET LiveKin
  <2>1. LiveKin \in SUBSET Kin
    BY DEF LiveKin
  <2>2. IsFiniteSet(LiveKin)
    BY <2>1, KinFinite, FS_Subset
  <2>3. DOMAIN ParentSets(Loaded) = LiveKin /\ Loaded.pairs = pairs
    BY DEF Loaded, Graph, ParentSets
  <2>4. DescendantsOf(Loaded, root) \subseteq LiveKin
    BY <2>2, <2>3, DescendantsClosed DEF DescendantsOf
  <2>5. \A f : SpousesIn(Loaded, f) \subseteq LiveKin
    BY <2>3 DEF SpousesIn, CouplesThere
  <2> QED
    BY <1>2, <2>4, <2>5 DEF CopySet
<1>4. copy \in SUBSET Nat /\ IsFiniteSet(copy)
  <2>1. Kin \in SUBSET Nat /\ LiveKin \in SUBSET Kin
    BY KinAssumption DEF Kin, LiveKin
  <2> QED
    BY <1>3, <2>1, KinFinite, FS_Subset
<1>5. PICK idOf : idOf = Numbered(copy, FreshPersons)
  OBVIOUS
<1>6. idOf \in [copy -> FreshPersons]
  BY <1>1, <1>2, <1>4, <1>5, FreshAreFinite, NumberedPersons
<1>7. Cardinality(copy) <= Cardinality(FreshLinks)
  <2>1. Cardinality(FreshPersons) \in Nat /\ Cardinality(FreshLinks) \in Nat /\ Cardinality(copy) \in Nat
    BY <1>4, FreshAreFinite, FS_CardinalityType
  <2> QED
    BY <1>1, <1>2, <2>1, MinOfTwo
<1>8. CopyInto(c, copy, idOf, Weddings(copy, idOf))
  BY <1>1, <1>2, <1>5
<1>9. /\ clanState' = [clanState EXCEPT ![c] = "live"]
      /\ \E row : member' = [member EXCEPT ![Owner][c] = row]
      /\ link' = WithLinks(c, {<<f, idOf[f]>> : f \in copy})
  BY <1>8 DEF CopyInto
<1>10. \E new : /\ person' = Over(new, person) /\ DOMAIN new = {idOf[f] : f \in copy}
                /\ \A p \in DOMAIN new : /\ DOMAIN UnbornPerson \subseteq DOMAIN new[p]
                                         /\ new[p].there = "live" /\ new[p].clan = c
  <2> DEFINE id(f) == IF f \in copy THEN idOf[f] ELSE NoPerson
             new == [p \in {idOf[f] : f \in copy} |->
                          LET f == CHOOSE x \in copy : idOf[x] = p
                          IN BornInto(c, Shown(f), <<id(kin[f].father), id(kin[f].mother)>>)]
  <2>1. person' = Over(new, person)
    BY <1>8 DEF CopyInto
  <2>2. \A p \in DOMAIN new : /\ DOMAIN UnbornPerson \subseteq DOMAIN new[p]
                              /\ new[p].there = "live" /\ new[p].clan = c
    <3>1. \A p \in DOMAIN new : \E shared, parents : new[p] = BornInto(c, shared, parents)
      OBVIOUS
    <3> HIDE DEF new
    <3> QED
      BY <3>1, BornColumns
  <2>3. DOMAIN new = {idOf[f] : f \in copy}
    OBVIOUS
  <2> HIDE DEF new
  <2> QED
    BY <2>1, <2>2, <2>3
<1>11. Founds(c, copy, idOf)
  BY <1>1, <1>3, <1>6, <1>7, <1>9, <1>10 DEF Founds
<1> QED
  BY <1>11

LEMMA BootstrapFine ==
  ASSUME TiesInv, CouplesThere, scene = "links", BootstrapClan PROVE Fine
<1>1. PICK c, copy, idOf : Founds(c, copy, idOf)
  BY BootstrapFounds
<1>2. UNCHANGED <<kin, linking, detaching, offers>>
  BY DEF BootstrapClan, treeVars
<1>3. PICK new : /\ person' = Over(new, person) /\ DOMAIN new = {idOf[f] : f \in copy}
                 /\ \A p \in DOMAIN new : /\ DOMAIN UnbornPerson \subseteq DOMAIN new[p]
                                          /\ new[p].there = "live" /\ new[p].clan = c
  BY <1>1 DEF Founds
<1>4. DOMAIN new \subseteq FreshPersons /\ FreshPersons \subseteq Persons /\ copy \subseteq LiveKin
  BY <1>1, <1>3 DEF Founds, FreshPersons
<1>5. DOMAIN person' = Persons /\ \A p \in Persons : person'[p] = IF p \in DOMAIN new THEN new[p] ELSE person[p]
  BY <1>3, <1>4 DEF Over, TiesInv, ColumnsOK
<1>6. PeopleGrow
  <2>1. \A p \in DOMAIN new : person[p].there = "unborn"
    BY <1>4 DEF FreshPersons
  <2>2. \A p \in Persons : DOMAIN UnbornPerson \subseteq DOMAIN person[p]
    BY DEF TiesInv, ColumnsOK
  <2> QED
    BY <1>3, <1>5, <2>1, <2>2 DEF PeopleGrow, PeopleStay, OfClan
<1>7. ClansGrow /\ Founded(c)' /\ ~Founded(c)
  <2>1. /\ DOMAIN clanState = Clans /\ Owner \in DOMAIN member /\ DOMAIN member[Owner] = Clans
    BY DEF TiesInv, ColumnsOK
  <2>2. /\ c \in Clans /\ clanState[c] = "none" /\ clanState' = [clanState EXCEPT ![c] = "live"]
        /\ \E row : member' = [member EXCEPT ![Owner][c] = row]
    BY <1>1 DEF Founds
  <2>3. /\ DOMAIN clanState' = Clans /\ Owner \in DOMAIN member' /\ DOMAIN member'[Owner] = Clans
        /\ clanState'[c] = "live"
        /\ \A d \in Clans : d # c => clanState'[d] = clanState[d] /\ member'[Owner][d] = member[Owner][d]
    BY <2>1, <2>2
  <2> QED
    BY <2>2, <2>3 DEF ClansGrow, ClansStay, Founded
<1>8. KinGrow /\ EndsStay
  BY <1>2, <1>6, <1>7, KinUnchanged DEF EndsStay, PeopleGrow, ClansGrow
<1>9. LinksStay => PendingOK'
  <2>1. OffersOK'
    BY <1>2 DEF TiesInv, OffersOK
  <2> QED
    BY <1>2, <1>8, <2>1, PendingStay
<1>10. PICK ps : ps = {<<f, idOf[f]>> : f \in copy}
  OBVIOUS
<1>11. copy = {fp[1] : fp \in ps}
  <2>1. \A fp \in ps : fp[1] \in copy
    <3> SUFFICES ASSUME NEW fp \in ps PROVE fp[1] \in copy
      OBVIOUS
    <3>1. PICK f \in copy : fp = <<f, idOf[f]>>
      BY <1>10
    <3> QED
      BY <3>1
  <2>2. ASSUME NEW f \in copy PROVE \E fp \in ps : fp[1] = f
    <3>1. <<f, idOf[f]>> \in ps /\ <<f, idOf[f]>>[1] = f
      BY <1>10
    <3> QED
      BY <3>1
  <2> QED
    BY <2>1, <2>2
<1>12. copy \in SUBSET Nat /\ IsFiniteSet(copy)
  <2>1. Kin \in SUBSET Nat /\ LiveKin \in SUBSET Kin
    BY KinAssumption DEF Kin, LiveKin
  <2> QED
    BY <1>4, <2>1, KinFinite, FS_Subset
<1>13. MayLink(c, ps)
  <2>1. LinksIn(c) = {}
    BY <1>7 DEF LinksIn, TiesInv, LinkEnds
  <2>2. ASSUME NEW f \in copy PROVE f \in LiveKin' /\ OfClan(idOf[f], c)'
    <3>1. idOf[f] \in DOMAIN new /\ f \in LiveKin'
      BY <1>3, <1>4, <1>8 DEF KinGrow
    <3> QED
      BY <1>3, <1>4, <1>5, <3>1 DEF OfClan
  <2>3. \A fp \in ps : fp[1] \in LiveKin' /\ OfClan(fp[2], c)'
    <3> SUFFICES ASSUME NEW fp \in ps PROVE fp[1] \in LiveKin' /\ OfClan(fp[2], c)'
      OBVIOUS
    <3>1. PICK f \in copy : fp = <<f, idOf[f]>>
      BY <1>10
    <3>2. fp[1] = f /\ fp[2] = idOf[f]
      BY <3>1
    <3> QED
      BY <2>2, <3>2
  <2> QED
    BY <1>7, <2>1, <2>3 DEF MayLink
<1>14. link' = WithLinks(c, ps) /\ Cardinality(copy) <= Cardinality(FreshLinks)
  BY <1>1, <1>10 DEF Founds
<1> QED
  BY <1>6, <1>7, <1>8, <1>9, <1>11, <1>12, <1>13, <1>14, AddedFine

(* A person of the tree goes, and the links with them.                     *)
LEMMA DeletePersonFine ==
  ASSUME TiesInv, ColumnsIn(kin), DeletePerson
  PROVE  TiesInv' /\ \A g \in LiveKin : g \in LiveKin' => Explained(g)
<1>1. PICK f \in LiveKin : DeleteRow(f) /\ link' = WithoutLinks({l \in Links : There(l) /\ link[l].kin = f})
  BY DEF DeletePerson
<1>2. PICK D : D = {l \in Links : There(l) /\ link[l].kin = f}
  OBVIOUS
<1>3. /\ kin' = WithoutKin(kin, f) /\ link' = WithoutLinks(D) /\ D \subseteq Links \ FreshLinks
      /\ UNCHANGED <<person, clanState, member, linking, detaching, offers>>
  BY <1>1, <1>2 DEF DeleteRow, DeletePerson, clanVars, There, FreshLinks
<1>4. ASSUME NEW g \in LiveKin, g # f PROVE g \in LiveKin' /\ Own(g)' = Own(g)
  <2>1. PICK row : row = kin[g]
    OBVIOUS
  <2>2. g \in Kin /\ KinColumns \subseteq DOMAIN row /\ row.there = "live"
    BY <2>1 DEF LiveKin, ColumnsIn
  <2>3. kin'[g] = [row EXCEPT !.father = IF @ = f THEN NoKin ELSE @,
                              !.mother = IF @ = f THEN NoKin ELSE @]
    BY <1>3, <1>4, <2>1, <2>2 DEF WithoutKin
  <2>4. kin'[g].there = row.there /\ kin'[g].gender = row.gender /\ kin'[g].value = row.value
    BY <2>2, <2>3 DEF KinColumns
  <2> QED
    BY <2>1, <2>2, <2>4 DEF LiveKin, Own
<1>5. f \notin LiveKin'
  <2>1. f \in Kin
    BY DEF LiveKin
  <2>2. kin'[f] = [Unborn EXCEPT !.there = "deleted"]
    BY <1>3, <2>1 DEF WithoutKin
  <2>3. kin'[f].there = "deleted"
    BY <2>2, UnbornFields
  <2> QED
    BY <2>3 DEF LiveKin
<1>6. PeopleGrow /\ ClansGrow /\ EndsStay /\ TiesOK
  BY <1>3, PeopleUnchanged, ClansUnchanged DEF TiesInv, TiesOK, EndsStay, PeopleGrow, ClansGrow
<1>7. TiesKept
  <2>1. \A l \in Links \ D : There(l) => link[l].kin \in LiveKin'
    BY <1>2, <1>4, ActiveEnds
  <2> QED
    BY <1>3, <1>6, <2>1, EndedTies
<1>8. PendingOK'
  <2>1. OffersOK'
    BY <1>3 DEF TiesInv, OffersOK
  <2> QED
    BY <1>3, <1>6, <1>7, <2>1, PendingStay DEF TiesKept
<1>9. /\ \A l \in Links \ D : link'[l] = link[l]
      /\ \A l \in D : ~There(l)'
  BY <1>3, <1>6 DEF WithoutLinks, There, TiesOK, ColumnsOK, LinkColumns
<1>10. ASSUME NEW g \in LiveKin, g \in LiveKin' PROVE Explained(g)
  <2>1. g # f /\ Own(g)' = Own(g)
    BY <1>4, <1>5, <1>10
  <2>2. \A l \in Links : There(l) /\ link[l].kin = g => l \notin D
    BY <1>2, <2>1
  <2>3. \A l \in Links : There(l) /\ link[l].kin = g =>
            link'[l] = link[l] /\ (IsActive(l)' <=> IsActive(l))
    BY <1>6, <1>9, <2>2, ActiveStays
  <2>4. \A l \in Links : IsActive(l)' /\ link'[l].kin = g => There(l) /\ link[l].kin = g
    BY <1>9 DEF IsActive, There
  <2> QED
    BY <2>1, <2>3, <2>4, GrownExplained
<1> QED
  BY <1>7, <1>8, <1>10 DEF TiesInv, TiesKept, TiesOK, PendingOK

(***************************************************************************)
(* The steps of a linked tree.                                             *)
(***************************************************************************)
LEMMA LinkRequestFine ==
  ASSUME TiesInv, CouplesThere, LinksInv, TreeOK, scene = "links", UNCHANGED scene, LinkRequest
  PROVE  Fine /\ CouplesThere'
<1>1. ColumnsIn(kin)
  BY DEF TreeOK, TreeRows
<1>2. CASE ImportFromClan
  BY <1>2, ImportFine, ImportCouples
<1>3. ASSUME Fine, UNCHANGED pairs PROVE Fine /\ CouplesThere'
  BY <1>3 DEF Fine, CouplesThere
<1>4. CASE RequestDetach
  <2>1. PICK l \in Links : There(l) /\ Begin("link", link[l].clan, {l})
    BY <1>4 DEF RequestDetach
  <2>2. {l} \subseteq LinksIn(link[l].clan) /\ UNCHANGED pairs
    BY <2>1 DEF LinksIn, Begin, treeVars
  <2> QED
    BY <1>3, <2>1, <2>2, BeginFine
<1>5. CASE RequestRemoval \/ RequestClanDeletion
  <2>1. PICK op, c : Begin(op, c, LinksIn(c))
    BY <1>5 DEF RequestRemoval, RequestClanDeletion
  <2>2. UNCHANGED pairs
    BY <2>1 DEF Begin, treeVars
  <2> QED
    BY <1>3, <2>1, <2>2, BeginFine
<1>6. CASE ContributePerson \/ ContributeRelative
  <2>1. PICK f \in LiveKin, c \in Clans : \E parents : Contribute(f, c, parents)
    BY <1>6 DEF ContributePerson, ContributeRelative
  <2>2. PICK parents : Contribute(f, c, parents)
    BY <2>1
  <2>3. UNCHANGED pairs
    BY <2>2 DEF Contribute, treeVars
  <2> QED
    BY <1>3, <2>2, <2>3, ContributeFine
<1>7. CASE RequestLinks
  BY <1>3, <1>7, RequestLinksFine DEF RequestLinks, treeVars
<1>8. CASE InsertLinks
  BY <1>3, <1>8, InsertLinksFine DEF InsertLinks, treeVars
<1>9. CASE Detach
  BY <1>1, <1>3, <1>9, DetachFine DEF Detach
<1>10. CASE EditClanPerson
  BY <1>3, <1>10, EditFine DEF EditClanPerson, treeVars
<1>11. CASE DeleteClanPerson
  BY <1>1, <1>3, <1>11, DeleteClanPersonFine DEF DeleteClanPerson
<1>12. CASE PatchUnlinked
  BY <1>1, <1>3, <1>12, PatchUnlinkedFine DEF PatchUnlinked
<1>13. CASE PatchLinked
  BY <1>3, <1>13, PatchLinkedFine DEF PatchLinked, treeVars
<1>14. CASE Approve
  BY <1>3, <1>14, ApproveFine DEF Approve, treeVars
<1>15. CASE BootstrapClan
  BY <1>3, <1>15, BootstrapFine DEF BootstrapClan, treeVars
<1> QED
  BY <1>2, <1>4, <1>5, <1>6, <1>7, <1>8, <1>9, <1>10, <1>11, <1>12, <1>13, <1>14, <1>15 DEF LinkRequest

-----------------------------------------------------------------------------
(***************************************************************************)
(* Who is to be inserted: at most the one new person of a request.         *)
(***************************************************************************)
Bears(g, new) ==
  "born" \in DOMAIN g /\ \A b \in g.born : b[1] = new /\ KinColumns \subseteq DOMAIN b[2]

LEMMA LoadedBears == ASSUME NEW new PROVE Bears(Loaded, new)
BY LoadedRows DEF Bears, GraphColumns

LEMMA SimplyBears ==
  ASSUME NEW new, NEW g, Bears(g, new)
  PROVE  /\ \A c, slot, p : Bears(WithParent(g, c, slot, p), new)
         /\ Bears(Rejected(g), new)
         /\ \A a, b : Bears(Joined(g, a, b), new)
         /\ \A children, p, partner : Bears(FillAll(g, children, p, partner), new)
<1>1. \A h : "born" \in DOMAIN h /\ h.born = g.born => Bears(h, new)
  BY DEF Bears
<1>2. ASSUME NEW c, NEW slot, NEW p PROVE Bears(WithParent(g, c, slot, p), new)
  <2>1. PICK h : h = WithParent(g, c, slot, p)
    OBVIOUS
  <2>2. "born" \in DOMAIN h /\ h.born = g.born
    BY <2>1 DEF WithParent, Bears
  <2> QED
    BY <1>1, <2>1, <2>2
<1>3. Bears(Rejected(g), new)
  <2>1. PICK h : h = Rejected(g)
    OBVIOUS
  <2>2. "born" \in DOMAIN h /\ h.born = g.born
    BY <2>1 DEF Rejected, Bears
  <2> QED
    BY <1>1, <2>1, <2>2
<1>4. ASSUME NEW a, NEW b PROVE Bears(Joined(g, a, b), new)
  <2>1. PICK h : h = Joined(g, a, b)
    OBVIOUS
  <2>2. "born" \in DOMAIN h /\ h.born = g.born
    BY <2>1 DEF Joined, Bears
  <2> QED
    BY <1>1, <2>1, <2>2
<1>5. ASSUME NEW children, NEW p, NEW partner PROVE Bears(FillAll(g, children, p, partner), new)
  <2>1. PICK h : h = FillAll(g, children, p, partner)
    OBVIOUS
  <2>2. PICK rows, sets : h = [g EXCEPT !.kin = rows, !.sets = sets]
    BY <2>1 DEF FillAll
  <2>3. "born" \in DOMAIN h /\ h.born = g.born
    BY <2>2 DEF Bears
  <2> QED
    BY <1>1, <2>1, <2>3
<1> QED
  BY <1>2, <1>3, <1>4, <1>5

LEMMA RequireBears ==
  ASSUME NEW new, NEW g, Bears(g, new), NEW next, Bears(next, new), NEW allowed
  PROVE  Bears(Require(g, allowed, next), new)
BY SimplyBears DEF Require

LEMMA MarriedBears ==
  ASSUME NEW new, NEW g, Bears(g, new)
  PROVE  /\ \A a, b : Bears(LinkSpouse(g, a, b), new)
         /\ \A c : Bears(MarryIfOk(g, c), new)
<1>1. ASSUME NEW a, NEW b PROVE Bears(LinkSpouse(g, a, b), new)
  <2>1. PICK ofA, ofB, h, i : /\ ofA = FirstSpouseFills(g, a, b) /\ ofB = FirstSpouseFills(g, b, a)
                              /\ h = Joined(g, a, b) /\ i = FillAll(h, ofA, a, b)
    OBVIOUS
  <2>2. Bears(h, new)
    BY <2>1, SimplyBears
  <2>3. Bears(i, new)
    BY <2>1, <2>2, SimplyBears
  <2>4. Bears(FillAll(i, ofB, b, a), new)
    BY <2>3, SimplyBears
  <2> QED
    BY <2>1, <2>4 DEF LinkSpouse
<1>2. ASSUME NEW c PROVE Bears(MarryIfOk(g, c), new)
  <2>1. MarryIfOk(g, c) = g \/ \E a, b : MarryIfOk(g, c) = LinkSpouse(g, a, b)
    BY DEF MarryIfOk, MarryParents
  <2> QED
    BY <1>1, <2>1
<1> QED
  BY <1>1, <1>2

LEMMA SetParentBears ==
  ASSUME NEW new, NEW g, Bears(g, new), NEW c, NEW slot, NEW p
  PROVE  Bears(SetParent(g, c, slot, p), new)
<1>1. PICK next, allowed : next = WithParent(g, c, slot, p) /\ allowed = CheckSetParent(g, c, slot, p)
  OBVIOUS
<1>2. PICK h : h = Require(g, allowed, next)
  OBVIOUS
<1>3. Bears(next, new) /\ Bears(h, new)
  BY <1>1, <1>2, SimplyBears, RequireBears
<1>4. p = NoKin => SetParent(g, c, slot, p) = WithParent(g, c, slot, p)
  BY DEF SetParent
<1>5. p # NoKin => SetParent(g, c, slot, p) = MarryIfOk(h, c)
  BY <1>1, <1>2 DEF SetParent
<1> QED
  BY <1>1, <1>3, <1>4, <1>5, MarriedBears

LEMMA LinkChildBears ==
  ASSUME NEW new, NEW g, Bears(g, new), NEW parent, NEW c, NEW other
  PROVE  Bears(LinkChild(g, parent, c, other), new)
<1>1. PICK slot : slot = SlotForParent(g.kin[parent].gender)
  OBVIOUS
<1>2. PICK next, allowed : /\ next = WithParent(g, c, slot, parent)
                           /\ allowed = (CheckSetParent(g, c, slot, parent) /\ CheckSlotFree(g, c, slot, parent))
  OBVIOUS
<1>3. PICK h : h = Require(g, allowed, next)
  OBVIOUS
<1>4. Bears(h, new)
  BY <1>2, <1>3, SimplyBears, RequireBears
<1>5. PICK i : i = FillIfOk(h, parent, c, other)
  OBVIOUS
<1>6. i = h \/ \E s, p : i = WithParent(h, c, s, p)
  BY <1>5 DEF FillIfOk, FillOtherParent, FillSlot
<1>7. Bears(i, new)
  BY <1>4, <1>6, SimplyBears
<1>8. LinkChild(g, parent, c, other) = MarryIfOk(i, c)
  BY <1>1, <1>2, <1>3, <1>5 DEF LinkChild
<1> QED
  BY <1>7, <1>8, MarriedBears

LEMMA AttachBears ==
  ASSUME NEW new, NEW g, Bears(g, new), NEW anchor, NEW kind, NEW p, NEW other
  PROVE  Bears(AttachIfOk(g, anchor, kind, p, other), new)
<1>1. ASSUME NEW h, Bears(h, new), NEW from, NEW to, NEW slot PROVE Bears(CopySlot(h, from, to, slot), new)
  BY <1>1, SimplyBears DEF CopySlot
<1>2. Bears(CopyParents(g, anchor, p), new)
  <2>1. PICK h : h = CopySlot(g, anchor, p, "father")
    OBVIOUS
  <2>2. Bears(h, new)
    BY <1>1, <2>1
  <2> QED
    BY <1>1, <2>1, <2>2 DEF CopyParents
<1>3. \/ Attach(g, anchor, kind, p, other) = SetParent(g, anchor, kind, p)
      \/ Attach(g, anchor, kind, p, other) = LinkSpouse(g, anchor, p)
      \/ Attach(g, anchor, kind, p, other) = LinkChild(g, anchor, p, other)
      \/ Attach(g, anchor, kind, p, other) = CopyParents(g, anchor, p)
      \/ Attach(g, anchor, kind, p, other) = g
  BY DEF Attach, Slots
<1>4. Bears(Attach(g, anchor, kind, p, other), new)
  BY <1>2, <1>3, SetParentBears, MarriedBears, LinkChildBears
<1> QED
  BY <1>4 DEF AttachIfOk

LEMMA CreateBears ==
  ASSUME NEW new, NEW gender
  PROVE  /\ Bears(CreatePerson(Loaded, new, gender), new)
         /\ \A anchor, kind, other : Bears(AddRelative(Loaded, anchor, kind, gender, other, new), new)
         /\ \A me, label : Bears(CreateStandalone(Loaded, me, label, gender, new), new)
<1>1. PICK g : g = Loaded
  OBVIOUS
<1>2. Bears(g, new) /\ GraphColumns \subseteq DOMAIN g
  BY <1>1, LoadedBears, LoadedRows
<1>3. PICK created : created = CreatePerson(g, new, gender)
  OBVIOUS
<1>4. Bears(created, new)
  <2>1. PICK row : row = [Unborn EXCEPT !.there = "live", !.gender = gender]
    OBVIOUS
  <2>2. DOMAIN row = KinColumns
    BY <2>1, UnbornFields DEF KinColumns
  <2>3. PICK full : full = [g EXCEPT !.kin = Over([p \in {new} |-> row], @), !.born = {<<new, row>>}]
    OBVIOUS
  <2>4. "born" \in DOMAIN full /\ full.born = {<<new, row>>}
    BY <1>2, <2>3 DEF GraphColumns
  <2>5. Bears(full, new)
    BY <2>2, <2>4 DEF Bears
  <2>6. PICK allowed : allowed = (Cardinality(DOMAIN g.kin) < FAMILY_MAX_PERSONS)
    OBVIOUS
  <2>7. created = Require(g, allowed, full)
    BY <1>3, <2>1, <2>3, <2>6 DEF CreatePerson
  <2> QED
    BY <1>2, <2>5, <2>7, RequireBears
<1>5. ASSUME NEW anchor, NEW kind, NEW other
      PROVE  Bears(AddRelative(Loaded, anchor, kind, gender, other, new), new)
  <2>1. PICK allowed, h : allowed = MayAdd(g, anchor, kind, gender) /\ h = Require(g, allowed, created)
    OBVIOUS
  <2>2. Bears(h, new)
    BY <1>2, <1>4, <2>1, RequireBears
  <2>3. AddRelative(Loaded, anchor, kind, gender, other, new) = AttachIfOk(h, anchor, kind, new, other)
    BY <1>1, <1>3, <2>1 DEF AddRelative
  <2> QED
    BY <2>2, <2>3, AttachBears
<1>6. ASSUME NEW me, NEW label PROVE Bears(CreateStandalone(Loaded, me, label, gender, new), new)
  <2>1. PICK plan, linked : /\ plan = PlanLink(g, me, label, gender)
                            /\ linked = AttachIfOk(created, plan[1], plan[2], new, NoKin)
    OBVIOUS
  <2>2. Bears(linked, new)
    BY <1>4, <2>1, AttachBears
  <2>3. CreateStandalone(Loaded, me, label, gender, new) = LinkedOrNot(created, linked)
    BY <1>1, <1>3, <2>1 DEF CreateStandalone, AutoLink
  <2> QED
    BY <1>4, <2>2, <2>3 DEF LinkedOrNot
<1> QED
  BY <1>1, <1>3, <1>4, <1>5, <1>6

(* A request plans to insert a person no other request inserts.            *)
LEMMA PlannedBorn ==
  ASSUME BornInv, scene = "tree", scene' = scene, NEW r \in Relaters, NEW op, NEW target, NEW g,
         Plan(r, op, target, g), (\A new : Bears(g, new)) \/ (FreshKin # {} /\ Bears(g, NewKin))
  PROVE  BornInv' /\ UNCHANGED kin
<1>1. PICK w : w = [op |-> op, sets |-> g.sets, joined |-> g.joined,
                    parted |-> g.parted, born |-> g.born, target |-> target]
  OBVIOUS
<1>2. work' = [work EXCEPT ![r] = w] /\ UNCHANGED kin /\ w.born = g.born
  BY <1>1 DEF Plan
<1>3. /\ DOMAIN work' = Relaters /\ work'[r].born = g.born
      /\ \A s \in Relaters : s # r => work'[s] = work[s]
  BY <1>2 DEF BornInv
<1>4. \A b \in g.born : b[1] \in FreshKin /\ KinColumns \subseteq DOMAIN b[2]
  <2>1. CASE \A new : Bears(g, new)
    <3>1. Bears(g, 0) /\ Bears(g, 1)
      BY <2>1
    <3> QED
      BY <3>1 DEF Bears
  <2>2. CASE FreshKin # {} /\ Bears(g, NewKin)
    <3>1. NewKin \in FreshKin
      <4>1. \E p \in FreshKin : \A q \in FreshKin : p <= q
        BY <2>2, FreshAreFinite, LeastNat
      <4> QED
        BY <4>1 DEF NewKin
    <3> QED
      BY <2>2, <3>1 DEF Bears
  <2> QED
    BY <2>1, <2>2
<1>5. \A p \in FreshKin : p \in Kin /\ kin[p].there = "unborn" /\ \A s \in Relaters : \A b \in work[s].born : b[1] # p
  BY DEF FreshKin
<1>6. \A s \in Relaters : \A b \in work'[s].born :
        b[1] \in Kin /\ kin'[b[1]].there = "unborn" /\ KinColumns \subseteq DOMAIN b[2]
  BY <1>2, <1>3, <1>4, <1>5 DEF BornInv
<1>7. \A s, t \in Relaters : \A a \in work'[s].born, b \in work'[t].born : s # t => a[1] # b[1]
  <2> SUFFICES ASSUME NEW s \in Relaters, NEW t \in Relaters, s # t,
                      NEW a \in work'[s].born, NEW b \in work'[t].born
               PROVE  a[1] # b[1]
    OBVIOUS
  <2>1. CASE s = r
    BY <1>3, <1>4, <1>5, <2>1
  <2>2. CASE t = r
    BY <1>3, <1>4, <1>5, <2>2
  <2>3. CASE s # r /\ t # r
    BY <1>3, <2>3 DEF BornInv
  <2> QED
    BY <2>1, <2>2, <2>3
<1> QED
  BY <1>2, <1>3, <1>6, <1>7 DEF BornInv, ColumnsIn

LEMMA RequestBorn ==
  ASSUME BornInv, scene = "tree", scene' = scene, NEW r \in Relaters,
         \/ RequestSetParent(r) \/ RequestLinkSpouse(r) \/ RequestUnlinkSpouse(r)
         \/ RequestLinkChild(r) \/ RequestAddRelative(r) \/ RequestCreate(r)
  PROVE  BornInv' /\ UNCHANGED kin
<1>1. CASE RequestSetParent(r)
  <2>1. PICK op, target, c, slot, p : Plan(r, op, target, SetParent(Loaded, c, slot, p))
    BY <1>1 DEF RequestSetParent
  <2>2. \A new : Bears(SetParent(Loaded, c, slot, p), new)
    BY LoadedBears, SetParentBears
  <2> QED
    BY <2>1, <2>2, PlannedBorn
<1>2. CASE RequestLinkSpouse(r)
  <2>1. PICK op, target, a, b : Plan(r, op, target, LinkSpouse(Loaded, a, b))
    BY <1>2 DEF RequestLinkSpouse
  <2>2. \A new : Bears(LinkSpouse(Loaded, a, b), new)
    BY LoadedBears, MarriedBears
  <2> QED
    BY <2>1, <2>2, PlannedBorn
<1>3. CASE RequestUnlinkSpouse(r)
  <2>1. PICK op, target, couples : Plan(r, op, target, [Loaded EXCEPT !.parted = couples])
    BY <1>3 DEF RequestUnlinkSpouse
  <2>2. PICK h : h = [Loaded EXCEPT !.parted = couples]
    OBVIOUS
  <2>3. "born" \in DOMAIN h /\ h.born = {}
    BY <2>2, LoadedRows DEF GraphColumns
  <2>4. \A new : Bears(h, new)
    BY <2>3 DEF Bears
  <2>5. Plan(r, op, target, h)
    BY <2>1, <2>2
  <2> QED
    BY <2>4, <2>5, PlannedBorn
<1>4. CASE RequestLinkChild(r)
  <2>1. PICK op, target, p, c, other : Plan(r, op, target, LinkChild(Loaded, p, c, other))
    BY <1>4 DEF RequestLinkChild
  <2>2. \A new : Bears(LinkChild(Loaded, p, c, other), new)
    BY LoadedBears, LinkChildBears
  <2> QED
    BY <2>1, <2>2, PlannedBorn
<1>5. CASE RequestAddRelative(r)
  <2>1. PICK op, target, anchor, kind, gender, other :
          FreshKin # {} /\ Plan(r, op, target, AddRelative(Loaded, anchor, kind, gender, other, NewKin))
    BY <1>5 DEF RequestAddRelative
  <2>2. Bears(AddRelative(Loaded, anchor, kind, gender, other, NewKin), NewKin)
    BY CreateBears
  <2> QED
    BY <2>1, <2>2, PlannedBorn
<1>6. CASE RequestCreate(r)
  <2>1. PICK op, target, label, gender :
          FreshKin # {} /\ Plan(r, op, target, CreateStandalone(Loaded, self, label, gender, NewKin))
    BY <1>6 DEF RequestCreate
  <2>2. PICK g : g = CreateStandalone(Loaded, self, label, gender, NewKin)
    OBVIOUS
  <2>3. Bears(g, NewKin)
    BY <2>2, CreateBears
  <2>4. FreshKin # {} /\ Plan(r, op, target, g)
    BY <2>1, <2>2
  <2> QED
    BY <2>3, <2>4, PlannedBorn
<1> QED
  BY <1>1, <1>2, <1>3, <1>4, <1>5, <1>6

(* A commit inserts whom it planned, and of the others only sets parents.  *)
LEMMA CommitBorn ==
  ASSUME BornInv, scene = "tree", scene' = scene, NEW r \in Relaters, CommitPlan(r)
  PROVE  BornInv' /\ KinGrow
<1>1. PICK w : w = work[r]
  OBVIOUS
<1>2. work' = [work EXCEPT ![r] = NoWork]
  BY DEF CommitPlan
<1>3. /\ DOMAIN work' = Relaters /\ work'[r].born = {}
      /\ \A s \in Relaters : s # r => work'[s] = work[s]
  BY <1>2 DEF BornInv, NoWork
<1>4. /\ \A b \in w.born : b[1] \in Kin /\ kin[b[1]].there = "unborn" /\ KinColumns \subseteq DOMAIN b[2]
      /\ ColumnsIn(kin)
  BY <1>1 DEF BornInv
<1>5. ASSUME UNCHANGED kin PROVE BornInv' /\ KinGrow
  BY <1>3, <1>5, KinUnchanged DEF BornInv, ColumnsIn
<1>6. ASSUME kin' = [p \in Kin |-> RowAfter(w, p)] PROVE BornInv' /\ KinGrow
  <2>1. \A p \in Kin : KinColumns \subseteq DOMAIN kin'[p]
    <3> SUFFICES ASSUME NEW p \in Kin PROVE KinColumns \subseteq DOMAIN RowAfter(w, p)
      BY <1>6
    <3>1. PICK row : row = IF Inserted(w, p) # {} THEN CHOOSE n \in Inserted(w, p) : TRUE ELSE kin[p]
      OBVIOUS
    <3>2. KinColumns \subseteq DOMAIN row
      <4>1. CASE Inserted(w, p) # {}
        <5>1. row \in Inserted(w, p)
          BY <3>1, <4>1
        <5> QED
          BY <1>4, <5>1 DEF Inserted
      <4>2. CASE Inserted(w, p) = {}
        BY <1>4, <3>1, <4>2 DEF ColumnsIn
      <4> QED
        BY <4>1, <4>2
    <3>3. RowAfter(w, p) = row \/ \E x, y : RowAfter(w, p) = [row EXCEPT !.father = x, !.mother = y]
      BY <3>1 DEF RowAfter
    <3> QED
      BY <3>2, <3>3
  <2>2. ASSUME NEW p \in Kin, \A b \in w.born : b[1] # p
        PROVE  /\ kin'[p].there = kin[p].there /\ kin'[p].gender = kin[p].gender
               /\ kin'[p].value = kin[p].value
    <3>1. PICK row : row = kin[p]
      OBVIOUS
    <3>2. Inserted(w, p) = {} /\ KinColumns \subseteq DOMAIN row
      BY <1>4, <2>2, <3>1 DEF Inserted, ColumnsIn
    <3>3. RowAfter(w, p) = row \/ \E x, y : RowAfter(w, p) = [row EXCEPT !.father = x, !.mother = y]
      BY <3>1, <3>2 DEF RowAfter
    <3>4. PICK new : new = kin'[p]
      OBVIOUS
    <3>5. new = row \/ \E x, y : new = [row EXCEPT !.father = x, !.mother = y]
      BY <1>6, <3>3, <3>4
    <3>6. new.there = row.there /\ new.gender = row.gender /\ new.value = row.value
      BY <3>2, <3>5 DEF KinColumns
    <3> QED
      BY <3>1, <3>4, <3>6
  <2>3. KinGrow
    <3>1. \A f \in LiveKin : f \in Kin /\ \A b \in w.born : b[1] # f
      BY <1>4 DEF LiveKin
    <3> QED
      BY <2>2, <3>1 DEF KinGrow, LiveKin, Own
  <2>4. \A s \in Relaters : \A b \in work'[s].born :
          b[1] \in Kin /\ kin'[b[1]].there = "unborn" /\ KinColumns \subseteq DOMAIN b[2]
    <3> SUFFICES ASSUME NEW s \in Relaters, NEW b \in work'[s].born
                 PROVE  b[1] \in Kin /\ kin'[b[1]].there = "unborn" /\ KinColumns \subseteq DOMAIN b[2]
      OBVIOUS
    <3>1. s # r /\ b \in work[s].born
      BY <1>3
    <3>2. b[1] \in Kin /\ kin[b[1]].there = "unborn" /\ KinColumns \subseteq DOMAIN b[2]
      BY <3>1 DEF BornInv
    <3>3. \A a \in w.born : a[1] # b[1]
      BY <1>1, <3>1 DEF BornInv
    <3> QED
      BY <2>2, <3>2, <3>3
  <2>5. \A s, t \in Relaters : \A a \in work'[s].born, b \in work'[t].born : s # t => a[1] # b[1]
    BY <1>3 DEF BornInv
  <2>6. DOMAIN kin' = Kin
    BY <1>6
  <2> QED
    BY <1>3, <2>1, <2>3, <2>4, <2>5, <2>6 DEF BornInv, ColumnsIn
<1> QED
  BY <1>1, <1>5, <1>6 DEF CommitPlan

(* A person of the tree who is there is written; nobody else is.           *)
LEMMA WrittenBorn ==
  ASSUME BornInv, UNCHANGED <<work, raced, scene>>, ColumnsIn(kin'),
         \A p \in Kin : kin[p].there = "unborn" => kin'[p].there = "unborn"
  PROVE  BornInv'
BY DEF BornInv

LEMMA PatchBorn == ASSUME BornInv, PatchPerson, scene' = scene PROVE BornInv' /\ KinGrow
<1>1. PICK p \in LiveKin, gender \in Genders : kin' = [kin EXCEPT ![p].gender = gender]
  BY DEF PatchPerson
<1>2. PICK row, new : row = kin[p] /\ new = [row EXCEPT !.gender = gender]
  OBVIOUS
<1>3. ColumnsIn(kin) /\ p \in Kin /\ row.there = "live" /\ KinColumns \subseteq DOMAIN row
  BY <1>2 DEF BornInv, ColumnsIn, LiveKin
<1>4. KinColumns \subseteq DOMAIN new /\ new.there = "live"
  BY <1>2, <1>3 DEF KinColumns
<1>5. DOMAIN kin' = Kin /\ \A q \in Kin : kin'[q] = IF q = p THEN new ELSE kin[q]
  BY <1>1, <1>2, <1>3 DEF ColumnsIn
<1>6. ColumnsIn(kin') /\ \A q \in Kin : kin'[q].there = kin[q].there
  BY <1>2, <1>3, <1>4, <1>5 DEF ColumnsIn
<1>7. KinGrow
  BY <1>6 DEF KinGrow, Explained, LiveKin
<1>8. UNCHANGED <<work, raced>>
  BY DEF PatchPerson
<1> QED
  BY <1>6, <1>7, <1>8, WrittenBorn

LEMMA DeleteBorn ==
  ASSUME BornInv, NEW f \in LiveKin, DeleteRow(f), UNCHANGED <<work, raced, scene>> PROVE BornInv'
<1>1. kin' = WithoutKin(kin, f) /\ ColumnsIn(kin) /\ kin[f].there = "live"
  BY DEF DeleteRow, BornInv, LiveKin
<1>2. DOMAIN kin' = Kin
  BY <1>1 DEF WithoutKin
<1>3. ASSUME NEW p \in Kin
      PROVE  KinColumns \subseteq DOMAIN kin'[p] /\ (kin[p].there = "unborn" => kin'[p].there = "unborn")
  <2>1. CASE p = f
    <3>1. kin'[p] = [Unborn EXCEPT !.there = "deleted"]
      BY <1>1, <2>1 DEF WithoutKin
    <3> QED
      BY <1>1, <2>1, <3>1, UnbornFields
  <2>2. CASE p # f
    <3>1. PICK row, new : row = kin[p] /\ new = kin'[p]
      OBVIOUS
    <3>2. new = [row EXCEPT !.father = IF @ = f THEN NoKin ELSE @, !.mother = IF @ = f THEN NoKin ELSE @]
      BY <1>1, <2>2, <3>1 DEF WithoutKin
    <3>3. KinColumns \subseteq DOMAIN row
      BY <1>1, <3>1 DEF ColumnsIn
    <3>4. KinColumns \subseteq DOMAIN new /\ new.there = row.there
      BY <3>2, <3>3 DEF KinColumns
    <3> QED
      BY <3>1, <3>4
  <2> QED
    BY <2>1, <2>2
<1> QED
  BY <1>2, <1>3, WrittenBorn DEF ColumnsIn

(* An upload comes first: nobody is there, no request is at work.          *)
LEMMA UploadBorn ==
  ASSUME BornInv, NEW raw \in RawTrees, NEW me, Import(raw, me), scene' = scene PROVE BornInv' /\ LiveKin = {}
<1>1. TreeRows(kin') /\ LiveKin = {} /\ FreshKin = Kin /\ UNCHANGED work
  BY ImportRows DEF BornInv
<1>2. \A r \in Relaters : work[r].born = {}
  <2> SUFFICES ASSUME NEW r \in Relaters, NEW b \in work[r].born PROVE FALSE
    OBVIOUS
  <2>1. b[1] \in FreshKin
    BY <1>1 DEF BornInv
  <2> QED
    BY <2>1 DEF FreshKin
<1>3. UNCHANGED raced
  BY DEF Import
<1> QED
  BY <1>1, <1>2, <1>3 DEF BornInv, TreeRows

(* Requests on the tree alone: only an edit changes what is shown.         *)
LEMMA TreeRequestFine ==
  ASSUME TiesInv, BornInv, scene = "tree", scene' = scene, TreeRequest, UNCHANGED <<clanVars, linkVars>>
  PROVE  Fine /\ BornInv'
<1>1. BornInv' /\ KinGrow
  <2>1. ASSUME NEW r \in Relaters,
               \/ RequestSetParent(r) \/ RequestLinkSpouse(r) \/ RequestUnlinkSpouse(r)
               \/ RequestLinkChild(r) \/ RequestAddRelative(r) \/ RequestCreate(r)
        PROVE  BornInv' /\ KinGrow
    BY <2>1, RequestBorn, KinUnchanged
  <2>2. ASSUME NEW r \in Relaters, CommitPlan(r) PROVE BornInv' /\ KinGrow
    BY <2>2, CommitBorn
  <2>3. CASE PatchPerson
    BY <2>3, PatchBorn
  <2>4. CASE PutSelf
    <3>1. UNCHANGED <<kin, work, raced>>
      BY <2>4 DEF PutSelf
    <3> QED
      BY <3>1, KinUnchanged DEF BornInv, ColumnsIn
  <2>5. ASSUME NEW raw \in RawTrees, NEW me, Import(raw, me) PROVE BornInv' /\ KinGrow
    BY <2>5, UploadBorn DEF KinGrow
  <2> QED
    BY <2>1, <2>2, <2>3, <2>4, <2>5 DEF TreeRequest
<1>2. UNCHANGED <<person, clanState, member, link, linking, detaching, offers>>
  BY DEF clanVars, linkVars
<1> QED
  BY <1>1, <1>2, NothingFine

LEMMA WorkStays == ASSUME LinkRequest PROVE UNCHANGED <<work, raced>>
<1>1. ASSUME NEW op, NEW c, NEW ls, Begin(op, c, ls) PROVE UNCHANGED <<work, raced>>
  BY <1>1 DEF Begin, treeVars
<1>2. ASSUME NEW f, NEW c, NEW parents, Contribute(f, c, parents) PROVE UNCHANGED <<work, raced>>
  BY <1>2 DEF Contribute, treeVars
<1>3. RequestDetach \/ RequestRemoval \/ RequestClanDeletion => UNCHANGED <<work, raced>>
  BY <1>1 DEF RequestDetach, RequestRemoval, RequestClanDeletion
<1>4. ContributePerson \/ ContributeRelative => UNCHANGED <<work, raced>>
  BY <1>2 DEF ContributePerson, ContributeRelative
<1>5. RequestLinks \/ InsertLinks \/ Detach \/ EditClanPerson \/ DeleteClanPerson => UNCHANGED <<work, raced>>
  BY DEF RequestLinks, InsertLinks, Detach, EditClanPerson, DeleteClanPerson, treeVars
<1>6. PatchUnlinked \/ PatchLinked \/ Approve \/ ImportFromClan \/ BootstrapClan => UNCHANGED <<work, raced>>
  BY DEF PatchUnlinked, PatchLinked, Approve, ImportFromClan, BootstrapClan, treeVars
<1> QED
  BY <1>3, <1>4, <1>5, <1>6 DEF LinkRequest

(* Outside the scene of the tree nobody relates persons.                   *)
LEMMA LinkRequestBorn ==
  ASSUME BornInv, TreeInv, TreeInv', scene = "links", scene' = scene, LinkRequest PROVE BornInv'
<1>1. UNCHANGED <<work, raced>> /\ ~raced
  BY WorkStays DEF BornInv
<1>2. TreeOK' /\ TreeOK
  BY <1>1 DEF TreeInv
<1>3. ColumnsIn(kin') /\ DOMAIN work = Relaters /\ Working = {}
  BY <1>2 DEF TreeOK, TreeRows
<1>4. \A r \in Relaters : work[r].born = {}
  BY <1>3 DEF Working, NoWork
<1> QED
  BY <1>1, <1>3, <1>4 DEF BornInv

LEMMA OtherScenesFine ==
  ASSUME TiesInv, BornInv, scene' = scene,
         UNCHANGED <<person, member, treeVars, linkVars>>
  PROVE  Fine /\ BornInv' /\ (CouplesThere => CouplesThere')
<1>1. /\ UNCHANGED <<kin, pairs, work, raced>>
      /\ UNCHANGED <<person, clanState, member, link, linking, detaching, offers>>
  BY DEF treeVars, linkVars
<1>2. Fine
  BY <1>1, KinUnchanged, NothingFine
<1>3. BornInv'
  BY <1>1 DEF BornInv, ColumnsIn
<1>4. CouplesThere => CouplesThere'
  BY <1>1 DEF CouplesThere, LiveKin
<1> QED
  BY <1>2, <1>3, <1>4

LEMMA DeletePersonCouples ==
  ASSUME BornInv, CouplesThere, DeletePerson, scene' = scene PROVE CouplesThere'
<1>1. PICK f \in LiveKin : DeleteRow(f)
  BY DEF DeletePerson
<1>2. kin' = WithoutKin(kin, f) /\ pairs' = {pair \in pairs : f \notin pair} /\ ColumnsIn(kin)
  BY <1>1 DEF DeleteRow, BornInv
<1>3. ASSUME NEW g \in LiveKin, g # f PROVE g \in LiveKin'
  <2>1. PICK row, new : row = kin[g] /\ new = kin'[g]
    OBVIOUS
  <2>2. g \in Kin /\ row.there = "live" /\ KinColumns \subseteq DOMAIN row
    BY <1>2, <2>1 DEF LiveKin, ColumnsIn
  <2>3. new = [row EXCEPT !.father = IF @ = f THEN NoKin ELSE @, !.mother = IF @ = f THEN NoKin ELSE @]
    BY <1>2, <1>3, <2>1, <2>2 DEF WithoutKin
  <2>4. new.there = "live"
    BY <2>2, <2>3 DEF KinColumns
  <2> QED
    BY <2>1, <2>2, <2>4 DEF LiveKin
<1> QED
  BY <1>2, <1>3 DEF CouplesThere

(* The scenes start with both ends of every link there.                    *)
LEMMA TiesInit == ASSUME Init PROVE TiesInv /\ BornInv /\ CouplesThere
<1>1. PICK s \in Scenes :
        /\ scene = s.scene /\ person = s.person /\ member = s.member /\ kin = s.kin
        /\ clanState = s.clanState /\ link = s.link
  BY DEF Init
<1>2. /\ linking = NoLinking /\ detaching = NoDetach /\ offers = {} /\ pairs = {}
      /\ work = [r \in Relaters |-> NoWork] /\ raced = FALSE
  BY DEF Init
<1>3. SceneOK(s)
  BY ScenesAssumption
<1>4. ColumnsOK
  <2>1. LinkColumns \subseteq DOMAIN NoLink
    BY DEF LinkColumns, NoLink
  <2> QED
    BY <1>1, <1>3, <2>1 DEF ColumnsOK, SceneOK
<1>5. LinkEnds
  <2> SUFFICES ASSUME NEW l \in Links, There(l)
               PROVE  link[l].kin \in LiveKin /\ Founded(link[l].clan) /\ OfClan(link[l].person, link[l].clan)
    BY DEF LinkEnds
  <2>1. /\ link[l].kin \in Kin /\ kin[link[l].kin].there = "live"
        /\ link[l].clan \in Clans /\ clanState[link[l].clan] # "none"
        /\ link[l].person \in Persons /\ person[link[l].person].there # "unborn"
        /\ person[link[l].person].clan = link[l].clan
    BY <1>1, <1>3 DEF SceneOK, There
  <2> QED
    BY <2>1 DEF LiveKin, Founded, OfClan
<1>6. OneEach
  BY <1>1, <1>3 DEF SceneOK, OneEach, There
<1>7. IdsInOrder
  BY <1>1, <1>3 DEF SceneOK, IdsInOrder, FreshLinks
<1>8. TiesInv
  BY <1>2, <1>4, <1>5, <1>6, <1>7 DEF TiesInv, LinkingOK, DetachingOK, OffersOK
<1>9. ColumnsIn(kin)
  BY <1>1, <1>3, UnbornFields DEF SceneOK, ColumnsIn
<1>10. \A r \in Relaters : work[r].born = {}
  BY <1>2 DEF NoWork
<1>11. BornInv
  BY <1>2, <1>9, <1>10 DEF BornInv
<1> QED
  BY <1>2, <1>8, <1>11 DEF CouplesThere

(***************************************************************************)
(* The invariant a linked tree rests on, and what any step keeps of it.    *)
(***************************************************************************)
LinkedInv == TiesInv /\ BornInv /\ CouplesThere /\ TreeInv /\ MarriagesInv
AllExplained == \A f \in LiveKin : f \in LiveKin' => Explained(f)

LEMMA LinkedNext ==
  ASSUME LinkedInv, Next PROVE TiesInv' /\ BornInv' /\ CouplesThere' /\ AllExplained
<1>1. TiesInv /\ BornInv /\ CouplesThere /\ TreeInv /\ MarriagesInv /\ TreeInv' /\ scene' = scene
  BY TreeInvNext DEF LinkedInv, Next
<1>2. ASSUME Fine PROVE TiesInv' /\ AllExplained
  BY <1>2 DEF Fine, AllExplained
<1>3. CASE scene = "kinship" /\ Ask /\ UNCHANGED <<treeVars, linkVars>>
  <2>1. UNCHANGED <<person, member>>
    BY <1>3 DEF Ask
  <2> QED
    BY <1>1, <1>2, <1>3, <2>1, OtherScenesFine
<1>4. ASSUME NEW k \in Clerks, MarriageRequest(k), UNCHANGED <<treeVars, linkVars>>
      PROVE  TiesInv' /\ BornInv' /\ CouplesThere' /\ AllExplained
  <2>1. UNCHANGED <<person, member>>
    <3>1. ASSUME NEW op, NEW u, NEW m, NEW row, Receive(k, op, u, m, row) PROVE UNCHANGED <<person, member>>
      BY <3>1 DEF Receive
    <3>2. ReceiveCreate(k) => UNCHANGED <<person, member>>
      BY <3>1 DEF ReceiveCreate
    <3>3. ReceiveUpdate(k) => UNCHANGED <<person, member>>
      BY <3>1 DEF ReceiveUpdate
    <3>4. ReceiveDelete(k) => UNCHANGED <<person, member>>
      BY <3>1 DEF ReceiveDelete
    <3>5. InsertMarriage(k) \/ SaveMarriage(k) \/ DropMarriage(k) => UNCHANGED <<person, member>>
      BY DEF InsertMarriage, SaveMarriage, DropMarriage, Finished
    <3> QED
      BY <1>4, <3>2, <3>3, <3>4, <3>5 DEF MarriageRequest
  <2> QED
    BY <1>1, <1>2, <1>4, <2>1, OtherScenesFine
<1>5. CASE scene = "tree" /\ TreeRequest /\ UNCHANGED <<clanVars, linkVars>>
  <2>1. Fine /\ BornInv'
    BY <1>1, <1>5, TreeRequestFine
  <2> QED
    BY <1>1, <1>2, <1>5, <2>1 DEF CouplesThere
<1>6. CASE scene = "links" /\ LinkRequest
  <2>1. TreeOK /\ LinksInv
    BY <1>1, <1>6 DEF TreeInv, BornInv, MarriagesInv
  <2>2. Fine /\ CouplesThere'
    BY <1>1, <1>6, <2>1, LinkRequestFine
  <2>3. BornInv'
    BY <1>1, <1>6, LinkRequestBorn
  <2> QED
    BY <1>2, <2>2, <2>3
<1>7. CASE DeletePerson
  <2>1. PICK f \in LiveKin : DeleteRow(f)
    BY <1>7 DEF DeletePerson
  <2>2. UNCHANGED <<work, raced, scene>>
    BY <1>1, <1>7 DEF DeletePerson
  <2>3. BornInv' /\ CouplesThere'
    BY <1>1, <1>7, <2>1, <2>2, DeleteBorn, DeletePersonCouples
  <2>4. TiesInv' /\ AllExplained
    BY <1>1, <1>7, DeletePersonFine DEF BornInv, AllExplained
  <2> QED
    BY <2>3, <2>4
<1> QED
  BY <1>3, <1>4, <1>5, <1>6, <1>7 DEF Next

LEMMA LinkedStutter == ASSUME LinkedInv, UNCHANGED vars PROVE TiesInv' /\ BornInv' /\ CouplesThere'
<1>1. /\ UNCHANGED <<person, member, treeVars, linkVars>> /\ scene' = scene
      /\ TiesInv /\ BornInv /\ CouplesThere
  BY DEF vars, clanVars, LinkedInv
<1>2. Fine /\ BornInv' /\ CouplesThere'
  BY <1>1, OtherScenesFine
<1> QED
  BY <1>2 DEF Fine

(***************************************************************************)
(* What the tree shows of a person changes only for a reason: the owner's  *)
(* edit, an edit of the clan person it is shown from, a link that is new   *)
(* or takes over, or a race on the link that ends.  Otherwise "the user's  *)
(* own tree keeps the last values it showed"                               *)
(* (selectors/family_link_detach.py).                                      *)
(***************************************************************************)
THEOREM TreesKeepWhatTheyShowed == Spec => TreeKeepsWhatItShowed
<1>1. Init => LinkedInv
  BY TiesInit, TreeInit, MarriagesInit DEF LinkedInv
<1>2. LinkedInv /\ [Next]_vars => LinkedInv'
  <2>1. LinkedInv /\ [Next]_vars => TreeInv' /\ MarriagesInv'
    BY TreeInvNext, MarriagesNext DEF LinkedInv
  <2> QED
    BY <2>1, LinkedNext, LinkedStutter DEF LinkedInv
<1>3. LinkedInv /\ [Next]_vars =>
        [\A f \in LiveKin :
           f \in LiveKin' /\ Shown(f)' # Shown(f)
           => PatchPerson \/ PatchUnlinked \/ ClanEdited(f) \/ TakenOver(f) \/ Overtaken(f)]_vars
  BY LinkedNext DEF AllExplained, Explained
<1> QED
  BY <1>1, <1>2, <1>3, PTL DEF Spec, TreeKeepsWhatItShowed
===============================================================================
