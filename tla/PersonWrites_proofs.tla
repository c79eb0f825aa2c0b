-------------------------- MODULE PersonWrites_proofs --------------------------
(***************************************************************************)
(* What the versions of the person rows are worth, for any number of       *)
(* persons, workers, requests and keys.                                    *)
(*                                                                         *)
(* Whatever a request has in memory, its save bumps the version of the row *)
(* in the table, and lists only ids that no other create has (RequestsOK,  *)
(* BatchesApart).  So while an update is served, the row still has the     *)
(* version it read only if nothing but its generation was written since    *)
(* (NothingMissed), which is what the version check relies on.  Rows and   *)
(* requests are typed by the columns the argument reads, and no more.      *)
(*                                                                         *)
(* The second part is about the tree: cycles, pointers to deleted parents, *)
(* revisions and photos.  A step changes the rows in one of eight ways     *)
(* (StepCases); each property says which requests must not overlap.        *)
(*                                                                         *)
(* The third part is about the stored generations: a save stores what was  *)
(* computed on a tree that may have changed since, and recomputes only     *)
(* below a moved person (GenInv).                                          *)
(***************************************************************************)
EXTENDS PersonWrites, Genealogy_proofs

IsRow(row) ==
  /\ {"state", "father", "mother", "note", "gen", "photo", "version"} \subseteq DOMAIN row
  /\ row.version \in Nat

RowsOK ==
  /\ DOMAIN person = Persons
  /\ \A p \in Persons : IsRow(person[p]) /\ (person[p].state = "unborn" => person[p].version = 0)

IsBorn(p) == p \in Persons /\ person[p].state # "unborn"

NewRows(batch) ==
  \A p \in DOMAIN batch :
    /\ p \in Persons /\ person[p].state = "unborn"
    /\ IsRow(batch[p]) /\ batch[p].state = "live" /\ batch[p].version = 1

RequestOK(q) ==
  /\ {"kind", "at", "p", "old", "new", "expected", "batch"} \subseteq DOMAIN q
  /\ q.kind = "create" => NewRows(q.batch)
  /\ q.kind \in {"update", "delete", "restore", "photo", "unphoto"} => IsBorn(q.p)
  /\ q.kind \in {"update", "restore"} => IsRow(q.new) /\ q.new.state # "unborn"
  /\ q.kind = "update" =>
       /\ q.old.version \in Nat
       /\ q.expected # NoVersion => q.expected \in Nat /\ q.expected <= q.old.version

RequestsOK == DOMAIN req = Workers /\ \A w \in Workers : RequestOK(req[w])

BatchesApart ==
  \A v, w \in Workers :
    req[v].kind = "create" /\ req[w].kind = "create" /\ v # w =>
      DOMAIN req[v].batch \cap DOMAIN req[w].batch = {}

NothingMissed ==
  \A w \in Workers :
    LET q == req[w]
    IN q.kind = "update" =>
         /\ q.old.version <= person[q.p].version
         /\ q.old.version = person[q.p].version => Seen(q.old) = Seen(person[q.p])

IInv == RowsOK /\ RequestsOK /\ BatchesApart /\ NothingMissed

(* Setting the generation of a row is not seen, setting its version is.    *)
LEMMA SeenButGen == ASSUME NEW row, NEW g PROVE Seen([row EXCEPT !.gen = g]) = Seen(row)
BY DEF Seen

LEMMA SeenVersion ==
  ASSUME NEW r, NEW s, IsRow(r), IsRow(s), Seen(r) = Seen(s)
  PROVE  r.version = s.version /\ r.state = s.state
<1>1. /\ Seen(r).version = r.version /\ Seen(r).state = r.state
      /\ Seen(s).version = s.version /\ Seen(s).state = s.state
  BY DEF Seen, IsRow
<1> QED
  BY <1>1

LEMMA GenKeepsRow ==
  ASSUME NEW row, IsRow(row), NEW g
  PROVE  /\ IsRow([row EXCEPT !.gen = g])
         /\ [row EXCEPT !.gen = g].state = row.state
         /\ [row EXCEPT !.gen = g].version = row.version
BY DEF IsRow

LEMMA InitIInv == Init => IInv
<1> SUFFICES ASSUME Init PROVE IInv
  OBVIOUS
<1>1. person \in [Persons -> Rows] /\ \A p \in Persons : person[p].state = "unborn" => person[p] = Unsaved
  BY PersonsAssumption DEF Init
<1>2. Unsaved.version = 0
  BY DEF Unsaved
<1>3. \A row \in Rows : IsRow(row)
  BY DEF Rows, IsRow
<1>4. RowsOK
  BY <1>1, <1>2, <1>3 DEF RowsOK
<1>5. DOMAIN req = Workers /\ \A w \in Workers : req[w] = Idle
  BY DEF Init
<1>6. Idle.kind = "idle" /\ {"kind", "at", "p", "old", "new", "expected", "batch"} \subseteq DOMAIN Idle
  BY DEF Idle
<1>7. RequestsOK /\ BatchesApart /\ NothingMissed
  BY <1>5, <1>6 DEF RequestsOK, RequestOK, BatchesApart, NothingMissed
<1> QED
  BY <1>4, <1>7 DEF IInv

(* A request is taken up: no row changes.                                  *)
LEMMA HoldIInv ==
  ASSUME IInv, NEW w \in Workers, NEW q, person' = person, req' = [req EXCEPT ![w] = q],
         RequestOK(q),
         q.kind = "update" => q.old = person[q.p],
         q.kind = "create" => \A v \in Workers : DOMAIN q.batch \cap DOMAIN req[v].batch = {}
  PROVE  IInv'
<1>0. RowsOK /\ RequestsOK /\ BatchesApart /\ NothingMissed
  BY DEF IInv
<1>1. DOMAIN req' = Workers /\ \A v \in Workers : req'[v] = IF v = w THEN q ELSE req[v]
  BY <1>0 DEF RequestsOK
<1>2. RowsOK'
  BY <1>0 DEF RowsOK
<1>3. \A v \in Workers : RequestOK(req[v])'
  <2>1. \A v \in Workers : RequestOK(req'[v])
    BY <1>0, <1>1 DEF RequestsOK
  <2> QED
    BY <2>1 DEF RequestOK, NewRows, IsBorn
<1>4. RequestsOK'
  BY <1>1, <1>3 DEF RequestsOK
<1>5. BatchesApart'
  BY <1>0, <1>1 DEF BatchesApart
<1>6. NothingMissed'
  <2>1. q.kind = "update" => person[q.p].version \in Nat
    BY <1>0 DEF RowsOK, RequestOK, IsBorn, IsRow
  <2> QED
    BY <1>0, <1>1, <2>1 DEF NothingMissed
<1> QED
  BY <1>2, <1>4, <1>5, <1>6 DEF IInv

(* What one step may do to a row: nothing that Seen sees, or one bump; and *)
(* a row comes to be by a create that lists it.                            *)
Kept(p) == IsRow(person'[p]) /\ Seen(person'[p]) = Seen(person[p])
Bump(q, p) ==
  /\ IsRow(person'[p])
  /\ person'[p].state # "unborn"
  /\ person'[p].version = person[p].version + 1
  /\ person[p].state = "unborn" => q.kind = "create" /\ p \in DOMAIN q.batch
RowsStep(q) ==
  /\ DOMAIN person' = Persons
  /\ \A p \in Persons : Kept(p) \/ Bump(q, p)

(* A save: the rows step, and the request ends or goes on to its photo.    *)
LEMMA SaveIInv ==
  ASSUME IInv, NEW w \in Workers, NEW q, RowsStep(req[w]), req' = [req EXCEPT ![w] = q],
         {"kind", "at", "p", "old", "new", "expected", "batch"} \subseteq DOMAIN q,
         q.kind \in {"idle", "photo", "unphoto"},
         q.kind # "idle" => IsBorn(q.p)
  PROVE  IInv'
<1>0. RowsOK /\ RequestsOK /\ BatchesApart /\ NothingMissed
  BY DEF IInv
<1>1. DOMAIN req' = Workers /\ \A v \in Workers : req'[v] = IF v = w THEN q ELSE req[v]
  BY <1>0 DEF RequestsOK
<1>2. \A p \in Persons : Kept(p) => /\ person'[p].version = person[p].version
                                    /\ person'[p].state = person[p].state
  BY <1>0, SeenVersion DEF RowsOK, Kept
<1>3. RowsOK'
  BY <1>0, <1>2 DEF RowsOK, RowsStep, Kept, Bump
<1>4. \A p : IsBorn(p) => IsBorn(p)'
  BY <1>2 DEF IsBorn, RowsStep, Bump
<1>5. ASSUME NEW v \in Workers, v # w PROVE RequestOK(req[v])'
  <2>1. RequestOK(req[v]) /\ req'[v] = req[v]
    BY <1>0, <1>1, <1>5 DEF RequestsOK
  <2>2. req[v].kind = "create" => NewRows(req[v].batch)'
    <3> SUFFICES ASSUME req[v].kind = "create", NEW p \in DOMAIN req[v].batch
                 PROVE  person'[p].state = "unborn"
      BY <2>1 DEF RequestOK, NewRows
    <3>1. p \in Persons /\ person[p].state = "unborn"
      BY <2>1 DEF RequestOK, NewRows
    <3>2. ~Bump(req[w], p)
      BY <1>0, <1>5, <3>1 DEF Bump, BatchesApart
    <3> QED
      BY <1>2, <3>1, <3>2 DEF RowsStep
  <2> QED
    BY <1>4, <2>1, <2>2 DEF RequestOK
<1>6. RequestOK(req[w])'
  BY <1>1, <1>4 DEF RequestOK
<1>7. RequestsOK'
  BY <1>1, <1>5, <1>6 DEF RequestsOK
<1>8. BatchesApart'
  BY <1>0, <1>1 DEF BatchesApart
<1>9. ASSUME NEW v \in Workers, req'[v].kind = "update"
      PROVE  LET r == req'[v]
             IN /\ r.old.version <= person'[r.p].version
                /\ r.old.version = person'[r.p].version => Seen(r.old) = Seen(person'[r.p])
  <2>1. v # w /\ req'[v] = req[v]
    BY <1>1, <1>9
  <2>2. PICK p : p = req[v].p
    OBVIOUS
  <2>3. PICK old : old = req[v].old
    OBVIOUS
  <2>4. p \in Persons /\ old.version \in Nat
    BY <1>0, <1>9, <2>1, <2>2, <2>3 DEF RequestsOK, RequestOK, IsBorn
  <2>5. /\ old.version <= person[p].version
        /\ old.version = person[p].version => Seen(old) = Seen(person[p])
    BY <1>0, <1>9, <2>1, <2>2, <2>3 DEF NothingMissed
  <2>6. person[p].version \in Nat
    BY <1>0, <2>4 DEF RowsOK, IsRow
  <2>7. \/ person'[p].version = person[p].version /\ Seen(person'[p]) = Seen(person[p])
        \/ person'[p].version = person[p].version + 1
    BY <1>2, <2>4 DEF RowsStep, Kept, Bump
  <2>8. /\ old.version <= person'[p].version
        /\ old.version = person'[p].version => Seen(old) = Seen(person'[p])
    BY <2>4, <2>5, <2>6, <2>7
  <2> QED
    BY <2>1, <2>2, <2>3, <2>8
<1>10. NothingMissed'
  BY <1>9 DEF NothingMissed
<1> QED
  BY <1>3, <1>7, <1>8, <1>10 DEF IInv

(* The bump of a row that exists.                                          *)
LEMMA BumpedRow ==
  ASSUME IInv, NEW q, IsBorn(q.p), NEW row, IsRow(row), row.state # "unborn"
  PROVE  /\ IsRow(Bumped(q, row))
         /\ Bumped(q, row).state # "unborn"
         /\ Bumped(q, row).version = person[q.p].version + 1
<1>1. person[q.p].version \in Nat
  BY DEF IInv, RowsOK, IsBorn, IsRow
<1> QED
  BY <1>1 DEF Bumped, IsRow

LEMMA BumpStep ==
  ASSUME IInv, NEW q, IsBorn(q.p), NEW row, IsRow(row), row.state # "unborn",
         person' = [person EXCEPT ![q.p] = Bumped(q, row)]
  PROVE  RowsStep(q)
<1>1. DOMAIN person = Persons /\ \A p \in Persons : IsRow(person[p])
  BY DEF IInv, RowsOK
<1>2. DOMAIN person' = Persons
  BY <1>1
<1>3. q.p \in Persons /\ person[q.p].state # "unborn" /\ person'[q.p] = Bumped(q, row)
  BY <1>1 DEF IsBorn
<1>4. Bump(q, q.p)
  BY <1>3, BumpedRow DEF Bump
<1>5. \A p \in Persons : p # q.p => person'[p] = person[p]
  BY <1>1
<1>6. \A p \in Persons : p # q.p => Kept(p)
  BY <1>1, <1>5 DEF Kept
<1> QED
  BY <1>2, <1>4, <1>6 DEF RowsStep

-----------------------------------------------------------------------------
(* The rows under each save.                                               *)

LEMMA CreateStep == ASSUME IInv, NEW w \in Workers, CreateSave(w) PROVE RowsStep(req[w])
<1>1. PICK q : q = req[w]
  OBVIOUS
<1>2. NewRows(q.batch) /\ q.kind = "create"
  BY <1>1 DEF CreateSave, Serving, IInv, RequestsOK, RequestOK
<1>3. person' = [p \in Persons |-> IF p \in DOMAIN q.batch THEN q.batch[p] ELSE person[p]]
  BY <1>1 DEF CreateSave
<1>4. \A p \in Persons : IsRow(person[p]) /\ (person[p].state = "unborn" => person[p].version = 0)
  BY DEF IInv, RowsOK
<1>5. ASSUME NEW p \in Persons, p \in DOMAIN q.batch PROVE Bump(q, p)
  BY <1>2, <1>3, <1>4, <1>5 DEF Bump, NewRows
<1>6. ASSUME NEW p \in Persons, p \notin DOMAIN q.batch PROVE Kept(p)
  BY <1>3, <1>4, <1>6 DEF Kept
<1> QED
  BY <1>1, <1>3, <1>5, <1>6 DEF RowsStep

LEMMA RegeneratedRows ==
  ASSUME NEW rows, NEW r, DOMAIN rows = Persons, \A p \in Persons : IsRow(rows[p])
  PROVE  /\ DOMAIN Regenerated(rows, r) = Persons
         /\ \A p \in Persons : /\ IsRow(Regenerated(rows, r)[p])
                               /\ Seen(Regenerated(rows, r)[p]) = Seen(rows[p])
                               /\ Regenerated(rows, r)[p].state = rows[p].state
                               /\ Regenerated(rows, r)[p].version = rows[p].version
<1>1. DOMAIN Regenerated(rows, r) = Persons
  BY DEF Regenerated
<1>2. \A p \in Persons : \/ Regenerated(rows, r)[p] = rows[p]
                         \/ \E g : Regenerated(rows, r)[p] = [rows[p] EXCEPT !.gen = g]
  BY DEF Regenerated
<1>3. ASSUME NEW p \in Persons
      PROVE  /\ IsRow(Regenerated(rows, r)[p])
             /\ Seen(Regenerated(rows, r)[p]) = Seen(rows[p])
             /\ Regenerated(rows, r)[p].state = rows[p].state
             /\ Regenerated(rows, r)[p].version = rows[p].version
  <2>1. PICK row : row = Regenerated(rows, r)[p]
    OBVIOUS
  <2>2. CASE row = rows[p]
    BY <2>1, <2>2
  <2>3. CASE \E g : row = [rows[p] EXCEPT !.gen = g]
    <3>1. PICK g : row = [rows[p] EXCEPT !.gen = g]
      BY <2>3
    <3>2. IsRow(row) /\ row.state = rows[p].state /\ row.version = rows[p].version
      BY <3>1, GenKeepsRow
    <3>3. Seen(row) = Seen(rows[p])
      BY <3>1, SeenButGen
    <3> QED
      BY <2>1, <3>2, <3>3
  <2> QED
    BY <1>2, <2>1, <2>2, <2>3
<1> QED
  BY <1>1, <1>3

LEMMA UpdateStep == ASSUME IInv, NEW w \in Workers, UpdateSave(w) PROVE RowsStep(req[w])
<1>1. PICK q : q = req[w]
  OBVIOUS
<1>2. IsBorn(q.p) /\ IsRow(q.new) /\ q.new.state # "unborn"
  BY <1>1 DEF UpdateSave, Serving, IInv, RequestsOK, RequestOK
<1>3. PICK rows : rows = [person EXCEPT ![q.p] = Bumped(q, q.new)]
  OBVIOUS
<1>4. person' = rows \/ person' = Regenerated(rows, q.p)
  BY <1>1, <1>3 DEF UpdateSave
<1>5. DOMAIN person = Persons /\ \A p \in Persons : IsRow(person[p])
  BY DEF IInv, RowsOK
<1>6. /\ DOMAIN rows = Persons /\ q.p \in Persons /\ person[q.p].state # "unborn"
      /\ \A p \in Persons : rows[p] = IF p = q.p THEN Bumped(q, q.new) ELSE person[p]
  BY <1>2, <1>3, <1>5 DEF IsBorn
<1>7. /\ IsRow(rows[q.p]) /\ rows[q.p].state # "unborn"
      /\ rows[q.p].version = person[q.p].version + 1
  BY <1>2, <1>6, BumpedRow
<1>8. \A p \in Persons : IsRow(rows[p])
  BY <1>5, <1>6, <1>7
<1>9. /\ DOMAIN person' = Persons
      /\ \A p \in Persons : /\ IsRow(person'[p])
                            /\ Seen(person'[p]) = Seen(rows[p])
                            /\ person'[p].state = rows[p].state
                            /\ person'[p].version = rows[p].version
  BY <1>4, <1>6, <1>8, RegeneratedRows
<1>10. Bump(q, q.p)
  BY <1>6, <1>7, <1>9 DEF Bump
<1>11. \A p \in Persons : p # q.p => Kept(p)
  BY <1>6, <1>9 DEF Kept
<1> QED
  BY <1>1, <1>9, <1>10, <1>11 DEF RowsStep

LEMMA RecomputeStep == ASSUME IInv, NEW w \in Workers, RecomputeSave(w) PROVE RowsStep(req[w])
<1>1. PICK changed : changed = req[w].batch
  OBVIOUS
<1>2. person' = [p \in Persons |-> IF p \in DOMAIN changed
                                   THEN [person[p] EXCEPT !.gen = changed[p].gen] ELSE person[p]]
  BY <1>1 DEF RecomputeSave
<1>3. \A p \in Persons : IsRow(person[p])
  BY DEF IInv, RowsOK
<1>4. \A p \in Persons : Kept(p)
  BY <1>2, <1>3, GenKeepsRow, SeenButGen DEF Kept
<1> QED
  BY <1>2, <1>4 DEF RowsStep

(* Delete, restore and the photo paths each save one row, bumped.          *)
LEMMA SavedStep ==
  ASSUME IInv, NEW w \in Workers, DeleteSave(w) \/ RestoreSave(w) \/ PhotoSave(w)
  PROVE  RowsStep(req[w])
<1>1. PICK q : q = req[w]
  OBVIOUS
<1>2. IsBorn(q.p) /\ IsRow(person[q.p]) /\ person[q.p].state # "unborn"
  BY <1>1 DEF DeleteSave, RestoreSave, PhotoSave, Serving, IInv, RequestsOK, RequestOK,
              RowsOK, IsBorn
<1>3. DOMAIN person = Persons
  BY DEF IInv, RowsOK
<1>4. CASE DeleteSave(w)
  <2>1. PICK row : row = [person[q.p] EXCEPT !.state = "deleted"]
    OBVIOUS
  <2>2. IsRow(row) /\ row.state # "unborn"
    BY <1>2, <2>1 DEF IsRow
  <2>3. person' = [person EXCEPT ![q.p] = Bumped(q, row)]
    BY <1>1, <1>2, <1>3, <1>4, <2>1 DEF DeleteSave, IsBorn
  <2> QED
    BY <1>1, <1>2, <2>2, <2>3, BumpStep
<1>5. CASE RestoreSave(w)
  <2>1. IsRow(q.new) /\ q.new.state # "unborn"
    BY <1>1, <1>5 DEF RestoreSave, Serving, IInv, RequestsOK, RequestOK
  <2>2. person' = [person EXCEPT ![q.p] = Bumped(q, q.new)]
    BY <1>1, <1>5 DEF RestoreSave
  <2> QED
    BY <1>1, <1>2, <2>1, <2>2, BumpStep
<1>6. CASE PhotoSave(w)
  <2>1. PICK row : row = [person[q.p] EXCEPT !.photo = q.new.photo]
    OBVIOUS
  <2>2. IsRow(row) /\ row.state # "unborn"
    BY <1>2, <2>1 DEF IsRow
  <2>3. person' = [person EXCEPT ![q.p] = Bumped(q, row)]
    BY <1>1, <1>2, <1>3, <1>6, <2>1 DEF PhotoSave, IsBorn
  <2> QED
    BY <1>1, <1>2, <2>2, <2>3, BumpStep
<1> QED
  BY <1>4, <1>5, <1>6

(* A save that writes no row: a conflict, or the photo object dropped.     *)
LEMMA NothingStep == ASSUME IInv, NEW q, person' = person PROVE RowsStep(q)
BY DEF IInv, RowsOK, RowsStep, Kept

-----------------------------------------------------------------------------
(* Every step keeps the invariant, and every row steps.                    *)

LEMMA HeldIInv ==
  ASSUME IInv, NEW w \in Workers, NEW kind, NEW p, NEW old, NEW new, NEW expected, NEW batch,
         Hold(w, kind, p, old, new, expected, batch),
         kind = "create" =>
           NewRows(batch) /\ \A v \in Workers : DOMAIN batch \cap DOMAIN req[v].batch = {},
         kind \in {"update", "delete", "restore", "photo", "unphoto"} => IsBorn(p),
         kind \in {"update", "restore"} => IsRow(new) /\ new.state # "unborn",
         kind = "update" =>
           /\ old = person[p]
           /\ expected # NoVersion => expected \in Nat /\ expected <= old.version
  PROVE  IInv'
<1>1. PICK q : q = [kind |-> kind, at |-> "read", p |-> p, old |-> old, new |-> new,
                    expected |-> expected, batch |-> batch]
  OBVIOUS
<1>2. person' = person /\ req' = [req EXCEPT ![w] = q]
  BY <1>1 DEF Hold
<1>3. /\ {"kind", "at", "p", "old", "new", "expected", "batch"} \subseteq DOMAIN q
      /\ q.kind = kind /\ q.p = p /\ q.old = old /\ q.new = new
      /\ q.expected = expected /\ q.batch = batch
  BY <1>1
<1>4. kind = "update" => old.version \in Nat
  BY DEF IInv, RowsOK, IsBorn, IsRow
<1>5. RequestOK(q)
  BY <1>3, <1>4 DEF RequestOK
<1> QED
  BY <1>2, <1>3, <1>5, HoldIInv

LEMMA ReadIInv ==
  ASSUME IInv, NEW w \in Workers,
         \/ CreateRead(w) \/ UpdateRead(w) \/ DeleteRead(w) \/ RestoreRead(w)
         \/ PhotoRead(w) \/ UnphotoRead(w) \/ RecomputeRead(w)
  PROVE  IInv'
<1>0. \A p \in Persons : IsRow(person[p])
  BY DEF IInv, RowsOK
<1>10. /\ \A p \in Live : IsBorn(p) /\ p \in Persons /\ person[p].state # "unborn"
       /\ \A p \in Born : IsBorn(p) /\ p \in Persons /\ person[p].state # "unborn"
  BY DEF Live, Born, IsBorn
<1>1. CASE CreateRead(w)
  <2>1. PICK ids \in SUBSET (Persons \ Born) : \E father, mother, note :
          /\ \A v \in Workers : ids \cap DOMAIN req[v].batch = {}
          /\ Hold(w, "create", NoPerson, Unsaved, Unsaved, NoVersion,
                  Listed(ids, father, mother, note))
    BY <1>1 DEF CreateRead
  <2>2. PICK father, mother, note :
          /\ \A v \in Workers : ids \cap DOMAIN req[v].batch = {}
          /\ Hold(w, "create", NoPerson, Unsaved, Unsaved, NoVersion,
                  Listed(ids, father, mother, note))
    BY <2>1
  <2>3. PICK batch : batch = Listed(ids, father, mother, note)
    OBVIOUS
  <2>4. IsRow(Unsaved)
    BY DEF Unsaved, IsRow
  <2>5. /\ DOMAIN batch = ids
        /\ \A p \in ids : IsRow(batch[p]) /\ batch[p].state = "live" /\ batch[p].version = 1
    BY <2>3, <2>4 DEF IsRow, Listed
  <2>6. NewRows(batch) /\ \A v \in Workers : DOMAIN batch \cap DOMAIN req[v].batch = {}
    BY <2>2, <2>5 DEF NewRows, Born
  <2> QED
    BY <2>2, <2>3, <2>6, HeldIInv
<1>2. CASE UpdateRead(w)
  <2>0. PICK p \in Live : \E father, mother, note :
          \E expected \in {NoVersion} \cup 1..person[p].version :
            Hold(w, "update", p, person[p],
                 [person[p] EXCEPT !.father = father, !.mother = mother, !.note = note],
                 expected, << >>)
    BY <1>2 DEF UpdateRead
  <2>1. PICK father, mother, note :
          \E expected \in {NoVersion} \cup 1..person[p].version :
            Hold(w, "update", p, person[p],
                 [person[p] EXCEPT !.father = father, !.mother = mother, !.note = note],
                 expected, << >>)
    BY <2>0
  <2>2. PICK new : new = [person[p] EXCEPT !.father = father, !.mother = mother, !.note = note]
    OBVIOUS
  <2>3. IsRow(new) /\ new.state # "unborn"
    BY <1>0, <1>10, <2>2 DEF IsRow
  <2>4. PICK expected \in {NoVersion} \cup 1..person[p].version :
          Hold(w, "update", p, person[p], new, expected, << >>)
    BY <2>1, <2>2
  <2>5. expected # NoVersion => expected \in Nat /\ expected <= person[p].version
    BY <1>0, <1>10 DEF IsRow
  <2> QED
    BY <1>10, <2>3, <2>4, <2>5, HeldIInv
<1>3. CASE DeleteRead(w)
  BY <1>10, <1>3, HeldIInv DEF DeleteRead
<1>4. CASE RestoreRead(w)
  <2>0. PICK p \in Born : \E payload :
          Hold(w, "restore", p, person[p],
               [person[p] EXCEPT !.father = payload.father, !.mother = payload.mother,
                                 !.note = payload.note, !.gen = payload.gen], NoVersion, << >>)
    BY <1>4 DEF RestoreRead
  <2>1. PICK payload :
          Hold(w, "restore", p, person[p],
               [person[p] EXCEPT !.father = payload.father, !.mother = payload.mother,
                                 !.note = payload.note, !.gen = payload.gen], NoVersion, << >>)
    BY <2>0
  <2>2. PICK new : new = [person[p] EXCEPT !.father = payload.father, !.mother = payload.mother,
                                           !.note = payload.note, !.gen = payload.gen]
    OBVIOUS
  <2>3. IsRow(new) /\ new.state # "unborn"
    BY <1>0, <1>10, <2>2 DEF IsRow
  <2> QED
    BY <1>10, <2>1, <2>2, <2>3, HeldIInv
<1>5. CASE PhotoRead(w)
  BY <1>10, <1>5, HeldIInv DEF PhotoRead
<1>6. CASE UnphotoRead(w)
  BY <1>10, <1>6, HeldIInv DEF UnphotoRead
<1>7. CASE RecomputeRead(w)
  <2>1. PICK batch : Hold(w, "recompute", NoPerson, Unsaved, Unsaved, NoVersion, batch)
    BY <1>7 DEF RecomputeRead
  <2> QED
    BY <2>1, HeldIInv
<1> QED
  BY <1>1, <1>2, <1>3, <1>4, <1>5, <1>6, <1>7

LEMMA SaveSteps ==
  ASSUME IInv, NEW w \in Workers,
         \/ CreateSave(w) \/ UpdateSave(w) \/ UpdateConflict(w) \/ DeleteSave(w) \/ RestoreSave(w)
         \/ PhotoSave(w) \/ DropPhoto(w) \/ RecomputeSave(w)
  PROVE  RowsStep(req[w]) /\ IInv'
<1>1. Idle.kind = "idle" /\ {"kind", "at", "p", "old", "new", "expected", "batch"} \subseteq DOMAIN Idle
  BY DEF Idle
<1>2. RowsStep(req[w])
  BY CreateStep, UpdateStep, SavedStep, RecomputeStep, NothingStep DEF UpdateConflict, DropPhoto
<1>3. CASE Done(w)
  BY <1>1, <1>2, <1>3, SaveIInv DEF Done
<1>4. CASE ~Done(w)
  <2>1. PhotoSave(w) /\ req' = [req EXCEPT ![w].at = "saved"]
    BY <1>4 DEF CreateSave, UpdateSave, UpdateConflict, DeleteSave, RestoreSave, PhotoSave,
                DropPhoto, RecomputeSave
  <2>2. RequestOK(req[w]) /\ DOMAIN req = Workers /\ req[w].kind \in {"photo", "unphoto"}
    BY <2>1 DEF IInv, RequestsOK, PhotoSave, Serving
  <2>3. PICK q : q = [req[w] EXCEPT !.at = "saved"]
    OBVIOUS
  <2>4. /\ {"kind", "at", "p", "old", "new", "expected", "batch"} \subseteq DOMAIN q
        /\ q.kind = req[w].kind /\ q.p = req[w].p
    BY <2>2, <2>3 DEF RequestOK
  <2>5. req' = [req EXCEPT ![w] = q]
    BY <2>1, <2>2, <2>3
  <2>6. IsBorn(q.p)
    BY <2>2, <2>4 DEF RequestOK
  <2> QED
    BY <1>2, <2>2, <2>4, <2>5, <2>6, SaveIInv
<1> QED
  BY <1>2, <1>3, <1>4

LEMMA NextIInv ==
  ASSUME IInv, [Next]_vars
  PROVE  IInv' /\ \E q : RowsStep(q)
<1>1. ASSUME person' = person, req' = req PROVE IInv'
  BY <1>1 DEF IInv, RowsOK, RequestsOK, RequestOK, NewRows, IsBorn, BatchesApart, NothingMissed
<1>2. ASSUME NEW w \in Workers, Serve(w) PROVE IInv' /\ \E q : RowsStep(q)
  <2>1. CASE \/ CreateRead(w) \/ UpdateRead(w) \/ DeleteRead(w) \/ RestoreRead(w)
             \/ PhotoRead(w) \/ UnphotoRead(w) \/ RecomputeRead(w)
    <3>1. person' = person
      BY <2>1 DEF CreateRead, UpdateRead, DeleteRead, RestoreRead, PhotoRead, UnphotoRead,
                  RecomputeRead, Hold
    <3> QED
      BY <2>1, <3>1, ReadIInv, NothingStep
  <2>2. CASE \/ CreateSave(w) \/ UpdateSave(w) \/ UpdateConflict(w) \/ DeleteSave(w)
             \/ RestoreSave(w) \/ PhotoSave(w) \/ DropPhoto(w) \/ RecomputeSave(w)
    BY <2>2, SaveSteps
  <2> QED
    BY <1>2, <2>1, <2>2 DEF Serve
<1>3. CASE (\E k \in Keys : Upload(k)) \/ UNCHANGED vars
  BY <1>1, <1>3, NothingStep DEF Upload, vars
<1> QED
  BY <1>2, <1>3 DEF Next

(* The inductive invariant holds in every reachable state.                 *)
THEOREM Invariance == Spec => []IInv
<1>1. IInv /\ [Next]_vars => IInv'
  BY NextIInv
<1> QED
  BY InitIInv, <1>1, PTL DEF Spec

(***************************************************************************)
(* Every write path moves the version of a row it changes up by exactly    *)
(* one, whichever row the request had in memory (lock_and_bump); the       *)
(* derived generation alone is written without.                            *)
(***************************************************************************)
THEOREM WritesAreCounted == Spec => VersionCountsWrites
<1>1. ASSUME IInv, [Next]_vars, NEW p \in Persons, Seen(person'[p]) # Seen(person[p])
      PROVE  person'[p].version = person[p].version + 1
  BY <1>1, NextIInv DEF RowsStep, Kept, Bump
<1>2. IInv /\ [Next]_vars =>
        [\A p \in Persons : Seen(person'[p]) # Seen(person[p])
           => person'[p].version = person[p].version + 1]_vars
  BY <1>1
<1> QED
  BY <1>2, Invariance, PTL DEF Spec, VersionCountsWrites

(***************************************************************************)
(* An update that carried a version replaces the very row it had read: no  *)
(* write of any other path slips in between (person_version.py).           *)
(***************************************************************************)
THEOREM VersionedWritesMissNothing == Spec => VersionedWriteSeesWhatItReplaces
<1>1. ASSUME IInv, [Next]_vars, NEW w \in Workers, Serving(w, "update", "read"),
             req[w].expected # NoVersion, person'[req[w].p] # person[req[w].p], req'[w] # req[w]
      PROVE  Seen(person[req[w].p]) = Seen(req[w].old)
  <2>1. DOMAIN req = Workers /\ Idle.kind = "idle"
    BY <1>1 DEF IInv, RequestsOK, Idle
  <2>2. PICK v \in Workers : Serve(v) /\ person' # person
    BY <1>1 DEF Next, vars, Upload
  <2>3. v = w
    BY <1>1, <2>1, <2>2 DEF Serve, CreateRead, UpdateRead, DeleteRead, RestoreRead, PhotoRead,
      UnphotoRead, RecomputeRead, Hold, CreateSave, UpdateSave, UpdateConflict, DeleteSave,
      RestoreSave, PhotoSave, DropPhoto, RecomputeSave, Done
  <2>4. UpdateSave(w)
    BY <1>1, <2>2, <2>3 DEF Serve, CreateRead, UpdateRead, DeleteRead, RestoreRead, PhotoRead,
      UnphotoRead, RecomputeRead, Hold, CreateSave, UpdateConflict, DeleteSave,
      RestoreSave, PhotoSave, DropPhoto, RecomputeSave, Serving
  <2>5. person[req[w].p].version = req[w].expected
    BY <1>1, <2>4 DEF UpdateSave, VersionHolds
  <2>6. /\ req[w].kind = "update" /\ IsBorn(req[w].p)
        /\ req[w].expected \in Nat /\ req[w].expected <= req[w].old.version
        /\ req[w].old.version \in Nat
    BY <1>1 DEF IInv, RequestsOK, RequestOK, Serving
  <2>7. req[w].old.version <= person[req[w].p].version
    BY <1>1, <2>6 DEF IInv, NothingMissed
  <2>8. req[w].old.version = person[req[w].p].version
    BY <2>5, <2>6, <2>7
  <2> QED
    BY <1>1, <2>6, <2>8 DEF IInv, NothingMissed
<1>2. IInv /\ [Next]_vars =>
        [\A w \in Workers :
           LET q == req[w]
           IN Serving(w, "update", "read") /\ q.expected # NoVersion /\ person'[q.p] # person[q.p]
                /\ req'[w] # q
              => Seen(person[q.p]) = Seen(q.old)]_vars
  BY <1>1
<1> QED
  BY <1>2, Invariance, PTL DEF Spec, VersionedWriteSeesWhatItReplaces

-----------------------------------------------------------------------------
(* What each save leaves of the rows, but for the generation and version.  *)

Like(r, s) ==
  /\ r.state = s.state /\ r.father = s.father /\ r.mother = s.mother
  /\ r.note = s.note /\ r.photo = s.photo

LEMMA SeenLike == ASSUME NEW r, NEW s, IsRow(r), IsRow(s), Seen(r) = Seen(s) PROVE Like(r, s)
<1>1. \A row : IsRow(row) =>
        /\ Seen(row).state = row.state /\ Seen(row).father = row.father
        /\ Seen(row).mother = row.mother /\ Seen(row).note = row.note
        /\ Seen(row).photo = row.photo
  BY DEF Seen, IsRow
<1> QED
  BY <1>1 DEF Like

LEMMA BumpedLike == ASSUME NEW q, NEW row, IsRow(row) PROVE Like(Bumped(q, row), row)
BY DEF Bumped, Like, IsRow

Ended(w) == \A v \in Workers : req'[v] = IF v = w THEN Idle ELSE req[v]

LEMMA DoneEnds == ASSUME IInv, NEW w \in Workers, Done(w) PROVE Ended(w)
BY DEF IInv, RequestsOK, Done, Ended

LEMMA CreateEffect ==
  ASSUME IInv, NEW w \in Workers, CreateSave(w)
  PROVE  /\ req[w].kind = "create" /\ NewRows(req[w].batch) /\ Ended(w)
         /\ \A p \in Persons : person'[p] = IF p \in DOMAIN req[w].batch THEN req[w].batch[p] ELSE person[p]
         /\ \A p \in Persons : p \notin DOMAIN req[w].batch => revisions'[p] = revisions[p]
         /\ objects' = objects
<1>1. req[w].kind = "create" /\ NewRows(req[w].batch) /\ Done(w)
  BY DEF CreateSave, Serving, IInv, RequestsOK, RequestOK
<1> QED
  BY <1>1, DoneEnds DEF CreateSave

LEMMA MoverEffect ==
  ASSUME IInv, NEW w \in Workers, UpdateSave(w) \/ RestoreSave(w)
  PROVE  /\ req[w].kind \in {"update", "restore"} /\ IsBorn(req[w].p) /\ Ended(w)
         /\ IsRow(req[w].new) /\ req[w].new.state # "unborn"
         /\ Like(person'[req[w].p], req[w].new)
         /\ \A p \in Persons : p # req[w].p => Like(person'[p], person[p])
         /\ revisions' = Recorded(req[w]) /\ objects' = objects
<1>1. PICK q : q = req[w]
  OBVIOUS
<1>2. /\ q.kind \in {"update", "restore"} /\ Done(w) /\ revisions' = Recorded(q)
      /\ objects' = objects
  BY <1>1 DEF UpdateSave, RestoreSave, Serving
<1>3. IsBorn(q.p) /\ IsRow(q.new) /\ q.new.state # "unborn"
  BY <1>1, <1>2 DEF IInv, RequestsOK, RequestOK
<1>4. DOMAIN person = Persons /\ \A p \in Persons : IsRow(person[p])
  BY DEF IInv, RowsOK
<1>5. PICK rows : rows = [person EXCEPT ![q.p] = Bumped(q, q.new)]
  OBVIOUS
<1>6. /\ DOMAIN rows = Persons /\ q.p \in Persons
      /\ \A p \in Persons : rows[p] = IF p = q.p THEN Bumped(q, q.new) ELSE person[p]
  BY <1>3, <1>4, <1>5 DEF IsBorn
<1>7. IsRow(Bumped(q, q.new)) /\ Like(rows[q.p], q.new)
  BY <1>3, <1>6, BumpedRow, BumpedLike
<1>8. \A p \in Persons : IsRow(rows[p])
  BY <1>4, <1>6, <1>7
<1>9. person' = rows \/ person' = Regenerated(rows, q.p)
  BY <1>1, <1>5 DEF UpdateSave, RestoreSave
<1>10. \A p \in Persons : Like(person'[p], rows[p])
  <2>1. CASE person' = rows
    BY <2>1 DEF Like
  <2>2. CASE person' = Regenerated(rows, q.p)
    BY <1>6, <1>8, <2>2, RegeneratedRows, SeenLike
  <2> QED
    BY <1>9, <2>1, <2>2
<1> QED
  BY <1>1, <1>2, <1>3, <1>6, <1>7, <1>10, DoneEnds DEF Like

LEMMA DeleteEffect ==
  ASSUME IInv, NEW w \in Workers, DeleteSave(w)
  PROVE  /\ req[w].kind = "delete" /\ IsBorn(req[w].p) /\ Ended(w)
         /\ Like(person'[req[w].p], [person[req[w].p] EXCEPT !.state = "deleted"])
         /\ IsRow(person[req[w].p])
         /\ \A p \in Persons : p # req[w].p => person'[p] = person[p]
         /\ objects' = objects
         /\ \A p \in Persons : p # req[w].p => revisions'[p] = revisions[p]
<1>1. PICK q : q = req[w]
  OBVIOUS
<1>2. q.kind = "delete" /\ Done(w) /\ objects' = objects /\ revisions' = Recorded(q)
  BY <1>1 DEF DeleteSave, Serving
<1>3. IsBorn(q.p) /\ q.p \in Persons
  BY <1>1, <1>2 DEF IInv, RequestsOK, RequestOK, IsBorn
<1>4. DOMAIN person = Persons /\ IsRow(person[q.p])
  BY <1>3 DEF IInv, RowsOK
<1>5. PICK row : row = [person[q.p] EXCEPT !.state = "deleted"]
  OBVIOUS
<1>6. IsRow(row)
  BY <1>4, <1>5 DEF IsRow
<1>7. person' = [person EXCEPT ![q.p] = Bumped(q, row)]
  BY <1>1, <1>3, <1>4, <1>5 DEF DeleteSave
<1>8. person'[q.p] = Bumped(q, row) /\ \A p \in Persons : p # q.p => person'[p] = person[p]
  BY <1>3, <1>4, <1>7
<1> QED
  BY <1>1, <1>2, <1>3, <1>4, <1>5, <1>6, <1>8, BumpedLike, DoneEnds DEF Recorded

LEMMA PhotoEffect ==
  ASSUME IInv, NEW w \in Workers, PhotoSave(w)
  PROVE  /\ req[w].kind \in {"photo", "unphoto"} /\ IsBorn(req[w].p)
         /\ Like(person'[req[w].p], [person[req[w].p] EXCEPT !.photo = req[w].new.photo])
         /\ IsRow(person[req[w].p])
         /\ \A p \in Persons : p # req[w].p => person'[p] = person[p]
         /\ objects' = objects
<1>1. PICK q : q = req[w]
  OBVIOUS
<1>2. q.kind \in {"photo", "unphoto"} /\ objects' = objects
  BY <1>1 DEF PhotoSave, Serving
<1>3. IsBorn(q.p) /\ q.p \in Persons
  BY <1>1, <1>2 DEF IInv, RequestsOK, RequestOK, IsBorn
<1>4. DOMAIN person = Persons /\ IsRow(person[q.p])
  BY <1>3 DEF IInv, RowsOK
<1>5. PICK row : row = [person[q.p] EXCEPT !.photo = q.new.photo]
  OBVIOUS
<1>6. IsRow(row)
  BY <1>4, <1>5 DEF IsRow
<1>7. person' = [person EXCEPT ![q.p] = Bumped(q, row)]
  BY <1>1, <1>3, <1>4, <1>5 DEF PhotoSave
<1>8. person'[q.p] = Bumped(q, row) /\ \A p \in Persons : p # q.p => person'[p] = person[p]
  BY <1>3, <1>4, <1>7
<1> QED
  BY <1>1, <1>2, <1>3, <1>4, <1>5, <1>6, <1>8, BumpedLike

\* A photo request ends, or goes on to drop the object it replaced.
LEMMA PhotoEnds ==
  ASSUME IInv, NEW w \in Workers, PhotoSave(w)
  PROVE  \A v \in Workers : \/ v # w /\ req'[v] = req[v]
                            \/ v = w /\ req'[v] = Idle /\ ~ReplacesPhoto(req[w])
                            \/ /\ v = w /\ req'[v].kind = req[w].kind
                               /\ req'[v].kind \in {"photo", "unphoto"} /\ req'[v].at = "saved"
                               /\ req'[v].p = req[w].p /\ req'[v].old = req[w].old
                               /\ ReplacesPhoto(req[w])
<1>1. RequestOK(req[w]) /\ DOMAIN req = Workers /\ req[w].kind \in {"photo", "unphoto"}
  BY DEF IInv, RequestsOK, PhotoSave, Serving
<1>2. PICK q : q = [req[w] EXCEPT !.at = "saved"]
  OBVIOUS
<1>3. q.kind = req[w].kind /\ q.at = "saved" /\ q.p = req[w].p /\ q.old = req[w].old
  BY <1>1, <1>2 DEF RequestOK
<1>4. CASE ReplacesPhoto(req[w])
  <2>1. req' = [req EXCEPT ![w] = q]
    BY <1>1, <1>2, <1>4 DEF PhotoSave
  <2> QED
    BY <1>1, <1>3, <1>4, <2>1
<1>5. CASE ~ReplacesPhoto(req[w])
  BY <1>1, <1>5 DEF PhotoSave, Done
<1> QED
  BY <1>4, <1>5

LEMMA RecomputeEffect ==
  ASSUME IInv, NEW w \in Workers, RecomputeSave(w)
  PROVE  Ended(w) /\ objects' = objects /\ \A p \in Persons : Like(person'[p], person[p])
<1>1. PICK changed : changed = req[w].batch
  OBVIOUS
<1>2. person' = [p \in Persons |-> IF p \in DOMAIN changed
                                   THEN [person[p] EXCEPT !.gen = changed[p].gen] ELSE person[p]]
  BY <1>1 DEF RecomputeSave
<1>3. \A p \in Persons : IsRow(person[p])
  BY DEF IInv, RowsOK
<1>4. \A row, g : IsRow(row) => Like([row EXCEPT !.gen = g], row)
  BY DEF IsRow, Like
<1>5. \A p \in Persons : Like(person'[p], person[p])
  BY <1>2, <1>3, <1>4 DEF Like
<1> QED
  BY <1>5, DoneEnds DEF RecomputeSave

(* Taking up a request: what its handler has read and checked.             *)
Took(w, q) ==
  /\ q.at = "read"
  /\ \A v \in Workers : req'[v] = IF v = w THEN q ELSE req[v]
  /\ person' = person /\ revisions' = revisions /\ objects' = objects

Movers == {"update", "restore"}

Checked(q) ==
  /\ q.kind = "create" =>
       \A p \in DOMAIN q.batch : ParentsOf(q.batch[p]) \subseteq Live /\ q.batch[p].photo = NoKey
  /\ q.kind \in Movers =>
       /\ q.old = person[q.p] /\ ParentsAllowed(Edges, q.p, q.new)
       /\ q.new.state = person[q.p].state /\ q.new.photo = person[q.p].photo
  /\ q.kind = "delete" => ChildrenOf(q.p) = {}
  /\ q.kind = "photo" =>
       q.new.photo \in Keys /\ BelongsTo(q.new.photo, q.p) /\ InBucket(q.new.photo)
  /\ q.kind = "unphoto" => q.new.photo = NoKey
  /\ q.kind \in {"photo", "unphoto"} => q.old = person[q.p]

LEMMA HoldTakes ==
  ASSUME IInv, NEW w \in Workers, NEW kind, NEW p, NEW old, NEW new, NEW expected, NEW batch,
         Hold(w, kind, p, old, new, expected, batch)
  PROVE  \E q : /\ Took(w, q) /\ q.kind = kind /\ q.p = p /\ q.old = old /\ q.new = new
                /\ q.batch = batch
<1>1. PICK q : q = [kind |-> kind, at |-> "read", p |-> p, old |-> old, new |-> new,
                    expected |-> expected, batch |-> batch]
  OBVIOUS
<1>2. Took(w, q)
  BY <1>1 DEF Took, Hold, IInv, RequestsOK
<1> QED
  BY <1>1, <1>2

LEMMA ReadEffect ==
  ASSUME IInv, NEW w \in Workers,
         \/ CreateRead(w) \/ UpdateRead(w) \/ DeleteRead(w) \/ RestoreRead(w)
         \/ PhotoRead(w) \/ UnphotoRead(w) \/ RecomputeRead(w)
  PROVE  \E q : Took(w, q) /\ Checked(q)
<1>0. \A p \in Persons : IsRow(person[p])
  BY DEF IInv, RowsOK
<1>10. Live \subseteq Persons /\ Born \subseteq Persons
  BY DEF Live, Born
<1>1. CASE CreateRead(w)
  <2>1. PICK ids \in SUBSET (Persons \ Born) :
          \E father, mother \in [ids -> Live \cup {NoPerson}], note \in Notes :
            Hold(w, "create", NoPerson, Unsaved, Unsaved, NoVersion,
                 Listed(ids, father, mother, note))
    BY <1>1 DEF CreateRead
  <2>2. PICK father, mother \in [ids -> Live \cup {NoPerson}], note \in Notes :
          Hold(w, "create", NoPerson, Unsaved, Unsaved, NoVersion, Listed(ids, father, mother, note))
    BY <2>1
  <2>3. PICK batch : batch = Listed(ids, father, mother, note)
    OBVIOUS
  <2>4. /\ DOMAIN batch = ids
        /\ \A p \in ids : /\ batch[p].father = father[p] /\ batch[p].mother = mother[p]
                          /\ batch[p].photo = NoKey
    BY <2>3 DEF Unsaved, Listed
  <2>5. \A p \in DOMAIN batch : ParentsOf(batch[p]) \subseteq Live
    BY <2>2, <2>4 DEF ParentsOf
  <2>6. PICK q : Took(w, q) /\ q.kind = "create" /\ q.batch = batch
    BY <2>2, <2>3, HoldTakes
  <2> QED
    BY <2>4, <2>5, <2>6 DEF Checked, Movers
<1>2. CASE UpdateRead(w)
  <2>0. PICK p \in Live : \E father, mother, note, expected :
          LET new == [person[p] EXCEPT !.father = father, !.mother = mother, !.note = note]
          IN ParentsAllowed(Edges, p, new) /\ Hold(w, "update", p, person[p], new, expected, << >>)
    BY <1>2 DEF UpdateRead
  <2>1. PICK father, mother, note, expected :
          LET new == [person[p] EXCEPT !.father = father, !.mother = mother, !.note = note]
          IN ParentsAllowed(Edges, p, new) /\ Hold(w, "update", p, person[p], new, expected, << >>)
    BY <2>0
  <2>2. PICK new : new = [person[p] EXCEPT !.father = father, !.mother = mother, !.note = note]
    OBVIOUS
  <2>3. ParentsAllowed(Edges, p, new) /\ Hold(w, "update", p, person[p], new, expected, << >>)
    BY <2>1, <2>2
  <2>4. new.state = person[p].state /\ new.photo = person[p].photo
    BY <1>0, <1>10, <2>2 DEF IsRow
  <2>5. PICK q : Took(w, q) /\ q.kind = "update" /\ q.p = p /\ q.old = person[p] /\ q.new = new
    BY <2>3, HoldTakes
  <2> QED
    BY <2>3, <2>4, <2>5 DEF Checked, Movers
<1>3. CASE DeleteRead(w)
  <2>1. PICK p \in Live :
          ChildrenOf(p) = {} /\ \E new : Hold(w, "delete", p, person[p], new, NoVersion, << >>)
    BY <1>3 DEF DeleteRead
  <2>2. PICK q : Took(w, q) /\ q.kind = "delete" /\ q.p = p
    BY <2>1, HoldTakes
  <2> QED
    BY <2>1, <2>2 DEF Checked, Movers
<1>4. CASE RestoreRead(w)
  <2>0. PICK p \in Born : \E payload :
          LET new == [person[p] EXCEPT !.father = payload.father, !.mother = payload.mother,
                                       !.note = payload.note, !.gen = payload.gen]
          IN ParentsAllowed(Edges, p, new) /\ Hold(w, "restore", p, person[p], new, NoVersion, << >>)
    BY <1>4 DEF RestoreRead
  <2>1. PICK payload :
          LET new == [person[p] EXCEPT !.father = payload.father, !.mother = payload.mother,
                                       !.note = payload.note, !.gen = payload.gen]
          IN ParentsAllowed(Edges, p, new) /\ Hold(w, "restore", p, person[p], new, NoVersion, << >>)
    BY <2>0
  <2>2. PICK new : new = [person[p] EXCEPT !.father = payload.father, !.mother = payload.mother,
                                           !.note = payload.note, !.gen = payload.gen]
    OBVIOUS
  <2>3. ParentsAllowed(Edges, p, new) /\ Hold(w, "restore", p, person[p], new, NoVersion, << >>)
    BY <2>1, <2>2
  <2>4. new.state = person[p].state /\ new.photo = person[p].photo
    BY <1>0, <1>10, <2>2 DEF IsRow
  <2>5. PICK q : Took(w, q) /\ q.kind = "restore" /\ q.p = p /\ q.old = person[p] /\ q.new = new
    BY <2>3, HoldTakes
  <2> QED
    BY <2>3, <2>4, <2>5 DEF Checked, Movers
<1>5. CASE PhotoRead(w)
  <2>1. PICK p \in Live, k \in Keys :
          /\ BelongsTo(k, p) /\ InBucket(k)
          /\ Hold(w, "photo", p, person[p], [person[p] EXCEPT !.photo = k], NoVersion, << >>)
    BY <1>5 DEF PhotoRead
  <2>2. PICK new : new = [person[p] EXCEPT !.photo = k]
    OBVIOUS
  <2>3. new.photo = k
    BY <1>0, <1>10, <2>2 DEF IsRow
  <2>4. PICK q : Took(w, q) /\ q.kind = "photo" /\ q.p = p /\ q.old = person[p] /\ q.new = new
    BY <2>1, <2>2, HoldTakes
  <2> QED
    BY <2>1, <2>3, <2>4 DEF Checked, Movers
<1>6. CASE UnphotoRead(w)
  <2>1. PICK p \in Live :
          Hold(w, "unphoto", p, person[p], [person[p] EXCEPT !.photo = NoKey], NoVersion, << >>)
    BY <1>6 DEF UnphotoRead
  <2>2. PICK new : new = [person[p] EXCEPT !.photo = NoKey]
    OBVIOUS
  <2>3. new.photo = NoKey
    BY <1>0, <1>10, <2>2 DEF IsRow
  <2>4. PICK q : Took(w, q) /\ q.kind = "unphoto" /\ q.p = p /\ q.old = person[p] /\ q.new = new
    BY <2>1, <2>2, HoldTakes
  <2> QED
    BY <2>3, <2>4 DEF Checked, Movers
<1>7. CASE RecomputeRead(w)
  <2>1. PICK batch : Hold(w, "recompute", NoPerson, Unsaved, Unsaved, NoVersion, batch)
    BY <1>7 DEF RecomputeRead
  <2>2. PICK q : Took(w, q) /\ q.kind = "recompute"
    BY <2>1, HoldTakes
  <2> QED
    BY <2>2 DEF Checked, Movers
<1> QED
  BY <1>1, <1>2, <1>3, <1>4, <1>5, <1>6, <1>7

(* The steps of the specification, one case each.                          *)
Reads(w) ==
  \/ CreateRead(w) \/ UpdateRead(w) \/ DeleteRead(w) \/ RestoreRead(w)
  \/ PhotoRead(w) \/ UnphotoRead(w) \/ RecomputeRead(w)
Quiet ==
  person' = person /\ revisions' = revisions /\ req' = req /\ objects \subseteq objects'

LEMMA StepCases ==
  ASSUME IInv, [Next]_vars
  PROVE  \/ Quiet
         \/ \E w \in Workers : \E q : Took(w, q) /\ Checked(q)
         \/ \E w \in Workers : CreateSave(w)
         \/ \E w \in Workers : UpdateSave(w) \/ RestoreSave(w)
         \/ \E w \in Workers : DeleteSave(w)
         \/ \E w \in Workers : PhotoSave(w)
         \/ \E w \in Workers : RecomputeSave(w)
         \/ \E w \in Workers : UpdateConflict(w) \/ DropPhoto(w)
<1>1. CASE \E w \in Workers : Reads(w)
  BY <1>1, ReadEffect DEF Reads
<1>2. CASE (\E k \in Keys : Upload(k)) \/ UNCHANGED vars
  BY <1>2 DEF Upload, vars, Quiet
<1> QED
  BY <1>1, <1>2 DEF Next, Serve, Reads

-----------------------------------------------------------------------------
(* The tree stays one.  Parents are rows, in the table and in what is      *)
(* about to be saved, and the parents about to be saved are not below the  *)
(* person: creates, deletes and photos keep that true, and no other update *)
(* or restore comes in between.                                            *)

\* No request of a kind in A overlaps with one of another worker in B.
Apart(A, B) == \A v, w \in Workers : v # w => ~(req[v].kind \in A /\ req[w].kind \in B)

ParentsBorn == \A c \in Born : ParentsOf(person[c]) \subseteq Born
BatchBorn(q) == q.kind = "create" => \A p \in DOMAIN q.batch : ParentsOf(q.batch[p]) \subseteq Born
MoveAllowed(q) ==
  q.kind \in Movers =>
    /\ ParentsOf(q.new) \subseteq Born
    /\ q.p \notin ParentsOf(q.new)
    /\ ParentsOf(q.new) \cap Descendants(Edges, q.p) = {}
TreeInv ==
  /\ ParentsBorn
  /\ \A w \in Workers : BatchBorn(req[w]) /\ MoveAllowed(req[w])
  /\ Acyclic(Edges)

LEMMA EdgesFinite ==
  /\ DOMAIN Edges = Live /\ IsFiniteSet(DOMAIN Edges)
  /\ \A p \in Live : Edges[p] = ParentsOf(person[p])
<1>1. DOMAIN Edges = Live /\ Live \subseteq Persons
  BY DEF Edges, EdgesOf, Live
<1> QED
  BY <1>1, PersonsAssumption, FS_Subset DEF Edges, EdgesOf

LEMMA EdgesNext ==
  /\ DOMAIN Edges' = Live' /\ IsFiniteSet(DOMAIN Edges')
  /\ \A p \in Live' : Edges'[p] = ParentsOf(person'[p])
<1>1. DOMAIN Edges' = Live' /\ Live' \subseteq Persons
  BY DEF Edges, EdgesOf, Live
<1> QED
  BY <1>1, PersonsAssumption, FS_Subset DEF Edges, EdgesOf

LEMMA PrunedKeepsTree ==
  ASSUME IInv, TreeInv, NEW leaves, Pruned(Edges, Edges', leaves), leaves \cap Born = {},
         Born \subseteq Born', ParentsBorn',
         \A v \in Workers : req'[v] = req[v] \/ req'[v].kind \notin Movers \cup {"create"}
  PROVE  TreeInv'
<1>1. Acyclic(Edges')
  BY EdgesFinite, EdgesNext, LeavesKeepAcyclic DEF TreeInv
<1>2. \A p : Descendants(Edges', p) \subseteq Descendants(Edges, p) \cup leaves
  BY EdgesFinite, EdgesNext, DescendantsPruned
<1>3. ASSUME NEW v \in Workers PROVE BatchBorn(req[v])' /\ MoveAllowed(req[v])'
  <2>1. CASE req'[v].kind \notin Movers \cup {"create"}
    BY <2>1 DEF BatchBorn, MoveAllowed
  <2>2. CASE req'[v] = req[v]
    <3>1. BatchBorn(req[v]) /\ MoveAllowed(req[v])
      BY DEF TreeInv
    <3> QED
      BY <1>2, <2>2, <3>1 DEF BatchBorn, MoveAllowed
  <2> QED
    BY <2>1, <2>2
<1> QED
  BY <1>1, <1>3 DEF TreeInv

LEMMA InitTree == Init => TreeInv
<1> SUFFICES ASSUME Init PROVE TreeInv
  OBVIOUS
<1>1. /\ person \in InitialTrees
      /\ \A p \in Persons : (\A q \in ParentsOf(person[p]) : person[q].state = "live")
                            /\ p \notin Descendants(Edges, p)
  BY TreesAssumption DEF Init, Edges
<1>2. person \in [Persons -> Rows]
  BY <1>1, PersonsAssumption
<1>3. \A p \in Persons : ParentsOf(person[p]) \subseteq Persons
  BY <1>2 DEF Rows, ParentsOf, Parents
<1>4. ParentsBorn
  BY <1>1, <1>3 DEF ParentsBorn, Born
<1>5. Acyclic(Edges)
  BY <1>1, EdgesFinite DEF Acyclic, Live
<1>6. \A w \in Workers : req[w].kind = "idle"
  BY DEF Init, Idle
<1> QED
  BY <1>4, <1>5, <1>6 DEF TreeInv, BatchBorn, MoveAllowed, Movers

LEMMA LikeParents == ASSUME NEW r, NEW s, Like(r, s) PROVE ParentsOf(r) = ParentsOf(s)
BY DEF Like, ParentsOf

\* Rows that are as before but that some may be deleted.
LEMMA ThinnedKeepsTree ==
  ASSUME IInv, TreeInv,
         \A p \in Persons : /\ ParentsOf(person'[p]) = ParentsOf(person[p])
                            /\ \/ person'[p].state = person[p].state
                               \/ person[p].state # "unborn" /\ person'[p].state = "deleted",
         \A v \in Workers : req'[v] = req[v] \/ req'[v].kind \notin Movers \cup {"create"}
  PROVE  TreeInv'
<1>1. Born' = Born /\ Live' \subseteq Live
  BY DEF Born, Live
<1>2. ParentsBorn'
  BY <1>1 DEF TreeInv, ParentsBorn, Born
<1>3. Pruned(Edges, Edges', {})
  BY <1>1, EdgesFinite, EdgesNext DEF Pruned, Live
<1> QED
  BY <1>1, <1>2, <1>3, PrunedKeepsTree

LEMMA TookTree ==
  ASSUME IInv, TreeInv, NEW w \in Workers, NEW q, Took(w, q), Checked(q)
  PROVE  TreeInv'
<1>1. Edges' = Edges /\ Born' = Born
  BY DEF Took, Edges, Born
<1>2. Live \subseteq Born
  BY DEF Live, Born
<1>3. BatchBorn(q)
  BY <1>2 DEF Checked, BatchBorn
<1>4. MoveAllowed(q)
  BY <1>2, EdgesFinite DEF Checked, MoveAllowed, ParentsAllowed
<1>5. \A v \in Workers : BatchBorn(req'[v]) /\ MoveAllowed(req'[v])
  BY <1>3, <1>4 DEF Took, TreeInv
<1>6. \A r : BatchBorn(r)' = BatchBorn(r) /\ MoveAllowed(r)' = MoveAllowed(r)
  BY <1>1 DEF BatchBorn, MoveAllowed
<1>7. ParentsBorn'
  BY <1>1 DEF Took, TreeInv, ParentsBorn
<1> QED
  BY <1>1, <1>5, <1>6, <1>7 DEF TreeInv, BatchBorn, MoveAllowed

LEMMA CreateTree ==
  ASSUME IInv, TreeInv, NEW w \in Workers, CreateSave(w)
  PROVE  TreeInv'
<1>1. PICK batch : batch = req[w].batch
  OBVIOUS
<1>2. /\ NewRows(batch) /\ Ended(w) /\ req[w].kind = "create"
      /\ \A p \in Persons : person'[p] = IF p \in DOMAIN batch THEN batch[p] ELSE person[p]
  BY <1>1, CreateEffect
<1>3. \A p \in DOMAIN batch : ParentsOf(batch[p]) \subseteq Born
  BY <1>1, <1>2 DEF TreeInv, BatchBorn
<1>4. /\ DOMAIN batch \subseteq Persons /\ DOMAIN batch \cap Born = {}
      /\ \A p \in DOMAIN batch : batch[p].state = "live"
  BY <1>2 DEF NewRows, Born
<1>5. Born' = Born \cup DOMAIN batch /\ Live' = Live \cup DOMAIN batch
  BY <1>2, <1>4 DEF Born, Live
<1>6. Live \subseteq Born /\ Born \subseteq Persons
  BY DEF Live, Born
<1>7. \A c \in Born' : ParentsOf(person'[c]) \subseteq Born
  BY <1>2, <1>3, <1>4, <1>5, <1>6 DEF TreeInv, ParentsBorn
<1>8. ParentsBorn'
  BY <1>5, <1>7 DEF ParentsBorn
<1>9. Pruned(Edges, Edges', DOMAIN batch)
  <2>1. \A c \in DOMAIN Edges' \ DOMAIN batch : c \in DOMAIN Edges /\ Edges'[c] \subseteq Edges[c]
    BY <1>2, <1>5, <1>6, EdgesFinite, EdgesNext
  <2>2. \A c \in DOMAIN batch : Children(Edges', c) = {}
    BY <1>4, <1>5, <1>6, <1>7, EdgesNext DEF Children
  <2> QED
    BY <2>1, <2>2 DEF Pruned
<1>10. \A v \in Workers : req'[v] = req[v] \/ req'[v].kind \notin Movers \cup {"create"}
  BY <1>2 DEF Ended, Idle, Movers
<1> QED
  BY <1>4, <1>5, <1>8, <1>9, <1>10, PrunedKeepsTree

LEMMA MoveTree ==
  ASSUME IInv, TreeInv, Apart(Movers, Movers), NEW w \in Workers, UpdateSave(w) \/ RestoreSave(w)
  PROVE  TreeInv'
<1>1. PICK q : q = req[w]
  OBVIOUS
<1>2. /\ q.kind \in Movers /\ IsBorn(q.p) /\ Ended(w) /\ q.new.state # "unborn"
      /\ Like(person'[q.p], q.new)
      /\ \A p \in Persons : p # q.p => Like(person'[p], person[p])
  BY <1>1, MoverEffect DEF Movers
<1>3. /\ ParentsOf(q.new) \subseteq Born /\ q.p \notin ParentsOf(q.new)
      /\ ParentsOf(q.new) \cap Descendants(Edges, q.p) = {}
  BY <1>1, <1>2 DEF TreeInv, MoveAllowed
<1>4. /\ \A p \in Persons : ParentsOf(person'[p]) = IF p = q.p THEN ParentsOf(q.new) ELSE ParentsOf(person[p])
      /\ \A p \in Persons : person'[p].state = IF p = q.p THEN q.new.state ELSE person[p].state
  BY <1>2, LikeParents DEF Like
<1>5. q.p \in Born /\ Born' = Born /\ Live' \ {q.p} = Live \ {q.p} /\ Born \subseteq Persons
  BY <1>2, <1>4 DEF Born, Live, IsBorn
<1>6. ParentsBorn'
  BY <1>3, <1>4, <1>5 DEF TreeInv, ParentsBorn
<1>7. /\ DOMAIN Edges' \subseteq DOMAIN Edges \cup {q.p}
      /\ \A c \in DOMAIN Edges' \ {q.p} : c \in DOMAIN Edges /\ Edges'[c] \subseteq Edges[c]
  BY <1>4, <1>5, EdgesFinite, EdgesNext DEF Live
<1>8. Acyclic(Edges')
  <2>1. CASE q.p \in DOMAIN Edges'
    <3>1. Reparented(Edges, Edges', q.p)
      BY <1>7, <2>1 DEF Reparented
    <3>2. Edges'[q.p] = ParentsOf(q.new)
      BY <1>4, <1>5, <2>1, EdgesNext
    <3> QED
      BY <1>3, <3>1, <3>2, EdgesFinite, EdgesNext, ReparentKeepsAcyclic DEF TreeInv
  <2>2. CASE q.p \notin DOMAIN Edges'
    <3>1. Pruned(Edges, Edges', {})
      BY <1>7, <2>2 DEF Pruned
    <3> QED
      BY <3>1, EdgesFinite, EdgesNext, LeavesKeepAcyclic DEF TreeInv
  <2> QED
    BY <2>1, <2>2
<1>9. ASSUME NEW v \in Workers PROVE BatchBorn(req[v])' /\ MoveAllowed(req[v])'
  <2>1. req'[v].kind \notin Movers /\ (req'[v].kind = "create" => req'[v] = req[v])
    BY <1>1, <1>2 DEF Ended, Idle, Movers, Apart
  <2> QED
    BY <1>5, <2>1 DEF TreeInv, BatchBorn, MoveAllowed
<1> QED
  BY <1>6, <1>8, <1>9 DEF TreeInv

LEMMA NextTree ==
  ASSUME IInv, TreeInv, Apart(Movers, Movers), [Next]_vars
  PROVE  TreeInv'
<1>1. CASE Quiet
  BY <1>1, ThinnedKeepsTree DEF Quiet
<1>2. CASE \E w \in Workers : \E q : Took(w, q) /\ Checked(q)
  BY <1>2, TookTree
<1>3. CASE \E w \in Workers : CreateSave(w)
  BY <1>3, CreateTree
<1>4. CASE \E w \in Workers : UpdateSave(w) \/ RestoreSave(w)
  BY <1>4, MoveTree
<1>5. CASE \E w \in Workers : DeleteSave(w)
  <2>1. PICK w \in Workers : DeleteSave(w)
    BY <1>5
  <2>2. PICK p : p = req[w].p
    OBVIOUS
  <2>3. PICK row : row = [person[p] EXCEPT !.state = "deleted"]
    OBVIOUS
  <2>4. /\ IsBorn(p) /\ Ended(w) /\ Like(person'[p], row) /\ IsRow(person[p])
        /\ \A r \in Persons : r # p => person'[r] = person[r]
    BY <2>1, <2>2, <2>3, DeleteEffect
  <2>5. person'[p].state = "deleted" /\ ParentsOf(person'[p]) = ParentsOf(person[p])
    BY <2>3, <2>4 DEF Like, IsRow, ParentsOf
  <2>6. \A v \in Workers : req'[v] = req[v] \/ req'[v].kind \notin Movers \cup {"create"}
    BY <2>4 DEF Ended, Idle, Movers
  <2> QED
    BY <2>4, <2>5, <2>6, ThinnedKeepsTree DEF IsBorn
<1>6. CASE \E w \in Workers : PhotoSave(w)
  <2>1. PICK w \in Workers : PhotoSave(w)
    BY <1>6
  <2>2. PICK p : p = req[w].p
    OBVIOUS
  <2>3. PICK row : row = [person[p] EXCEPT !.photo = req[w].new.photo]
    OBVIOUS
  <2>4. /\ IsBorn(p) /\ Like(person'[p], row) /\ IsRow(person[p])
        /\ \A r \in Persons : r # p => person'[r] = person[r]
    BY <2>1, <2>2, <2>3, PhotoEffect
  <2>5. person'[p].state = person[p].state /\ ParentsOf(person'[p]) = ParentsOf(person[p])
    BY <2>3, <2>4 DEF Like, IsRow, ParentsOf
  <2>6. \A v \in Workers : req'[v] = req[v] \/ req'[v].kind \notin Movers \cup {"create"}
    BY <2>1, PhotoEnds DEF Idle, Movers
  <2> QED
    BY <2>4, <2>5, <2>6, ThinnedKeepsTree DEF IsBorn
<1>7. CASE \E w \in Workers : RecomputeSave(w)
  <2>1. PICK w \in Workers : RecomputeSave(w)
    BY <1>7
  <2>2. Ended(w) /\ \A p \in Persons : Like(person'[p], person[p])
    BY <2>1, RecomputeEffect
  <2>3. \A v \in Workers : req'[v] = req[v] \/ req'[v].kind \notin Movers \cup {"create"}
    BY <2>2 DEF Ended, Idle, Movers
  <2>4. \A p \in Persons : ParentsOf(person'[p]) = ParentsOf(person[p]) /\ person'[p].state = person[p].state
    BY <2>2, LikeParents DEF Like
  <2> QED
    BY <2>3, <2>4, ThinnedKeepsTree
<1>8. CASE \E w \in Workers : UpdateConflict(w) \/ DropPhoto(w)
  <2>1. PICK w \in Workers : UpdateConflict(w) \/ DropPhoto(w)
    BY <1>8
  <2>2. person' = person /\ Ended(w)
    BY <2>1, DoneEnds DEF UpdateConflict, DropPhoto
  <2>3. \A v \in Workers : req'[v] = req[v] \/ req'[v].kind \notin Movers \cup {"create"}
    BY <2>2 DEF Ended, Idle, Movers
  <2> QED
    BY <2>2, <2>3, ThinnedKeepsTree
<1> QED
  BY <1>1, <1>2, <1>3, <1>4, <1>5, <1>6, <1>7, <1>8, StepCases

(***************************************************************************)
(* As long as no two updates or restores overlap, no person ever becomes   *)
(* their own ancestor: not through creates, deletes and photo writes that  *)
(* overlap with a move, and not by restoring a revision that was taken     *)
(* when the tree looked different (validate_no_cycle).                     *)
(***************************************************************************)
THEOREM NobodyOwnAncestor == Spec /\ []Apart(Movers, Movers) => []NoParentCycle
<1>1. IInv /\ TreeInv /\ Apart(Movers, Movers) /\ [Next]_vars => TreeInv'
  BY NextTree
<1>2. TreeInv => NoParentCycle
  BY EdgesFinite DEF TreeInv, Acyclic, NoParentCycle
<1> QED
  BY <1>1, <1>2, InitTree, Invariance, PTL DEF Spec

-----------------------------------------------------------------------------
(* Where no moves overlap, what a move has in memory of father, mother and *)
(* note is what the table has, so that its revision records what goes.     *)

FreshInv ==
  /\ DOMAIN revisions = Persons
  /\ \A w \in Workers : req[w].kind \in Movers =>
       Replaceable(req[w].old) = Replaceable(person[req[w].p])

Recorded1(p) ==
  Replaceable(person'[p]) # Replaceable(person[p])
    => \E r \in revisions'[p] : Replaceable(r) = Replaceable(person[p])

LEMMA LikeReplaceable == ASSUME NEW r, NEW s, Like(r, s) PROVE Replaceable(r) = Replaceable(s)
BY DEF Like, Replaceable

\* A save that replaces nothing of a row that exists.
LEMMA KeptFresh ==
  ASSUME IInv, FreshInv,
         \A p \in Born : Replaceable(person'[p]) = Replaceable(person[p]),
         DOMAIN revisions' = Persons,
         \A v \in Workers : req'[v] = req[v] \/ req'[v].kind \notin Movers
  PROVE  FreshInv' /\ \A p \in Born : Recorded1(p)
<1>1. ASSUME NEW v \in Workers, req'[v].kind \in Movers
      PROVE  Replaceable(req'[v].old) = Replaceable(person'[req'[v].p])
  <2>1. req'[v] = req[v] /\ req[v].p \in Born
    BY <1>1 DEF Movers, IInv, RequestsOK, RequestOK, IsBorn, Born
  <2> QED
    BY <1>1, <2>1 DEF FreshInv
<1> QED
  BY <1>1 DEF FreshInv, Recorded1

LEMMA RevisionsDomain ==
  ASSUME IInv, FreshInv, NEW w \in Workers,
         \/ CreateSave(w) \/ UpdateSave(w) \/ UpdateConflict(w) \/ DeleteSave(w) \/ RestoreSave(w)
         \/ PhotoSave(w) \/ DropPhoto(w) \/ RecomputeSave(w)
  PROVE  DOMAIN revisions' = Persons
BY DEF FreshInv, CreateSave, UpdateSave, UpdateConflict, DeleteSave, RestoreSave, PhotoSave,
       DropPhoto, RecomputeSave, Recorded

LEMMA MoveFresh ==
  ASSUME IInv, FreshInv, Apart(Movers, Movers), NEW w \in Workers, UpdateSave(w) \/ RestoreSave(w)
  PROVE  FreshInv' /\ \A p \in Born : Recorded1(p)
<1>1. PICK q : q = req[w]
  OBVIOUS
<1>2. /\ q.kind \in Movers /\ IsBorn(q.p) /\ Ended(w)
      /\ \A p \in Persons : p # q.p => Like(person'[p], person[p])
      /\ revisions' = Recorded(q)
  BY <1>1, MoverEffect DEF Movers
<1>3. Replaceable(q.old) = Replaceable(person[q.p])
  BY <1>1, <1>2 DEF FreshInv
<1>4. Replaceable(Payload(q.old)) = Replaceable(q.old)
  BY DEF Payload, Replaceable
<1>5. Payload(q.old) \in revisions'[q.p]
  BY <1>2 DEF FreshInv, Recorded, IsBorn
<1>6. \A p \in Born : Recorded1(p)
  BY <1>2, <1>3, <1>4, <1>5, LikeReplaceable DEF Recorded1, Born
<1>7. \A v \in Workers : req'[v].kind \notin Movers
  BY <1>1, <1>2 DEF Ended, Idle, Movers, Apart
<1> QED
  BY <1>6, <1>7, RevisionsDomain DEF FreshInv

LEMMA NextFresh ==
  ASSUME IInv, FreshInv, Apart(Movers, Movers), [Next]_vars
  PROVE  FreshInv' /\ \A p \in Born : Recorded1(p)
<1>0. Born \subseteq Persons
  BY DEF Born
<1>1. CASE Quiet
  BY <1>1, KeptFresh DEF Quiet, FreshInv
<1>2. CASE \E w \in Workers : \E q : Took(w, q) /\ Checked(q)
  BY <1>2 DEF Took, Checked, FreshInv, Recorded1
<1>3. CASE \E w \in Workers : CreateSave(w)
  <2>1. PICK w \in Workers : CreateSave(w)
    BY <1>3
  <2>2. Ended(w) /\ \A p \in Born : person'[p] = person[p]
    BY <2>1, CreateEffect DEF NewRows, Born
  <2>3. \A v \in Workers : req'[v] = req[v] \/ req'[v].kind \notin Movers
    BY <2>2 DEF Ended, Idle, Movers
  <2> QED
    BY <2>1, <2>2, <2>3, KeptFresh, RevisionsDomain
<1>4. CASE \E w \in Workers : UpdateSave(w) \/ RestoreSave(w)
  BY <1>4, MoveFresh
<1>5. CASE \E w \in Workers : DeleteSave(w)
  <2>1. PICK w \in Workers : DeleteSave(w)
    BY <1>5
  <2>2. PICK row : row = [person[req[w].p] EXCEPT !.state = "deleted"]
    OBVIOUS
  <2>3. /\ Ended(w) /\ Like(person'[req[w].p], row) /\ IsRow(person[req[w].p])
        /\ \A r \in Persons : r # req[w].p => person'[r] = person[r]
    BY <2>1, <2>2, DeleteEffect
  <2>4. Replaceable(person'[req[w].p]) = Replaceable(person[req[w].p])
    BY <2>2, <2>3 DEF Like, IsRow, Replaceable
  <2>5. \A v \in Workers : req'[v] = req[v] \/ req'[v].kind \notin Movers
    BY <2>3 DEF Ended, Idle, Movers
  <2> QED
    BY <1>0, <2>1, <2>3, <2>4, <2>5, KeptFresh, RevisionsDomain
<1>6. CASE \E w \in Workers : PhotoSave(w)
  <2>1. PICK w \in Workers : PhotoSave(w)
    BY <1>6
  <2>2. PICK row : row = [person[req[w].p] EXCEPT !.photo = req[w].new.photo]
    OBVIOUS
  <2>3. /\ Like(person'[req[w].p], row) /\ IsRow(person[req[w].p])
        /\ \A r \in Persons : r # req[w].p => person'[r] = person[r]
    BY <2>1, <2>2, PhotoEffect
  <2>4. Replaceable(person'[req[w].p]) = Replaceable(person[req[w].p])
    BY <2>2, <2>3 DEF Like, IsRow, Replaceable
  <2>5. \A v \in Workers : req'[v] = req[v] \/ req'[v].kind \notin Movers
    BY <2>1, PhotoEnds DEF Idle, Movers
  <2> QED
    BY <1>0, <2>1, <2>3, <2>4, <2>5, KeptFresh, RevisionsDomain
<1>7. CASE \E w \in Workers : RecomputeSave(w)
  <2>1. PICK w \in Workers : RecomputeSave(w)
    BY <1>7
  <2>2. Ended(w) /\ \A p \in Persons : Like(person'[p], person[p])
    BY <2>1, RecomputeEffect
  <2>3. \A v \in Workers : req'[v] = req[v] \/ req'[v].kind \notin Movers
    BY <2>2 DEF Ended, Idle, Movers
  <2> QED
    BY <1>0, <2>1, <2>2, <2>3, LikeReplaceable, KeptFresh, RevisionsDomain
<1>8. CASE \E w \in Workers : UpdateConflict(w) \/ DropPhoto(w)
  <2>1. PICK w \in Workers : UpdateConflict(w) \/ DropPhoto(w)
    BY <1>8
  <2>2. person' = person /\ Ended(w)
    BY <2>1, DoneEnds DEF UpdateConflict, DropPhoto
  <2>3. \A v \in Workers : req'[v] = req[v] \/ req'[v].kind \notin Movers
    BY <2>2 DEF Ended, Idle, Movers
  <2> QED
    BY <2>1, <2>2, <2>3, KeptFresh, RevisionsDomain
<1> QED
  BY <1>1, <1>2, <1>3, <1>4, <1>5, <1>6, <1>7, <1>8, StepCases

(***************************************************************************)
(* As long as no two updates or restores overlap, whatever father, mother  *)
(* and text a write replaces can be read back from the revisions, whatever *)
(* else writes to the row in between (selectors/revision.record).          *)
(***************************************************************************)
THEOREM NothingIsLost == Spec /\ []Apart(Movers, Movers) => ReplacedIsRecorded
<1>1. Init => FreshInv
  BY DEF Init, FreshInv, Idle, Movers
<1>2. IInv /\ FreshInv /\ Apart(Movers, Movers) /\ [Next]_vars => FreshInv'
  BY NextFresh
<1>3. IInv /\ FreshInv /\ Apart(Movers, Movers) /\ [Next]_vars =>
        [\A p \in Born : Replaceable(person'[p]) # Replaceable(person[p])
           => \E r \in revisions'[p] : Replaceable(r) = Replaceable(person[p])]_vars
  BY NextFresh DEF Recorded1
<1> QED
  BY <1>1, <1>2, <1>3, Invariance, PTL DEF Spec, ReplacedIsRecorded

-----------------------------------------------------------------------------
(* Nobody points to a deleted person.  A delete has counted the children,  *)
(* a create or move has seen its parents live; neither is overtaken.       *)

Pointers == {"create"} \cup Movers
NotDeleted(ps) == \A p \in ps : person[p].state # "deleted"
PointersOK(q) ==
  /\ q.kind = "create" => \A p \in DOMAIN q.batch : NotDeleted(ParentsOf(q.batch[p]))
  /\ q.kind \in Movers => NotDeleted(ParentsOf(q.new)) /\ q.new.state = person[q.p].state
  /\ q.kind = "delete" => ChildrenOf(q.p) = {}
PointInv ==
  /\ ParentsBorn
  /\ NoPointerToDeleted
  /\ \A w \in Workers : BatchBorn(req[w]) /\ PointersOK(req[w])
  /\ \A w \in Workers : req[w].kind \in Movers => ParentsOf(req[w].new) \subseteq Born

\* Rows that have the states and the parents they had, but for new rows.
LEMMA SteadyKeepsPointers ==
  ASSUME IInv, PointInv,
         \A p \in Born : /\ person'[p].state = person[p].state
                         /\ ParentsOf(person'[p]) = ParentsOf(person[p]),
         \A p \in Persons \ Born : person'[p].state = "unborn",
         \A v \in Workers : req'[v] = req[v] \/ req'[v].kind \notin Pointers \cup {"delete"}
  PROVE  PointInv'
<1>1. Born' = Born /\ Born \subseteq Persons
  BY DEF Born
<1>2. ParentsBorn' /\ NoPointerToDeleted'
  BY <1>1 DEF PointInv, ParentsBorn, NoPointerToDeleted
<1>3. ASSUME NEW v \in Workers
      PROVE  /\ BatchBorn(req[v])' /\ PointersOK(req[v])'
             /\ req'[v].kind \in Movers => ParentsOf(req'[v].new) \subseteq Born'
  <2>1. CASE req'[v].kind \notin Pointers \cup {"delete"}
    BY <2>1 DEF BatchBorn, PointersOK, Pointers
  <2>2. CASE req'[v] = req[v]
    <3>1. /\ BatchBorn(req[v]) /\ PointersOK(req[v])
          /\ req[v].kind \in Movers => ParentsOf(req[v].new) \subseteq Born
          /\ req[v].kind \in Movers => req[v].p \in Born
      BY DEF PointInv, IInv, RequestsOK, RequestOK, Movers, IsBorn, Born
    <3>2. req[v].kind = "delete" => ChildrenOf(req[v].p)' = {}
      BY <1>1, <2>2, <3>1 DEF PointersOK, ChildrenOf
    <3> QED
      BY <1>1, <2>2, <3>1, <3>2 DEF BatchBorn, PointersOK, NotDeleted
  <2> QED
    BY <2>1, <2>2
<1> QED
  BY <1>2, <1>3 DEF PointInv

LEMMA InitPointers == Init => PointInv
<1> SUFFICES ASSUME Init PROVE PointInv
  OBVIOUS
<1>1. \A p \in Persons : \A q \in ParentsOf(person[p]) : person[q].state = "live"
  BY TreesAssumption DEF Init
<1>2. ParentsBorn
  BY InitTree DEF TreeInv
<1>3. \A w \in Workers : req[w].kind = "idle"
  BY DEF Init, Idle
<1> QED
  BY <1>1, <1>2, <1>3 DEF PointInv, NoPointerToDeleted, Born, BatchBorn, PointersOK, Movers

LEMMA TookPointers ==
  ASSUME IInv, PointInv, NEW w \in Workers, NEW q, Took(w, q), Checked(q)
  PROVE  PointInv'
<1>1. Born' = Born /\ person' = person /\ Live \subseteq Born
  BY DEF Took, Born, Live
<1>2. NotDeleted(Live)
  BY DEF NotDeleted, Live
<1>3. BatchBorn(q) /\ PointersOK(q)
  BY <1>1, <1>2, EdgesFinite DEF Checked, BatchBorn, PointersOK, NotDeleted, ParentsAllowed
<1>4. q.kind \in Movers => ParentsOf(q.new) \subseteq Born
  BY <1>1, EdgesFinite DEF Checked, ParentsAllowed
<1>5. \A v \in Workers : /\ BatchBorn(req'[v]) /\ PointersOK(req'[v])
                         /\ req'[v].kind \in Movers => ParentsOf(req'[v].new) \subseteq Born
  BY <1>3, <1>4 DEF Took, PointInv
<1>6. \A v \in Workers : BatchBorn(req[v])' /\ PointersOK(req[v])'
  BY <1>1, <1>5 DEF BatchBorn, PointersOK, NotDeleted, ChildrenOf
<1>7. ParentsBorn' /\ NoPointerToDeleted'
  BY <1>1 DEF PointInv, ParentsBorn, NoPointerToDeleted
<1> QED
  BY <1>1, <1>5, <1>6, <1>7 DEF PointInv

LEMMA CreatePointers ==
  ASSUME IInv, PointInv, Apart({"delete"}, Pointers), NEW w \in Workers, CreateSave(w)
  PROVE  PointInv'
<1>1. PICK batch : batch = req[w].batch
  OBVIOUS
<1>2. /\ NewRows(batch) /\ Ended(w) /\ req[w].kind = "create"
      /\ \A p \in Persons : person'[p] = IF p \in DOMAIN batch THEN batch[p] ELSE person[p]
  BY <1>1, CreateEffect
<1>3. \A p \in DOMAIN batch : ParentsOf(batch[p]) \subseteq Born /\ NotDeleted(ParentsOf(batch[p]))
  BY <1>1, <1>2 DEF PointInv, BatchBorn, PointersOK
<1>4. /\ DOMAIN batch \subseteq Persons /\ DOMAIN batch \cap Born = {}
      /\ \A p \in DOMAIN batch : batch[p].state = "live"
  BY <1>2 DEF NewRows, Born
<1>5. Born' = Born \cup DOMAIN batch /\ Born \subseteq Persons
  BY <1>2, <1>4 DEF Born
<1>6. \A p \in Born : person'[p] = person[p]
  BY <1>2, <1>4, <1>5
<1>7. \A c \in Born' : ParentsOf(person'[c]) \subseteq Born /\ NotDeleted(ParentsOf(person'[c]))
  BY <1>2, <1>3, <1>4, <1>5, <1>6 DEF PointInv, ParentsBorn, NoPointerToDeleted, NotDeleted
<1>8. ParentsBorn' /\ NoPointerToDeleted'
  BY <1>5, <1>6, <1>7 DEF ParentsBorn, NoPointerToDeleted, NotDeleted
<1>9. ASSUME NEW v \in Workers
      PROVE  /\ BatchBorn(req[v])' /\ PointersOK(req[v])'
             /\ req'[v].kind \in Movers => ParentsOf(req'[v].new) \subseteq Born'
  <2>1. CASE v = w
    BY <1>2, <2>1 DEF Ended, Idle, Movers, BatchBorn, PointersOK
  <2>2. CASE v # w
    <3>1. req'[v] = req[v] /\ req[v].kind # "delete"
      BY <1>2, <2>2 DEF Ended, Apart, Pointers
    <3>2. /\ BatchBorn(req[v]) /\ PointersOK(req[v])
          /\ req[v].kind \in Movers => ParentsOf(req[v].new) \subseteq Born /\ req[v].p \in Born
      BY DEF PointInv, IInv, RequestsOK, RequestOK, Movers, IsBorn, Born
    <3>3. \A p \in DOMAIN req[v].batch : req[v].kind = "create" => ParentsOf(req[v].batch[p]) \subseteq Born
      BY <3>2 DEF BatchBorn
    <3> QED
      BY <1>5, <1>6, <3>1, <3>2, <3>3 DEF BatchBorn, PointersOK, NotDeleted
  <2> QED
    BY <2>1, <2>2
<1> QED
  BY <1>8, <1>9 DEF PointInv

LEMMA MovePointers ==
  ASSUME IInv, PointInv, Apart({"delete"}, Pointers), NEW w \in Workers,
         UpdateSave(w) \/ RestoreSave(w)
  PROVE  PointInv'
<1>1. PICK q : q = req[w]
  OBVIOUS
<1>2. /\ q.kind \in Movers /\ IsBorn(q.p) /\ Ended(w) /\ Like(person'[q.p], q.new)
      /\ \A p \in Persons : p # q.p => Like(person'[p], person[p])
  BY <1>1, MoverEffect DEF Movers
<1>3. /\ ParentsOf(q.new) \subseteq Born /\ NotDeleted(ParentsOf(q.new))
      /\ q.new.state = person[q.p].state
  BY <1>1, <1>2 DEF PointInv, PointersOK
<1>4. /\ \A p \in Persons : person'[p].state = person[p].state
      /\ \A p \in Persons : ParentsOf(person'[p]) = IF p = q.p THEN ParentsOf(q.new) ELSE ParentsOf(person[p])
  BY <1>2, <1>3, LikeParents DEF Like
<1>5. Born' = Born /\ Born \subseteq Persons
  BY <1>4 DEF Born
<1>6. ParentsBorn' /\ NoPointerToDeleted'
  BY <1>3, <1>4, <1>5 DEF PointInv, ParentsBorn, NoPointerToDeleted, NotDeleted
<1>7. ASSUME NEW v \in Workers
      PROVE  /\ BatchBorn(req[v])' /\ PointersOK(req[v])'
             /\ req'[v].kind \in Movers => ParentsOf(req'[v].new) \subseteq Born'
  <2>1. CASE v = w
    BY <1>2, <2>1 DEF Ended, Idle, Movers, BatchBorn, PointersOK
  <2>2. CASE v # w
    <3>1. req'[v] = req[v] /\ req[v].kind # "delete"
      BY <1>1, <1>2, <2>2 DEF Ended, Apart, Pointers
    <3>2. /\ BatchBorn(req[v]) /\ PointersOK(req[v])
          /\ req[v].kind \in Movers => ParentsOf(req[v].new) \subseteq Born /\ req[v].p \in Born
      BY DEF PointInv, IInv, RequestsOK, RequestOK, Movers, IsBorn, Born
    <3>3. \A p \in DOMAIN req[v].batch : req[v].kind = "create" => ParentsOf(req[v].batch[p]) \subseteq Born
      BY <3>2 DEF BatchBorn
    <3> QED
      BY <1>4, <1>5, <3>1, <3>2, <3>3 DEF BatchBorn, PointersOK, NotDeleted
  <2> QED
    BY <2>1, <2>2
<1> QED
  BY <1>6, <1>7 DEF PointInv

LEMMA DeletePointers ==
  ASSUME IInv, PointInv, Apart({"delete"}, Pointers), NEW w \in Workers, DeleteSave(w)
  PROVE  PointInv'
<1>1. PICK p : p = req[w].p
  OBVIOUS
<1>2. PICK row : row = [person[p] EXCEPT !.state = "deleted"]
  OBVIOUS
<1>3. /\ req[w].kind = "delete" /\ IsBorn(p) /\ Ended(w) /\ Like(person'[p], row) /\ IsRow(person[p])
      /\ \A r \in Persons : r # p => person'[r] = person[r]
  BY <1>1, <1>2, DeleteEffect
<1>4. person'[p].state = "deleted" /\ ParentsOf(person'[p]) = ParentsOf(person[p])
  BY <1>2, <1>3 DEF Like, IsRow, ParentsOf
<1>5. Born' = Born /\ Born \subseteq Persons
  BY <1>3, <1>4 DEF Born, IsBorn
<1>6. \A c \in Born : p \notin ParentsOf(person[c])
  BY <1>1, <1>3 DEF PointInv, PointersOK, ChildrenOf
<1>7. \A c \in Born : ParentsOf(person'[c]) = ParentsOf(person[c])
  BY <1>3, <1>4, <1>5
<1>8. ParentsBorn' /\ NoPointerToDeleted'
  BY <1>3, <1>5, <1>6, <1>7 DEF PointInv, ParentsBorn, NoPointerToDeleted
<1>9. ASSUME NEW v \in Workers
      PROVE  /\ BatchBorn(req[v])' /\ PointersOK(req[v])'
             /\ req'[v].kind \in Movers => ParentsOf(req'[v].new) \subseteq Born'
  <2>1. CASE v = w
    BY <1>3, <2>1 DEF Ended, Idle, Movers, BatchBorn, PointersOK
  <2>2. CASE v # w
    <3>1. req'[v] = req[v] /\ req[v].kind \notin Pointers
      BY <1>3, <2>2 DEF Ended, Apart
    <3>2. PointersOK(req[v])
      BY DEF PointInv
    <3>3. req[v].kind = "delete" => ChildrenOf(req[v].p)' = {}
      BY <1>5, <1>7, <3>1, <3>2 DEF PointersOK, ChildrenOf
    <3> QED
      BY <3>1, <3>3 DEF BatchBorn, PointersOK, Pointers, Movers
  <2> QED
    BY <2>1, <2>2
<1> QED
  BY <1>8, <1>9 DEF PointInv

LEMMA NextPointers ==
  ASSUME IInv, PointInv, Apart({"delete"}, Pointers), [Next]_vars
  PROVE  PointInv'
<1>0. Born \subseteq Persons /\ \A p \in Persons \ Born : person[p].state = "unborn"
  BY DEF Born
<1>1. CASE Quiet
  BY <1>0, <1>1, SteadyKeepsPointers DEF Quiet
<1>2. CASE \E w \in Workers : \E q : Took(w, q) /\ Checked(q)
  BY <1>2, TookPointers
<1>3. CASE \E w \in Workers : CreateSave(w)
  BY <1>3, CreatePointers
<1>4. CASE \E w \in Workers : UpdateSave(w) \/ RestoreSave(w)
  BY <1>4, MovePointers
<1>5. CASE \E w \in Workers : DeleteSave(w)
  BY <1>5, DeletePointers
<1>6. CASE \E w \in Workers : PhotoSave(w)
  <2>1. PICK w \in Workers : PhotoSave(w)
    BY <1>6
  <2>2. PICK p : p = req[w].p
    OBVIOUS
  <2>3. PICK row : row = [person[p] EXCEPT !.photo = req[w].new.photo]
    OBVIOUS
  <2>4. /\ IsBorn(p) /\ Like(person'[p], row) /\ IsRow(person[p])
        /\ \A r \in Persons : r # p => person'[r] = person[r]
    BY <2>1, <2>2, <2>3, PhotoEffect
  <2>5. person'[p].state = person[p].state /\ ParentsOf(person'[p]) = ParentsOf(person[p])
    BY <2>3, <2>4 DEF Like, IsRow, ParentsOf
  <2>6. \A v \in Workers : req'[v] = req[v] \/ req'[v].kind \notin Pointers \cup {"delete"}
    BY <2>1, PhotoEnds DEF Idle, Pointers, Movers
  <2> QED
    BY <1>0, <2>4, <2>5, <2>6, SteadyKeepsPointers DEF IsBorn
<1>7. CASE \E w \in Workers : RecomputeSave(w)
  <2>1. PICK w \in Workers : RecomputeSave(w)
    BY <1>7
  <2>2. Ended(w) /\ \A p \in Persons : Like(person'[p], person[p])
    BY <2>1, RecomputeEffect
  <2>3. \A v \in Workers : req'[v] = req[v] \/ req'[v].kind \notin Pointers \cup {"delete"}
    BY <2>2 DEF Ended, Idle, Pointers, Movers
  <2>4. \A p \in Persons : ParentsOf(person'[p]) = ParentsOf(person[p]) /\ person'[p].state = person[p].state
    BY <2>2, LikeParents DEF Like
  <2> QED
    BY <1>0, <2>3, <2>4, SteadyKeepsPointers
<1>8. CASE \E w \in Workers : UpdateConflict(w) \/ DropPhoto(w)
  <2>1. PICK w \in Workers : UpdateConflict(w) \/ DropPhoto(w)
    BY <1>8
  <2>2. person' = person /\ Ended(w)
    BY <2>1, DoneEnds DEF UpdateConflict, DropPhoto
  <2>3. \A v \in Workers : req'[v] = req[v] \/ req'[v].kind \notin Pointers \cup {"delete"}
    BY <2>2 DEF Ended, Idle, Pointers, Movers
  <2> QED
    BY <1>0, <2>2, <2>3, SteadyKeepsPointers
<1> QED
  BY <1>1, <1>2, <1>3, <1>4, <1>5, <1>6, <1>7, <1>8, StepCases

(***************************************************************************)
(* As long as no delete overlaps with a create, update or restore, no row, *)
(* live or deleted, ever names a deleted parent, however the creates,      *)
(* updates and restores overlap among themselves.                          *)
(***************************************************************************)
THEOREM NobodyPointsToDeleted == Spec /\ []Apart({"delete"}, Pointers) => []NoPointerToDeleted
<1>1. IInv /\ PointInv /\ Apart({"delete"}, Pointers) /\ [Next]_vars => PointInv'
  BY NextPointers
<1>2. PointInv => NoPointerToDeleted
  BY DEF PointInv
<1> QED
  BY <1>1, <1>2, InitPointers, Invariance, PTL DEF Spec

-----------------------------------------------------------------------------
(* The photos.  A photo key lies under its person's prefix, so the object  *)
(* one request drops is the photo of nobody else; of that person it is not *)
(* the photo any more, unless another request brought it back meanwhile.   *)

PhotoKinds == {"photo", "unphoto"}
InOrNone(k) == k \in objects \cup {NoKey}
OfOrNone(k, p) == k # NoKey => k \in Keys /\ KeyPerson[k] = p
PhotoOK(q) ==
  /\ q.kind = "create" => \A p \in DOMAIN q.batch : q.batch[p].photo = NoKey
  /\ q.kind \in Movers => q.new.photo = person[q.p].photo
  /\ q.kind \in PhotoKinds => OfOrNone(q.old.photo, q.p)
  /\ q.kind \in PhotoKinds /\ q.at = "read" =>
       InOrNone(q.new.photo) /\ OfOrNone(q.new.photo, q.p)
  /\ q.at = "saved" => /\ q.kind \in PhotoKinds /\ q.old.photo # NoKey
                       /\ \A p \in Persons : person[p].photo # q.old.photo
PhotoInv ==
  /\ \A p \in Persons : InOrNone(person[p].photo) /\ OfOrNone(person[p].photo, p)
  /\ \A w \in Workers : PhotoOK(req[w])

LEMMA SteadyKeepsPhotos ==
  ASSUME IInv, PhotoInv, objects \subseteq objects',
         \A p \in Persons : \/ person'[p].photo = person[p].photo
                            \/ p \notin Born /\ person'[p].photo = NoKey,
         \A v \in Workers : req'[v] = req[v] \/ req'[v] = Idle
  PROVE  PhotoInv'
<1>1. \A p \in Persons : InOrNone(person[p].photo)' /\ OfOrNone(person'[p].photo, p)
  BY DEF PhotoInv, InOrNone, OfOrNone
<1>2. ASSUME NEW v \in Workers PROVE PhotoOK(req[v])'
  <2>1. CASE req'[v] = Idle
    BY <2>1 DEF Idle, PhotoOK, Movers, PhotoKinds
  <2>2. CASE req'[v] = req[v]
    <3>1. PhotoOK(req[v]) /\ (req[v].kind \in Movers => req[v].p \in Born /\ req[v].p \in Persons)
      BY DEF PhotoInv, IInv, RequestsOK, RequestOK, Movers, IsBorn, Born
    <3> QED
      BY <2>2, <3>1 DEF PhotoOK, InOrNone
  <2> QED
    BY <2>1, <2>2
<1> QED
  BY <1>1, <1>2 DEF PhotoInv, InOrNone

LEMMA InitPhotos == Init => PhotoInv
<1> SUFFICES ASSUME Init PROVE PhotoInv
  OBVIOUS
<1>1. person \in [Persons -> Rows] /\ \A p \in Persons : person[p].photo # NoKey => KeyPerson[person[p].photo] = p
  BY PersonsAssumption, TreesAssumption DEF Init
<1>2. \A p \in Persons : InOrNone(person[p].photo)
  BY DEF Init, InOrNone
<1>3. \A p \in Persons : OfOrNone(person[p].photo, p)
  BY <1>1 DEF OfOrNone, Rows
<1>4. \A w \in Workers : PhotoOK(req[w])
  BY DEF Init, Idle, PhotoOK, Movers, PhotoKinds
<1> QED
  BY <1>2, <1>3, <1>4 DEF PhotoInv

LEMMA TookPhotos ==
  ASSUME IInv, PhotoInv, NEW w \in Workers, NEW q, Took(w, q), Checked(q), IInv'
  PROVE  PhotoInv'
<1>1. person' = person /\ objects' = objects /\ q.at = "read" /\ req'[w] = q
  BY DEF Took
<1>2. q.kind \in PhotoKinds => q.p \in Persons
  BY <1>1 DEF PhotoKinds, IInv, RequestsOK, RequestOK, IsBorn
<1>3. PhotoOK(q)
  BY <1>1, <1>2 DEF Checked, PhotoOK, PhotoInv, PhotoKinds, InOrNone, OfOrNone, BelongsTo, InBucket
<1>4. \A v \in Workers : PhotoOK(req'[v])
  BY <1>3 DEF Took, PhotoInv
<1>5. \A v \in Workers : PhotoOK(req[v])'
  BY <1>1, <1>4 DEF PhotoOK, InOrNone
<1> QED
  BY <1>1, <1>5 DEF PhotoInv, InOrNone

LEMMA SavePhotos ==
  ASSUME IInv, PhotoInv, Apart(PhotoKinds, PhotoKinds \cup Movers), NEW w \in Workers, PhotoSave(w)
  PROVE  PhotoInv'
<1>1. PICK q : q = req[w]
  OBVIOUS
<1>2. PICK row : row = [person[q.p] EXCEPT !.photo = q.new.photo]
  OBVIOUS
<1>3. /\ q.kind \in PhotoKinds /\ IsBorn(q.p) /\ Like(person'[q.p], row) /\ IsRow(person[q.p])
      /\ \A p \in Persons : p # q.p => person'[p] = person[p]
      /\ objects' = objects /\ q.at = "read"
  BY <1>1, <1>2, PhotoEffect DEF PhotoKinds, PhotoSave, Serving
<1>4. person'[q.p].photo = q.new.photo
  BY <1>2, <1>3 DEF Like, IsRow
<1>5. InOrNone(q.new.photo) /\ OfOrNone(q.new.photo, q.p) /\ OfOrNone(q.old.photo, q.p)
  BY <1>1, <1>3 DEF PhotoInv, PhotoOK
<1>6. \A p \in Persons : InOrNone(person'[p].photo) /\ OfOrNone(person'[p].photo, p)
  BY <1>3, <1>4, <1>5 DEF PhotoInv
<1>7. ReplacesPhoto(q) => q.old.photo # NoKey /\ \A p \in Persons : person'[p].photo # q.old.photo
  BY <1>3, <1>4, <1>5 DEF ReplacesPhoto, PhotoInv, OfOrNone
<1>8. ASSUME NEW v \in Workers PROVE PhotoOK(req[v])'
  <2>1. CASE v # w
    <3>1. req'[v] = req[v] /\ PhotoOK(req[v]) /\ req[v].kind \notin PhotoKinds \cup Movers
      BY <1>1, <1>3, <2>1, PhotoEnds DEF PhotoInv, Apart
    <3> QED
      BY <3>1 DEF PhotoOK
  <2>2. CASE req'[v] = Idle
    BY <2>2 DEF Idle, PhotoOK, Movers, PhotoKinds
  <2>3. CASE v = w /\ req'[v] # Idle
    <3>1. /\ req'[v].kind \in PhotoKinds /\ req'[v].at = "saved"
          /\ req'[v].p = q.p /\ req'[v].old = q.old /\ ReplacesPhoto(q)
      BY <1>1, <2>3, PhotoEnds DEF PhotoKinds
    <3>2. req'[v].kind \notin Movers /\ req'[v].kind # "create"
      BY <3>1 DEF PhotoKinds, Movers
    <3>3. OfOrNone(req'[v].old.photo, req'[v].p)
      BY <1>5, <3>1
    <3>4. req'[v].old.photo # NoKey /\ \A p \in Persons : person'[p].photo # req'[v].old.photo
      BY <1>7, <3>1
    <3> QED
      BY <3>1, <3>2, <3>3, <3>4 DEF PhotoOK
  <2> QED
    BY <2>1, <2>2, <2>3
<1> QED
  BY <1>3, <1>6, <1>8 DEF PhotoInv, InOrNone

LEMMA DropPhotos ==
  ASSUME IInv, PhotoInv, Apart(PhotoKinds, PhotoKinds \cup Movers), NEW w \in Workers, DropPhoto(w)
  PROVE  PhotoInv'
<1>1. PICK k : k = req[w].old.photo
  OBVIOUS
<1>2. /\ req[w].kind \in PhotoKinds /\ (\A p \in Persons : person[p].photo # k)
      /\ person' = person /\ Ended(w) /\ objects' \in {objects, objects \ {k}}
  BY <1>1, DoneEnds DEF DropPhoto, PhotoInv, PhotoOK, WithoutObject
<1>3. \A p \in Persons : InOrNone(person[p].photo)' /\ OfOrNone(person'[p].photo, p)
  BY <1>2 DEF PhotoInv, InOrNone
<1>4. ASSUME NEW v \in Workers PROVE PhotoOK(req[v])'
  <2>1. CASE v = w
    BY <1>2, <2>1 DEF Ended, Idle, PhotoOK, Movers, PhotoKinds
  <2>2. CASE v # w
    <3>1. req'[v] = req[v] /\ PhotoOK(req[v]) /\ req[v].kind \notin PhotoKinds \cup Movers
      BY <1>2, <2>2 DEF Ended, PhotoInv, Apart
    <3> QED
      BY <3>1 DEF PhotoOK
  <2> QED
    BY <2>1, <2>2
<1> QED
  BY <1>3, <1>4 DEF PhotoInv, InOrNone

LEMMA NextPhotos ==
  ASSUME IInv, PhotoInv, Apart(PhotoKinds, PhotoKinds \cup Movers), [Next]_vars
  PROVE  PhotoInv'
<1>0. IInv'
  BY NextIInv
<1>1. CASE Quiet
  BY <1>1, SteadyKeepsPhotos DEF Quiet
<1>2. CASE \E w \in Workers : \E q : Took(w, q) /\ Checked(q)
  BY <1>0, <1>2, TookPhotos
<1>3. CASE \E w \in Workers : CreateSave(w)
  <2>1. PICK w \in Workers : CreateSave(w)
    BY <1>3
  <2>2. PICK batch : batch = req[w].batch
    OBVIOUS
  <2>3. /\ req[w].kind = "create" /\ NewRows(batch) /\ Ended(w) /\ objects' = objects
        /\ \A p \in Persons : person'[p] = IF p \in DOMAIN batch THEN batch[p] ELSE person[p]
    BY <2>1, <2>2, CreateEffect
  <2>4. \A p \in DOMAIN batch : batch[p].photo = NoKey /\ p \notin Born
    BY <2>2, <2>3 DEF PhotoInv, PhotoOK, NewRows, Born
  <2> QED
    BY <2>3, <2>4, SteadyKeepsPhotos DEF Ended
<1>4. CASE \E w \in Workers : UpdateSave(w) \/ RestoreSave(w)
  <2>1. PICK w \in Workers : UpdateSave(w) \/ RestoreSave(w)
    BY <1>4
  <2>2. PICK q : q = req[w]
    OBVIOUS
  <2>3. /\ q.kind \in Movers /\ Ended(w) /\ objects' = objects /\ Like(person'[q.p], q.new)
        /\ \A p \in Persons : p # q.p => Like(person'[p], person[p])
    BY <2>1, <2>2, MoverEffect DEF Movers
  <2>4. q.new.photo = person[q.p].photo
    BY <2>2, <2>3 DEF PhotoInv, PhotoOK
  <2>5. \A p \in Persons : person'[p].photo = person[p].photo
    BY <2>3, <2>4 DEF Like
  <2> QED
    BY <2>3, <2>5, SteadyKeepsPhotos DEF Ended
<1>5. CASE \E w \in Workers : DeleteSave(w)
  <2>1. PICK w \in Workers : DeleteSave(w)
    BY <1>5
  <2>2. PICK p : p = req[w].p
    OBVIOUS
  <2>3. PICK row : row = [person[p] EXCEPT !.state = "deleted"]
    OBVIOUS
  <2>4. /\ Ended(w) /\ Like(person'[p], row) /\ IsRow(person[p]) /\ objects' = objects
        /\ \A r \in Persons : r # p => person'[r] = person[r]
    BY <2>1, <2>2, <2>3, DeleteEffect
  <2>5. person'[p].photo = person[p].photo
    BY <2>3, <2>4 DEF Like, IsRow
  <2> QED
    BY <2>4, <2>5, SteadyKeepsPhotos DEF Ended
<1>6. CASE \E w \in Workers : PhotoSave(w)
  BY <1>6, SavePhotos
<1>7. CASE \E w \in Workers : RecomputeSave(w)
  <2>1. PICK w \in Workers : RecomputeSave(w)
    BY <1>7
  <2> QED
    BY <2>1, RecomputeEffect, SteadyKeepsPhotos DEF Ended, Like
<1>8. CASE \E w \in Workers : UpdateConflict(w)
  <2>1. PICK w \in Workers : UpdateConflict(w)
    BY <1>8
  <2>2. person' = person /\ objects' = objects /\ Ended(w)
    BY <2>1, DoneEnds DEF UpdateConflict
  <2> QED
    BY <2>2, SteadyKeepsPhotos DEF Ended
<1>9. CASE \E w \in Workers : DropPhoto(w)
  BY <1>9, DropPhotos
<1> QED
  BY <1>1, <1>2, <1>3, <1>4, <1>5, <1>6, <1>7, <1>8, <1>9, StepCases

(***************************************************************************)
(* As long as no photo request overlaps with another one or with an update *)
(* or restore, which write the photo back as they read it, a photo_key     *)
(* always names an object of the bucket: the old object goes only after    *)
(* the new key is stored, and is the photo of no other person.             *)
(***************************************************************************)
THEOREM PhotosExist ==
  Spec /\ []Apart(PhotoKinds, PhotoKinds \cup Movers) => []PhotoObjectExists
<1>1. IInv /\ PhotoInv /\ Apart(PhotoKinds, PhotoKinds \cup Movers) /\ [Next]_vars => PhotoInv'
  BY NextPhotos
<1>2. PhotoInv => PhotoObjectExists
  BY DEF PhotoInv, PhotoObjectExists, InOrNone
<1> QED
  BY <1>1, <1>2, InitPhotos, Invariance, PTL DEF Spec

-----------------------------------------------------------------------------
(* The generations.  What a create is about to store, and a recompute,     *)
(* stays right while others create, delete and recompute; an update has    *)
(* the generation of the row in memory.                                    *)

TreeWriters == {"create", "delete", "recompute"} \cup Movers
NoClash == Apart(Movers, TreeWriters) /\ Apart({"delete"}, {"create"})

Gens == Generations(Edges)
HighestParent(row) == BelowHighest({Gens[r] : r \in ParentsOf(row) \cap Live})
GenOK(q) ==
  /\ q.kind = "create" => \A p \in DOMAIN q.batch : q.batch[p].gen = HighestParent(q.batch[p])
  /\ q.kind = "update" => q.new.gen = person[q.p].gen /\ q.new.state = person[q.p].state
  /\ q.kind = "recompute" =>
       /\ DOMAIN q.batch \subseteq Born
       /\ \A p \in Live : Gens[p] = IF p \in DOMAIN q.batch THEN q.batch[p].gen ELSE person[p].gen
GenInv == \A w \in Workers : GenOK(req[w])
StaysRight == GenerationsRight => GenerationsRight'

LEMMA NoClashApart ==
  ASSUME NoClash
  PROVE  Apart(Movers, Movers) /\ Apart({"delete"}, Pointers)
BY DEF NoClash, Apart, TreeWriters, Pointers, Movers

LEMMA GensOf ==
  ASSUME TreeInv
  PROVE  \A p \in Live : Gens[p] = HighestParent(person[p])
<1>1. \A p \in DOMAIN Edges :
        Generations(Edges)[p] = BelowHighest({Generations(Edges)[q] : q \in Edges[p] \cap DOMAIN Edges})
  BY EdgesFinite, GenerationOf DEF TreeInv
<1> QED
  BY <1>1, EdgesFinite DEF Gens, HighestParent

LEMMA GensOfNext ==
  ASSUME TreeInv'
  PROVE  \A p \in Live' : Gens'[p] = BelowHighest({Gens'[r] : r \in ParentsOf(person'[p]) \cap Live'})
<1>1. Acyclic(Edges')
  BY DEF TreeInv
<1>2. \A p \in DOMAIN Edges' :
        Generations(Edges')[p] = BelowHighest({Generations(Edges')[q] : q \in Edges'[p] \cap DOMAIN Edges'})
  BY <1>1, EdgesNext, GenerationOf
<1> QED
  BY <1>2, EdgesNext DEF Gens

LEMMA GensAgree ==
  ASSUME TreeInv, TreeInv', NEW S, S \subseteq Live, S \subseteq Live',
         \A p \in S : /\ ParentsOf(person[p]) \cap Live = ParentsOf(person'[p]) \cap Live'
                      /\ ParentsOf(person[p]) \cap Live \subseteq S
  PROVE  \A p \in S : Gens[p] = Gens'[p]
<1>1. Acyclic(Edges) /\ Acyclic(Edges')
  BY DEF TreeInv
<1>2. \A p \in S : /\ Edges[p] \cap DOMAIN Edges = Edges'[p] \cap DOMAIN Edges'
                   /\ Edges[p] \cap DOMAIN Edges \subseteq S
  BY EdgesFinite, EdgesNext
<1>3. \A p \in S : Generations(Edges)[p] = Generations(Edges')[p]
  BY <1>1, <1>2, EdgesFinite, EdgesNext, GenerationsAgree
<1> QED
  BY <1>3 DEF Gens

\* A step that leaves the states and the parents of all rows leaves the
\* generations of the tree.
LEMMA SameTree ==
  ASSUME TreeInv, TreeInv',
         \A p \in Persons : /\ person'[p].state = person[p].state
                            /\ ParentsOf(person'[p]) = ParentsOf(person[p])
  PROVE  Born' = Born /\ Live' = Live /\ \A p \in Live : Gens'[p] = Gens[p]
<1>1. Born' = Born /\ Live' = Live /\ Live \subseteq Persons
  BY DEF Born, Live
<1>2. \A p \in Live : Gens[p] = Gens'[p]
  BY <1>1, GensAgree
<1> QED
  BY <1>1, <1>2

LEMMA SteadyGens ==
  ASSUME IInv, TreeInv, TreeInv', GenInv,
         \A p \in Persons : /\ person'[p].state = person[p].state
                            /\ ParentsOf(person'[p]) = ParentsOf(person[p])
                            /\ person'[p].gen = person[p].gen,
         \A v \in Workers : req'[v] = req[v] \/ req'[v].kind \notin {"create", "update", "recompute"}
  PROVE  GenInv' /\ StaysRight
<1>1. Born' = Born /\ Live' = Live /\ Live \subseteq Persons /\ \A p \in Live : Gens'[p] = Gens[p]
  BY SameTree DEF Live
<1>2. StaysRight
  BY <1>1 DEF StaysRight, GenerationsRight, Gens
<1>3. \A row : HighestParent(row)' = HighestParent(row)
  <2> TAKE row
  <2>1. {Gens'[r] : r \in ParentsOf(row) \cap Live} = {Gens[r] : r \in ParentsOf(row) \cap Live}
    BY <1>1
  <2> QED
    BY <1>1, <2>1 DEF HighestParent
<1>4. ASSUME NEW v \in Workers PROVE GenOK(req[v])'
  <2>1. CASE req'[v].kind \notin {"create", "update", "recompute"}
    BY <2>1 DEF GenOK
  <2>2. CASE req'[v] = req[v]
    <3>1. GenOK(req[v]) /\ (req[v].kind = "update" => req[v].p \in Persons)
      BY DEF GenInv, IInv, RequestsOK, RequestOK, IsBorn
    <3> QED
      BY <1>1, <1>3, <2>2, <3>1 DEF GenOK, HighestParent
  <2> QED
    BY <2>1, <2>2
<1> QED
  BY <1>2, <1>4 DEF GenInv

\* What a request is taken up with.
LEMMA TookGens ==
  ASSUME GenInv, NEW w \in Workers, NEW q, Took(w, q), GenOK(q)
  PROVE  GenInv' /\ StaysRight
<1>1. person' = person /\ Live' = Live /\ Born' = Born /\ Edges' = Edges
  BY DEF Took, Live, Born, Edges
<1>2. \A v \in Workers : GenOK(req'[v])
  BY DEF Took, GenInv
<1>3. \A v \in Workers : GenOK(req[v])'
  BY <1>1, <1>2 DEF GenOK, HighestParent, Gens
<1> QED
  BY <1>1, <1>3 DEF GenInv, StaysRight, GenerationsRight

LEMMA ListedGens ==
  ASSUME TreeInv, NEW ids \in SUBSET (Persons \ Born),
         NEW father \in [ids -> Live \cup {NoPerson}], NEW mother \in [ids -> Live \cup {NoPerson}],
         NEW note, NEW batch, batch = Listed(ids, father, mother, note)
  PROVE  DOMAIN batch = ids /\ \A p \in ids : batch[p].gen = HighestParent(batch[p])
<1>1. PICK rows : rows = [p \in ids |-> [Unsaved EXCEPT !.state = "live", !.father = father[p],
                                                        !.mother = mother[p], !.note = note, !.version = 1]]
  OBVIOUS
<1>2. PICK h : h = [p \in Live \cup ids |-> ParentsOf(IF p \in ids THEN rows[p] ELSE person[p])]
  OBVIOUS
<1>3. batch = [p \in ids |-> [rows[p] EXCEPT !.gen = Generations(h)[p]]]
  BY <1>1, <1>2 DEF Listed
<1>4. \A p \in ids : /\ rows[p].father = father[p] /\ rows[p].mother = mother[p]
                     /\ {"father", "mother", "gen"} \subseteq DOMAIN rows[p]
  BY <1>1 DEF Unsaved
<1>5. \A p \in ids : /\ batch[p].father = father[p] /\ batch[p].mother = mother[p]
                     /\ batch[p].gen = Generations(h)[p]
  BY <1>3, <1>4
<1>6. \A p \in ids : h[p] = ParentsOf(batch[p]) /\ h[p] \subseteq Live
  <2> TAKE p \in ids
  <2>1. h[p] = ParentsOf(rows[p])
    BY <1>2
  <2>2. ParentsOf(rows[p]) = {father[p], mother[p]} \ {NoPerson}
    BY <1>4 DEF ParentsOf
  <2>3. ParentsOf(batch[p]) = {father[p], mother[p]} \ {NoPerson}
    BY <1>5 DEF ParentsOf
  <2> QED
    BY <2>1, <2>2, <2>3
<1>7. Live \subseteq Born /\ Born \subseteq Persons
  BY DEF Live, Born
<1>8. DOMAIN h = Live \cup ids /\ \A p \in Live : h[p] = Edges[p] /\ h[p] \subseteq Born
  BY <1>2, <1>7, EdgesFinite DEF TreeInv, ParentsBorn
<1>9. IsFiniteSet(DOMAIN h)
  BY <1>7, <1>8, PersonsAssumption, FS_Subset
<1>10. Acyclic(h)
  <2>1. Pruned(Edges, h, ids)
    <3>1. \A c \in DOMAIN h \ ids : c \in DOMAIN Edges /\ h[c] \subseteq Edges[c]
      BY <1>8, EdgesFinite
    <3>2. \A c \in ids : Children(h, c) = {}
      BY <1>6, <1>7, <1>8 DEF Children
    <3> QED
      BY <3>1, <3>2 DEF Pruned
  <2> QED
    BY <1>9, <2>1, EdgesFinite, LeavesKeepAcyclic DEF TreeInv
<1>11. \A p \in Live : Edges[p] \cap DOMAIN Edges = h[p] \cap DOMAIN h /\ Edges[p] \cap DOMAIN Edges \subseteq Live
  BY <1>7, <1>8, EdgesFinite
<1>12. \A p \in Live : Generations(Edges)[p] = Generations(h)[p]
  BY <1>8, <1>9, <1>10, <1>11, EdgesFinite, GenerationsAgree DEF TreeInv
<1>13. ASSUME NEW p \in ids PROVE batch[p].gen = HighestParent(batch[p])
  <2>1. Generations(h)[p] = BelowHighest({Generations(h)[q] : q \in h[p] \cap DOMAIN h})
    BY <1>8, <1>9, <1>10, GenerationOf
  <2>2. h[p] \cap DOMAIN h = ParentsOf(batch[p]) \cap Live
    BY <1>6, <1>8
  <2>3. {Generations(h)[q] : q \in h[p] \cap DOMAIN h} = {Gens[q] : q \in ParentsOf(batch[p]) \cap Live}
    BY <1>12, <2>2 DEF Gens
  <2> QED
    BY <1>5, <2>1, <2>3 DEF HighestParent
<1> QED
  BY <1>3, <1>13

LEMMA ReadGens ==
  ASSUME IInv, TreeInv, NEW w \in Workers, Reads(w)
  PROVE  \E q : Took(w, q) /\ GenOK(q)
<1>0. /\ \A p \in Persons : IsRow(person[p])
      /\ Live \subseteq Persons /\ Born \subseteq Persons /\ Live \subseteq Born
  BY DEF IInv, RowsOK, Live, Born
<1>1. CASE CreateRead(w)
  <2>1. PICK ids \in SUBSET (Persons \ Born) :
          \E father, mother \in [ids -> Live \cup {NoPerson}], note \in Notes :
            Hold(w, "create", NoPerson, Unsaved, Unsaved, NoVersion,
                 Listed(ids, father, mother, note))
    BY <1>1 DEF CreateRead
  <2>2. PICK father, mother \in [ids -> Live \cup {NoPerson}], note \in Notes :
          Hold(w, "create", NoPerson, Unsaved, Unsaved, NoVersion, Listed(ids, father, mother, note))
    BY <2>1
  <2>3. PICK batch : batch = Listed(ids, father, mother, note)
    OBVIOUS
  <2>4. DOMAIN batch = ids /\ \A p \in ids : batch[p].gen = HighestParent(batch[p])
    BY <2>3, ListedGens
  <2>5. PICK q : Took(w, q) /\ q.kind = "create" /\ q.batch = batch
    BY <2>2, <2>3, HoldTakes
  <2> QED
    BY <2>4, <2>5 DEF GenOK
<1>2. CASE UpdateRead(w)
  <2>0. PICK p \in Live : \E father, mother, note, expected :
          LET new == [person[p] EXCEPT !.father = father, !.mother = mother, !.note = note]
          IN ParentsAllowed(Edges, p, new) /\ Hold(w, "update", p, person[p], new, expected, << >>)
    BY <1>2 DEF UpdateRead
  <2>1. PICK father, mother, note, expected :
          LET new == [person[p] EXCEPT !.father = father, !.mother = mother, !.note = note]
          IN ParentsAllowed(Edges, p, new) /\ Hold(w, "update", p, person[p], new, expected, << >>)
    BY <2>0
  <2>2. PICK new : new = [person[p] EXCEPT !.father = father, !.mother = mother, !.note = note]
    OBVIOUS
  <2>3. new.state = person[p].state /\ new.gen = person[p].gen
    BY <1>0, <2>2 DEF IsRow
  <2>4. Hold(w, "update", p, person[p], new, expected, << >>)
    BY <2>1, <2>2
  <2>5. PICK q : Took(w, q) /\ q.kind = "update" /\ q.p = p /\ q.new = new
    BY <2>4, HoldTakes
  <2> QED
    BY <2>3, <2>5 DEF GenOK
<1>3. CASE RecomputeRead(w)
  <2>1. PICK batch : batch = [p \in {q \in Live : person[q].gen # Gens[q]} |-> [person[p] EXCEPT !.gen = Gens[p]]]
    OBVIOUS
  <2>2. Hold(w, "recompute", NoPerson, Unsaved, Unsaved, NoVersion, batch)
    BY <1>3, <2>1 DEF RecomputeRead, Gens
  <2>3. DOMAIN batch = {q \in Live : person[q].gen # Gens[q]}
    BY <2>1
  <2>4. \A p \in DOMAIN batch : batch[p].gen = Gens[p]
    BY <1>0, <2>1 DEF IsRow
  <2>5. PICK q : Took(w, q) /\ q.kind = "recompute" /\ q.batch = batch
    BY <2>2, HoldTakes
  <2>6. \A p \in Live : Gens[p] = IF p \in DOMAIN batch THEN batch[p].gen ELSE person[p].gen
    BY <2>3, <2>4
  <2> QED
    BY <1>0, <2>3, <2>5, <2>6 DEF GenOK
<1>4. CASE DeleteRead(w) \/ RestoreRead(w) \/ PhotoRead(w) \/ UnphotoRead(w)
  <2>1. \E kind \in {"delete", "restore", "photo", "unphoto"} : \E p, old, new, expected, batch :
          Hold(w, kind, p, old, new, expected, batch)
    BY <1>4 DEF DeleteRead, RestoreRead, PhotoRead, UnphotoRead
  <2>2. PICK kind \in {"delete", "restore", "photo", "unphoto"} : \E p, old, new, expected, batch :
          Hold(w, kind, p, old, new, expected, batch)
    BY <2>1
  <2>3. PICK q : Took(w, q) /\ q.kind = kind
    BY <2>2, HoldTakes
  <2> QED
    BY <2>3 DEF GenOK
<1> QED
  BY <1>1, <1>2, <1>3, <1>4 DEF Reads

LEMMA CreateGens ==
  ASSUME IInv, TreeInv, TreeInv', GenInv, NoClash, NEW w \in Workers, CreateSave(w)
  PROVE  GenInv' /\ StaysRight
<1>1. PICK batch : batch = req[w].batch
  OBVIOUS
<1>2. /\ NewRows(batch) /\ Ended(w) /\ req[w].kind = "create"
      /\ \A p \in Persons : person'[p] = IF p \in DOMAIN batch THEN batch[p] ELSE person[p]
  BY <1>1, CreateEffect
<1>3. \A p \in DOMAIN batch : ParentsOf(batch[p]) \subseteq Born /\ batch[p].gen = HighestParent(batch[p])
  BY <1>1, <1>2 DEF TreeInv, BatchBorn, GenInv, GenOK
<1>4. /\ DOMAIN batch \subseteq Persons /\ DOMAIN batch \cap Born = {}
      /\ \A p \in DOMAIN batch : batch[p].state = "live"
  BY <1>2 DEF NewRows, Born
<1>5. /\ Born' = Born \cup DOMAIN batch /\ Live' = Live \cup DOMAIN batch
      /\ Live \subseteq Born /\ Born \subseteq Persons
  BY <1>2, <1>4 DEF Born, Live
<1>6. \A p \in Live : person'[p] = person[p] /\ ParentsOf(person[p]) \subseteq Born
  BY <1>2, <1>4, <1>5 DEF TreeInv, ParentsBorn
<1>7. \A p \in Live : ParentsOf(person[p]) \cap Live = ParentsOf(person'[p]) \cap Live'
  BY <1>4, <1>5, <1>6
<1>8. \A p \in Live : Gens[p] = Gens'[p]
  BY <1>5, <1>7, GensAgree
<1>9. \A row : ParentsOf(row) \subseteq Born => HighestParent(row)' = HighestParent(row)
  <2> TAKE row
  <2> HAVE ParentsOf(row) \subseteq Born
  <2>1. ParentsOf(row) \cap Live' = ParentsOf(row) \cap Live
    BY <1>4, <1>5
  <2>2. {Gens'[r] : r \in ParentsOf(row) \cap Live'} = {Gens[r] : r \in ParentsOf(row) \cap Live}
    BY <1>8, <2>1
  <2> QED
    BY <2>2 DEF HighestParent
<1>10. ASSUME NEW p \in DOMAIN batch PROVE person'[p].gen = Gens'[p]
  <2>1. Gens'[p] = BelowHighest({Gens'[r] : r \in ParentsOf(person'[p]) \cap Live'})
    BY <1>5, GensOfNext
  <2>2. person'[p] = batch[p]
    BY <1>2, <1>4
  <2>3. HighestParent(batch[p])' = HighestParent(batch[p])
    BY <1>3, <1>9
  <2> QED
    BY <1>3, <2>1, <2>2, <2>3 DEF HighestParent
<1>11. StaysRight
  BY <1>5, <1>6, <1>8, <1>10 DEF StaysRight, GenerationsRight, Gens
<1>12. ASSUME NEW v \in Workers PROVE GenOK(req[v])'
  <2>1. CASE v = w
    BY <1>2, <2>1 DEF Ended, Idle, GenOK
  <2>2. CASE v # w
    <3>1. req'[v] = req[v] /\ GenOK(req[v]) /\ BatchBorn(req[v]) /\ req[v].kind # "update"
      BY <1>2, <2>2 DEF Ended, GenInv, TreeInv, NoClash, Apart, Movers, TreeWriters
    <3>2. req[v].kind = "create" => \A p \in DOMAIN req[v].batch :
            req[v].batch[p].gen = HighestParent(req[v].batch[p])'
      BY <1>9, <3>1 DEF GenOK, BatchBorn
    <3>3. req[v].kind = "recompute" => \A p \in Live' :
            Gens'[p] = IF p \in DOMAIN req[v].batch THEN req[v].batch[p].gen ELSE person'[p].gen
      BY <1>4, <1>5, <1>6, <1>8, <1>10, <3>1 DEF GenOK
    <3> QED
      BY <1>5, <3>1, <3>2, <3>3 DEF GenOK, HighestParent
  <2> QED
    BY <2>1, <2>2
<1> QED
  BY <1>11, <1>12 DEF GenInv

LEMMA DeleteGens ==
  ASSUME IInv, TreeInv, TreeInv', PointInv, GenInv, NoClash, NEW w \in Workers, DeleteSave(w)
  PROVE  GenInv' /\ StaysRight
<1>1. PICK d : d = req[w].p
  OBVIOUS
<1>2. PICK row : row = [person[d] EXCEPT !.state = "deleted"]
  OBVIOUS
<1>3. /\ req[w].kind = "delete" /\ d \in Born /\ Ended(w)
      /\ Like(person'[d], row) /\ IsRow(person[d])
      /\ \A p \in Persons : p # d => person'[p] = person[p]
  BY <1>1, <1>2, DeleteEffect DEF IsBorn, Born
<1>4. person'[d].state = "deleted"
  BY <1>2, <1>3 DEF Like, IsRow
<1>5. ChildrenOf(d) = {}
  BY <1>1, <1>3 DEF PointInv, PointersOK
<1>6. /\ Born' = Born /\ Live' = Live \ {d} /\ Live \subseteq Born /\ Born \subseteq Persons
      /\ \A p \in Live' : person'[p] = person[p]
  BY <1>3, <1>4 DEF Born, Live
<1>7. \A p \in Live' : ParentsOf(person[p]) \cap Live = ParentsOf(person'[p]) \cap Live'
  BY <1>5, <1>6 DEF ChildrenOf
<1>8. \A p \in Live' : Gens[p] = Gens'[p]
  BY <1>6, <1>7, GensAgree
<1>9. StaysRight
  BY <1>6, <1>8 DEF StaysRight, GenerationsRight, Gens
<1>10. ASSUME NEW v \in Workers PROVE GenOK(req[v])'
  <2>1. CASE v = w
    BY <1>3, <2>1 DEF Ended, Idle, GenOK
  <2>2. CASE v # w
    <3>1. /\ req'[v] = req[v] /\ GenOK(req[v])
          /\ req[v].kind # "update" /\ req[v].kind # "create"
      BY <1>3, <2>2 DEF Ended, GenInv, NoClash, Apart, Movers, TreeWriters
    <3>2. req[v].kind = "recompute" => \A p \in Live' :
            Gens'[p] = IF p \in DOMAIN req[v].batch THEN req[v].batch[p].gen ELSE person'[p].gen
      BY <1>6, <1>8, <3>1 DEF GenOK
    <3> QED
      BY <1>6, <3>1, <3>2 DEF GenOK
  <2> QED
    BY <2>1, <2>2
<1> QED
  BY <1>9, <1>10 DEF GenInv

LEMMA RecomputeGens ==
  ASSUME IInv, TreeInv, TreeInv', GenInv, NoClash, NEW w \in Workers, RecomputeSave(w)
  PROVE  GenInv' /\ GenerationsRight'
<1>1. PICK batch : batch = req[w].batch
  OBVIOUS
<1>2. /\ req[w].kind = "recompute" /\ Ended(w)
      /\ \A p \in Persons : Like(person'[p], person[p])
      /\ \A p \in Persons : person'[p] = IF p \in DOMAIN batch THEN [person[p] EXCEPT !.gen = batch[p].gen]
                                                                ELSE person[p]
  BY <1>1, RecomputeEffect DEF RecomputeSave, Serving
<1>3. \A p \in Persons : person'[p].gen = IF p \in DOMAIN batch THEN batch[p].gen ELSE person[p].gen
  <2>1. \A p \in Persons : IsRow(person[p])
    BY DEF IInv, RowsOK
  <2> QED
    BY <1>2, <2>1 DEF IsRow
<1>4. Born' = Born /\ Live' = Live /\ \A p \in Live : Gens'[p] = Gens[p]
  BY <1>2, LikeParents, SameTree DEF Like
<1>5. \A p \in Live : Gens[p] = IF p \in DOMAIN batch THEN batch[p].gen ELSE person[p].gen
  BY <1>1, <1>2 DEF GenInv, GenOK
<1>6. Live \subseteq Persons
  BY DEF Live
<1>7. \A p \in Live : person'[p].gen = Gens[p]
  BY <1>3, <1>5, <1>6
<1>8. GenerationsRight'
  BY <1>4, <1>7 DEF GenerationsRight, Gens
<1>9. \A row : HighestParent(row)' = HighestParent(row)
  <2> TAKE row
  <2>1. {Gens'[r] : r \in ParentsOf(row) \cap Live} = {Gens[r] : r \in ParentsOf(row) \cap Live}
    BY <1>4
  <2> QED
    BY <1>4, <2>1 DEF HighestParent
<1>10. ASSUME NEW v \in Workers PROVE GenOK(req[v])'
  <2>1. CASE v = w
    BY <1>2, <2>1 DEF Ended, Idle, GenOK
  <2>2. CASE v # w
    <3>1. req'[v] = req[v] /\ GenOK(req[v]) /\ req[v].kind # "update"
      BY <1>2, <2>2 DEF Ended, GenInv, NoClash, Apart, Movers, TreeWriters
    <3>2. req[v].kind = "recompute" => \A p \in Live' :
            Gens'[p] = IF p \in DOMAIN req[v].batch THEN req[v].batch[p].gen ELSE person'[p].gen
      BY <1>4, <1>7, <3>1 DEF GenOK
    <3>3. req[v].kind = "create" => \A p \in DOMAIN req[v].batch :
            req[v].batch[p].gen = HighestParent(req[v].batch[p])'
      BY <1>9, <3>1 DEF GenOK
    <3>4. req[v].kind = "recompute" => DOMAIN req[v].batch \subseteq Born'
      BY <1>4, <3>1 DEF GenOK
    <3>5. ~((req[v].kind)' = "update")
      BY <3>1
    <3>6. ((req[v].kind)' = "create") => \A p \in DOMAIN (req[v].batch)' :
            (req[v].batch[p].gen)' = HighestParent(req[v].batch[p])'
      BY <3>1, <3>3
    <3>7. ((req[v].kind)' = "recompute") =>
            /\ DOMAIN (req[v].batch)' \subseteq Born'
            /\ \A p \in Live' : Gens'[p] = (IF p \in DOMAIN req[v].batch THEN req[v].batch[p].gen ELSE person[p].gen)'
      BY <3>1, <3>2, <3>4
    <3> QED
      BY <3>5, <3>6, <3>7 DEF GenOK
  <2> QED
    BY <2>1, <2>2
<1> QED
  BY <1>8, <1>10 DEF GenInv

\* No request that looks at the tree is in flight beside a move.
LEMMA MoveGens ==
  ASSUME IInv, NoClash, NEW w \in Workers, UpdateSave(w) \/ RestoreSave(w)
  PROVE  GenInv'
<1>1. req[w].kind \in Movers /\ Ended(w)
  BY MoverEffect DEF Movers
<1>2. \A v \in Workers : req'[v].kind \notin TreeWriters
  BY <1>1 DEF Ended, Idle, NoClash, Apart, TreeWriters, Movers
<1> QED
  BY <1>2 DEF GenInv, GenOK, TreeWriters, Movers

LEMMA UpdateGens ==
  ASSUME IInv, TreeInv, TreeInv', FreshInv, GenInv, NEW w \in Workers, UpdateSave(w)
  PROVE  StaysRight
<1>1. PICK q, d : q = req[w] /\ d = q.p
  OBVIOUS
<1>2. PICK rows : rows = [person EXCEPT ![d] = Bumped(q, q.new)]
  OBVIOUS
<1>3. /\ q.kind = "update" /\ IsBorn(d) /\ IsRow(q.new) /\ q.new.state # "unborn"
      /\ Like(person'[d], q.new) /\ \A p \in Persons : p # d => Like(person'[p], person[p])
  BY <1>1, MoverEffect DEF UpdateSave, Serving
<1>4. DOMAIN person = Persons /\ d \in Persons /\ \A p \in Persons : IsRow(person[p])
  BY <1>3 DEF IInv, RowsOK, IsBorn
<1>5. q.new.gen = person[d].gen /\ q.new.state = person[d].state
  BY <1>1, <1>3 DEF GenInv, GenOK
<1>6. /\ Bumped(q, q.new).gen = q.new.gen /\ Like(Bumped(q, q.new), q.new)
      /\ "gen" \in DOMAIN Bumped(q, q.new)
  BY <1>3, BumpedLike DEF Bumped, IsRow
<1>7. /\ \A p \in Persons : rows[p] = IF p = d THEN Bumped(q, q.new) ELSE person[p]
      /\ \A p \in Persons : rows[p].gen = person[p].gen /\ "gen" \in DOMAIN rows[p]
  BY <1>2, <1>4, <1>5, <1>6 DEF IsRow
<1>8. Live' = Live /\ Live \subseteq Persons
  BY <1>3, <1>5 DEF Like, Live
<1>9. CASE ~(q.new.father # q.old.father \/ q.new.mother # q.old.mother)
  <2>1. person' = rows
    BY <1>1, <1>2, <1>9 DEF UpdateSave
  <2>2. Replaceable(q.old) = Replaceable(person[d])
    BY <1>1, <1>3 DEF FreshInv, Movers
  <2>3. q.old.father = person[d].father /\ q.old.mother = person[d].mother
    BY <2>2 DEF Replaceable
  <2>4. person'[d].father = person[d].father /\ person'[d].mother = person[d].mother
    BY <1>3, <1>9, <2>3 DEF Like
  <2>5. \A p \in Persons : person'[p].state = person[p].state /\ ParentsOf(person'[p]) = ParentsOf(person[p])
    BY <1>3, <1>5, <2>4 DEF Like, ParentsOf
  <2>6. \A p \in Live : Gens'[p] = Gens[p]
    BY <2>5, SameTree
  <2> QED
    BY <1>7, <1>8, <2>1, <2>6 DEF StaysRight, GenerationsRight, Gens
<1>10. CASE q.new.father # q.old.father \/ q.new.mother # q.old.mother
  <2>1. person' = Regenerated(rows, d)
    BY <1>1, <1>2, <1>10 DEF UpdateSave
  <2>2. \A p \in Persons : person'[p].state = rows[p].state /\ ParentsOf(person'[p]) = ParentsOf(rows[p])
    <3>1. \A p \in Persons : Like(person'[p], rows[p])
      <4>1. \A p \in Persons : IsRow(rows[p])
        <5>1. IsRow(Bumped(q, q.new))
          BY <1>1, <1>3, BumpedRow
        <5> QED
          BY <1>4, <1>7, <5>1
      <4>2. DOMAIN rows = Persons
        BY <1>2, <1>4
      <4> QED
        BY <2>1, <4>1, <4>2, RegeneratedRows, SeenLike
    <3> QED
      BY <3>1, LikeParents DEF Like
  <2>3. EdgesOf(rows) = Edges'
    <3>1. {p \in Persons : rows[p].state = "live"} = {p \in Persons : person'[p].state = "live"}
      BY <2>2
    <3>2. EdgesOf(rows) = [p \in {p \in Persons : rows[p].state = "live"} |-> ParentsOf(rows[p])]
      BY DEF EdgesOf
    <3>3. Edges' = [p \in {p \in Persons : person'[p].state = "live"} |-> ParentsOf(person'[p])]
      BY DEF Edges, EdgesOf
    <3> QED
      BY <2>2, <3>1, <3>2, <3>3
  <2>4. PICK targets : targets = ({d} \cup Descendants(Edges', d)) \cap DOMAIN Edges'
    OBVIOUS
  <2>5. person' = [p \in Persons |-> IF p \in targets THEN [rows[p] EXCEPT !.gen = Gens'[p]] ELSE rows[p]]
    BY <2>1, <2>3, <2>4 DEF Regenerated, Gens
  <2>6. \A p \in targets : p \in Persons => person'[p].gen = Gens'[p]
    BY <1>7, <2>5
  <2>7. PICK S : S = Live \ targets
    OBVIOUS
  <2>8. \A p \in S : person'[p].gen = person[p].gen
    BY <1>7, <1>8, <2>5, <2>7
  <2>9. \A p \in S : ParentsOf(person'[p]) \cap targets = {}
    <3> SUFFICES ASSUME NEW p \in S, NEW r \in ParentsOf(person'[p]), r \in targets PROVE FALSE
      OBVIOUS
    <3>1. p \in Children(Edges', r)
      BY <1>8, <2>7, EdgesNext DEF Children
    <3>2. p \in Descendants(Edges', d)
      BY <2>4, <3>1, EdgesNext, DescendantsClosed DEF HoldsChildren
    <3> QED
      BY <1>8, <2>4, <2>7, <3>2, EdgesNext
  <2>10. \A p \in S : p # d \/ d \notin DOMAIN Edges'
    BY <2>4, <2>7
  <2>11. \A p \in S : p # d /\ p \in Live'
    BY <1>8, <2>7, <2>10, EdgesNext
  <2>12. \A p \in S : ParentsOf(person[p]) = ParentsOf(person'[p])
    BY <1>3, <1>8, <2>7, <2>11, LikeParents
  <2>13. \A p \in S : Gens[p] = Gens'[p]
    BY <1>8, <2>7, <2>9, <2>12, GensAgree
  <2> QED
    BY <1>8, <2>6, <2>7, <2>8, <2>13 DEF StaysRight, GenerationsRight, Gens
<1> QED
  BY <1>9, <1>10

LEMMA PhotoKeepsGen ==
  ASSUME IInv, NEW w \in Workers, PhotoSave(w)
  PROVE  \A p \in Persons : /\ person'[p].state = person[p].state
                            /\ ParentsOf(person'[p]) = ParentsOf(person[p])
                            /\ person'[p].gen = person[p].gen
<1>1. PICK q, d : q = req[w] /\ d = q.p
  OBVIOUS
<1>2. PICK row : row = [person[d] EXCEPT !.photo = q.new.photo]
  OBVIOUS
<1>3. /\ q.kind \in {"photo", "unphoto"} /\ IsRow(person[d]) /\ d \in Persons
      /\ Like(person'[d], row)
      /\ \A p \in Persons : p # d => person'[p] = person[p]
  BY <1>1, <1>2, PhotoEffect DEF IsBorn
<1>4. /\ row.gen = person[d].gen /\ "gen" \in DOMAIN row /\ row.state = person[d].state
      /\ ParentsOf(row) = ParentsOf(person[d])
  BY <1>2, <1>3 DEF IsRow, ParentsOf
<1>5. DOMAIN person = Persons
  BY DEF IInv, RowsOK
<1>6. person'[d] = Bumped(q, row)
  BY <1>1, <1>2, <1>3, <1>5 DEF PhotoSave
<1>7. person'[d].gen = row.gen
  BY <1>4, <1>6 DEF Bumped
<1> QED
  BY <1>3, <1>4, <1>7, LikeParents DEF Like

\* Only a recompute ends a recompute.
LEMMA SavesRecompute ==
  ASSUME IInv, [Next]_vars, Saves("recompute")
  PROVE  \E w \in Workers : RecomputeSave(w)
<1>1. PICK w \in Workers : Serving(w, "recompute", "read") /\ req'[w] # req[w]
  BY DEF Saves
<1>2. PICK v \in Workers : Serve(v)
  BY <1>1 DEF Next, Upload, vars
<1>3. DOMAIN req = Workers
  BY DEF IInv, RequestsOK
<1>4. v = w
  BY <1>1, <1>2, <1>3 DEF Serve, CreateRead, CreateSave, UpdateRead, UpdateSave, UpdateConflict, DeleteRead,
     DeleteSave, RestoreRead, RestoreSave, PhotoRead, UnphotoRead, PhotoSave, DropPhoto, RecomputeRead,
     RecomputeSave, Hold, Done
<1>5. req[w].kind = "recompute" /\ req[w].at = "read" /\ req[w] # Idle
  BY <1>1 DEF Serving, Idle
<1>6. ~Reads(w)
  BY <1>5 DEF Reads, CreateRead, UpdateRead, DeleteRead, RestoreRead, PhotoRead, UnphotoRead,
     RecomputeRead, Hold
<1> QED
  BY <1>2, <1>4, <1>5, <1>6 DEF Serve, Reads, CreateSave, UpdateSave, UpdateConflict, DeleteSave,
     RestoreSave, PhotoSave, DropPhoto, Serving

LEMMA NextGens ==
  ASSUME IInv, TreeInv, TreeInv', FreshInv, PointInv, GenInv, NoClash, [Next]_vars
  PROVE  /\ GenInv'
         /\ (GenerationsRight \/ Saves("recompute")) /\ ~Saves("restore") => GenerationsRight'
<1> SUFFICES /\ GenInv'
             /\ \/ StaysRight
                \/ \E w \in Workers : RestoreSave(w)
                \/ \E w \in Workers : RecomputeSave(w) /\ GenerationsRight'
  <2>1. ASSUME NEW w \in Workers, RestoreSave(w) PROVE Saves("restore")
    <3>1. Ended(w) /\ Serving(w, "restore", "read")
      BY <2>1, DoneEnds DEF RestoreSave
    <3> QED
      BY <3>1 DEF Ended, Idle, Saves, Serving
  <2>2. ASSUME Saves("recompute") PROVE GenerationsRight'
    BY <2>2, SavesRecompute, RecomputeGens
  <2> QED
    BY <2>1, <2>2 DEF StaysRight
<1>1. CASE Quiet
  BY <1>1, SteadyGens DEF Quiet
<1>2. CASE \E w \in Workers : Reads(w)
  BY <1>2, ReadGens, TookGens
<1>3. CASE \E w \in Workers : CreateSave(w)
  BY <1>3, CreateGens
<1>4. CASE \E w \in Workers : UpdateSave(w) \/ RestoreSave(w)
  BY <1>4, MoveGens, UpdateGens
<1>5. CASE \E w \in Workers : DeleteSave(w)
  BY <1>5, DeleteGens
<1>6. CASE \E w \in Workers : PhotoSave(w)
  <2>1. PICK w \in Workers : PhotoSave(w)
    BY <1>6
  <2>2. \A v \in Workers : req'[v] = req[v] \/ req'[v].kind \notin {"create", "update", "recompute"}
    BY <2>1, PhotoEnds DEF Idle
  <2> QED
    BY <2>1, <2>2, PhotoKeepsGen, SteadyGens
<1>7. CASE \E w \in Workers : RecomputeSave(w)
  BY <1>7, RecomputeGens
<1>8. CASE \E w \in Workers : UpdateConflict(w) \/ DropPhoto(w)
  <2>1. PICK w \in Workers : UpdateConflict(w) \/ DropPhoto(w)
    BY <1>8
  <2>2. person' = person /\ Ended(w)
    BY <2>1, DoneEnds DEF UpdateConflict, DropPhoto
  <2>3. \A v \in Workers : req'[v] = req[v] \/ req'[v].kind \notin {"create", "update", "recompute"}
    BY <2>2 DEF Ended, Idle
  <2> QED
    BY <2>2, <2>3, SteadyGens
<1>9. CASE (\E k \in Keys : Upload(k)) \/ UNCHANGED vars
  BY <1>1, <1>9 DEF Upload, vars, Quiet
<1> QED
  BY <1>2, <1>3, <1>4, <1>5, <1>6, <1>7, <1>8, <1>9 DEF Next, Serve, Reads

(***************************************************************************)
(* As long as no update or restore overlaps with another write but a       *)
(* photo's, and no delete with a create, the stored generations are those  *)
(* of the whole tree after every step but a restore's save if they were    *)
(* before, and after every save of recompute_generations whatever they     *)
(* were: the generations a request computes on the tree it has read, and   *)
(* those an update recomputes below the moved person only, are enough      *)
(* (recompute_descendant_generations).                                     *)
(***************************************************************************)
THEOREM GenerationsStayRight == Spec /\ []NoClash => GenerationsKept
<1>1. Init => GenInv /\ FreshInv
  BY DEF Init, GenInv, GenOK, Idle, FreshInv, Movers
<1>2. NoClash => Apart(Movers, Movers) /\ Apart({"delete"}, Pointers)
  BY NoClashApart
<1>3. IInv /\ TreeInv /\ Apart(Movers, Movers) /\ [Next]_vars => TreeInv'
  BY NextTree
<1>4. IInv /\ FreshInv /\ Apart(Movers, Movers) /\ [Next]_vars => FreshInv'
  BY NextFresh
<1>5. IInv /\ PointInv /\ Apart({"delete"}, Pointers) /\ [Next]_vars => PointInv'
  BY NextPointers
<1>6. IInv /\ TreeInv /\ TreeInv' /\ FreshInv /\ PointInv /\ GenInv /\ NoClash /\ [Next]_vars =>
        /\ GenInv'
        /\ [(GenerationsRight \/ Saves("recompute")) /\ ~Saves("restore") => GenerationsRight']_vars
  BY NextGens
<1> QED
  BY <1>1, <1>2, <1>3, <1>4, <1>5, <1>6, InitTree, InitPointers, Invariance, PTL DEF Spec, GenerationsKept

=============================================================================
