----------------------------- MODULE PersonWrites -----------------------------
(***************************************************************************)
(* Every write path of a clan's person rows: create, update, soft-delete,  *)
(* restore of a revision, photo confirm and photo delete, and the command  *)
(* that recomputes the generations.                                        *)
(*                                                                         *)
(* A web worker serves one request in two or three steps that the other    *)
(* workers interleave with:                                                *)
(*   ...Read  the handler loads the person row it will save, the edges it  *)
(*            validates against and, for a photo, asks the bucket          *)
(*   ...Save  the write transaction commits.  lock_and_bump holds the row  *)
(*            lock to the commit, but re-reads nothing but the version     *)
(*   DropPhoto  after the commit the replaced photo object is deleted      *)
(* A request the rules refuse changes nothing and is not a step.  Rights   *)
(* (permissions_scope), dates and the birth-year rule are left out: they   *)
(* only refuse more.                                                       *)
(***************************************************************************)
EXTENDS Genealogy

CONSTANTS
  Persons, NoPerson,
  Notes,            \* the values of the columns no rule reads
  Keys, NoKey,      \* photo keys the server has minted
  KeyPerson,        \* the person in the prefix of each key
  Workers,
  NoVersion,        \* "no `version` in the PATCH body"
  Kinds,            \* the requests clients of this instance send
  InitialTrees,     \* the trees the clan may start with
  MaxPersons,       \* MAX_CLAN_PERSONS
  MaxBatch,         \* bound: items of one POST (MAX_BULK_CREATE in the code)
  MaxRequests       \* bound: requests in one behaviour

AllKinds == {"create", "update", "delete", "restore", "photo", "unphoto", "recompute"}
Parents == Persons \cup {NoPerson}

Rows == [state : {"unborn", "live", "deleted"}, father : Parents, mother : Parents,
         note : Notes, gen : Nat, photo : Keys \cup {NoKey}, version : Nat]   \* gen 0: NULL

\* An id that has no row yet.
Unsaved == [state |-> "unborn", father |-> NoPerson, mother |-> NoPerson,
            note |-> CHOOSE n \in Notes : TRUE, gen |-> 0, photo |-> NoKey,
            version |-> 0]

(* What services/revision.snapshot keeps of a row.  is_deleted, photo_key  *)
(* and version are in _EXCLUDED_FIELDS.                                    *)
Payload(row) == [father |-> row.father, mother |-> row.mother, note |-> row.note,
                 gen |-> row.gen]

ASSUME PersonsAssumption ==
  /\ IsFiniteSet(Persons)
  /\ NoPerson \notin Persons
  /\ NoKey \notin Keys
  /\ NoVersion \notin Nat
  /\ KeyPerson \in [Keys -> Persons]
  /\ Kinds \subseteq AllKinds
  /\ {MaxPersons, MaxBatch, MaxRequests} \subseteq Nat
  /\ InitialTrees \subseteq [Persons -> Rows]
  /\ \A tree \in InitialTrees, p \in Persons : tree[p].state = "unborn" => tree[p] = Unsaved

VARIABLES
  person,      \* the rows of giapha_person
  revisions,   \* the payloads of giapha_personrevision, per person
  objects,     \* the photo objects in the bucket
  req,         \* what each worker is serving
  served       \* bound: requests begun

vars == <<person, revisions, objects, req, served>>

Live == {p \in Persons : person[p].state = "live"}
Born == {p \in Persons : person[p].state # "unborn"}

ParentsOf(row) == {row.father, row.mother} \ {NoPerson}

\* selectors/person.clan_edges of a table of rows: the visible tree.
EdgesOf(rows) == [p \in {q \in Persons : rows[q].state = "live"} |-> ParentsOf(rows[p])]
Edges == EdgesOf(person)

(* A tree the clan may start with is one its requests could have built.    *)
ASSUME TreesAssumption ==
  \A tree \in InitialTrees, p \in Persons :
    /\ \A q \in ParentsOf(tree[p]) : tree[q].state = "live"
    /\ p \notin Descendants(EdgesOf(tree), p)
    /\ tree[p].photo # NoKey => KeyPerson[tree[p].photo] = p

(* A request: `old` is the row in memory, `new` the one it will save (for  *)
(* "delete", "photo" and "unphoto" only the columns of update_fields are   *)
(* taken from it), `batch` the rows of a create, keyed by their new ids.   *)
Idle == [kind |-> "idle", at |-> "idle", p |-> NoPerson, old |-> Unsaved,
         new |-> Unsaved, expected |-> NoVersion, batch |-> << >>]

Init ==
  /\ person \in InitialTrees
  /\ revisions = [p \in Persons |-> {}]
  /\ objects = {person[p].photo : p \in Persons} \ {NoKey}
  /\ req = [w \in Workers |-> Idle]
  /\ served = 0

-------------------------------------------------------------------------------
(* Validation: services/person_rules.                                      *)

\* Mutant: the cycle rule is dropped.
ParentsAllowedCyclic(g, p, row) ==
  /\ p \notin ParentsOf(row)
  /\ ParentsOf(row) \subseteq DOMAIN g
\* validate_self_not_parent, validate_parent_in_same_clan, validate_no_cycle
ParentsAllowed(g, p, row) ==
  /\ p \notin ParentsOf(row)
  /\ ParentsOf(row) \subseteq DOMAIN g
  /\ ParentsOf(row) \cap Descendants(g, p) = {}

\* Mutant: soft-deleted children no longer block a delete.
LiveChildrenOf(p) == {c \in Live : p \in ParentsOf(person[c])}
ChildrenOf(p) == {c \in Born : p \in ParentsOf(person[c])}

-------------------------------------------------------------------------------
(* Shared steps of the handlers.                                           *)

Serving(w, kind, at) == req[w].kind = kind /\ req[w].at = at

Hold(w, kind, p, old, new, expected, batch) ==
  /\ kind \in Kinds
  /\ req[w] = Idle
  /\ served < MaxRequests
  /\ served' = served + 1
  /\ req' = [req EXCEPT ![w] = [kind |-> kind, at |-> "read", p |-> p, old |-> old,
                                new |-> new, expected |-> expected, batch |-> batch]]
  /\ UNCHANGED <<person, revisions, objects>>

Done(w) == req' = [req EXCEPT ![w] = Idle]

\* Mutant: no version is ever compared.
VersionUnchecked(q) == TRUE
\* lock_and_bump: the version a PATCH expects is compared under the row lock
VersionHolds(q) == q.expected = NoVersion \/ person[q.p].version = q.expected

\* Mutant: the bump starts from the row in memory.
BumpedInMemory(q, row) == [row EXCEPT !.version = q.old.version + 1]
Bumped(q, row) == [row EXCEPT !.version = person[q.p].version + 1]

\* Mutant: the snapshot is taken after the fields are set.
RecordedAfter(q) == [revisions EXCEPT ![q.p] = @ \cup {Payload(q.new)}]
\* selectors/revision.record, on the row in memory
Recorded(q) == [revisions EXCEPT ![q.p] = @ \cup {Payload(q.old)}]

\* Mutant: only the edited person gets a new generation.
RegeneratedAlone(rows, p) ==
  [rows EXCEPT ![p].gen = IF rows[p].state = "live" THEN Generations(EdgesOf(rows))[p] ELSE @]
\* recompute_descendant_generations
Regenerated(rows, p) ==
  LET g == EdgesOf(rows)
      targets == ({p} \cup Descendants(g, p)) \cap DOMAIN g
      gens == Generations(g)
  IN [q \in Persons |-> IF q \in targets THEN [rows[q] EXCEPT !.gen = gens[q]] ELSE rows[q]]

-------------------------------------------------------------------------------
(* POST /persons: one person or a batch.  Ids, parents and the size cap    *)
(* are checked, and generations computed, on what was read before the      *)
(* transaction.  The ids of the batch are the next ones of the table; no   *)
(* client can name them as a parent yet.                                   *)

Listed(ids, father, mother, note) ==
  LET rows == [p \in ids |-> [Unsaved EXCEPT !.state = "live", !.father = father[p],
                                             !.mother = mother[p], !.note = note, !.version = 1]]
      gens == Generations([p \in Live \cup ids |-> ParentsOf(IF p \in ids THEN rows[p] ELSE person[p])])
  IN [p \in ids |-> [rows[p] EXCEPT !.gen = gens[p]]]

CreateRead(w) ==
  \E ids \in SUBSET (Persons \ Born) : \E father, mother \in [ids -> Live \cup {NoPerson}], note \in Notes :
    /\ Cardinality(ids) \in 1..MaxBatch
    /\ Cardinality(Live) + Cardinality(ids) <= MaxPersons
    /\ \A v \in Workers : ids \cap DOMAIN req[v].batch = {}
    /\ Hold(w, "create", NoPerson, Unsaved, Unsaved, NoVersion, Listed(ids, father, mother, note))

\* the revision of a new row is taken before its generation is set
CreateSave(w) ==
  LET rows == req[w].batch
  IN /\ Serving(w, "create", "read")
     /\ person' = [p \in Persons |-> IF p \in DOMAIN rows THEN rows[p] ELSE person[p]]
     /\ revisions' = [p \in Persons |-> IF p \in DOMAIN rows
                                        THEN {Payload([rows[p] EXCEPT !.gen = 0])}
                                        ELSE revisions[p]]
     /\ Done(w)
     /\ UNCHANGED <<objects, served>>

-------------------------------------------------------------------------------
(* PATCH /persons/{p}.  A field missing from the body keeps the value in   *)
(* memory.  A client that sends a version sends one it has read.           *)

UpdateRead(w) ==
  \E p \in Live, father, mother \in Parents, note \in Notes :
    LET row == person[p]
        new == [row EXCEPT !.father = father, !.mother = mother, !.note = note]
    IN /\ ParentsAllowed(Edges, p, new)
       /\ \E expected \in {NoVersion} \cup 1..row.version :
            Hold(w, "update", p, row, new, expected, << >>)

UpdateSave(w) ==
  LET q == req[w]
      rows == [person EXCEPT ![q.p] = Bumped(q, q.new)]
      moved == q.new.father # q.old.father \/ q.new.mother # q.old.mother
  IN /\ Serving(w, "update", "read")
     /\ VersionHolds(q)
     /\ person' = IF moved THEN Regenerated(rows, q.p) ELSE rows
     /\ revisions' = Recorded(q)
     /\ Done(w)
     /\ UNCHANGED <<objects, served>>

\* 409 VERSION_CONFLICT
UpdateConflict(w) ==
  /\ Serving(w, "update", "read")
  /\ ~VersionHolds(req[w])
  /\ Done(w)
  /\ UNCHANGED <<person, revisions, objects, served>>

-------------------------------------------------------------------------------
(* DELETE /persons/{p}: refused while any row, deleted ones included,      *)
(* points at p; the rows are counted before the transaction.               *)

DeleteRead(w) ==
  \E p \in Live :
    /\ ChildrenOf(p) = {}
    /\ Hold(w, "delete", p, person[p], [person[p] EXCEPT !.state = "deleted"], NoVersion, << >>)

DeleteSave(w) ==
  LET q == req[w]
  IN /\ Serving(w, "delete", "read")
     /\ person' = [person EXCEPT ![q.p] = Bumped(q, [@ EXCEPT !.state = "deleted"])]
     /\ revisions' = Recorded(q)
     /\ Done(w)
     /\ UNCHANGED <<objects, served>>

-------------------------------------------------------------------------------
(* POST /persons/{p}/revisions/{r}/restore: any row of the clan, deleted   *)
(* or not.  The whole row in memory is saved, so the columns the payload   *)
(* leaves out (is_deleted, photo_key) are written back as they were read.  *)

RestoreRead(w) ==
  \E p \in Born : \E payload \in revisions[p] :
    LET new == [person[p] EXCEPT !.father = payload.father, !.mother = payload.mother,
                                 !.note = payload.note, !.gen = payload.gen]
    IN /\ ParentsAllowed(Edges, p, new)
       /\ Hold(w, "restore", p, person[p], new, NoVersion, << >>)

RestoreSave(w) ==
  LET q == req[w]
  IN /\ Serving(w, "restore", "read")
     /\ person' = [person EXCEPT ![q.p] = Bumped(q, q.new)]
     /\ revisions' = Recorded(q)
     /\ Done(w)
     /\ UNCHANGED <<objects, served>>

-------------------------------------------------------------------------------
(* The photo of a person.  The client PUTs an object under a minted key,   *)
(* then confirms the key.                                                  *)

\* the key has the shape the server mints for p, and no other
BelongsTo(k, p) == KeyPerson[k] = p
\* storage.head; an object over the size limit or of another type counts as none
InBucket(k) == k \in objects
\* storage.delete, in _swallow_delete: a failure is logged and leaves the object
WithoutObject(k) == {objects, objects \ {k}}

\* a presigned URL, then the client's PUT
Upload(k) ==
  /\ "photo" \in Kinds
  /\ ~InBucket(k)
  /\ objects' = objects \cup {k}
  /\ UNCHANGED <<person, revisions, req, served>>

PhotoRead(w) ==
  \E p \in Live, k \in Keys :
    /\ BelongsTo(k, p)
    /\ InBucket(k)
    /\ Hold(w, "photo", p, person[p], [person[p] EXCEPT !.photo = k], NoVersion, << >>)

UnphotoRead(w) ==
  \E p \in Live :
    Hold(w, "unphoto", p, person[p], [person[p] EXCEPT !.photo = NoKey], NoVersion, << >>)

\* Mutant: the replaced object is deleted even when it is the confirmed one.
ReplacesAnyPhoto(q) == q.old.photo # NoKey
ReplacesPhoto(q) == q.old.photo \notin {NoKey, q.new.photo}

PhotoSave(w) ==
  LET q == req[w]
  IN /\ Serving(w, "photo", "read") \/ Serving(w, "unphoto", "read")
     /\ person' = [person EXCEPT ![q.p] = Bumped(q, [@ EXCEPT !.photo = q.new.photo])]
     /\ revisions' = Recorded(q)
     /\ IF ReplacesPhoto(q) THEN req' = [req EXCEPT ![w].at = "saved"] ELSE Done(w)
     /\ UNCHANGED <<objects, served>>

DropPhoto(w) ==
  /\ req[w].at = "saved"
  /\ objects' \in WithoutObject(req[w].old.photo)
  /\ Done(w)
  /\ UNCHANGED <<person, revisions, served>>

-------------------------------------------------------------------------------
(* manage.py recompute_generations, for this clan: the generations that    *)
(* are not those of the tree just read are written later, by id.           *)

RecomputeRead(w) ==
  LET gens == Generations(Edges)
  IN Hold(w, "recompute", NoPerson, Unsaved, Unsaved, NoVersion,
          [p \in {q \in Live : person[q].gen # gens[q]} |-> [person[p] EXCEPT !.gen = gens[p]]])

RecomputeSave(w) ==
  LET changed == req[w].batch
  IN /\ Serving(w, "recompute", "read")
     /\ person' = [p \in Persons |-> IF p \in DOMAIN changed
                                     THEN [person[p] EXCEPT !.gen = changed[p].gen] ELSE person[p]]
     /\ Done(w)
     /\ UNCHANGED <<revisions, objects, served>>

-------------------------------------------------------------------------------
Serve(w) ==
  \/ CreateRead(w) \/ CreateSave(w)
  \/ UpdateRead(w) \/ UpdateSave(w) \/ UpdateConflict(w)
  \/ DeleteRead(w) \/ DeleteSave(w)
  \/ RestoreRead(w) \/ RestoreSave(w)
  \/ PhotoRead(w) \/ UnphotoRead(w) \/ PhotoSave(w) \/ DropPhoto(w)
  \/ RecomputeRead(w) \/ RecomputeSave(w)

Next == (\E w \in Workers : Serve(w)) \/ (\E k \in Keys : Upload(k))

Spec == Init /\ [][Next]_vars

-------------------------------------------------------------------------------
(* Properties of requests served one at a time (Workers a singleton).      *)

\* No person is their own ancestor: what validate_no_cycle is there for,
\* also across restores of revisions taken when the tree looked different.
NoParentCycle == \A p \in Live : p \notin Descendants(Edges, p)

\* No row, live or soft-deleted, names a soft-deleted parent (the reason why
\* children_count counts deleted children, and restore validates again).
NoPointerToDeleted ==
  \A c \in Born : \A p \in ParentsOf(person[c]) : person[p].state # "deleted"

\* A person's photo_key always names an object that is in the bucket: the
\* old object goes only after the new key is stored.
PhotoObjectExists == \A p \in Persons : person[p].photo \in objects \cup {NoKey}

\* Whatever father, mother and text a write replaces can be read back from
\* the revisions, so that a restore is never a one-way trip.
Replaceable(row) == [father |-> row.father, mother |-> row.mother, note |-> row.note]
ReplacedIsRecorded ==
  [][\A p \in Born : Replaceable(person'[p]) # Replaceable(person[p])
        => \E r \in revisions'[p] : Replaceable(r) = Replaceable(person[p])]_vars

\* The stored generations are those of the whole tree: no write but a restore
\* can make them wrong (a restore saves the generation of the revision, NULL
\* when a create recorded it, and recomputes none), and recompute_generations
\* makes them right again.
GenerationsRight == \A p \in Live : person[p].gen = Generations(Edges)[p]
Saves(kind) == \E w \in Workers : Serving(w, kind, "read") /\ req'[w] # req[w]
GenerationsKept ==
  [][(GenerationsRight \/ Saves("recompute")) /\ ~Saves("restore") => GenerationsRight']_vars

-------------------------------------------------------------------------------
(* Properties of requests that overlap.                                    *)

\* All of a row but the derived generation.
Seen(row) == [row EXCEPT !.gen = 0]

\* A PATCH that carried a version replaces exactly the row it had read: no
\* write of any other path slips in between (person_version.py).
VersionedWriteSeesWhatItReplaces ==
  [][\A w \in Workers :
       LET q == req[w]
       IN Serving(w, "update", "read") /\ q.expected # NoVersion /\ person'[q.p] # person[q.p]
            /\ req'[w] # q
          => Seen(person[q.p]) = Seen(q.old)]_vars

\* Every write path moves the version of the row it changes up by exactly
\* one, whichever row was in memory.
VersionCountsWrites ==
  [][\A p \in Persons : Seen(person'[p]) # Seen(person[p])
        => person'[p].version = person[p].version + 1]_vars

\* Restoring a revision "can never resurrect a soft-deleted person as a side
\* effect" (the docstring of PersonRestoreAPIView).
RestoreNeverUndeletes ==
  [][\A w \in Workers : \A p \in Persons :
       Serving(w, "restore", "read") /\ req'[w] # req[w] /\ person[p].state = "deleted"
       => person'[p].state = "deleted"]_vars
===============================================================================
