# Formal models of calendar-api

The repository is a Django 3.1 / MySQL backend with two applications: `apis`
(accounts, almanac, bookings) and `giapha` (family records: clans, their members
and their tree). This directory holds TLA+ models of the parts where state is
shared between requests, the TLC runs that check them on small instances, and
TLAPS proofs of the most important ones.

## How the system works

Web workers serve one HTTP request at a time; many workers share one MySQL
database. Django sets the isolation level to READ COMMITTED and the project does
not set `ATOMIC_REQUESTS` (`djangopj/settings.py`), so

* a read sees what is committed at that moment, and nothing keeps it true later;
* each `transaction.atomic()` block commits as a whole;
* only a unique index, a guarded `UPDATE`/`DELETE`, or `SELECT ... FOR UPDATE`
  protects a decision against another request.

That is the model of computation of every module: a request is a *read* step
(the handler loads rows and decides), and a *save* step (its transaction
commits), with the steps of other workers between them. A lock taken with
`FOR UPDATE` is held from the read that takes it to the commit or rollback.

### Inventory

| component | state | operations | what must hold | module |
|---|---|---|---|---|
| clan membership | `giapha_clanmember` (role, branch) | change role or branch, remove, leave | an owner remains; only editors have a branch; nothing of a leaver stays usable | `ClanMembership` |
| invites | `giapha_claninvite` | create, revoke, approve, reject, join | use counts are exact; a decision is final; editor invites need an owner | `ClanMembership` |
| node binding | `person`, `person_verified` of the member row | claim, unbind, verify, refuse | verified means somebody entitled vouched for this very node | `ClanMembership` |
| write scope | none (derived from roster, tree and marriages) | `require_write` and relatives | only persons of one's family or branch are written; the scope grows by newcomers only | `ClanTree`, `ClanMembership` |
| clan, public link | `giapha_clan` (slug, visibility, `is_deleted`) | create, edit, delete; enable and revoke the link; anonymous visits | an ended link stays dead; the living stay hidden | `PublicPage`, `FamilyLinks` |
| sessions | `apis_refreshtoken`, `auth_user.password`, JWTs | login, refresh, logout, change and reset of the password | eviction is complete, rotation is single-use, dead tokens stay dead | `Sessions`, `AuthSessions` |
| reset codes | `apis_passwordresetcode` | request, verify, spend | superseding, bounded guesses, single use | `ResetCodes` |
| persons, revisions | `giapha_person`, `giapha_personrevision` | create (one or many), update, delete, restore | no cycle, no pointer to a deleted parent, no lost versioned update, every replaced value is recorded | `PersonWrites` |
| photos | `photo_key`, objects in a bucket | confirm, delete | the key names an existing object | `PersonWrites` |
| tree | `generation` (derived, stored) | recompute on re-parenting, and by command | stored generations equal the computed ones | `Genealogy`, `PersonWrites` |
| change requests | `giapha_changerequest` | submit, approve, reject, withdraw, expire | decided once, applied exactly when approved, to the version the proposer saw; closes in the end | `Proposals`, `ChangeRequests` |
| marriages | `giapha_marriage` | create, update, delete | distinct orders per husband | `ClanTree` |
| gio and appointment reminders | notification logs, follows, devices, appointments | daily cron runs, calendar | every recipient once, retry only what failed, on the lunar day | `Reminders`, `Devices` |
| lunar calendar | none | pure functions | solar and lunar dates agree day by day | `LunarCalendar` |
| kinship terms | none | pure functions | the word of the tree; a hedge is honest | `Kinship`, `ClanTree` |
| personal trees | `giapha_familyperson`, `giapha_familyspouse` | relations, labels, import | no cycle, no parent replaced silently | `FamilyTree` |
| links to clans | `giapha_familypersonlink` | link, contribute, import, bootstrap, detach | whatever ends a link, the tree keeps what it showed | `FamilyLinks` |
| registration, profile | single rows | one statement each | unique index decides | not modelled |
| almanac, numerology, day rating, uploads | read-only tables, pure functions | - | - | not modelled |

They meet in five places. Removing a member withdraws their proposals, deletes
their invites and detaches their personal-tree links in one transaction
(`_remove_member`): the first effect is `Leave` of `ChangeRequests`, the second is
`RemoveSave` of `ClanMembership`, the third `Detach` of `FamilyLinks`. Approving a change request
calls the person write path (`AppliedTo` of `ChangeRequests` is what
`PersonWrites` does to a row's version and liveness). Soft-deleting a person
changes what can be claimed, bound or scoped (`NodeChanges` of
`ClanMembership`). A password change deletes device tokens (`PasswordSave`).
A contribution from a personal tree becomes a change request, and its approval links
the two persons (`ApproveCreation` of `FamilyLinks`).

## Modules and how they correspond to the code

**`ClanMembership`** One clan. `member` and `invite` are the two tables, `node`
is what the person table says about the nodes, `lock` the row locks on invites.
`req[w]` is the request worker `w` serves, with what it has in memory: `me` is
`cached_member(request)`, read by the permission class (`Arrive`) and never read
again, `row` and `inv` are the rows the handler loaded. Each handler is `XRead`
(all checks, in the code's order of effect) followed by `XSave` (what
`update_fields` writes, no more). `vetted` and `joins` are history variables,
read by properties only: the node for which somebody entitled vouched, and the
memberships created from an invite. `Branch` is `branch_scope_ids` of each node
as a constant; soft-deleted nodes are taken out of it when it is read.
A row carries its primary key, because a save of a stale object addresses that
key: it fails if the user left, also if they came back with another row.
`Arrive` makes the request (`Ask`) and asks the permission class (`Permit`).

**`Sessions`, `AuthSessions`** One account. A member of `Tokens` is the pair that
`issue_token_pair` mints from one user object. A password is the number of
`set_password()` calls: each salts afresh, so each has a fingerprint of its own
(`NewPassword`). `RefreshRead` is the SELECT that joins the user;
`RefreshSave` is the transaction with the DELETE, whose row count decides
(`RowRemoved`), and the check of the fingerprint in memory
(`FingerprintMatches`). The admin's and the shell's password changes and bans are
actions without revocation. `Sessions` is the abstract promise: each login
holds one refresh token at a time, which is replaced or ended, and ended is final.

**`ResetCodes`** Extends `AuthSessions` by the code table: `ForgotRead`,
`ForgotSupersede` and `ForgotInsert` are the three statements of forgot-password, which
nothing holds together; a guess is `GuessRead` (the row and its counter) and
`GuessSave` (the counter written from memory); an accepted code is read, and `ResetSave` is the
transaction that sets the password, deletes all refresh rows and marks the code
used. Codes age (`TimePasses`) through the four ages the queries tell apart. `guesses`,
`resets` and `raced` are history.

**`Genealogy`** The pure walks of `services/tree.py` and
`services/person_rules.py` over `clan_edges`: descendants and generations,
written as rounds (recursive functions) instead of queues.

**`PersonWrites`** Every write path of person rows. `old` is the row the handler
loaded, `new` the row it saves: `person.save()` without `update_fields` writes
all of it, which is the origin of the lost-update questions. `lock_and_bump`
re-reads nothing but `version` (`VersionHolds`, `Bumped`). A create validates and
computes generations from what it read before its transaction. Photo requests
delete the replaced object after the commit (`DropPhoto`), or fail to and leave
it behind. `RecomputeRead` and `RecomputeSave` are the command that computes all
generations of a clan again. Requests that a rule refuses change nothing and are not steps.

**`Proposals`, `ChangeRequests`** `proposal` is the table, `target` the version
and liveness of the persons and marriages concerned, `due` the list that the
running expiry job iterates over. Approve takes the row lock, checks staleness
without a lock on the target, then writes; reject and withdraw are one step each,
since they read nothing but the locked row. `Edit` stands for every direct write of a
target by other requests. `Proposals` is the abstract promise: decided once, and
applied exactly when approved.

**`LunarCalendar`, `Devices`, `Reminders`** `LunarCalendar` is `services/vn_lunar.py`
(months counted from the month of the winter solstice, the leap month, both conversions),
`services/gio.py` and the windows of the calendar view; new moons and sun longitudes
are the constants `Moons` and `Sectors`, in the run those the code computes for 2022-2029; what else is
asked of them are the assumptions at the end of the module. `Devices`
is the token table. In `Reminders`, a process collects its list (`StartGio`,
`StartAppointments`; the reads of collecting and of the log are one step), then takes one push after the
other: sent (`Send`), then logged (`Record`). It may be killed between any two steps
(`Stop`), fail to write a log row (`RecordFails`), run again, or overlap another.
`log` is the two log tables by their unique key; `accepted` counts what devices took and
`excused` the keys whose log a fault or an overlap spoiled. The roster, the tree, the
follows, the devices and the appointments change in between.

**`Kinship`** `services/kinship*.py` as operators: the breadth-first walk with side and
branch (`AncestorIndex`), the nearest common ancestor, the key of a term with its
unknown parts, the hedge over the candidates (`TermAt`), the terms through marriages
and the choice among them. `ClanTree` asks for every pair of a tree (`Ask`) and
compares with a definition that knows nothing of the walk: all lines of descent
(`LinesUp`), the nearest that meet, and all ways of filling in what is unknown
(`Completions`).

**`ClanTree`** Persons, marriages and members of clans; `ScopeOf` is
`family_scope_ids`, `branch_scope_ids` and `writable_ids`. A marriage request reads and
checks in one step (`ReceiveCreate`, `ReceiveUpdate`, `ReceiveDelete`) and writes in another.
`crossed` are the husbands whose requests have overlapped.

**`FamilyTree`** One personal tree. A relation request loads the whole graph, applies the rules
of `services/family_rules.py` to it in memory as a chain of operators over a graph
`g` (`LinkSpouse`, `FillOtherParent`, `AddRelative`, `CreateStandalone`, ...) that
becomes `ok = FALSE` at the first refusal, and `CommitPlan` writes what differs. `raced`
says that two of them have overlapped. `Import` is the upload: normalise, plan parents and
spouses, write.

**`FamilyLinks`** Extends the two: a link row joins a person of the tree to one
of a clan, `Shown` is what the overlay shows. The three detaches read their snapshot
(`Begin`) before they write it (`Detach`). Linking validates before it inserts.
Contributions, their approval, the import of relatives from a clan, the
bootstrap of a clan from the tree, and the linked edit that also proposes to the clan
are actions of their own.

**`PublicPage`** `site` is the clan's row as the owner's tabs and visitors see it.
A tab reads the row and later writes what its request writes: PATCH all columns,
the others theirs. A visit is the look-up of the slug, the query that
decides who is living, and the query for the fields (`Lookup`, `ClassifyTree`/`ClassifyPerson`,
`ServeTree`/`ServePerson`). Names are sequences of words of letters, because the
abbreviation is what the property is about.

The `MC*` modules only give constants structure (rosters, trees, scenes, symmetry); values
are in the `.cfg` files.

### Abstractions shared by the modules

* A write transaction is one step at its commit; within it, locks it takes on
  rows it is about to write cannot be observed earlier at READ COMMITTED.
* The reads of one handler before its transaction are one step. This loses
  interleavings between two reads of one request, not those between reading and writing.
* Rights, throttles, field formats, birth-year rules and pushes are left out where
  they only refuse more or have no effect on state (`ClanMembership` keeps the
  rights, which are its subject).
* A client that sends a version sends one that it has read.

## Runs

| run | question | result |
|---|---|---|
| `roster_sequential` | Does every sequence of requests keep an owner, grant verification only with a voucher, drop the invites and the branch of those who leave a role or the clan, and keep editor invites in the hands of owners? | holds |
| `invites_concurrent` | Do use counts and decisions survive two workers on the same invite, and is every request answered? | holds |
| `last_owner` | The same for the last owner, with two workers | **violated** |
| `unvetted_claim` | The same for verification, with two workers | **violated** |
| `auth_sessions` | Are eviction, rotation and finality of sessions immune to interleaving, emailed resets included, do the endpoints implement `Sessions`, and is a code worn out by guesses and by use? | holds |
| `person_sequential` | Do three writes in a row keep a tree, never point at a deleted parent, keep the photo objects, record what they replace, and keep the generations, and does the command set them right? | holds |
| `person_concurrent` | Does the version protocol see every concurrent write? | holds |
| `resurrected_person` | Does a restore overlapping a delete keep the person deleted? | **violated** |
| `reminders` | Is everybody reminded once, on the right day, of what is meant for them, and in the end, although jobs crash, overlap and retry; and do lunar and solar dates agree every day of two years? | holds |
| `family` | Are the kinship words those of the tree, do marriages and personal trees keep their order under overlap, does a tree keep what a link showed, does an ended public link stay dead and hide the living? | holds |
| `change_requests` | Is each proposal decided once, updates applied only to what the proposer saw, every proposal closed in the end? | holds |
| `stale_delete` | Is a delete applied only to what the proposer saw? | **violated** |

The four violations are disagreements of the code with its own documentation:

1. `last_owner`: with two owners, two requests that each demote (or remove) the other
   owner both read `owner_count() == 2` (`clan_membership.py:74`); the clan ends
   without an owner, against `LAST_OWNER_DETAIL` and `docs/api-reference.md:291`.
2. `unvetted_claim`: a viewer moves their claim to another node between the
   reviewer's read and `save(update_fields=['person_verified'])`
   (`member_verify.py:46`); the new claim is verified unseen, against
   `member_binding.py:93-95`.
3. `resurrected_person`: the restore saves all columns of a row read before the
   lock (`person_revision.py:108`), so a delete that commits in between is undone,
   against the docstring of that view (`:72-74`).
4. `stale_delete`: an approved delete compares no version
   (`change_request_apply.py:87`), so an edit after the unlocked staleness check is
   deleted along, against `change_request_review.py:6-7`.

Overlaps beyond these are known and not runs of their own; the properties name each as
the only exception, so that everything else is checked:

* Two re-parentings validated on the same edges can close a cycle, a child can be
  created under a parent that is being deleted, and a photo request can delete an object another has
  just stored again: the tree and roster invariants are stated for requests served one at a time.
  The same holds in personal trees (`raced`) and for the order of wives (`crossed`).
* A restore stores the generation of its revision and recomputes nothing, so
  `GenerationsKept` excludes the steps of restores (`docs/system-architecture.md:254` speaks of
  derived state persisted on write). The recompute command is checked between requests; one that
  overlaps a write can leave what it computed from the old edges.
* Two wrong guesses in parallel count as one, and two resets in parallel spend one code twice
  (`CodesWearOut`, `raced`).
* `notified_pairs` (`selectors/gio_follow.py:132-133`) calls the unique key of the log "the real
  de-duplication guarantee". It guards the log, not the push, which precedes it: a crash in between or an
  overlapping run pushes twice (`RemindedOnce`, `excused`).
* PATCH of a clan writes every column it read (`views/clan.py:81`). When it overlaps a
  revoke or a delete it brings back the old slug or the deleted clan, although "there is no
  'restore the old link' path" (`views/clan.py:108-109`); when it overlaps an enable it kills the
  fresh link (`EndedLinkStaysDead`, `restored`).
* A detach writes a snapshot read before its transaction; an edit of the clan person in between
  is lost to the tree. A link inserted after its owner, clan person or clan has gone
  stays inactive, and its later detach writes the clan's values into the tree
  (`TreeKeepsWhatItShowed`, `Overtaken`).

Remarks from modelling that no property is about: of equally ranked marriages,
`_through_marriage` compares only the first of the two words, so the other can depend
on row ids; `resolve(a, b)` and `resolve(b, a)` may differ in a tree with a pedigree loop;
a sure in-law word of a lower-ranked marriage can change when the missing gender of a
higher-ranked spouse becomes known (the trees with unknown facts therefore have one marriage per
person); `solar_to_lunar` returns lunar day 0 on four days (see the proofs about the calendar); deleting and re-creating persons by legal steps can bring an existing relative into a
scope, and re-parenting a sibling under oneself brings in their children;
`contribute_payload` sends the stored fields of a linked row where the bootstrap copies the shown ones.

### Bounds, and why they are enough

* `ClanMembership`: three users (two acting on a third, or on each other), two nodes
  in a parent-child line (the smallest tree in which a branch has an inside and a
  root), one invite, three rosters that put every role next to one it can act
  on. Three sequential requests suffice for "leave, come back, use what was
  left"; four concurrent ones for "create, approve, and two redemptions". `UseLimits`
  holds 1 and 2, so an invite is seen with a use left and exhausted.
  `MaxOpen` is 1 instead of 10, so the cap is reached.
* `AuthSessions`: two workers (every race here is between two requests on a row), two
  logins, three pairs (a login, its rotation, and a second login or rotation) and two password
  changes (one to orphan a pair, another to come after). Tokens, logins and
  workers are interchangeable and reduced by symmetry.
* `PersonWrites`: three persons sequentially (a cycle of three, a grandchild, a
  generation that moves by two), two workers on two persons concurrently, two
  keys and two notes where writes must be told apart. Three requests in a
  behaviour; four were checked once for the sequential run (without the recompute
  command), with the same result.
* `ChangeRequests`: two proposals on one person, two workers, one direct edit; the
  cap is 1 instead of 20, so a second proposal waits for the first or passes the
  unlocked cap with it. Creates were added once, with the same result. `stale_delete` adds a
  marriage, which has no version.
* `ResetCodes`: three codes, a cap of two requests an hour and of two attempts, so both
  caps are met and passed over by age; five recovery requests with no session left, or one
  with a code just sent among the sessions of a pair fewer.
* `Reminders`: five scenes. Two days before Tet 2025, whose 12th month lacks day 30,
  with one request or fault; two processes on one of these days; an outage of FCM; an
  appointment with two devices; and every day of 2025 (with a leap month) and 2026 with nothing else
  happening. The calendar's windows are those of a year and of the next twelve months, for eight death dates.
* `family`: five kinds of scenes, each with what it is about. Kinship: 240 trees of up to
  seven persons and 48 with two marriages, every pair asked. Marriages: a verified viewer, a
  branch editor and a manager, two requests at a time of which three may happen on a
  couple. Personal tree: four persons (`FAMILY_MAX_PERSONS` is met), two overlapping relation
  requests, an upload (three kinds, with cycles and dangling references) as the first
  thing that happens. Links: three clans, one of them bootstrapped, five links, three
  requests. Public page: two tabs, five calls, three persons, complete and partial deaths.
  Sets of values: two shared values, three genders, birth orders 1 to 3, two marital
  statuses in requests.

Runs with `CHECK_DEADLOCK FALSE` are those where the bounds on requests stop the
instance; the system itself never stops serving.

### Fairness

Clients and reviewers are never assumed to act. `invites_concurrent` assumes
weak fairness of each worker's next step: a worker that has begun a request goes
on with it. `change_requests` assumes the same, that days pass (`GrowsOld`), that cron starts
the expiry job (`ExpireRead`), and strong fairness of the job's `UPDATE` of one row:
it waits in InnoDB's lock queue, so it gets a lock that is free again and again
although approvals take it in between. With weak fairness alone, a reviewer who
approves in vain for ever would keep the proposal pending.
`reminders` assumes weak fairness of each process's next step (`GoesOn`: a run that has begun goes
on, and cron or an operator runs the command again while something is owed) and that an
outage of FCM ends (`FcmRecovers`). Days pass, users act and faults happen, or not; a crash is
bounded by the number of faults of a scene.
`auth_sessions`, `family` and the person runs check safety only.

## Proofs

Eight modules of proofs, for every value of the constants: any number of workers, users,
rows, requests. They assume the named assumptions of the modules they are about:
NULLs distinct from real values, bounds that are numbers, finite sets of workers, users and
persons where something is counted, initial rows of the right type, and initial states that
satisfy the property (a clan with an owner, a tree without cycles, wives in order). TLC evaluates each
assumption on the instance of a run.

Some properties hold only while certain requests do not overlap; TLC shows the lost cases in the runs
`last_owner`, `unvetted_claim` and `resurrected_person`. Their theorems say which requests: `Apart(A, B)` forbids
that two workers serve a request of a kind in A and one of a kind in B at the same time, and all other requests
overlap freely. One worker (`roster_sequential`, `person_sequential`) always satisfies it; the theorems
cover many more schedules.

**`Sessions_proofs`**, first part (`AuthSessions`): `TypeCorrect` (`[]TypeOK`), `EvictionIsComplete` (`[]TokensProvePassword`),
`RotationIsSingleUse` (`[]OneRowPerLogin`), `DeadTokensNeverRevive` (`DeadTokensStayDead`).
`TokensProvePassword` is not inductive alone: a refresh in flight mints from what it
has in memory. The invariant `IInv` adds `StampedByProof` (a pair's fingerprint is
that of the password its login presented: rotation hands on both),
`NoFuturePassword` (neither pairs nor requests carry a password not yet set, so
`NewPassword` orphans everything), `RequestsWellFormed` (a refresh in flight
names a minted pair) and `LiveRowsHaveLogins` (a live row has a login, so the
freshness of a new login says something about all rows). The step lemmas are stated
for the four ways a step can change the state (`HoldIInv`: take up a request;
`DeleteIInv`: delete rows; `MintIInv`: mint a pair; `DoneIInv`: end a request with the
rows as they are), and `ServeIInv` assigns each action to them; `NextIInv` adds what
needs no worker: the administrator's password change and switch, and expiry.
Finality of dead tokens follows from `IInv` because passwords only grow and no step
brings a deleted row back.

Second part (`ResetCodes`): `[]TokensProvePassword`, `[]OneRowPerLogin` and `DeadTokensStayDead` are carried
over to `CodesSpec` (`RecoveryEvicts`, `RecoveryKeepsRotation`, `RecoveryRevivesNothing`): every step of recovery is, for
the sessions, nothing, a request taken up or given up, or a password change with eviction, so the same `IInv` is kept.
`CodesWearOutAlone` is `[]CodesWearOut`. Its invariant `CInv` counts: a code that was never `raced` is
checked by one worker at most (`OneChecker`), so what that worker read is still the row, and the
counter of the row is the number of guesses made (`GuessesCounted`); a code that was spent is marked
so (`SpentOnce`). `IdsInOrder` and `CodesExist` say that rows are inserted in the order of their ids and
that only rows that exist are checked. `FewCodesLive` is `[]ResendingDoesNotMultiply`; its invariant counts the live codes
together with the workers that have superseded and are about to insert (`FewLive`): superseding empties the first
set, and inserting moves a worker from the second to the first.

Third part: `AuthSessions` implements `Sessions` (`ImplementsSessions`), alone (`EndpointsKeepPromise`) and
under `CodesSpec` (`RecoveryKeepsPromise`). `SessionOf` chooses a token, so the proof first says what
is chosen (`Told`: by `OneRowPerLogin` there is only one). Then a step either makes tokens less usable, which is
`End` for the logins concerned (`OverRefines`), or mints one (`MintRefines`): `Begin`, `Rotate`, or, when the
password has changed since it was read, a pair nobody can use. `Blank` is the one fact `IInv` lacks: a
pair that is not minted belongs to no login.

**`ChangeRequests_proofs`**: `QueueKeepsPromise` (`ImplementsProposals`, the refinement of `Proposals`) and
`UpdatesAreFresh` (`UpdatedOnlyIfFresh`). `IInv` is `LockHeld` (a worker that is approving holds the row lock of a proposal
that is still pending, and has read its action, target and version), `AppliedWhenApproved`, `SubmitsPending` and
`TargetsNamed`. `LockHeld` is what makes the refinement go through: the save of an
approval maps to the one step that decides and applies. Every other action maps to a decision
without effect or to a stutter. That a proposal closes in the end is liveness and stays with TLC.

**`ClanMembership_proofs`**, invites: `UsesAreExact` (`[]UsesMatchAdmissions`) and `DecisionsAreFinal` (`InviteDecidedOnce`).
A redemption adds one to the count it read, and a review writes the status over one it
read; both are right because of `HoldersHold`: the worker holds the lock of the invite, and the
copy it read is still the row. All other actions leave an invite alone, delete it when nobody holds it, or
insert a new one (`WriteIInv`).

Roster: `TypeCorrect` (`[]TypeOK`) and `BranchesAreEditors` (`[]ScopeOnlyForEditors`) hold whatever overlaps, by `RosterInv`
(what a request has in memory is typed, and the row it will write has a branch only with the editor role).
The others follow from what a request *knows* when it saves:

| theorem | property | must not overlap | the invariant adds |
|---|---|---|---|
| `OwnerKept` | `[]ClanKeepsAnOwner` | role changes, removals, leavings, with each other | whoever a request is about to take the ownership from, there is another owner (`RoleOK`) |
| `VettedBindings` | `[]VerifiedOnlyIfVetted` | claims, unbinds, verifications, refusals, with each other | the claim a reviewer judged is the one in the row (`ClaimOK`) |
| `InvitesLeaveWithMinter` | `[]NoInviteFromNonMember` | `create` with removals and leavings | the minter of an invite being created is a member (`MintOK`) |
| `EditorsFromOwners` | `EditorInvitesFromOwner` | `create` and `approve` with role changes, removals, leavings | whoever is about to make an editor invite active is an owner (`GrantOK`) |

**`PersonWrites_proofs`**, versions: `WritesAreCounted` (`VersionCountsWrites`) and `VersionedWritesMissNothing`
(`VersionedWriteSeesWhatItReplaces`). The invariant is about the row a handler has in memory
(`NothingMissed`): while an update is being served, its copy is never newer than the row, and as
long as the version is the same, so is everything a client can see. Every save keeps it,
because it raises the version of what it changes, and the recompute command,
which does not, changes only the generation. `BatchesApart` keeps two creates from
sharing ids, as AUTO_INCREMENT does.

Tree, pointers and photos, for a clan of any finite size:

| theorem | property | must not overlap | the argument |
|---|---|---|---|
| `NobodyOwnAncestor` | `[]NoParentCycle` | updates and restores, with each other | the graph the new parents were checked on is still the graph, but for newcomers, who are nobody's parents |
| `NothingIsLost` | `ReplacedIsRecorded` | updates and restores, with each other | what a write replaces is what it read and recorded |
| `NobodyPointsToDeleted` | `[]NoPointerToDeleted` | deletes with creates, updates and restores | the parents a request will write are live, the person a delete will remove is named by nobody |
| `PhotosExist` | `[]PhotoObjectExists` | photo requests with each other and with updates and restores | an object belongs to one person, and the old one goes only after the new key is stored |
| `GenerationsStayRight` | `GenerationsKept` | updates and restores with every writer of the tree, recomputes included; deletes with creates | generations computed on the tree a request read are those of the tree it saves to (`GenInv`) |

Each property is split over the same eight ways a step can change the rows (`StepCases`). Generations are compared by
`GenerationsAgree`: two trees that give the same parents to a set of persons closed under parents give it the same generations. A
move changes the parents of the moved person only, so only those below are labelled anew. Creates overlap creates, and recomputes
overlap both creates and deletes: newcomers are nobody's parents yet, and whoever is deleted has no children.
**`Genealogy_proofs`** holds what they need to know of the tree operators: `Descendants` is computed by
as many rounds as there are persons. Its lemmas say that the rounds reach a fixed point within that many
(by counting: a round that adds nobody ends it), so that the result is the least set closed under children
(`Acyclic` then means what it says), and that adopting a child who is no ancestor closes no cycle. Instead of an
induction rule, which the prover cannot instantiate, a claim about all rounds is proved by taking the
least round that breaks it. Its second part does the same for `Generations`: in an acyclic tree every person is settled
within as many rounds as there are persons (`AllSettle`, by the eldest person who is not), one below the highest of their known
parents (`GenerationOf`).

**`Reminders_proofs`**, jobs: `NobodyRemindedTwice` (`[]RemindedOnce`) and `RemindersReachTheirAudience` (`[]PushesReachTheirAudience`).
The first counts (`OInv`): a key is held by one run at most (`HeldOnce`), what was taken is what the log and the
sends in flight say (`Counted`), and a run remembers what it found logged (`Remembered`); faults and overlaps excuse a key, as in
the property. The second carries along each list of pushes that its recipients were collected for a reason that still
stands unless that user was touched; that the gio it is about is observed on that day comes from the calendar.

Calendar: `LunarDatesGoOn` (`[]LunarDatesAdvance`) and `GioIsKept` (`[]GioKeepsItsLunarDay`), for any years and any lunations
of which the named assumptions of `LunarCalendar` are true: new moons 29 or 30 days apart and within two days of the mean one, month 11
starting between 20 November and 31 December, and 12 or 13 months from one month 11 to the next, with a month that
repeats its sector if there are 13. The astronomy is floating point, so these stay assumptions; TLC evaluates them on the tables of the run, and
`new_moon` and `sun_longitude`, run for every year from 1797 to 2202, satisfy them. Each day then is in exactly one month of the
run from a month 11 to the next (`InMonth`). `solar_to_lunar` finds this month from the day, counting mean months
(`StartedByMoon`, `DateOf`), `lunar_to_solar` from its name, counting months after month 11 (`MonthAt`, `RegularMonth`); both reach the
same new moon, so the two conversions are inverse and the dates go on (`DatesAdvance`). A gio therefore is on the day that bears its
lunar date (`GioObserved`, `ObservedGio`), and the lunar years a window asks for are enough to find it (`YearCovered`, `CalendarKeepsGioDates`).

The theorems about dates and audiences have the hypothesis `NewMoonsOnTime`: no new moon is a day or more later than the mean one.
It is needed. `LateMoonIsDayZero` proves that `solar_to_lunar` converts the day before such a new moon to day 0 of the month about to begin, since it
tries the mean lunation of the day and the next one, never the one before (`vn_lunar.py:262-266`). With the
tables of the code the hypothesis is true from 1886 to 2053 (TLC evaluates it on those of the run) and fails only in 1877, 1885, 2054 and 2062:
13 Apr 1877, 16 Mar 1885, 7 May 2054 and 9 Apr 2062 have lunar day 0. The test of consecutive days (`tests/test_vn_lunar.py:218-231`,
"new month starts at day 1") covers 400 days from 2026. The gio of these years do not suffer: their days are computed by
`lunar_to_solar`, and of `solar_to_lunar` they use the year alone.

**`PublicPage_proofs`**: `DeadLinks` (`[]EndedLinkStaysDead`) and `HiddenLiving` (`[]LivingStayHidden`), stated for `PageSpec`, in which the
tree changes freely beside the clan's settings and the visits: the specification of the run
implies it. `LinkInv` says that every new slug is larger than all that ended (`SlugsOK`) and that a request that has been alone
since it read the clan still holds the row of the table (`AloneIsFresh`); `VisitInv`, that whom a visit believes dead was dead at some moment since it began.

**`FamilyLinks_proofs`**, marriages: `WivesAreInOrder` (`[]WivesInOrder`) and `MarriagesAddNewcomers`
(`MarriageAddsOnlyNewcomers`), under `Spec` of `FamilyLinks`, so beside everything that links, contributions, imports and the
bootstrap of a clan do to persons and marriages. `OrderInv` carries `OrdersStillFree`: the order a request found
free when it was checked is still free, as long as no other request of that husband has been in flight (`crossed`).
The bootstrap numbers the wives of a husband one after the other (`WeddingsInOrder`), for which the ids it gives out must be
fresh (`NumberedInto`). `AloneInv` says the same of rights: a request that has been alone since its check is still entitled to what
it is about to write (`Entitled`). The scope grows by newcomers only because the partner was attached to nobody.

Personal trees: `TreesAreAcyclic` (`[]FamilyIsAcyclic`) and `ParentsAreNotReplaced` (`NoSilentReplacement`), for a tree of any finite
size. The invariant `TreeInv` is about the one request in flight when none has overlapped (`raced`): its plan fits the rows (`PlanFits`),
that is, it inserts persons who are not there, leaves every recorded parent but the one it was asked to replace, and the rows with the
plan applied have no cycle. A plan fits when it is made: every operator of `family_link_flow` keeps `PlanOK`, which says this of a
graph in memory and the rows it was loaded from (`WithParentOK`, `FillAllOK`, `LinkSpouseOK`, ..., `CreateStandaloneOK`). The delicate
one is `LinkSpouse`: the children of both partners are chosen before either fill, and it is the acyclicity of the graph in
between that makes the second fill safe (`DescendantsAdopted`). A plan goes on fitting while other requests delete, rename and edit,
because these only take persons and edges away (`ShrinkFits`). Uploads and imports put one parent after the other into the rows where
the rules allow it; that is a recursive function, so its existence is proved first (`IterationExists`) and its value by the least step that fails
(`IterationStays`), on the set of all rows that the base can become (`Parented`). In the model, two functions are merged with
`Over` and not with `@@`, which the prover does not know.

Linked trees: `TreesKeepWhatTheyShowed` (`TreeKeepsWhatItShowed`), for any number of clans, persons and links: no step changes what
is shown of a person without one of the reasons the property lists (`Explained`). `TiesInv` says that the two ends of a live link are there,
that a person has one link to a clan, that link ids are given out in order, and that what a detach or a request for links in flight has
read is about links and persons that exist. From it, a step that adds links leaves the source of what is shown or is the first one
(`GrownExplained`), and a step that ends links leaves the snapshot of the source, hands over to the next link, or was `Overtaken`
(`EndedExplained`). `BornInv` says that the persons a relation request is about to insert are not there yet, so a commit never writes over
what is shown. With `TreeInv` and `LinksInv` they are inductive (`LinkedInv`). Of the links in an initial scene the proof assumes what
the foreign keys, the unique indexes and the numbering of ids give (`SceneOK`); TLC evaluates it on the scenes of the runs.

Only model-checked: kinship (`KinshipMatchesTree`, `HedgesAreHonest`) and all liveness. Out of the
prover's reach: liveness under fairness (`RequestsAnswered`, `EveryProposalCloses`, `DueRemindersGoOut`), `ENABLED`, and what the
recursive walks of `Kinship` compute on every tree (induction over data).

## Not modelled

See the components in `PROJECT.json` for the reason of each. In short:

* formatting and look-ups in read-only tables (almanac, numerology, day rating, can-chi,
  stars, the sentences of `kinship_explain`, serialisers) and the commands that once filled those tables;
* the floating-point astronomy below the lunar calendar (`new_moon`, `sun_longitude`);
* single-statement writes decided by a unique index (registration, profile, file upload);
* the message format of FCM and pushes that keep no state; presigned URLs;
* the day-7 reminder of change requests, whose digest may be repeated after a crash
  (`expire_change_requests.py:50`);
* throttles, headers, slug and invite code collisions;
* explicit windows of the gio calendar, match suggestions between a tree and a clan;
* in `FamilyLinks`: rejoining a clan that was left, and hard deletes by the admin site.

## Plan

What has been built, most important first, and what is left:

1. Done, modelled: roster, invites and claims; sessions and reset codes; person writes and
   the tree; change requests; reminders and the lunar calendar; write scope,
   marriages and kinship; personal trees and their links to clans; the public page.
2. Done, proved: sessions with and without recovery by code and their refinement of `Sessions`, the
   change-request queue and its refinement of `Proposals`, roster, invites and claims, person
   writes (versions, tree, pointers, photos, revisions, generations), reminders, the lunar calendar, the public page,
   marriages, personal trees and what a linked tree shows. Left: the walks of kinship, by induction over data.
3. Left, to model: the day-7 reminder; a link whose owner leaves and joins again; the recompute
   command beside other writers.
