------------------------------- MODULE MCFamily -------------------------------
(***************************************************************************)
(* Small scenes: three generations of a clan with missing genders and      *)
(* orders and one marriage, or two, every pair asked about; the marriages  *)
(* of two brothers, and of a couple; a tree built from nothing or from an  *)
(* upload; a tree of three linked to two clans; a clan with a public page. *)
(***************************************************************************)
EXTENDS FamilyLinks, PublicPage

CONSTANTS An, Binh, Chi, Old, New

Row(c, gender, order, father, mother) ==
  [UnbornPerson EXCEPT !.there = "live", !.clan = c, !.gender = gender, !.order = order,
                       !.father = father, !.mother = mother, !.value = New]
Padded(rows, n, filler) == [i \in 1..n |-> IF i \in DOMAIN rows THEN rows[i] ELSE filler]
Nobody == [u \in Users |-> [c \in Clans |-> NotAMember]]
As(role, node, verified, root) ==
  [role |-> role, node |-> node, verified |-> verified, root |-> root]

Empty == [scene |-> "none", left |-> 0,
          person |-> Padded(<<>>, MaxPersons, UnbornPerson),
          marriage |-> Padded(<<>>, MaxMarriages, NoMarriage), member |-> Nobody,
          kin |-> Padded(<<>>, MaxKin, Unborn), self |-> NoKin,
          clanState |-> [c \in Clans |-> "live"], link |-> Padded(<<>>, MaxLinks, NoLink)]

(* 1 and 2 have the children 3 and 4; 5 is the child of 4, 7 of 5; 6 is    *)
(* married to 3.                                                           *)
Opposite(gender) == IF gender = "nam" THEN "nu" ELSE "nam"
Child(c, gender, p, parentGender) ==
  IF parentGender = "nu" THEN Row(c, gender, 0, NoPerson, p) ELSE Row(c, gender, 0, p, NoPerson)
ThreeGenerations(g, order) ==
  <<Row("C", "nam", 0, NoPerson, NoPerson), Row("C", "nu", 0, NoPerson, NoPerson),
    Row("C", g[1], order[1], 1, 2), Row("C", g[2], order[2], 1, 2),
    Child("C", g[3], 4, g[2]), Row("C", g[4], 0, NoPerson, NoPerson), Child("C", "nam", 5, g[3])>>
CoupleOf(p, q, gender) ==
  [NoMarriage EXCEPT !.there = "live", !.order = 1,
     !.husband = IF gender = "nu" THEN q ELSE p, !.wife = IF gender = "nu" THEN p ELSE q]
Known == {"nam", "nu"}
KinshipScenes ==
  {[Empty EXCEPT !.scene = "kinship", !.person = Padded(ThreeGenerations(g, order), MaxPersons, UnbornPerson),
      !.marriage[1] = CoupleOf(3, 6, IF g[1] = "?" THEN Opposite(g[4]) ELSE g[1])] :
     order \in {<<2, 3>>, <<3, 2>>, <<2, 2>>, <<0, 2>>, <<2, 0>>, <<0, 0>>},
     g \in {x \in [1..4 -> Known \cup {"?"}] :
              /\ x[4] \in (IF x[1] = "?" THEN Known ELSE {Opposite(x[1]), "?"})
              /\ x[3] = "?" => x[2] = "nam" /\ x[1] # "?"}}

(* The same with 6 married to both brothers (or 3 to 6 and to a second     *)
(* wife, 7, without parents), everything known.                            *)
Remarried(order, first, second) ==
  [Empty EXCEPT !.scene = "kinship",
     !.person = Padded(ThreeGenerations(<<"nam", "nam", "nam", "nu">>, order), MaxPersons, UnbornPerson),
     !.marriage = Padded(<<[CoupleOf(3, 6, "nam") EXCEPT !.status = first[1], !.order = first[2]],
                           [CoupleOf(4, 6, "nam") EXCEPT !.status = second[1], !.order = second[2]]>>,
                         MaxMarriages, NoMarriage)]
SecondWife(s) ==
  [s EXCEPT !.person[7] = Row("C", "nu", 0, NoPerson, NoPerson),
     !.marriage[2].husband = 3, !.marriage[2].wife = 7]
RemarriedScenes ==
  LET held == {"dang_ket_hon", "goa"} \X {1, 2}
      remarried == {Remarried(order, first, second) :
                      order \in {<<2, 3>>, <<3, 2>>}, first \in held, second \in held}
  IN remarried \cup 
     {SecondWife(s) : s \in {r \in remarried : r.marriage[1].order # r.marriage[2].order}}

(* Brothers 2 and 3 of father 1, 2 divorced from 4.  An is the verified 3, *)
(* Binh edits the branch of 2, Chi the whole clan.                         *)
MarriageScene ==
  [Empty EXCEPT !.scene = "marriages", !.left = 2,
     !.person = Padded(<<Row("C", "nam", 0, NoPerson, NoPerson), Row("C", "nam", 0, 1, NoPerson),
                         Row("C", "nam", 0, 1, NoPerson), Row("C", "nu", 0, NoPerson, NoPerson)>>,
                       MaxPersons, UnbornPerson),
     !.marriage[1] = [CoupleOf(2, 4, "nam") EXCEPT !.status = "ly_hon"],
     !.member = [Nobody EXCEPT ![An]["C"] = As("viewer", 3, TRUE, NoPerson),
                               ![Binh]["C"] = As("editor", NoPerson, FALSE, 2),
                               ![Chi]["C"] = As("manager", NoPerson, FALSE, NoPerson)]]

(* A couple, with time for a third request.                                *)
CoupleScene ==
  [MarriageScene EXCEPT !.left = 3, !.member[An]["C"] = NotAMember, !.member[Binh]["C"] = NotAMember,
     !.person = Padded(<<Row("C", "nam", 0, NoPerson, NoPerson), Row("C", "nu", 0, NoPerson, NoPerson)>>,
                       MaxPersons, UnbornPerson),
     !.marriage[1] = CoupleOf(1, 2, "nam")]

TreeScene == [Empty EXCEPT !.scene = "tree", !.left = 2]

(* "Me" (1), my father (2) and my mother (3); father and son are in C,     *)
(* where An is a verified viewer, and a namesake in D, where An is not.    *)
Relative(gender, father, mother) ==
  [Unborn EXCEPT !.there = "live", !.gender = gender, !.value = Old, !.father = father, !.mother = mother]
LinkTo(f, c, p) == [there |-> "live", kin |-> f, clan |-> c, person |-> p]
LinkScene ==
  [Empty EXCEPT !.scene = "links", !.left = 3,
     !.person = Padded(<<Row("C", "nam", 0, NoPerson, NoPerson), Row("C", "nam", 0, 1, NoPerson),
                         Row("D", "nam", 0, NoPerson, NoPerson)>>, MaxPersons, UnbornPerson),
     !.clanState["N"] = "none",
     !.member = [Nobody EXCEPT ![An]["C"] = As("viewer", 2, TRUE, NoPerson),
                               ![An]["D"] = As("viewer", NoPerson, FALSE, NoPerson)],
     !.kin = Padded(<<Relative("male", 2, 3), Relative("male", NoKin, NoKin),
                      Relative("female", NoKin, NoKin)>>, MaxKin, Unborn),
     !.self = 1,
     !.link = Padded(<<LinkTo(1, "C", 2), LinkTo(1, "D", 3)>>, MaxLinks, NoLink)]

MCEdits == {[gender |-> "male", value |-> Old], [gender |-> "unknown", value |-> New]}

(* A father and two sons, one without a name, for the public page.         *)
PublicScene ==
  [Empty EXCEPT !.scene = "public",
     !.person = Padded(<<Row("C", "nam", 0, NoPerson, NoPerson), Row("C", "nam", 0, 1, NoPerson),
                         Row("C", "nam", 0, 1, NoPerson)>>, MaxPersons, UnbornPerson)]
MCNameOf ==
  Padded(<< << <<"N", "g">>, <<"A", "n">> >>, << <<"L", "y">>, <<"O">> >>, <<>> >>, MaxPersons, <<>>)
MCDeathFacts ==
  {[solar |-> FALSE, day |-> FALSE, month |-> FALSE], [solar |-> FALSE, day |-> FALSE, month |-> TRUE],
   [solar |-> FALSE, day |-> TRUE, month |-> TRUE]}

MCScenes ==
  KinshipScenes \cup RemarriedScenes
    \cup {MarriageScene, CoupleScene, TreeScene, LinkScene, PublicScene}

(* Uploads: a child and its parents; a cycle of three with dangling        *)
(* references; a couple and the child of one of them.                      *)
Uploaded(gender, father, mother, spouses) ==
  [gender |-> gender, father |-> father, mother |-> mother, spouses |-> spouses]
MCRawTrees ==
  {<<Uploaded("male", 2, 3, {}), Uploaded("male", 0, 0, {}), Uploaded("female", 0, 0, {})>>,
   <<Uploaded("male", 2, 0, {}), Uploaded("?", 3, 9, {}), Uploaded("unknown", 1, 0, {})>>,
   <<Uploaded("male", 0, 0, {2}), Uploaded("female", 0, 0, {}), Uploaded("male", 1, 0, {})>>}

(* All of it: the public page has a scene of its own.                      *)
MCInit == Init /\ PageInit
MCNext ==
  \/ Next /\ UNCHANGED pageVars
  \/ scene = "public" /\ PageNext /\ UNCHANGED vars
MCSpec == MCInit /\ [][MCNext]_<<vars, pageVars>>
=============================================================================
