------------------------------ MODULE MCOperations ------------------------------
(***************************************************************************)
(* Model values and bounds for the operations of spaces: the bindings a    *)
(* configuration names, the runtime that admits operations, the limiter in *)
(* front of it, and the calls of a promotion under its admission.          *)
(* They share no state, so TLC explores them one after the other: "part"   *)
(* names the component explored from an initial state, and the others rest.*)
(* The bindings find their variables under the names v1, v2, ...           *)
(***************************************************************************)
EXTENDS SpaceRuntime, ScopedPromotion, RateLimiter, Sequences, TLC

VARIABLES part, v1, v2, v3, v4, v5, v6

rest == <<v1, v2, v3, v4, v5, v6>>

(* Spaces: roots that are links, nested, or double mounts of all of a or of a/n;
   data that are missing, linked or below an excluded directory; database files
   that are one file.  A link to b, where b is itself a link, leads where b does,
   or nowhere in a loop. *)
Entry(type, ino) == [type |-> type, to |-> <<>>, ino |-> ino]
LinkTo(p) == [type |-> "link", to |-> p, ino |-> 0]
Absent == Entry("absent", 0)
Led(entry, b) ==
    IF entry # LinkTo(<<"b">>) \/ b.type # "link" THEN entry
    ELSE IF b = LinkTo(<<"a", "x">>) THEN LinkTo(<<"gone">>) ELSE b

(* What is below a, and, where b is another mount of a, below b as well. *)
FileTree(n, x, d, b, c) ==
    LET below == (<<"n">> :> n) @@ (<<"x">> :> Led(x, b)) @@ (<<"x", "d">> :> Led(d, b))
        mounts == IF b.ino = 1 THEN {"a", "b"} ELSE {"a"}
    IN (<<"a">> :> Entry("dir", 1)) @@ (<<"b">> :> b) @@ (<<"c">> :> c)
       @@ [p \in {<<top>> \o s : top \in mounts, s \in DOMAIN below} |-> below[Tail(p)]]
FileTrees ==
    {FileTree(n, inX[1], inX[2], b, c) :
     n \in {Entry("dir", 5), Entry("readonly", 5)},
     inX \in {Absent, Entry("file", 3), LinkTo(<<"b">>)} \X {Absent}
             \cup {Entry("dir", 3)} \X {Absent, Entry("dir", 4), LinkTo(<<"b">>)},
     b \in {Entry("dir", 2), Entry("dir", 1), Entry("dir", 5),
            LinkTo(<<"a">>), LinkTo(<<"a", "n">>), LinkTo(<<"a", "x">>)},
     c \in {Absent, Entry("dir", 6), Entry("shut", 6), LinkTo(<<"a">>), LinkTo(<<"gone">>)}}
Definition(id, place, data, write, indexing) ==
    [id |-> id, root |-> place, data |-> data, write |-> write, indexing |-> indexing]
DataPaths == {<<"c">>, <<"c", "d">>, <<"a", "x", "d">>, <<"a", "x">>, <<"a", "n">>, <<"b", "d">>, <<"b", "x", "d">>}
SpaceConfigurations ==
    {<<Definition("default", <<"a">>, data, FALSE, indexing), Definition("other", place, other, FALSE, FALSE)>> :
        data \in {<<"c">>, <<"a", "x", "d">>}, indexing \in BOOLEAN,
        place \in {<<"a">>, <<"b">>, <<"a", "n">>}, other \in DataPaths}
    \cup {<<Definition("default", <<"a", "n">>, <<"c">>, TRUE, TRUE), Definition(id, <<"b">>, data, write, TRUE)>> :
        id \in {"default", "other"}, data \in DataPaths, write \in BOOLEAN}
UnscopedBindings ==
    {[vault |-> <<"a">>, data |-> <<"c">>], [vault |-> <<"a">>, data |-> <<"a", "x", "d">>],
     [vault |-> <<"a", "n">>, data |-> <<"c">>]}
NoStore == [name \in {"db", "wal", "shm", "journal"} |-> [type |-> "absent", inside |-> TRUE, ino |-> 0]]
Holding(name, ino, inside) == [NoStore EXCEPT ![name] = [type |-> "file", inside |-> inside, ino |-> ino]]
StoredFiles ==
    {<<NoStore, NoStore>>, <<Holding("db", 7, TRUE), Holding("db", 8, TRUE)>>,
     <<Holding("db", 7, TRUE), Holding("shm", 7, TRUE)>>, <<Holding("db", 7, TRUE), Holding("wal", 8, FALSE)>>}

Spaces == INSTANCE SpaceBindings WITH
    Trees <- FileTrees, Configurations <- SpaceConfigurations, Settings <- UnscopedBindings,
    Stores <- StoredFiles, Excluded <- {"x"},
    tree <- v1, definitions <- v2, settings <- v3, stores <- v4, stage <- v5, resolved <- v6

-----------------------------------------------------------------------------
(* The default space is bound by the paths of the unscoped services, one plain
   configuration apart, which meets them all. *)
Related(spaces, unscoped) ==
    \/ unscoped = [vault |-> spaces[1].root, data |-> spaces[1].data]
    \/ spaces = <<Definition("default", <<"a">>, <<"a", "x", "d">>, FALSE, FALSE),
                  Definition("other", <<"b">>, <<"c">>, FALSE, FALSE)>>

(* The promotions explored are those a policy allows, to a note that exists or
   is to be created. *)
OperationsInit ==
    /\ part \in {"runtime", "promotion", "spaces", "limiter"}
    /\ runtime = [startup |-> 1, stopped |-> FALSE, bound |-> 0,
                  policy |-> [read |-> TRUE, write |-> TRUE, indexing |-> TRUE, promotes |-> TRUE]]
    /\ Init /\ PromotionInit /\ RateInit
    /\ part # "promotion" => target # Missing
    /\ \/ part \in {"runtime", "promotion", "limiter"} /\ v1 = 0 /\ v2 = 0 /\ v3 = 0 /\ v4 = 0 /\ v5 = 0 /\ v6 = 0
       \/ part = "spaces" /\ Spaces!BindingInit /\ Related(v2, v3)

OperationsNext ==
    \/ part = "runtime" /\ Next /\ UNCHANGED <<part, promotionVars, rateVars, rest>>
    \/ part = "promotion" /\ PromotionNext /\ UNCHANGED <<part, vars, rateVars, rest>>
    \/ part = "spaces" /\ Spaces!BindingNext /\ UNCHANGED <<part, vars, promotionVars, rateVars>>
    \/ part = "limiter" /\ RateNext /\ UNCHANGED <<part, vars, promotionVars, rest>>

OperationsSpec == OperationsInit /\ [][OperationsNext]_<<part, vars, promotionVars, rateVars, rest>>

-----------------------------------------------------------------------------
(* Whatever links, missing directories and double mounts a configuration meets:
   in an accepted one no two roots are one directory, by path or by identity,
   and two spaces have a directory of notes in common only where something is
   mounted twice above or below the roots, which are all that is compared by
   identity.  No index lies, or would be created, on a path of any space's notes
   or on or around another index's, and no two spaces have one database file. *)
SpacesApart == part = "spaces" => Spaces!SpacesApart

ThreadSymmetry == Permutations(Ops) \cup Permutations(Admins)
=============================================================================
