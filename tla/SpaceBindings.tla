----------------------------- MODULE SpaceBindings -----------------------------
(***************************************************************************)
(* Startup of several knowledge spaces (services/knowledge_spaces.py): the *)
(* parsed definitions are bound to directories, and the configuration is   *)
(* accepted only if the spaces cannot reach each other's notes or indexes. *)
(*                                                                         *)
(* A path is a sequence of names.  The file system gives each name under a *)
(* directory an entry: a directory ("dir", "readonly" or "shut"), a file, a *)
(* symbolic link to a canonical path, or nothing.  Equal inode numbers are *)
(* one directory mounted twice, and then everything below it has two paths.*)
(***************************************************************************)
EXTENDS Integers, Sequences, FiniteSets

CONSTANTS
    Trees,           \* file systems: [path -> [type, to, ino]]
    Configurations,  \* <<[id, root, data, write, indexing]>>
    Settings,        \* [vault, data]: the unscoped bindings
    Stores,          \* what the data directories hold: <<[name -> [type, inside, ino]]>>
    Excluded         \* names that hold no notes

VARIABLES tree, definitions, settings, stores, stage, resolved

bindingVars == <<tree, definitions, settings, stores, stage, resolved>>

BindingInit ==
    /\ tree \in Trees /\ definitions \in Configurations /\ settings \in Settings
    /\ stores = <<>> /\ stage = "configured" /\ resolved = <<>>

Unusable == <<"none">>
Prefix(p, n) == SubSeq(p, 1, n)
Parent(p) == Prefix(p, Len(p) - 1)
Within(p, q) == Len(q) < Len(p) /\ Prefix(p, Len(q)) = q   \* q in p.parents

EntryAt(p) == IF p = <<>> THEN [type |-> "dir", to |-> <<>>, ino |-> 0]
              ELSE IF p \in DOMAIN tree THEN tree[p] ELSE [type |-> "absent", to |-> <<>>, ino |-> 0]

(* The canonical path: the links along it replaced, name by name. *)
Canonical[p \in Seq(STRING)] ==
    IF p = <<>> THEN p
    ELSE LET above == Canonical[Parent(p)]
             here == Append(above, p[Len(p)])
         IN IF above = Unusable THEN Unusable
            ELSE IF EntryAt(here).type = "link" THEN EntryAt(here).to ELSE here

(* resolve(strict=True): Unusable if there is nothing at the path. *)
ResolvedStrictly(p) == IF EntryAt(Canonical[p]).type = "absent" THEN Unusable ELSE Canonical[p]
Present(p) == ResolvedStrictly(p) # Unusable
Directory(p) == EntryAt(p).type \in {"dir", "readonly", "shut"}
SameFile(p, q) == EntryAt(p).ino = EntryAt(q).ino

(* _directory_access: read and search, write with it. *)
Access(p, writable) ==
    EntryAt(p).type = "dir" \/ (EntryAt(p).type = "readonly" /\ ~writable)

(* _resolve_data: the deepest ancestor there is, and the names missing below it. *)
ResolvedData(p, enabled) ==
    LET depth == CHOOSE n \in 0..Len(p) :
                    Present(Prefix(p, n)) /\ \A m \in (n + 1)..Len(p) : ~Present(Prefix(p, m))
        ancestor == Canonical[Prefix(p, depth)]
        missing == SubSeq(p, depth + 1, Len(p))
        \* a name missing by stat but seen by lstat is a dead link
        dead == \E m \in (depth + 1)..Len(p) : Canonical[Parent(Prefix(p, m))] # Unusable
                    /\ EntryAt(Append(Canonical[Parent(Prefix(p, m))], p[m])).type # "absent"
    IN IF dead \/ ~Directory(ancestor) \/ ((enabled \/ missing # <<>>) /\ ~Access(ancestor, enabled))
       THEN Unusable ELSE ancestor \o missing

-----------------------------------------------------------------------------
(* parse_knowledge_spaces: one default space, no identifier twice. *)
Parsed ==
    /\ Len(definitions) \in 1..8
    /\ \A i, j \in DOMAIN definitions : i # j => definitions[i].id # definitions[j].id
    /\ \E i \in DOMAIN definitions : definitions[i].id = "default"

Bound(d) == [d EXCEPT !.root = ResolvedStrictly(@), !.data = ResolvedData(@, d.indexing)]

(* The first loop of _validate_named_bindings and the default space's bindings. *)
ResolveBindings ==
    LET all == [i \in DOMAIN definitions |-> Bound(definitions[i])]
        default == CHOOSE i \in DOMAIN all : all[i].id = "default"
    IN /\ stage = "configured"
       /\ IF Parsed /\ (\A i \in DOMAIN all : /\ all[i].root # Unusable /\ Access(all[i].root, all[i].write)
                                               /\ all[i].data # Unusable)
             /\ all[default].root = ResolvedStrictly(settings.vault)
             /\ all[default].data = ResolvedData(settings.data, FALSE)
          THEN resolved' = all /\ stage' = "resolved"
          ELSE resolved' = <<>> /\ stage' = "refused"
       /\ UNCHANGED <<tree, definitions, settings, stores>>

(* _overlap *)
Overlap(p, q) == p = q \/ Within(p, q) \/ Within(q, p) \/ (Present(p) /\ Present(q) /\ SameFile(p, q))

(* A plausible bug: a data directory is compared with its own space's root only. *)
DataApartFromOwn(s, o) ==
    o = s => /\ s.data # o.root /\ ~Within(o.root, s.data)
             /\ Within(s.data, o.root) =>
                   \E n \in (Len(o.root) + 1)..(Len(s.data) - 1) :
                      s.data[n] \in Excluded /\ Directory(Prefix(s.data, n))
DataApart(s, o) ==
    /\ s.data # o.root /\ ~Within(o.root, s.data)
    /\ Within(s.data, o.root) =>
          o = s /\ \E n \in (Len(o.root) + 1)..(Len(s.data) - 1) :
                      s.data[n] \in Excluded /\ Directory(Prefix(s.data, n))

Apart ==
    \A i, j \in DOMAIN resolved :
       /\ i < j => /\ ~Overlap(resolved[i].root, resolved[j].root)
                   /\ ~Overlap(resolved[i].data, resolved[j].data)
       /\ DataApart(resolved[i], resolved[j])

Compare ==
    /\ stage = "resolved"
    /\ stores' \in Stores
    /\ stage' = IF Apart THEN "apart" ELSE "refused"
    /\ UNCHANGED <<tree, definitions, settings, resolved>>

(* The index file and its three companions: each an ordinary file of its own
   directory, and no two of all the spaces the same file. *)
Namespace == {<<i, name>> : i \in DOMAIN resolved, name \in {"db", "wal", "shm", "journal"}}
StoreEntry(f) == stores[f[1]][f[2]]
Occupied == {f \in Namespace : StoreEntry(f).type # "absent"}
Usable(f) == StoreEntry(f).type = "file" /\ StoreEntry(f).inside

CheckNamespaces ==
    /\ stage = "apart"
    /\ stage' = IF /\ \A f \in Occupied : Usable(f)
                   /\ \A f, g \in Occupied : f # g => StoreEntry(f).ino # StoreEntry(g).ino
                THEN "accepted" ELSE "refused"
    /\ UNCHANGED <<tree, definitions, settings, stores, resolved>>

BindingNext == ResolveBindings \/ Compare \/ CheckNamespaces
BindingSpec == BindingInit /\ [][BindingNext]_bindingVars

-----------------------------------------------------------------------------
(* Where the notes of a space may be: below its root, and not below an excluded
   directory. *)
NotePath(p, s) ==
    \/ p = s.root
    \/ Within(p, s.root) /\ \A n \in (Len(s.root) + 1)..Len(p) : p[n] \notin Excluded
Directories == {p \in DOMAIN tree : Directory(p)}
NoteDirectories(s) == {p \in Directories : NotePath(p, s)}

(* Where something is mounted twice: two paths of one directory that do not
   merely have that from the directories above them. *)
Mounts ==
    {m \in Directories \X Directories :
        /\ m[1] # m[2] /\ SameFile(m[1], m[2])
        /\ m[1][Len(m[1])] # m[2][Len(m[2])] \/ ~SameFile(Parent(m[1]), Parent(m[2]))}
Reaches(p, q) == p = q \/ Within(p, q)

(* Whatever links, missing directories and double mounts a configuration meets:
   in an accepted one no two roots are one directory, by path or by identity,
   and two spaces have a directory of notes in common only where something is
   mounted twice above or below the roots, which are all that is compared by
   identity.  No index lies, or would be created, on a path of any space's notes
   or on or around another index's, and no two spaces have one database file. *)
SpacesApart ==
    stage = "accepted" =>
       /\ \A i, j \in DOMAIN resolved : i # j =>
             /\ ~SameFile(resolved[i].root, resolved[j].root)
             /\ \A p \in NoteDirectories(resolved[i]), q \in NoteDirectories(resolved[j]) :
                   SameFile(p, q) =>
                      \E m \in Mounts : /\ Reaches(p, m[1]) /\ Reaches(q, m[2])
                                       /\ m # <<resolved[i].root, resolved[j].root>>
             /\ ~Overlap(resolved[i].data, resolved[j].data)
             /\ \A f, g \in Occupied : f[1] = i /\ g[1] = j => StoreEntry(f).ino # StoreEntry(g).ino
       /\ \A i, j \in DOMAIN resolved : ~NotePath(resolved[i].data, resolved[j])
=============================================================================
