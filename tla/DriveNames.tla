------------------------------ MODULE DriveNames ------------------------------
(***************************************************************************)
(* The names of a redirected drive: FuseFs's path operations over the      *)
(* Bridge's inode tables and attribute cache, against the client's tree.   *)
(*                                                                         *)
(* A path is the sequence of its components (the root is <<>>); an empty   *)
(* component is a doubled separator, which the Bridge takes for a path of  *)
(* its own and the client (external) for the same one.  A cached or client *)
(* entry is its kind, its size and, for the client, an identity that       *)
(* stands for its content.  Operations run one at a time, but for one      *)
(* listing, whose answers another thread may overtake; how the requests of *)
(* operations interleave is module Drives.  A request of an operation is   *)
(* answered "ok", refused without effect, or carried out with its answer   *)
(* lost (the caller gives up after OP_TIMEOUT).                            *)
(***************************************************************************)
EXTENDS Naturals, Sequences, FiniteSets, SequencesExt

CONSTANTS
    Name,       \* component names the users of the mount pick
    TempNames,  \* the names exchange_paths makes up, one per operation
    MaxDepth,   \* bound: components of a path
    Trees,      \* client trees to start from: path -> [dir, id, size]
    MaxOps,     \* bound: operations
    MaxFaults   \* bound: requests refused or unanswered

VARIABLES
    tree,       \* the client's entries: path -> [dir, id, size]
    names,      \* Bridge: [path_to_ino, ino_to_path, meta, next_ino]
    handles,    \* open files: [ino, id]
    listing,    \* the listing another thread is about to cache: its answers
    next_id,    \* identity of the next entry created
    ops, faults,
    unanswered, \* history: an answer was lost
    overtaken,  \* history: a listing was cached after the client had changed it
    missized,   \* history: identities of which the cached size may be wrong
    removed     \* history: identities whose removal was asked for

nameVars == <<tree, names, handles, listing, next_id, ops, faults, unanswered,
              overtaken, missized, removed>>

Root == <<>>
ROOT_INO == 1
Paths == UNION {[1..n -> Name] : n \in 1..MaxDepth}
PutIn(f, k, v) == [x \in DOMAIN f \cup {k} |-> IF x = k THEN v ELSE f[x]]
Erase(f, k) == [x \in DOMAIN f \ {k} |-> f[x]]
Shown(e) == [dir |-> e.dir, size |-> e.size]
Children(t, dir) == {p \in DOMAIN t : p # Root /\ Front(p) = dir}
AtClient(p) == SelectSeq(p, LAMBDA n : n # "")
NoListing == <<>>

\* A Bridge after ensure_root_ino.
NamesInit ==
    /\ tree \in Trees
    /\ names = [path_to_ino |-> Root :> ROOT_INO, ino_to_path |-> ROOT_INO :> Root,
                meta |-> Root :> [dir |-> TRUE, size |-> 0], next_ino |-> 2]
    /\ handles = {} /\ listing = NoListing /\ next_id = 10 /\ ops = 0 /\ faults = 0
    /\ unanswered = FALSE /\ overtaken = FALSE /\ missized = {} /\ removed = {}

-----------------------------------------------------------------------------
(* The Bridge's tables.                                                    *)

inode_for(c, p) ==
    IF p \in DOMAIN c.path_to_ino THEN c
    ELSE [c EXCEPT !.path_to_ino = PutIn(@, p, c.next_ino),
                   !.ino_to_path = PutIn(@, c.next_ino, p),
                   !.next_ino = @ + 1]

\* Insert into meta, then inode_for (cache_entry, and attr_for after an insert).
cache_entry(c, p, e) ==
    [inode_for(c, p) EXCEPT !.meta = PutIn(@, p, Shown(e))]

\* refresh_dir, enumerate_directory: every entry listed is cached; entries that
\* are not listed any more stay.
refresh_dir(c, t, dir) ==
    FoldSet(LAMBDA p, acc : cache_entry(acc, p, t[p]), c, Children(t, dir))

forget_path(c, p) ==
    LET d == [c EXCEPT !.meta = Erase(@, p)] IN
    IF p \notin DOMAIN c.path_to_ino THEN d
    ELSE [d EXCEPT !.path_to_ino = Erase(@, p),
                   !.ino_to_path = Erase(@, c.path_to_ino[p])]

\* p with the prefix old replaced by new.
Rebased(p, old, new) == new \o SubSeq(p, Len(old) + 1, Len(p))

\* f with the keys below old moved below new; a key that was there is replaced.
Remapped(f, old, new) ==
    LET moving == {p \in DOMAIN f : IsPrefix(old, p)}
        target == {Rebased(p, old, new) : p \in moving}
    IN [p \in (DOMAIN f \ moving) \cup target |->
          IF p \in target THEN f[Rebased(p, new, old)] ELSE f[p]]

\* Mistake: an inode keeps the path it had before the rename.
RemapForward(c, old, new) ==
    [c EXCEPT !.path_to_ino = Remapped(@, old, new),
              !.meta = Remapped(@, old, new)]

remap_path(c, old, new) ==
    LET moving == {p \in DOMAIN c.path_to_ino : IsPrefix(old, p)}
        moved == {c.path_to_ino[p] : p \in moving}
    IN [c EXCEPT !.path_to_ino = Remapped(@, old, new),
                 !.ino_to_path = [i \in DOMAIN @ |->
                     IF i \in moved THEN Rebased(@[i], old, new) ELSE @[i]],
                 !.meta = Remapped(@, old, new)]

-----------------------------------------------------------------------------
(* What the client does with a rename and a delete.                        *)

CanRename(t, old, new, replace) ==
    /\ old \in DOMAIN t /\ ~ IsPrefix(old, new)
    /\ Front(new) \in DOMAIN t /\ t[Front(new)].dir
    /\ new \in DOMAIN t =>
         /\ replace /\ ~ IsPrefix(new, old)
         /\ t[new].dir = t[old].dir /\ Children(t, new) = {}

CanDelete(t, p, is_dir) ==
    p \in DOMAIN t /\ t[p].dir = is_dir /\ Children(t, p) = {}

\* rename_path: the drive after one rename whose set-information request is
\* answered out, and whether the caller is told it succeeded.
rename_path(s, old, new, replace, out) ==
    LET can == CanRename(s.tree, AtClient(old), AtClient(new), replace)
    IN [tree |-> IF out # "refused" /\ can
                 THEN Remapped(s.tree, AtClient(old), AtClient(new)) ELSE s.tree,
        names |-> IF out = "ok" /\ can THEN remap_path(s.names, old, new)
                  ELSE s.names,
        ok |-> out = "ok" /\ can]

\* Mistake: the renames of an exchange may replace.
ReplaceInExchange == TRUE

\* No rename of an exchange replaces what it finds.
KeepInExchange == FALSE

\* The temporary name: the parent of a, a separator and a made-up name.  The
\* parent of a file in the root is a separator already.
TempPath(a) == (IF Front(a) = Root THEN <<"">> ELSE Front(a)) \o <<TempNames[ops + 1]>>

\* exchange_paths: a to a temporary name, b to a (on failure the temporary
\* back to a), the temporary to b.
exchange_paths(s, a, b, out) ==
    LET temp == TempPath(a)
        one == rename_path(s, a, temp, KeepInExchange, out[1])
        two == rename_path(one, b, a, KeepInExchange, out[2])
    IN IF ~ one.ok THEN one
       ELSE IF ~ two.ok
       THEN [rename_path(two, temp, a, KeepInExchange, out[3]) EXCEPT !.ok = FALSE]
       ELSE rename_path(two, temp, b, KeepInExchange, out[3])

\* delete_path: an open with delete-on-close, retried without it; then the
\* disposition; then the close, on whose success the path is forgotten even
\* when neither of the first two took.
delete_path(s, p, is_dir, out) ==
    LET opened == p \in DOMAIN s.tree /\ s.tree[p].dir = is_dir
                    /\ ~ (out[1] = "refused" /\ out[2] = "refused")
        marked == out[1] = "ok" \/ out[3] # "refused"
        gone == opened /\ marked /\ CanDelete(s.tree, p, is_dir)
    IN [tree |-> IF gone /\ out[4] # "refused" THEN Erase(s.tree, p) ELSE s.tree,
        names |-> IF opened /\ out[4] = "ok" THEN forget_path(s.names, p)
                  ELSE s.names]

-----------------------------------------------------------------------------
(* The file system's operations.  The kernel looks every name up first: a  *)
(* path it operates on is cached, a path it creates was just not listed.   *)

Outcome == {"ok", "refused", "lost"}
Answers(n) == {out \in [1..n -> Outcome] :
                 Cardinality({i \in 1..n : out[i] # "ok"}) <= MaxFaults - faults}
Spend(out) ==
    /\ ops < MaxOps /\ ops' = ops + 1
    /\ faults' = faults + Cardinality({i \in DOMAIN out : out[i] # "ok"})
    /\ unanswered' = (unanswered \/ \E i \in DOMAIN out : out[i] = "lost")
Apply(s) == tree' = s.tree /\ names' = s.names
Now == [tree |-> tree, names |-> names]
Cached(p) == p \in DOMAIN names.meta
Listed(dir) == Cached(dir) /\ names.meta[dir].dir
                 /\ \A p \in Children(tree, dir) : Cached(p)
Quiet == UNCHANGED <<handles, listing, next_id, overtaken, missized, removed>>
KnownPaths == Paths \cup (DOMAIN tree \ {Root})
Entries(t, dir) == [p \in Children(t, dir) |-> t[p]]

\* lookup of a child that is not cached, getattr, and readdir: the answers come
\* in (enumerate_directory) ...
ListDir(dir) ==
    /\ Cached(dir) /\ names.meta[dir].dir /\ listing = NoListing
    /\ \E out \in Answers(1) :
         /\ Spend(out)
         /\ listing' = IF out[1] = "ok" /\ dir \in DOMAIN tree
                       THEN <<[dir |-> dir, found |-> Entries(tree, dir)]>>
                       ELSE NoListing
    /\ UNCHANGED <<tree, names, handles, next_id, overtaken, missized, removed>>

\* ... and are cached.
CacheListing ==
    /\ listing # NoListing
    /\ listing' = NoListing
    /\ names' = refresh_dir(names, listing[1].found, listing[1].dir)
    /\ overtaken' = (overtaken \/ listing[1].found # Entries(tree, listing[1].dir))
    /\ UNCHANGED <<tree, handles, next_id, ops, faults, unanswered, missized, removed>>

\* create and mkdir: FILE_OPEN_IF takes an existing file as it is, FILE_CREATE
\* refuses; the cached entry is fresh either way.
Make(p, is_dir) ==
    LET e == [dir |-> is_dir, id |-> next_id, size |-> 0] IN
    /\ Listed(Front(p)) /\ ~ Cached(p) /\ Front(p) \in DOMAIN tree
    /\ \E out \in Answers(1) :
         LET made == out[1] # "refused" /\ p \notin DOMAIN tree
             ok == /\ out[1] = "ok"
                   /\ p \in DOMAIN tree => ~ is_dir /\ ~ tree[p].dir
         IN /\ Spend(out)
            /\ tree' = IF made THEN PutIn(tree, p, e) ELSE tree
            /\ names' = IF ok THEN cache_entry(names, p, e) ELSE names
            /\ handles' = IF ok /\ ~ is_dir
                          THEN handles \cup {[ino |-> names'.path_to_ino[p],
                                              id |-> tree'[p].id]}
                          ELSE handles
    /\ next_id' = next_id + 1
    /\ UNCHANGED <<listing, overtaken, missized, removed>>

\* open of a cached file; O_TRUNC empties it or makes a new one
\* (FILE_OVERWRITE_IF), which the cached size does not follow.
OpenPath(p, truncate) ==
    LET file == AtClient(p)
        there == file \in DOMAIN tree
        e == [dir |-> FALSE, id |-> IF there THEN tree[file].id ELSE next_id,
              size |-> 0]
    IN /\ Cached(p) /\ (there => ~ tree[file].dir)
       /\ there \/ (truncate /\ Front(file) \in DOMAIN tree)
       /\ \E out \in Answers(1) :
            /\ Spend(out)
            /\ tree' = IF truncate /\ out[1] # "refused" THEN PutIn(tree, file, e)
                       ELSE tree
            /\ handles' = IF out[1] # "ok" THEN handles
                          ELSE handles \cup {[ino |-> names.path_to_ino[p], id |-> e.id]}
       /\ next_id' = IF there THEN next_id ELSE next_id + 1
       /\ missized' = IF tree' # tree THEN missized \cup {e.id} ELSE missized
       /\ UNCHANGED <<names, listing, overtaken, removed>>

\* unlink and rmdir.  rmdir lists the directory first (ensure_dir_empty).
RemovePath(p, is_dir) ==
    LET seen == IF is_dir THEN refresh_dir(names, tree, p) ELSE names IN
    /\ Cached(p) /\ p # Root /\ names.meta[p].dir = is_dir
    /\ \E out \in Answers(4) :
         /\ Spend(out)
         /\ IF is_dir /\ Children(tree, p) # {}
            THEN names' = seen /\ UNCHANGED tree
            ELSE Apply(delete_path([Now EXCEPT !.names = seen], p, is_dir, out))
    /\ removed' = removed \cup {tree[q].id : q \in DOMAIN tree \ DOMAIN tree'}
    /\ UNCHANGED <<handles, listing, next_id, overtaken, missized>>

\* rename: whether to replace is decided by the cache.
Rename(old, new) ==
    /\ Cached(old) /\ old # Root /\ Listed(Front(new)) /\ new # old
    /\ \E out \in Answers(1) :
         /\ Spend(out)
         /\ Apply(rename_path(Now, old, new, Cached(new), out[1]))
    /\ removed' = IF Cached(new) /\ new \in DOMAIN tree
                  THEN removed \cup {tree[new].id} ELSE removed
    /\ UNCHANGED <<handles, listing, next_id, overtaken, missized>>

\* A half-done exchange in the root leaves a file that the Bridge knows under
\* the doubled separator and will list under another path.  The kernel reaches
\* it through its inode (open, setattr), or looks the other path up.
Exchange(a, b) ==
    /\ Cached(a) /\ Cached(b) /\ Root \notin {a, b}
    /\ ~ IsPrefix(a, b) /\ ~ IsPrefix(b, a)
    /\ \E out \in Answers(3) :
         Spend(out) /\ Apply(exchange_paths(Now, a, b, out))
    /\ Quiet

\* A new size through an open handle: the client's file gets it, if it is still
\* there, and if told so the cached entry of the path the inode has, which
\* may be another file's by now.
Resize(h, size, told) ==
    LET paths == {p \in DOMAIN names.meta :
                    h.ino \in DOMAIN names.ino_to_path
                      /\ names.ino_to_path[h.ino] = p}
    IN /\ tree' = [p \in DOMAIN tree |->
                     IF tree[p].id = h.id THEN [tree[p] EXCEPT !.size = size]
                     ELSE tree[p]]
       /\ names' = IF ~ told THEN names
                   ELSE [names EXCEPT !.meta = [p \in DOMAIN @ |->
                           IF p \in paths THEN [@[p] EXCEPT !.size = size] ELSE @[p]]]
       /\ missized' = IF ~ told THEN missized
                      ELSE missized \cup {tree[AtClient(p)].id :
                             p \in {q \in paths : /\ AtClient(q) \in DOMAIN tree
                                                /\ \/ tree[AtClient(q)].id # h.id
                                                   \/ q # AtClient(q)}}

Sizes(h) == {tree[p].size : p \in {q \in DOMAIN tree : tree[q].id = h.id}}

\* write: the file grows.
Write(h) ==
    /\ h \in handles /\ Sizes(h) \subseteq {0}
    /\ Spend(<<>>)
    /\ Resize(h, 1, TRUE)
    /\ UNCHANGED <<handles, listing, next_id, overtaken, removed>>

\* setattr with a handle; the inode must still have a path.
SetSizeOpen(h, size) ==
    /\ h \in handles /\ h.ino \in DOMAIN names.ino_to_path
    /\ Sizes(h) # {size}
    /\ \E out \in Answers(1) :
         /\ Spend(out)
         /\ IF out[1] = "refused" THEN UNCHANGED <<tree, names, missized>>
            ELSE Resize(h, size, out[1] = "ok")
    /\ UNCHANGED <<handles, listing, next_id, overtaken, removed>>

\* setattr without a handle: the path the inode has is opened and its size set;
\* owner, mode and times are not modelled.
SetSize(i, size) ==
    LET p == names.ino_to_path[i]
        file == AtClient(p) IN
    /\ i \in DOMAIN names.ino_to_path
    /\ file \in DOMAIN tree /\ ~ tree[file].dir /\ tree[file].size # size
    /\ \E out \in Answers(1) :
         /\ Spend(out)
         /\ tree' = IF out[1] = "refused" THEN tree
                    ELSE [tree EXCEPT ![file].size = size]
         /\ names' = IF out[1] = "ok" /\ Cached(p)
                     THEN [names EXCEPT !.meta[p].size = size] ELSE names
         /\ missized' = IF p = file THEN missized ELSE missized \cup {tree[file].id}
    /\ UNCHANGED <<handles, listing, next_id, overtaken, removed>>

NamesNext ==
    \/ \E p \in KnownPaths :
         \/ ListDir(p)
         \/ \E is_dir \in BOOLEAN : Make(p, is_dir) \/ RemovePath(p, is_dir)
         \/ \E q \in Paths : Rename(p, q) \/ Exchange(p, q)
    \/ ListDir(Root) \/ CacheListing
    \/ \E p \in DOMAIN names.meta \ {Root}, truncate \in BOOLEAN : OpenPath(p, truncate)
    \/ \E h \in handles : Write(h) \/ \E size \in 0..1 : SetSizeOpen(h, size)
    \/ \E i \in DOMAIN names.ino_to_path, size \in 0..1 : SetSize(i, size)

NamesSpec == NamesInit /\ [][NamesNext]_nameVars

-----------------------------------------------------------------------------

\* The two inode tables agree: the inode a path resolves to resolves back to
\* that path, whatever was renamed, replaced or removed in between.
InodeTablesAgree ==
    \A p \in DOMAIN names.path_to_ino :
        names.ino_to_path[names.path_to_ino[p]] = p

\* Attributes are served from the cache for as long as the connection lives.
\* While every answer arrives and no listing is cached late, what is cached is
\* what the client has.  The exceptions are what a half-done exchange left
\* under a doubled separator, and the size of a file that was resized under
\* that name, was emptied by an open with O_TRUNC, or has replaced a file that
\* is still open and is resized.
CacheFaithful ==
    ~ unanswered /\ ~ overtaken =>
        \A p \in DOMAIN names.meta \ {Root} :
            p = AtClient(p) =>
                /\ p \in DOMAIN tree /\ names.meta[p].dir = tree[p].dir
                /\ names.meta[p].size = tree[p].size \/ tree[p].id \in missized

\* A file disappears only when its removal or replacement was asked for: a
\* failed or half-done exchange leaves both files somewhere.
NothingLost ==
    [][ \A p \in DOMAIN tree :
          \/ tree[p].id \in removed'
          \/ \E q \in DOMAIN tree' : tree'[q].id = tree[p].id ]_nameVars

\* What the mount shows of names and attributes is what the client has, through
\* renames, exchanges, removals and refused requests, with the exceptions of
\* CacheFaithful; the inode tables agree without exception.
NamesAgree == InodeTablesAgree /\ CacheFaithful
=============================================================================
