----------------------------- MODULE ImageStore -----------------------------
(***************************************************************************)
(* Where the images are kept (services/image_storage_service.py): on the   *)
(* local disk, on a WebDAV server and in an R2 bucket, as the mode says,   *)
(* with an index file that alone knows of the remote copies and a cache of *)
(* it that lasts 30 seconds.  Writers hold the index's lock; readers, who  *)
(* fill the cache too, do not.  Other code deletes local files without     *)
(* regard to the index (services/image_service.py:342, config.py:1417).    *)
(*                                                                         *)
(* An entry is the set of remote places it names; whether it is local is   *)
(* seen on the disk.  Thumbnails, tags and dimensions are left out.        *)
(***************************************************************************)
EXTENDS FiniteSets, Functions

CONSTANTS Image,
          Switches,  \* sets of modes: an administrator switches within one of them
          SlowReader \* whether a writer may come between a reader's two steps

VARIABLES
    modes,   \* the modes in use
    mode,    \* the present one
    local,   \* the images on the disk
    remote,  \* the images in each remote place
    index,   \* the index file
    cache,   \* a set with the cached index, empty if there is none
    reader,  \* a set with what a reader read of the file and has not yet cached
    stored,  \* the places that a save has put an image in and not yet recorded
    unlinked, \* whether a deletion that is under way removed the image's local file
    kept     \* images saved, or being saved, and neither deleted nor cleaned up

storeVars == <<modes, mode, local, remote, index, cache, reader, stored, unlinked, kept>>

Place == {"webdav", "r2"}
NoIndex == [i \in {} |-> {}]
Entries == UNION {[images -> SUBSET Place] : images \in SUBSET Image}

StoreTypeOK ==
    /\ mode \in modes
    /\ local \subseteq Image
    /\ remote \in [Place -> SUBSET Image]
    /\ index \in Entries
    /\ cache \subseteq Entries /\ Cardinality(cache) <= 1
    /\ reader \subseteq Entries /\ Cardinality(reader) <= 1
    /\ DOMAIN stored \subseteq Image
    /\ unlinked \in UNION {[images -> BOOLEAN] : images \in SUBSET Image}
    /\ kept \subseteq Image

StoreInit ==
    /\ modes \in Switches
    /\ mode \in modes
    /\ local = {}
    /\ remote = [p \in Place |-> {}]
    /\ index = NoIndex
    /\ cache = {}
    /\ reader = {}
    /\ stored = NoIndex
    /\ unlinked = [i \in {} |-> FALSE]
    /\ kept = {}

\* WebDAV copies are used in every mode, those in R2 only while it is enabled.
R2Enabled == mode \in {"r2", "r2_local"}
Used(places) == IF R2Enabled THEN places ELSE places \ {"r2"}

\* _load_index
Loaded == IF cache = {} THEN index ELSE CHOOSE i \in cache : TRUE
Named(i) == IF i \in DOMAIN Loaded THEN Loaded[i] ELSE {}

\* Mutant: the cache outlives a save.
SaveKeepingCache(items) == index' = items /\ UNCHANGED cache

\* _save_index, and reading without saving.
Save(items) == index' = items /\ cache' = {}
OnlyRead == cache' = {Loaded} /\ UNCHANGED index

-----------------------------------------------------------------------------
(* save(): the copies first, then the entry. *)

\* The places that hold the image afterwards; an upload that fails is made up for
\* locally, or fails the save in the modes with no local copy.
Copies ==
    CASE mode = "local"    -> {{"disk"}}
      [] mode = "webdav"   -> {{"webdav"}}
      [] mode = "both"     -> {{"disk"}, {"disk", "webdav"}}
      [] mode = "r2"       -> {{"r2"}}
      [] mode = "r2_local" -> {{"disk"}, {"r2"}}

Put(i) ==
    /\ i \notin DOMAIN stored \cup DOMAIN index \cup DOMAIN unlinked
    /\ i \notin local \cup UNION {remote[p] : p \in Place}
    /\ \E places \in Copies :
        /\ stored' = [j \in DOMAIN stored \cup {i} |->
                         IF j = i THEN places \cap Place ELSE stored[j]]
        /\ local' = IF "disk" \in places THEN local \cup {i} ELSE local
        /\ remote' = [p \in Place |->
                         IF p \in places THEN remote[p] \cup {i} ELSE remote[p]]
    /\ kept' = kept \cup {i}
    /\ UNCHANGED <<modes, mode, index, cache, reader, unlinked>>

Record(i) ==
    /\ i \in DOMAIN stored
    /\ Save([j \in DOMAIN Loaded \cup {i} |-> IF j = i THEN stored[i] ELSE Loaded[j]])
    /\ stored' = Restrict(stored, DOMAIN stored \ {i})
    /\ UNCHANGED <<modes, mode, local, remote, reader, unlinked, kept>>

-----------------------------------------------------------------------------
(* Readers: get_bytes, exists. *)

Look ==
    /\ SlowReader
    /\ cache = {} /\ reader = {}
    /\ reader' = {index}
    /\ UNCHANGED <<modes, mode, local, remote, index, cache, stored, unlinked, kept>>

Remember ==
    /\ \/ reader # {} /\ cache' = reader
       \/ ~SlowReader /\ cache = {} /\ cache' = {index}
    /\ reader' = {}
    /\ UNCHANGED <<modes, mode, local, remote, index, stored, unlinked, kept>>

Expire ==
    /\ cache # {}
    /\ cache' = {}
    /\ UNCHANGED <<modes, mode, local, remote, index, reader, stored, unlinked, kept>>

-----------------------------------------------------------------------------
(* The administrator's calls. *)

Switch(to) ==
    /\ to \in modes \ {mode}
    /\ mode' = to
    /\ UNCHANGED <<modes, local, remote, index, cache, reader, stored, unlinked, kept>>

\* list_items: local files get an entry; entries without any copy go.
ListItems ==
    LET items == [i \in {j \in local \cup DOMAIN Loaded :
                            j \in local \/ Used(Named(j)) # {}} |-> Named(i)]
    IN
    /\ IF items = Loaded THEN OnlyRead ELSE Save(items)
    /\ UNCHANGED <<modes, mode, local, remote, reader, stored, unlinked, kept>>

Target ==
    CASE mode \in {"webdav", "both"} -> "webdav"
      [] R2Enabled -> "r2"
      [] OTHER -> "none"

\* sync_all uploads what the index does not know to be there; each upload may fail.
Sync ==
    LET missing == {i \in local : Target \notin Named(i)} IN
    /\ Target # "none"
    /\ \E sent \in SUBSET missing :
        /\ remote' = [remote EXCEPT ![Target] = @ \cup sent]
        /\ Save([i \in DOMAIN Loaded \cup sent |->
                    IF i \in sent THEN Named(i) \cup {Target} ELSE Loaded[i]])
    /\ UNCHANGED <<modes, mode, local, reader, stored, unlinked, kept>>

\* delete(): the local file goes before the lock is taken.
Unlink(i) ==
    /\ i \in DOMAIN index \cup local
    /\ i \notin DOMAIN unlinked
    /\ unlinked' = [j \in DOMAIN unlinked \cup {i} |->
                       IF j = i THEN i \in local ELSE unlinked[j]]
    /\ local' = local \ {i}
    /\ kept' = kept \ {i}
    /\ UNCHANGED <<modes, mode, remote, index, cache, reader, stored>>

\* The remote copies go next, then the entry.  A remote place that fails keeps its
\* copy; the entry stays only when nothing at all could be deleted.
DeleteCopies(i) ==
    /\ i \in DOMAIN unlinked
    /\ unlinked' = Restrict(unlinked, DOMAIN unlinked \ {i})
    /\ \E gone \in SUBSET Used(Named(i)) :
        /\ remote' = [p \in Place |-> IF p \in gone THEN remote[p] \ {i} ELSE remote[p]]
        /\ IF i \in DOMAIN Loaded /\ (unlinked[i] \/ gone # {} \/ Used(Named(i)) = {})
           THEN Save(Restrict(Loaded, DOMAIN Loaded \ {i}))
           ELSE OnlyRead
    /\ UNCHANGED <<modes, mode, local, reader, stored, kept>>

\* cleanup_old_images and delete_to_target delete local files.  What has another copy
\* is still kept.
Clean(i) ==
    /\ i \in local
    /\ local' = local \ {i}
    /\ LET places == IF i \in DOMAIN stored THEN stored[i] ELSE Named(i) IN
           kept' = IF places # {} THEN kept ELSE kept \ {i}
    /\ UNCHANGED <<modes, mode, remote, index, cache, reader, stored, unlinked>>

StoreNext ==
    \/ \E i \in Image :
        \/ Put(i) \/ Record(i)
        \/ Unlink(i) \/ DeleteCopies(i) \/ Clean(i)
    \/ Look \/ Remember \/ Expire
    \/ \E to \in UNION Switches : Switch(to)
    \/ ListItems \/ Sync

StoreSpec == StoreInit /\ [][StoreNext]_storeVars

-----------------------------------------------------------------------------
(* What the store promises. *)

\* get_bytes finds the image.
Found(i) == i \in local \/ \E p \in Used(Named(i)) : i \in remote[p]

\* An image that was saved is found until it is deleted, or cleaned up with no other
\* copy: by the URL that the client got for it, whatever was listed, synchronised,
\* cleaned up or switched since (services/image_storage_service.py:489-499).
KeptIsFound == \A i \in kept \ DOMAIN stored : Found(i)

=============================================================================
