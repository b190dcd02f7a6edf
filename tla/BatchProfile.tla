----------------------------- MODULE BatchProfile -----------------------------
(***************************************************************************)
(* retrieve_cusno (app/services/batch_profile_minio_retrieve.py): one      *)
(* customer's batch profile is looked up in MinIO by a sequence of GETs    *)
(* while the batch system reloads the same objects.  Only the retrieval is *)
(* part of the repository; the loader is external and follows the steps    *)
(* that docs/python-integration.md (sections 4 and 9) gives for it.        *)
(*                                                                         *)
(* An object is known by the load it was written in: an index of one load  *)
(* says nothing about the offsets in the bulk.jsonl of another.            *)
(*                                                                         *)
(* Daily and monthly profiles are looked up by two threads under prefixes  *)
(* of their own.  This is one of the two; of the other it sees that it may *)
(* fetch the key that all lookups of a pod share.                          *)
(***************************************************************************)
EXTENDS Integers

CONSTANTS
  Cusnos,      \* customer numbers
  Dates,       \* date directories, newer ones greater
  MaxLoad,     \* bound on the loads
  Contents,    \* Contents[g]: the customers in load g
  Secret,      \* Secret[g]: encrypted_columns of load g
  Layouts,     \* the sets of objects that a loader may write
  Rotations,   \* the first loads that a new key may encrypt
  None,        \* an absent value
  MaxErrors,   \* bound on the calls to MinIO or the HSM that fail
  MaxOverlap   \* bound on the loads that overlap one lookup

Loads == 1 .. MaxLoad
Missing == 0           \* the load of an object that does not exist
Columns == {"CUSNO", "CUSNM"}
Kinds == {"shard", "full", "single", "bulk", "meta"}

Latest == 0            \* the directory latest/
Dirs == Dates \cup {Latest}

ASSUME BatchAssumption ==
  /\ Dates \subseteq Nat \ {Latest}
  /\ MaxLoad \in Nat \ {0} /\ MaxErrors \in Nat /\ MaxOverlap \in Nat
  /\ Contents \in [Loads -> SUBSET Cusnos]
  /\ Secret \in [Loads -> SUBSET Columns]
  /\ Layouts \subseteq SUBSET Kinds
  /\ Rotations \subseteq Nat
  /\ None \notin Cusnos \cup [cusno : Cusnos, load : Loads] \cup {"first", "second"}

\* A layout can be read: every load writes its _meta.json (encrypt.md, section
\* 9), an index comes with the bulk.jsonl it points into, and without an index
\* there is an object for each customer.
ASSUME LayoutsAreReadable ==
  \A l \in Layouts :
    /\ "meta" \in l
    /\ l \cap {"shard", "full"} # {} => "bulk" \in l
    /\ l \cap {"shard", "full", "single"} # {}

VARIABLES
  objects,    \* the layout: the kinds of object the loader writes
  minio,      \* minio[d][o]: the load object o of directory d is from
  pointer,    \* _latest_date.json
  loader,     \* the load in progress
  loads,      \* the number of loads so far
  published,  \* history: the load whose publication came last
  overlap,    \* history: the loads that overlap the lookup in progress
  turned,     \* history: has the pointer changed since the lookup began?
  rotation,   \* the HSM changes the key before this load
  key,        \* _INISAFE_KEY: the key this pod has fetched
  rival,      \* another thread has found no key: the key in use at that time
  replaced,   \* history: did it change the key since the lookup began?
  get,        \* the lookup in progress
  errors      \* calls that have failed

podVars == <<key, rival, replaced>>

batchVars == <<objects, minio, pointer, loader, loads, published, rotation,
               overlap, turned, podVars, get, errors>>

Keys == {"first", "second"}

\* The key that encrypts load g; the HSM hands out that of the newest load.
KeyOf(g) == IF g < rotation THEN "first" ELSE "second"

\* "malformed": latest_date is not eight digits.
Pointer ==
  [kind : {"dated"}, date : Dates, use_latest : BOOLEAN]
    \cup [kind : {"malformed", "absent"}, date : {None}, use_latest : {FALSE}]

Dated(d, latest) == [kind |-> "dated", date |-> d, use_latest |-> latest]
Undated(k) == [kind |-> k, date |-> None, use_latest |-> FALSE]

Docs == [cusno : Cusnos, load : Loads]

Lookup == [pc    : {"idle", "pointer", "list", "stat", "shard", "shard_range",
                    "full", "full_range", "single", "meta", "match", "scan",
                    "decrypt", "done"},
           cusno : Cusnos \cup {None},
           dir   : Dirs,           \* query_path
           fall  : BOOLEAN,        \* used_fallback
           index : Loads \cup {Missing},
           doc   : Docs \cup {None},
           cols  : SUBSET Columns, \* encrypted_columns
           lost  : SUBSET Columns, \* fields removed by _decrypt_fields
           raw   : SUBSET Columns, \* fields left in ciphertext by it
           past  : SUBSET Columns] \* fields it is done with

NoLookup == [pc |-> "idle", cusno |-> None, dir |-> Latest, fall |-> FALSE,
             index |-> Missing, doc |-> None, cols |-> {}, lost |-> {},
             raw |-> {}, past |-> {}]

Load == [phase : {"idle", "backup", "load"},
         date  : Dates \cup {None},
         from  : Dates \cup {None},     \* the backup
         todo  : SUBSET Kinds]          \* objects still to be written

NoLoad == [phase |-> "idle", date |-> None, from |-> None, todo |-> {}]

-----------------------------------------------------------------------------
(* The loader.                                                             *)

loaderVars == <<objects, minio, pointer, loader, loads, published, rotation>>

Complete(g) == [o \in Kinds |-> IF o \in objects THEN g ELSE Missing]
Empty == Complete(Missing)

\* The customers an object of load g holds, and its encrypted columns.
Holds(g) == IF g = Missing THEN {} ELSE Contents[g]
Ciphers(g) == IF g = Missing THEN {} ELSE Secret[g]

Existing(d) == \E o \in Kinds : minio[d][o] # Missing

\* Loads of {cusno}.json objects, which would leave those of departed
\* customers behind, are left out.
Begin(load) ==
  /\ "bulk" \in objects
  /\ loader = NoLoad
  /\ pointer.kind = "dated"
  /\ loads < MaxLoad
  /\ get # NoLookup => overlap < MaxOverlap
  /\ overlap' = overlap + 1
  /\ loads' = loads + 1
  /\ loader' = load
  /\ UNCHANGED <<objects, minio, pointer, published, rotation, turned,
                 podVars, get, errors>>

\* A date that has no data yet.
StartLoad ==
  \E d \in Dates :
    /\ \A e \in Dates : Existing(e) => e < d
    /\ Begin([NoLoad EXCEPT !.phase = "load", !.date = d, !.todo = objects])

\* The newest date is loaded again: an older one is copied to latest/ first.
StartRework ==
  \E d, b \in Dates :
    /\ Existing(d) /\ Existing(b) /\ b < d
    /\ \A e \in Dates : Existing(e) => e <= d
    /\ Begin([phase |-> "backup", date |-> d, from |-> b, todo |-> objects])

Written(o) == loader' = [loader EXCEPT !.todo = @ \ {o}]

CopyObject ==
  \E o \in loader.todo :
    /\ loader.phase = "backup"
    /\ minio' = [minio EXCEPT ![Latest][o] = minio[loader.from][o]]
    /\ Written(o)
    /\ UNCHANGED <<objects, pointer, loads, published, rotation, overlap,
                 turned, podVars, get, errors>>

PublishBackup ==
  /\ loader.phase = "backup" /\ loader.todo = {}
  /\ pointer' = Dated(loader.from, TRUE)
  /\ published' = minio[Latest]["meta"]
  /\ turned' = TRUE
  /\ loader' = [loader EXCEPT !.phase = "load", !.todo = objects]
  /\ UNCHANGED <<objects, minio, loads, rotation, overlap, podVars, get, errors>>

PutObject ==
  \E o \in loader.todo :
    /\ loader.phase = "load"
    /\ minio' = [minio EXCEPT ![loader.date][o] = loads]
    /\ Written(o)
    /\ UNCHANGED <<objects, pointer, loads, published, rotation, overlap,
                 turned, podVars, get, errors>>

Publish ==
  /\ loader.phase = "load" /\ loader.todo = {}
  /\ pointer' = Dated(loader.date, FALSE)
  /\ published' = loads
  /\ turned' = TRUE
  /\ loader' = NoLoad
  /\ UNCHANGED <<objects, minio, loads, rotation, overlap, podVars, get, errors>>

Loader == \/ StartLoad \/ StartRework \/ CopyObject
          \/ PublishBackup \/ PutObject \/ Publish

-----------------------------------------------------------------------------
(* The lookup.  Every call to MinIO may fail (S3Error, OSError), and every *)
(* failure is taken for an absent object.                                  *)

Works == UNCHANGED errors
Breaks == errors < MaxErrors /\ errors' = errors + 1

\* The lookup goes on with the step l.
GoTo(l) == get' = [get EXCEPT !.pc = l]

retrieve_cusno(c) ==
  /\ get.pc = "idle"
  /\ get' = [NoLookup EXCEPT !.pc = "pointer", !.cusno = c]
  /\ overlap' = IF loader = NoLoad THEN 0 ELSE 1
  /\ turned' = FALSE
  /\ replaced' = FALSE
  /\ UNCHANGED <<loaderVars, key, rival, errors>>

\* Slip: the date is not validated.
GetPointerUnvalidated ==
  /\ get.pc = "pointer"
  /\ \/ /\ pointer.kind # "absent"
        /\ get' = [get EXCEPT !.pc = "shard",
                              !.dir = IF pointer.use_latest
                                        THEN Latest ELSE pointer.date]
        /\ Works
     \/ pointer.kind = "absent" /\ GoTo("list") /\ Works
     \/ GoTo("list") /\ Breaks

\* Slip: the newest date directory is read, whatever the pointer says.
GetPointerIgnored == get.pc = "pointer" /\ GoTo("list") /\ Works

GetPointer ==
  /\ get.pc = "pointer"
  /\ \/ /\ pointer.kind = "dated"
        /\ get' = [get EXCEPT !.pc = "shard",
                              !.dir = IF pointer.use_latest
                                        THEN Latest ELSE pointer.date]
        /\ Works
     \/ pointer.kind = "malformed" /\ GoTo("stat") /\ Works
     \/ pointer.kind = "absent" /\ GoTo("list") /\ Works
     \/ GoTo("list") /\ Breaks

\* The newest date directory there is.
ListDates ==
  /\ get.pc = "list"
  /\ \/ \E d \in Dates :
           /\ Existing(d) /\ \A e \in Dates : Existing(e) => e <= d
           /\ get' = [get EXCEPT !.pc = "shard", !.dir = d]
           /\ Works
     \/ (\A d \in Dates : ~Existing(d)) /\ GoTo("stat") /\ Works
     \/ GoTo("done") /\ Breaks

StatLatest ==
  /\ get.pc = "stat"
  /\ \/ GoTo(IF minio[Latest]["shard"] # Missing THEN "shard" ELSE "done")
        /\ Works
     \/ GoTo("done") /\ Breaks

\* The directory that is being read.
Here == IF get.fall THEN Latest ELSE get.dir

\* fetch_via_index, for the index of kind k.
RangeOf(k) == IF k = "shard" THEN "shard_range" ELSE "full_range"
AfterIndex(k) == IF k = "shard" THEN "full" ELSE "single"

GetIndex(k) ==
  LET g == minio[Here][k]
  IN  /\ get.pc = k
      /\ \/ /\ get.cusno \in Holds(g)
            /\ get' = [get EXCEPT !.pc = RangeOf(k), !.index = g]
            /\ Works
         \/ /\ get.cusno \notin Holds(g)
            /\ GoTo(AfterIndex(k)) /\ Works
         \/ GoTo(AfterIndex(k)) /\ Breaks

\* The customers whose line may be found at an offset for customer c taken
\* from an index of load g in the bulk.jsonl of load h.
LinesAt(c, g, h) ==
  IF g = h THEN {c} ELSE Holds(h)

\* Offsets of another load may also cut a line in two: no document.
GetRange(k) ==
  LET h == minio[Here]["bulk"]
      next == [get EXCEPT !.pc = AfterIndex(k), !.index = Missing]
  IN  /\ get.pc = RangeOf(k)
      /\ \/ \E c \in LinesAt(get.cusno, get.index, h) :
              /\ get' = [get EXCEPT !.pc = "meta", !.index = Missing,
                                    !.doc = [cusno |-> c, load |-> h]]
              /\ Works
         \/ h # get.index /\ get' = next /\ Works
         \/ get' = next /\ Breaks

\* Slip: latest/ is not tried.
GetSingleOnly ==
  LET g == minio[Here]["single"]
  IN  /\ get.pc = "single"
      /\ \/ /\ get.cusno \in Holds(g)
            /\ get' = [get EXCEPT !.pc = "meta",
                                  !.doc = [cusno |-> get.cusno, load |-> g]]
            /\ Works
         \/ get.cusno \notin Holds(g) /\ GoTo("done") /\ Works
         \/ GoTo("done") /\ Breaks

\* {cusno}.json, and latest/ when a date directory had nothing.
GetSingle ==
  LET g == minio[Here]["single"]
      next == IF Here = Latest THEN [get EXCEPT !.pc = "done"]
              ELSE [get EXCEPT !.pc = "shard", !.fall = TRUE]
  IN  /\ get.pc = "single"
      /\ \/ /\ get.cusno \in Holds(g)
            /\ get' = [get EXCEPT !.pc = "meta",
                                  !.doc = [cusno |-> get.cusno, load |-> g]]
            /\ Works
         \/ /\ get.cusno \notin Holds(g)
            /\ get' = next /\ Works
         \/ get' = next /\ Breaks

\* encrypted_columns of _meta.json, none when it cannot be read.
GetMeta ==
  LET g == minio[Here]["meta"]
  IN  /\ get.pc = "meta"
      /\ \/ /\ get' = [get EXCEPT !.pc = "match", !.cols = Ciphers(g)]
            /\ Works
         \/ GoTo("match") /\ Breaks

\* The columns of document d that hold ciphertext and will be decrypted.
Encrypted(d) == get.cols \cap Ciphers(d.load)

\* Slip: the key is asked for every time.
KeyNotCached(cols, failed) ==
  /\ key' = IF cols \ failed = {} THEN key ELSE KeyOf(loads)
  /\ IF failed = {} THEN Works ELSE Breaks

\* _get_cached_key, once for each of the columns cols: those of failed while
\* the HSM did not answer (RuntimeError), none once the key is cached.
Key(cols, failed) ==
  /\ key' = IF key # None \/ cols \ failed = {} THEN key ELSE KeyOf(loads)
  /\ IF failed = {} THEN Works ELSE key = None /\ Breaks

\* decrypt_field_value hands ciphertext of another key back as it is
\* (InvalidTag).
Fits(d) == key' = KeyOf(d.load)

\* Slip: an index is trusted when customer numbers are not encrypted.
match_encrypted(d, failed) ==
  "CUSNO" \in get.cols => d.cusno = get.cusno /\ "CUSNO" \notin failed

\* The customer number of d, decrypted if need be, is the one asked for.
match_cusno(d, failed) ==
  /\ d.cusno = get.cusno
  /\ "CUSNO" \in Ciphers(d.load) => "CUSNO" \in get.cols \ failed /\ Fits(d)

Match ==
  LET cols == Encrypted(get.doc) \cap {"CUSNO"}
  IN  /\ get.pc = "match"
      /\ \E failed \in SUBSET cols :
           /\ Key(cols, failed)
           /\ IF match_cusno(get.doc, failed)
                THEN GoTo("decrypt")
                ELSE get' = [get EXCEPT !.pc = "scan", !.doc = None]

\* Every line of bulk.jsonl is decrypted and compared until one matches.
Scan ==
  LET h == minio[Here]["bulk"]
      d == [cusno |-> get.cusno, load |-> h]
      cols == Encrypted(d) \cap {"CUSNO"}
  IN  /\ get.pc = "scan"
      /\ \/ \E failed \in SUBSET cols :
              /\ Key(cols, failed)
              /\ get' = IF get.cusno \in Holds(h) /\ match_cusno(d, failed)
                          THEN [get EXCEPT !.pc = "decrypt", !.doc = d]
                          ELSE [get EXCEPT !.pc = "done"]
         \/ GoTo("done") /\ Breaks /\ UNCHANGED key

\* A field in encrypted_columns is replaced by its plaintext, removed when there
\* is no key, and left in ciphertext when the key does not fit.
DecryptField(col, failed) ==
  /\ Key({col}, failed)
  /\ get' = [get EXCEPT !.past = @ \cup {col}, !.lost = @ \cup failed,
               !.raw = IF Fits(get.doc) THEN @ ELSE @ \cup ({col} \ failed)]

\* decrypt_document, field by field; the other fields are left alone.
Decrypt ==
  /\ get.pc = "decrypt"
  /\ \/ /\ Encrypted(get.doc) \subseteq get.past
        /\ GoTo("done") /\ Works /\ UNCHANGED key
     \/ \E col \in Encrypted(get.doc) \ get.past : \E failed \in SUBSET {col} :
          DecryptField(col, failed)

Answer ==
  /\ get.pc = "done"
  /\ get' = NoLookup
  /\ overlap' = 0
  /\ turned' = FALSE
  /\ replaced' = FALSE
  /\ UNCHANGED <<loaderVars, key, rival, errors>>

Search ==
  /\ \/ GetPointer \/ ListDates \/ StatLatest
     \/ \E k \in {"shard", "full"} : GetIndex(k) \/ GetRange(k)
     \/ GetSingle \/ GetMeta
  /\ UNCHANGED <<loaderVars, overlap, turned, podVars>>

Settle ==
  /\ Match \/ Scan \/ Decrypt
  /\ UNCHANGED <<loaderVars, overlap, turned, rival, replaced>>

Get == \/ \E c \in Cusnos : retrieve_cusno(c)
       \/ Search \/ Settle \/ Answer

-----------------------------------------------------------------------------
(* Another thread of the pod in _get_cached_key, which takes no lock: what *)
(* it fetches it stores, although a key may be there by now.               *)

RivalAsks ==
  /\ key = None /\ rival = None
  /\ rival' = KeyOf(loads)
  /\ UNCHANGED <<loaderVars, overlap, turned, key, replaced, get, errors>>

\* The HSM has answered some time between.
RivalStores ==
  /\ rival # None
  /\ key' \in {rival, KeyOf(loads)}
  /\ rival' = None
  /\ replaced' = (replaced \/ (get # NoLookup /\ key # None /\ key' # key))
  /\ UNCHANGED <<loaderVars, overlap, turned, get, errors>>

Rival == RivalAsks \/ RivalStores

-----------------------------------------------------------------------------
(* Three deployments: with a pointer, with date directories only, and with *)
(* latest/ only, where StatLatest needs a shard index.                     *)

Store(d, g) == [e \in Dirs |-> IF e = d THEN Complete(g) ELSE Empty]

BatchInit ==
  /\ objects \in Layouts
  /\ \E d \in Dates :
       \/ minio = Store(d, 1) /\ pointer = Dated(d, FALSE)
       \/ minio = Store(d, 1) /\ pointer = Undated("absent")
       \/ /\ "shard" \in objects
          /\ minio = Store(Latest, 1)
          /\ \E k \in {"malformed", "absent"} : pointer = Undated(k)
  /\ loader = NoLoad
  /\ loads = 1
  /\ published = 1
  /\ overlap = 0
  /\ turned = FALSE
  /\ rotation \in Rotations
  /\ key = None /\ rival = None /\ replaced = FALSE
  /\ get = NoLookup
  /\ errors = 0

BatchNext == Loader \/ Get \/ Rival

BatchSpec == BatchInit /\ [][BatchNext]_batchVars

-----------------------------------------------------------------------------
(* Properties.                                                             *)

\* Every variable keeps its type.
BatchTypeOK ==
  /\ objects \in Layouts
  /\ minio \in [Dirs -> [Kinds -> Loads \cup {Missing}]]
  /\ pointer \in Pointer
  /\ loader \in Load
  /\ loads \in Loads
  /\ published \in Loads \cup {Missing}
  /\ overlap \in Nat
  /\ turned \in BOOLEAN
  /\ rotation \in Rotations
  /\ key \in Keys \cup {None} /\ rival \in Keys \cup {None}
  /\ replaced \in BOOLEAN
  /\ get \in Lookup
  /\ errors \in Nat

Found == get.pc = "done" /\ get.doc # None

\* retrieve_cusno never answers with another customer's profile, whatever
\* mixture of two loads its GETs have met and whatever calls have failed.
RightCustomer == Found => get.doc.cusno = get.cusno

\* A customer who is in every load is found, even by a lookup that overlaps a
\* load, of the directory it reads or of another (python-integration.md: no
\* downtime), unless the key was changed between loads and the pod has another
\* one, or two.  A lookup that lasts from one load into the next may miss it, and
\* so may one that finds lines with encrypted customer numbers beside the list of
\* encrypted columns of a load without, or the other way round: loads of one date
\* must agree on that (the first load of all is never replaced).
ReloadsHideNobody ==
  /\ get.pc = "done" /\ errors = 0 /\ overlap <= 1 /\ ~replaced
  /\ \A g \in 1 .. loads : key \in {None, KeyOf(g)}
  /\ \A g, h \in 2 .. loads : "CUSNO" \in Secret[g] <=> "CUSNO" \in Secret[h]
  /\ \A g \in Loads : get.cusno \in Contents[g]
  => get.doc # None

\* A lookup during which the pointer does not change answers with the data
\* published last, complete and in plaintext, although a load may be writing
\* another directory all the while (python-integration.md, section 9), as long
\* as the pod does not hold, or get, another key than the one that encrypted
\* the data.
PublishedDataIsServed ==
  /\ get.pc = "done" /\ errors = 0 /\ ~turned /\ ~replaced
  /\ key \in {None, KeyOf(published)}
  /\ get.cusno \in Contents[published]
  => /\ get.doc = [cusno |-> get.cusno, load |-> published]
     /\ Secret[published] \subseteq get.cols
     /\ get.lost = {} /\ get.raw = {}

\* An answer shows whose it is: with a key that no longer fits, or an HSM that
\* fails in the middle of a lookup, a customer whose number is encrypted is not
\* found rather than answered without a legible number.  (Claimed while no other
\* thread replaces the key in the middle of the lookup.)
AnswersAreNamed ==
  Found /\ ~replaced => "CUSNO" \notin get.lost \cup get.raw

\* No ciphertext is handed on to be stored in Redis (batch_profile_utils.py:
\* "암호문을 Redis에 저장하지 않기 위해").
NoCiphertext == Found => Secret[get.doc.load] \subseteq get.cols /\ get.raw = {}

=============================================================================
