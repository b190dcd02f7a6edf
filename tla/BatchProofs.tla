----------------------------- MODULE BatchProofs -----------------------------
(***************************************************************************)
(* What retrieve_cusno answers, for any number of customers, dates, loads  *)
(* and failed calls, for any mixture of loads that the lookup may meet and *)
(* for any key that the HSM hands out:                                     *)
(*                                                                         *)
(*   - never another customer's profile, and never one without a legible   *)
(*     customer number unless another thread replaces the key meanwhile;   *)
(*   - the data published last, if nothing is published during the lookup; *)
(*   - a customer of every load, if at most one load overlaps the lookup.  *)
(*                                                                         *)
(* The last two rest on what the loader keeps in MinIO, which comes before *)
(* them.                                                                   *)
(***************************************************************************)
EXTENDS BatchProfile, TLAPS

\* What a load in progress names.
LoadKnows ==
  /\ loader.phase = "backup" => loader.date \in Dates /\ loader.from \in Dates
  /\ loader.phase = "load" => loader.date \in Dates

Ranges == {"shard_range", "full_range"}
Unverified == {"meta", "match"}       \* a document found, not yet compared
Verified == {"decrypt", "done"}

\* What a lookup in progress knows.  RightCustomer alone is not inductive: it
\* speaks of the answer only, and the answer is right because no step between
\* the comparison and the answer takes up another document, and none before
\* the comparison answers with the one it has.
LookupKnows ==
  /\ get.pc \notin {"idle"} => get.cusno \in Cusnos
  /\ get.pc \in Ranges => get.index \in Loads
  /\ get.pc \in Unverified \cup {"decrypt"} => get.doc \in Docs
  /\ get.pc \notin Unverified \cup Verified => get.doc = None
  /\ get.pc \in Verified /\ get.doc # None => get.doc.cusno = get.cusno
  /\ get.pc \notin Verified => get.lost = {} /\ get.raw = {}

BatchInv == BatchTypeOK /\ LoadKnows /\ LookupKnows

-----------------------------------------------------------------------------
(* Objects.                                                                *)

\* A customer can be read only from an object that exists.
LEMMA HoldsExisting ==
  ASSUME BatchAssumption, NEW g \in Loads \cup {Missing}
  PROVE  /\ Holds(g) \subseteq Cusnos
         /\ Holds(g) # {} => g \in Loads
         /\ Ciphers(g) \subseteq Columns
  BY DEF BatchAssumption, Holds, Ciphers, Loads, Missing

\* A complete directory holds objects of one load.
LEMMA StoreType ==
  ASSUME BatchAssumption, NEW d \in Dirs, NEW g \in Loads
  PROVE  Store(d, g) \in [Dirs -> [Kinds -> Loads \cup {Missing}]]
  BY DEF Store, Complete, Empty, Missing

-----------------------------------------------------------------------------
LEMMA Initially ==
  ASSUME BatchAssumption, BatchInit
  PROVE  BatchInv
<1>1. 1 \in Loads /\ Latest \in Dirs /\ Dates \subseteq Dirs
  BY DEF BatchAssumption, Loads, Dirs
<1>2. PICK d \in Dates :
        \/ minio = Store(d, 1) /\ pointer = Dated(d, FALSE)
        \/ minio = Store(d, 1) /\ pointer = Undated("absent")
        \/ /\ minio = Store(Latest, 1)
           /\ \E k \in {"malformed", "absent"} : pointer = Undated(k)
  BY DEF BatchInit
<1>3. minio \in [Dirs -> [Kinds -> Loads \cup {Missing}]] /\ pointer \in Pointer
  <2>1. \A e \in Dirs : Store(e, 1) \in [Dirs -> [Kinds -> Loads \cup {Missing}]]
    BY <1>1, StoreType
  <2>2. \A k \in {"malformed", "absent"} : Undated(k) \in Pointer
    BY DEF Undated, Pointer
  <2>3. Dated(d, FALSE) \in Pointer
    BY DEF Dated, Pointer
  <2> QED
    BY <1>1, <1>2, <2>1, <2>2, <2>3
<1>4. loader \in Load /\ LoadKnows
  BY DEF BatchInit, NoLoad, Load, LoadKnows
<1>5. get \in Lookup /\ LookupKnows
  BY <1>1 DEF BatchInit, NoLookup, Lookup, LookupKnows, Ranges, Unverified,
              Verified
<1> QED
  BY <1>1, <1>2, <1>3, <1>4, <1>5 DEF BatchInit, BatchInv, BatchTypeOK

-----------------------------------------------------------------------------
(* The loader leaves the lookup alone.                                     *)

LEMMA BeginKeeps ==
  ASSUME BatchAssumption, BatchInv, NEW load, Begin(load),
         loader' \in Load, LoadKnows', LookupKnows'
  PROVE  BatchInv'
<1>1. loads' \in Loads
  BY DEF BatchAssumption, BatchInv, BatchTypeOK, Begin, Loads
<1> QED
  BY <1>1 DEF BatchInv, BatchTypeOK, Begin, podVars

LEMMA LoaderKeeps ==
  ASSUME BatchAssumption, BatchInv, Loader
  PROVE  BatchInv'
<1> USE DEF BatchInv
<1>1. LookupKnows'
  <2>1. UNCHANGED get
    BY DEF Loader, StartLoad, StartRework, Begin, CopyObject, PublishBackup,
           PutObject, Publish
  <2> QED
    BY <2>1 DEF LookupKnows
<1>2. objects \subseteq Kinds
  BY DEF BatchAssumption, BatchTypeOK
<1>3. loader \in Load /\ loader.todo \subseteq Kinds
  BY DEF BatchTypeOK, Load
<1>4. CASE StartLoad
  <2>1. PICK d \in Dates :
          Begin([NoLoad EXCEPT !.phase = "load", !.date = d, !.todo = objects])
    BY <1>4 DEF StartLoad
  <2>2. loader' \in Load /\ LoadKnows'
    BY <1>2, <2>1 DEF Begin, NoLoad, Load, LoadKnows
  <2> QED
    BY <1>1, <2>1, <2>2, BeginKeeps
<1>5. CASE StartRework
  <2>1. PICK d \in Dates, b \in Dates :
          Begin([phase |-> "backup", date |-> d, from |-> b, todo |-> objects])
    BY <1>5 DEF StartRework
  <2>2. loader' \in Load /\ LoadKnows'
    BY <1>2, <2>1 DEF Begin, Load, LoadKnows
  <2> QED
    BY <1>1, <2>1, <2>2, BeginKeeps
<1>6. CASE CopyObject
  <2>1. PICK o \in loader.todo :
          /\ minio' = [minio EXCEPT ![Latest][o] = minio[loader.from][o]]
          /\ loader' = [loader EXCEPT !.todo = @ \ {o}]
    BY <1>6 DEF CopyObject, Written
  <2>2. o \in Kinds /\ loader.from \in Dirs
    BY <1>3, <1>6 DEF CopyObject, LoadKnows, Dirs
  <2>3. minio[loader.from][o] \in Loads \cup {Missing}
    BY <2>2 DEF BatchTypeOK
  <2>4. minio' \in [Dirs -> [Kinds -> Loads \cup {Missing}]]
    BY <2>1, <2>3 DEF BatchTypeOK
  <2>5. loader' \in Load /\ LoadKnows'
    BY <1>3, <2>1 DEF Load, LoadKnows
  <2> QED
    BY <1>1, <1>6, <2>4, <2>5 DEF CopyObject, podVars, BatchTypeOK
<1>7. CASE PublishBackup
  <2>1. loader' \in Load /\ LoadKnows'
    BY <1>2, <1>3, <1>7 DEF PublishBackup, Load, LoadKnows
  <2>2. pointer' \in Pointer
    BY <1>7 DEF PublishBackup, LoadKnows, Dated, Pointer
  <2>3. published' \in Loads \cup {Missing}
    BY <1>7 DEF PublishBackup, podVars, BatchTypeOK, Dirs, Kinds
  <2> QED
    BY <1>1, <1>7, <2>1, <2>2, <2>3 DEF PublishBackup, podVars, BatchTypeOK
<1>8. CASE PutObject
  <2>1. PICK o \in loader.todo :
          /\ minio' = [minio EXCEPT ![loader.date][o] = loads]
          /\ loader' = [loader EXCEPT !.todo = @ \ {o}]
    BY <1>8 DEF PutObject, Written
  <2>2. minio' \in [Dirs -> [Kinds -> Loads \cup {Missing}]]
    BY <2>1 DEF BatchTypeOK
  <2>3. loader' \in Load /\ LoadKnows'
    BY <1>3, <2>1 DEF Load, LoadKnows
  <2> QED
    BY <1>1, <1>8, <2>2, <2>3 DEF PutObject, podVars, BatchTypeOK
<1>9. CASE Publish
  BY <1>1, <1>9 DEF Publish, podVars, BatchTypeOK, LoadKnows, Load, NoLoad, Dated,
                    Pointer
<1> QED
  BY <1>4, <1>5, <1>6, <1>7, <1>8, <1>9 DEF Loader

-----------------------------------------------------------------------------
(* The lookup leaves the store alone, and its own record stays well formed *)
(* when each step keeps to what the next one relies on.                    *)

LEMMA LookupStep ==
  ASSUME BatchInv,
         UNCHANGED loaderVars,
         overlap' \in Nat, turned' \in BOOLEAN, errors' \in Nat,
         key' \in Keys \cup {None}, rival' \in Keys \cup {None},
         replaced' \in BOOLEAN,
         get' \in Lookup, LookupKnows'
  PROVE  BatchInv'
  BY DEF BatchInv, BatchTypeOK, LoadKnows, loaderVars

LEMMA ErrorsCount ==
  ASSUME errors \in Nat, Works \/ Breaks
  PROVE  errors' \in Nat
  BY DEF Works, Breaks

\* The directory being read, and what an object of it is.
LEMMA HereType ==
  ASSUME BatchInv, NEW o \in Kinds
  PROVE  minio[Here][o] \in Loads \cup {Missing}
  BY DEF BatchInv, BatchTypeOK, Here, Lookup, Dirs

\* What most steps leave alone, and what they owe to the next one.
Kept == /\ get'.cusno = get.cusno
        /\ get'.lost = get.lost /\ get'.raw = get.raw

Carries == \/ get'.pc \in Unverified /\ get'.doc \in Docs
           \/ /\ get'.pc = "decrypt" /\ get'.doc \in Docs
              /\ get'.doc.cusno = get.cusno
           \/ /\ get'.pc \notin Unverified \cup {"decrypt"}
              /\ get'.doc = None

LEMMA GoesOn ==
  ASSUME LookupKnows, get.pc \notin {"idle"} \cup Verified, Kept, Carries,
         get'.pc \in Ranges => get'.index \in Loads
  PROVE  LookupKnows'
<1>1. /\ get'.cusno \in Cusnos
      /\ get'.lost = {} /\ get'.raw = {}
  BY DEF LookupKnows, Kept
<1>2. \/ get'.pc \in Unverified /\ get'.doc \in Docs
      \/ /\ get'.pc = "decrypt" /\ get'.doc \in Docs
         /\ get'.doc.cusno = get'.cusno
      \/ get'.pc \notin Unverified \cup {"decrypt"} /\ get'.doc = None
  BY DEF Kept, Carries
<1> QED
  BY <1>1, <1>2, Zenon DEF LookupKnows, Unverified, Verified

\* The steps up to the comparison.
LEMMA SearchKeeps ==
  ASSUME BatchAssumption, BatchInv, Search
  PROVE  BatchInv'
<1> DEFINE Early == get.pc \notin {"idle"} \cup Unverified \cup Verified
           Onward == Kept /\ Carries /\ (get'.pc \in Ranges => get'.index \in Loads)
<1>1. get \in Lookup /\ errors \in Nat /\ LookupKnows
  BY DEF BatchInv, BatchTypeOK
<1>2. Early => get.doc = None
  BY <1>1 DEF LookupKnows
<1>3. SUFFICES /\ Works \/ Breaks
               /\ get' \in Lookup /\ Onward
  <2>1. get.pc \notin {"idle"} \cup Verified
    BY DEF Search, GetPointer, ListDates, StatLatest, GetIndex, GetRange,
           RangeOf, GetSingle, GetMeta, Verified
  <2>2. LookupKnows'
    BY <1>1, <1>3, <2>1, GoesOn
  <2>3. /\ UNCHANGED loaderVars
        /\ overlap' \in Nat /\ turned' \in BOOLEAN /\ replaced' \in BOOLEAN
        /\ key' \in Keys \cup {None} /\ rival' \in Keys \cup {None}
    BY DEF Search, podVars, BatchInv, BatchTypeOK
  <2> QED
    BY <1>1, <1>3, <2>2, <2>3, LookupStep, ErrorsCount
<1> DEFINE Simple == {"list", "stat", "shard", "full", "single", "done"}
<1>4. ASSUME NEW l \in Simple, Early, GoTo(l)
      PROVE  get' \in Lookup /\ Onward
  <2>1. /\ get' \in Lookup /\ Kept
        /\ get'.pc = l /\ get'.doc = get.doc
    BY <1>1, <1>4 DEF GoTo, Lookup, Kept
  <2> QED
    BY <1>2, <1>4, <2>1 DEF Carries, Unverified, Ranges
<1>5. ASSUME NEW d \in Dirs, Early, get' = [get EXCEPT !.pc = "shard", !.dir = d]
      PROVE  get' \in Lookup /\ Onward
  <2>1. /\ get' \in Lookup /\ Kept
        /\ get'.pc = "shard" /\ get'.doc = get.doc
    BY <1>1, <1>5 DEF Lookup, Kept
  <2> QED
    BY <1>2, <1>5, <2>1 DEF Carries, Unverified, Ranges
<1>6. CASE GetPointer
  <2>1. /\ pointer.kind = "dated" => pointer.date \in Dirs
        /\ Latest \in Dirs
    BY DEF BatchInv, BatchTypeOK, Pointer, Dirs
  <2>2. Early /\ (Works \/ Breaks)
    BY <1>6 DEF GetPointer, Unverified, Verified
  <2>3. \/ \E d \in Dirs : get' = [get EXCEPT !.pc = "shard", !.dir = d]
        \/ GoTo("stat") \/ GoTo("list")
    BY <1>6, <2>1 DEF GetPointer
  <2> QED
    BY <1>4, <1>5, <2>2, <2>3
<1>7. CASE ListDates
  <2>1. Early /\ (Works \/ Breaks)
    BY <1>7 DEF ListDates, Unverified, Verified
  <2>2. \/ \E d \in Dirs : get' = [get EXCEPT !.pc = "shard", !.dir = d]
        \/ GoTo("stat") \/ GoTo("done")
    BY <1>7 DEF ListDates, Dirs
  <2> QED
    BY <1>4, <1>5, <2>1, <2>2
<1>8. CASE StatLatest
  <2>1. Early /\ (Works \/ Breaks)
    BY <1>8 DEF StatLatest, Unverified, Verified
  <2>2. GoTo("shard") \/ GoTo("done")
    BY <1>8 DEF StatLatest
  <2> QED
    BY <1>4, <2>1, <2>2
<1>9. ASSUME NEW k \in {"shard", "full"}, GetIndex(k)
      PROVE  (Works \/ Breaks) /\ get' \in Lookup /\ Onward
  <2> DEFINE g == minio[Here][k]
  <2>1. g \in Loads \cup {Missing}
    BY HereType DEF Kinds
  <2>2. get.cusno \in Holds(g) => g \in Loads
    BY <2>1, HoldsExisting
  <2>3. Early /\ (Works \/ Breaks)
    BY <1>9 DEF GetIndex, Unverified, Verified
  <2>4. AfterIndex(k) \in Simple
    BY DEF AfterIndex
  <2>5. ASSUME g \in Loads, get' = [get EXCEPT !.pc = RangeOf(k), !.index = g]
        PROVE  get' \in Lookup /\ Onward
    <3>1. RangeOf(k) \in Ranges
      BY DEF RangeOf, Ranges
    <3>2. /\ get' \in Lookup /\ Kept /\ get'.pc = RangeOf(k)
          /\ get'.doc = get.doc /\ get'.index = g
      BY <1>1, <2>5, <3>1 DEF Lookup, Kept, Ranges
    <3> QED
      BY <1>2, <2>3, <2>5, <3>1, <3>2 DEF Carries, Unverified, Ranges
  <2>6. \/ g \in Loads /\ get' = [get EXCEPT !.pc = RangeOf(k), !.index = g]
        \/ GoTo(AfterIndex(k))
    BY <1>9, <2>2 DEF GetIndex
  <2> QED
    BY <1>4, <2>3, <2>4, <2>5, <2>6
<1>10. ASSUME NEW k \in {"shard", "full"}, GetRange(k)
       PROVE  (Works \/ Breaks) /\ get' \in Lookup /\ Onward
  <2> DEFINE h == minio[Here]["bulk"]
  <2>1. h \in Loads \cup {Missing}
    BY HereType DEF Kinds
  <2>2. get.pc = RangeOf(k) /\ RangeOf(k) \in Ranges /\ (Works \/ Breaks)
    BY <1>10 DEF GetRange, RangeOf, Ranges
  <2>3. Early /\ get.index \in Loads /\ get.cusno \in Cusnos
    BY <1>1, <2>2 DEF LookupKnows, Ranges, Unverified, Verified
  <2>4. ASSUME NEW c \in LinesAt(get.cusno, get.index, h)
        PROVE  [cusno |-> c, load |-> h] \in Docs
    BY <2>1, <2>3, <2>4, HoldsExisting DEF LinesAt, Docs
  <2>5. ASSUME NEW e \in Docs,
               get' = [get EXCEPT !.pc = "meta", !.index = Missing, !.doc = e]
        PROVE  get' \in Lookup /\ Onward
    <3>1. /\ get' \in Lookup /\ Kept
          /\ get'.pc = "meta" /\ get'.doc = e
      BY <1>1, <2>5 DEF Lookup, Kept
    <3> QED
      BY <3>1 DEF Carries, Unverified, Ranges
  <2>6. ASSUME get' = [get EXCEPT !.pc = AfterIndex(k), !.index = Missing]
        PROVE  get' \in Lookup /\ Onward
    <3>1. AfterIndex(k) \in {"full", "single"}
      BY DEF AfterIndex
    <3>2. /\ get' \in Lookup /\ Kept
          /\ get'.pc = AfterIndex(k) /\ get'.doc = get.doc
      BY <1>1, <2>6, <3>1 DEF Lookup, Kept
    <3> QED
      BY <1>2, <2>3, <3>1, <3>2 DEF Carries, Unverified, Ranges
  <2>7. \/ \E e \in Docs :
             get' = [get EXCEPT !.pc = "meta", !.index = Missing, !.doc = e]
        \/ get' = [get EXCEPT !.pc = AfterIndex(k), !.index = Missing]
    BY <1>10, <2>4 DEF GetRange
  <2> QED
    BY <2>2, <2>5, <2>6, <2>7
<1>11. CASE GetSingle
  <2> DEFINE g == minio[Here]["single"]
  <2>1. g \in Loads \cup {Missing}
    BY HereType DEF Kinds
  <2>2. get.cusno \in Holds(g) => [cusno |-> get.cusno, load |-> g] \in Docs
    BY <2>1, HoldsExisting DEF Docs
  <2>3. Early /\ (Works \/ Breaks)
    BY <1>11 DEF GetSingle, Unverified, Verified
  <2>4. ASSUME NEW e \in Docs, get' = [get EXCEPT !.pc = "meta", !.doc = e]
        PROVE  get' \in Lookup /\ Onward
    <3>1. /\ get' \in Lookup /\ Kept
          /\ get'.pc = "meta" /\ get'.doc = e
      BY <1>1, <2>4 DEF Lookup, Kept
    <3> QED
      BY <3>1 DEF Carries, Unverified, Ranges
  <2>5. ASSUME get' = [get EXCEPT !.pc = "shard", !.fall = TRUE]
        PROVE  get' \in Lookup /\ Onward
    <3>1. /\ get' \in Lookup /\ Kept
          /\ get'.pc = "shard" /\ get'.doc = get.doc
      BY <1>1, <2>5 DEF Lookup, Kept
    <3> QED
      BY <1>2, <2>3, <3>1 DEF Carries, Unverified, Ranges
  <2>6. \/ \E e \in Docs : get' = [get EXCEPT !.pc = "meta", !.doc = e]
        \/ get' = [get EXCEPT !.pc = "shard", !.fall = TRUE]
        \/ GoTo("done")
    BY <1>11, <2>2 DEF GetSingle, GoTo
  <2> QED
    BY <1>4, <2>3, <2>4, <2>5, <2>6
<1>12. CASE GetMeta
  <2> DEFINE g == minio[Here]["meta"]
  <2>1. Ciphers(g) \subseteq Columns
    BY HereType, HoldsExisting DEF Kinds
  <2>2. get.doc \in Docs /\ (Works \/ Breaks)
    BY <1>1, <1>12 DEF GetMeta, LookupKnows, Unverified
  <2>3. \/ get' = [get EXCEPT !.pc = "match", !.cols = Ciphers(g)]
        \/ get' = [get EXCEPT !.pc = "match"]
    BY <1>12 DEF GetMeta, GoTo
  <2> HIDE DEF g
  <2> DEFINE Good == /\ get' \in Lookup /\ Kept
                     /\ get'.pc = "match" /\ get'.doc = get.doc
  <2>4. Good
    <3>1. ASSUME get' = [get EXCEPT !.pc = "match", !.cols = Ciphers(g)]
          PROVE  Good
      BY <1>1, <2>1, <3>1 DEF Lookup, Kept
    <3>2. ASSUME get' = [get EXCEPT !.pc = "match"]
          PROVE  Good
      BY <1>1, <3>2 DEF Lookup, Kept
    <3> QED
      BY <2>3, <3>1, <3>2
  <2> QED
    BY <2>2, <2>4 DEF Carries, Unverified, Ranges
<1> QED
  BY <1>6, <1>7, <1>8, <1>9, <1>10, <1>11, <1>12 DEF Search

\* The comparison and what follows it.
LEMMA SettleKeeps ==
  ASSUME BatchAssumption, BatchInv, Settle
  PROVE  BatchInv'
<1>1. get \in Lookup /\ errors \in Nat /\ key \in Keys \cup {None} /\ LookupKnows
  BY DEF BatchInv, BatchTypeOK
<1>2. ASSUME NEW cols, NEW failed, Key(cols, failed)
      PROVE  key' \in Keys \cup {None} /\ (Works \/ Breaks)
  BY <1>1, <1>2 DEF Key, KeyOf, Keys
<1>3. SUFFICES /\ key' \in Keys \cup {None} /\ (Works \/ Breaks)
               /\ get' \in Lookup /\ LookupKnows'
  <2>1. /\ UNCHANGED loaderVars /\ overlap' \in Nat /\ turned' \in BOOLEAN
        /\ rival' \in Keys \cup {None} /\ replaced' \in BOOLEAN
    BY DEF Settle, BatchInv, BatchTypeOK
  <2> QED
    BY <1>1, <2>1, LookupStep, ErrorsCount
<1>4. CASE Match
  <2>1. key' \in Keys \cup {None} /\ (Works \/ Breaks)
    BY <1>2, <1>4 DEF Match
  <2>2. PICK failed :
          IF match_cusno(get.doc, failed)
            THEN get' = [get EXCEPT !.pc = "decrypt"]
            ELSE get' = [get EXCEPT !.pc = "scan", !.doc = None]
    BY <1>4 DEF Match, GoTo
  <2>3. get.pc = "match" /\ get.doc \in Docs
    BY <1>1, <1>4 DEF Match, LookupKnows, Unverified
  <2>4. get' \in Lookup /\ Kept /\ Carries /\ get'.pc \notin Ranges
    <3>1. CASE match_cusno(get.doc, failed)
      <4>1. get' = [get EXCEPT !.pc = "decrypt"]
        BY <2>2, <3>1
      <4>2. get' \in Lookup /\ Kept /\ get'.pc = "decrypt" /\ get'.doc = get.doc
        BY <1>1, <4>1 DEF Lookup, Kept
      <4>3. get.doc.cusno = get.cusno
        BY <3>1 DEF match_cusno
      <4> QED
        BY <2>3, <4>2, <4>3 DEF Carries, Ranges
    <3>2. CASE ~match_cusno(get.doc, failed)
      <4>1. get' = [get EXCEPT !.pc = "scan", !.doc = None]
        BY <2>2, <3>2
      <4>2. get' \in Lookup /\ Kept /\ get'.pc = "scan" /\ get'.doc = None
        BY <1>1, <4>1 DEF Lookup, Kept
      <4> QED
        BY <4>2 DEF Carries, Ranges, Unverified
    <3> QED
      BY <3>1, <3>2
  <2> QED
    BY <1>1, <2>1, <2>3, <2>4, GoesOn DEF Verified
<1>5. CASE Scan
  <2> DEFINE h == minio[Here]["bulk"]
             d == [cusno |-> get.cusno, load |-> h]
  <2>1. key' \in Keys \cup {None} /\ (Works \/ Breaks)
    BY <1>1, <1>2, <1>5 DEF Scan
  <2>2. h \in Loads \cup {Missing}
    BY HereType DEF Kinds
  <2>3. get.cusno \in Holds(h) => d \in Docs
    BY <2>2, HoldsExisting DEF Docs
  <2>4. get.pc = "scan" /\ get.doc = None
    BY <1>1, <1>5 DEF Scan, LookupKnows, Unverified, Verified
  <2>5. get' \in Lookup /\ Kept /\ Carries /\ get'.pc \notin Ranges
    <3>1. ASSUME d \in Docs, get' = [get EXCEPT !.pc = "decrypt", !.doc = d]
          PROVE  get' \in Lookup /\ Kept /\ Carries /\ get'.pc \notin Ranges
      <4>1. d.cusno = get.cusno
        OBVIOUS
      <4> HIDE DEF d
      <4>2. get' \in Lookup /\ Kept /\ get'.pc = "decrypt" /\ get'.doc = d
        BY <1>1, <3>1 DEF Lookup, Kept
      <4> QED
        BY <3>1, <4>1, <4>2 DEF Carries, Ranges
    <3>2. ASSUME get' = [get EXCEPT !.pc = "done"]
          PROVE  get' \in Lookup /\ Kept /\ Carries /\ get'.pc \notin Ranges
      <4>1. get' \in Lookup /\ Kept /\ get'.pc = "done" /\ get'.doc = get.doc
        BY <1>1, <3>2 DEF Lookup, Kept
      <4> QED
        BY <2>4, <4>1 DEF Carries, Ranges, Unverified
    <3> QED
      BY <1>5, <2>3, <3>1, <3>2 DEF Scan, GoTo
  <2> QED
    BY <1>1, <2>1, <2>4, <2>5, GoesOn DEF Verified
<1>6. CASE Decrypt
  <2>1. key' \in Keys \cup {None} /\ (Works \/ Breaks)
    BY <1>1, <1>2, <1>6 DEF Decrypt, DecryptField
  <2>2. get.pc = "decrypt"
    BY <1>6 DEF Decrypt
  <2>3. ASSUME GoTo("done")
        PROVE  get' \in Lookup /\ LookupKnows'
    <3>1. /\ get' \in Lookup /\ Kept
          /\ get'.pc = "done" /\ get'.doc = get.doc
      BY <1>1, <2>3 DEF GoTo, Lookup, Kept
    <3> QED
      BY <1>1, <2>2, <3>1 DEF LookupKnows, Kept, Unverified, Verified, Ranges
  <2>4. ASSUME NEW col \in Encrypted(get.doc), NEW failed \in SUBSET {col},
               DecryptField(col, failed)
        PROVE  get' \in Lookup /\ LookupKnows'
    <3> DEFINE p == get.past \cup {col}
               l == get.lost \cup failed
               r == IF Fits(get.doc) THEN get.raw
                    ELSE get.raw \cup ({col} \ failed)
    <3>1. get' = [get EXCEPT !.past = p, !.lost = l, !.raw = r]
      BY <2>4 DEF DecryptField
    <3>2. p \in SUBSET Columns /\ l \in SUBSET Columns /\ r \in SUBSET Columns
      BY <1>1 DEF Encrypted, Lookup
    <3> HIDE DEF p, l, r
    <3>3. /\ get' \in Lookup /\ get'.cusno = get.cusno
          /\ get'.pc = get.pc /\ get'.doc = get.doc
      BY <1>1, <3>1, <3>2 DEF Lookup
    <3> QED
      BY <1>1, <2>2, <3>3 DEF LookupKnows, Unverified, Verified, Ranges
  <2> QED
    BY <1>6, <2>1, <2>3, <2>4 DEF Decrypt
<1> QED
  BY <1>4, <1>5, <1>6 DEF Settle

-----------------------------------------------------------------------------
(* The theorems.                                                           *)

LEMMA NextKeeps ==
  ASSUME BatchAssumption, BatchInv, [BatchNext]_batchVars
  PROVE  BatchInv'
<1>1. ASSUME NEW c \in Cusnos, retrieve_cusno(c)
      PROVE  BatchInv'
  BY <1>1, LookupStep
     DEF retrieve_cusno, BatchInv, BatchTypeOK, NoLookup, Lookup, LookupKnows,
         Ranges, Unverified, Verified, Dirs
<1>2. CASE Answer
  BY <1>2, LookupStep
     DEF Answer, BatchInv, BatchTypeOK, NoLookup, Lookup, LookupKnows,
         Ranges, Unverified, Verified, Dirs
<1>3. CASE UNCHANGED batchVars
  BY <1>3 DEF batchVars, podVars, BatchInv, BatchTypeOK, LoadKnows, LookupKnows
<1>4. CASE Rival
  <2>1. /\ key' \in Keys \cup {None} /\ rival' \in Keys \cup {None}
        /\ replaced' \in BOOLEAN /\ UNCHANGED <<loaderVars, overlap, turned, get, errors>>
    BY <1>4 DEF Rival, RivalAsks, RivalStores, BatchInv, BatchTypeOK, KeyOf, Keys
  <2>2. get \in Lookup /\ LookupKnows
    BY DEF BatchInv, BatchTypeOK
  <2> QED
    BY <2>1, <2>2, LookupStep DEF BatchInv, BatchTypeOK, LookupKnows
<1> QED
  BY <1>1, <1>2, <1>3, <1>4, LoaderKeeps, SearchKeeps, SettleKeeps
     DEF BatchNext, Get

\* The invariant itself.
LEMMA BatchInvAlways == BatchSpec => []BatchInv
<1>1. BatchInit => BatchInv
  BY BatchAssumption, Initially
<1>2. BatchInv /\ [BatchNext]_batchVars => BatchInv'
  BY BatchAssumption, NextKeeps
<1> QED
  BY <1>1, <1>2, PTL DEF BatchSpec

\* Every variable keeps its type.
THEOREM BatchTypes == BatchSpec => []BatchTypeOK
<1>1. BatchInv => BatchTypeOK
  BY DEF BatchInv
<1> QED
  BY <1>1, BatchInvAlways, PTL

\* retrieve_cusno never answers with another customer's profile, whatever
\* mixture of loads its GETs meet and whatever calls fail.
THEOREM RightCustomerAlways == BatchSpec => []RightCustomer
<1>1. BatchInv => RightCustomer
  BY DEF BatchInv, LookupKnows, Verified, RightCustomer, Found
<1> QED
  BY <1>1, BatchInvAlways, PTL

-----------------------------------------------------------------------------
(* Names.                                                                  *)

\* A document that passed the comparison can be decrypted: the key that was
\* needed to read its customer number is held from then on, unless another
\* thread replaces it, and none of the fields done so far was that number.
KeyHeld ==
  get.pc = "decrypt" /\ ~replaced
  => /\ "CUSNO" \in Ciphers(get.doc.load) => key = KeyOf(get.doc.load)
     /\ "CUSNO" \notin get.lost \cup get.raw

NamedInv == BatchInv /\ KeyHeld /\ AnswersAreNamed

\* A key that is held stays, and no call for it can fail.
LEMMA HeldKeyStays ==
  ASSUME key # None, NEW cols, NEW failed, Key(cols, failed)
  PROVE  key' = key /\ failed = {}
  BY DEF Key

LEMMA KeysExist ==
  ASSUME BatchAssumption, NEW g
  PROVE  KeyOf(g) # None
  BY DEF BatchAssumption, KeyOf

\* No step of the search ends it with a document.
LEMMA SearchSettlesNothing ==
  ASSUME BatchInv, Search
  PROVE  /\ get'.pc # "decrypt"
         /\ get'.pc = "done" => get'.doc = None
<1> USE DEF GoTo, Lookup, LookupKnows, Unverified, Verified
<1>1. get \in Lookup /\ LookupKnows
  BY DEF BatchInv, BatchTypeOK
<1>2. CASE GetPointer
  BY <1>1, <1>2 DEF GetPointer
<1>3. CASE ListDates
  BY <1>1, <1>3 DEF ListDates
<1>4. CASE StatLatest
  BY <1>1, <1>4 DEF StatLatest
<1>5. ASSUME NEW k \in {"shard", "full"}, GetIndex(k)
      PROVE  get'.pc \notin {"decrypt", "done"}
  BY <1>1, <1>5 DEF GetIndex, RangeOf, AfterIndex
<1>6. ASSUME NEW k \in {"shard", "full"}, GetRange(k)
      PROVE  get'.pc \notin {"decrypt", "done"}
  BY <1>1, <1>6 DEF GetRange, AfterIndex
<1>7. CASE GetSingle
  BY <1>1, <1>7 DEF GetSingle
<1>8. CASE GetMeta
  BY <1>1, <1>8 DEF GetMeta
<1> QED
  BY <1>2, <1>3, <1>4, <1>5, <1>6, <1>7, <1>8 DEF Search

\* A document that match_cusno lets pass leaves the key for it behind.
LEMMA MatchHolds ==
  ASSUME BatchAssumption, NEW d, NEW failed, match_cusno(d, failed)
  PROVE  "CUSNO" \in Ciphers(d.load) => key' = KeyOf(d.load)
  BY DEF match_cusno, Fits

LEMMA SettleNames ==
  ASSUME BatchAssumption, NamedInv, Settle
  PROVE  KeyHeld' /\ AnswersAreNamed'
<1>1. get \in Lookup /\ LookupKnows
  BY DEF NamedInv, BatchInv, BatchTypeOK
<1>2. UNCHANGED <<rotation, replaced>>
  BY DEF Settle, loaderVars
<1>3. ASSUME NEW d, NEW failed, match_cusno(d, failed), get.pc \notin Verified,
             get'.pc = "decrypt", get'.doc = d,
             get'.lost = get.lost, get'.raw = get.raw
      PROVE  KeyHeld' /\ AnswersAreNamed'
  <2>1. "CUSNO" \in Ciphers(d.load) => key' = KeyOf(d.load)
    BY <1>3, MatchHolds
  <2>2. get.lost = {} /\ get.raw = {}
    BY <1>1, <1>3 DEF LookupKnows
  <2> QED
    BY <1>2, <1>3, <2>1, <2>2 DEF KeyHeld, AnswersAreNamed, Found, KeyOf
<1>4. CASE Match
  <2>1. PICK failed :
          IF match_cusno(get.doc, failed)
            THEN get' = [get EXCEPT !.pc = "decrypt"]
            ELSE get' = [get EXCEPT !.pc = "scan", !.doc = None]
    BY <1>4 DEF Match, GoTo
  <2>2. get.pc \notin Verified
    BY <1>4 DEF Match, Verified
  <2>3. CASE match_cusno(get.doc, failed)
    <3>1. /\ get'.pc = "decrypt" /\ get'.doc = get.doc
          /\ get'.lost = get.lost /\ get'.raw = get.raw
      BY <1>1, <2>1, <2>3 DEF Lookup
    <3> QED
      BY <1>3, <2>2, <2>3, <3>1
  <2>4. CASE ~match_cusno(get.doc, failed)
    <3>1. get'.pc = "scan"
      BY <1>1, <2>1, <2>4 DEF Lookup
    <3> QED
      BY <3>1 DEF KeyHeld, AnswersAreNamed, Found
  <2> QED
    BY <2>3, <2>4
<1>5. CASE Scan
  <2> DEFINE d == [cusno |-> get.cusno, load |-> minio[Here]["bulk"]]
  <2>1. \/ \E failed : /\ match_cusno(d, failed)
                       /\ get' = [get EXCEPT !.pc = "decrypt", !.doc = d]
        \/ get' = [get EXCEPT !.pc = "done"]
    BY <1>5 DEF Scan, GoTo
  <2>2. get.pc \notin Verified /\ get.doc = None
    BY <1>1, <1>5 DEF Scan, LookupKnows, Unverified, Verified
  <2>3. CASE get' = [get EXCEPT !.pc = "done"]
    <3>1. get'.pc = "done" /\ get'.doc = None
      BY <1>1, <2>2, <2>3 DEF Lookup
    <3> QED
      BY <3>1 DEF KeyHeld, AnswersAreNamed, Found
  <2> HIDE DEF d
  <2>4. ASSUME NEW failed, match_cusno(d, failed),
               get' = [get EXCEPT !.pc = "decrypt", !.doc = d]
        PROVE  KeyHeld' /\ AnswersAreNamed'
    <3>1. /\ get'.pc = "decrypt" /\ get'.doc = d
          /\ get'.lost = get.lost /\ get'.raw = get.raw
      BY <1>1, <2>4 DEF Lookup
    <3> QED
      BY <1>3, <2>2, <2>4, <3>1
  <2> QED
    BY <2>1, <2>3, <2>4
<1>6. CASE Decrypt
  <2> DEFINE Named(g) == "CUSNO" \notin g.lost \cup g.raw
  <2>1. get.pc = "decrypt"
    BY <1>6 DEF Decrypt
  <2>2. SUFFICES ASSUME ~replaced
                 PROVE  /\ get'.pc \in Verified /\ get'.doc = get.doc
                        /\ key # None => key' = key
                        /\ Named(get')
    <3>1. replaced => KeyHeld' /\ AnswersAreNamed'
      BY <1>2 DEF KeyHeld, AnswersAreNamed
    <3>2. CASE ~replaced
      <4>1. "CUSNO" \in Ciphers(get.doc.load) => key = KeyOf(get.doc.load)
        BY <2>1, <3>2 DEF NamedInv, KeyHeld
      <4>2. "CUSNO" \in Ciphers(get.doc.load) => key' = KeyOf(get.doc.load)
        BY <2>2, <3>2, <4>1, KeysExist
      <4>3. get'.doc = get.doc /\ Named(get')
        BY <2>2, <3>2
      <4> QED
        BY <1>2, <4>2, <4>3 DEF KeyHeld, AnswersAreNamed, KeyOf
    <3> QED
      BY <3>1, <3>2
  <2>3. Named(get)
    BY <2>1, <2>2 DEF NamedInv, KeyHeld
  <2>4. CASE GoTo("done") /\ UNCHANGED key
    <3>1. /\ get'.pc = "done" /\ get'.doc = get.doc
          /\ get'.lost = get.lost /\ get'.raw = get.raw
      BY <1>1, <2>4 DEF GoTo, Lookup
    <3> QED
      BY <2>3, <2>4, <3>1 DEF Verified
  <2>5. ASSUME NEW col \in Encrypted(get.doc), NEW failed \in SUBSET {col},
               DecryptField(col, failed)
        PROVE  /\ get'.pc \in Verified /\ get'.doc = get.doc
               /\ key # None => key' = key
               /\ Named(get')
    <3> DEFINE p == get.past \cup {col}
               l == get.lost \cup failed
               r == IF Fits(get.doc) THEN get.raw
                    ELSE get.raw \cup ({col} \ failed)
    <3>1. get' = [get EXCEPT !.past = p, !.lost = l, !.raw = r]
      BY <2>5 DEF DecryptField
    <3>2. "CUSNO" \notin l \cup r
      <4>1. CASE col # "CUSNO"
        BY <2>3, <4>1
      <4>2. CASE col = "CUSNO"
        <5>1. "CUSNO" \in Ciphers(get.doc.load)
          BY <4>2 DEF Encrypted
        <5>2. key = KeyOf(get.doc.load)
          BY <2>1, <2>2, <5>1 DEF NamedInv, KeyHeld
        <5>3. key' = key /\ failed = {}
          BY <2>5, <5>2, HeldKeyStays, KeysExist DEF DecryptField
        <5>4. Fits(get.doc)
          BY <5>2, <5>3 DEF Fits
        <5> QED
          BY <2>3, <5>3, <5>4
      <4> QED
        BY <4>1, <4>2
    <3>3. key # None => key' = key
      BY <2>5, HeldKeyStays DEF DecryptField
    <3> HIDE DEF p, l, r
    <3>4. /\ get'.pc = get.pc /\ get'.doc = get.doc
          /\ get'.lost = l /\ get'.raw = r
      BY <1>1, <3>1 DEF Lookup
    <3> QED
      BY <2>1, <3>2, <3>3, <3>4 DEF Verified
  <2> QED
    BY <1>6, <2>4, <2>5 DEF Decrypt
<1> QED
  BY <1>4, <1>5, <1>6 DEF Settle

\* An answer shows whose it is, whatever keys the HSM hands out and whenever it
\* fails, as long as no other thread replaces the key during the lookup: the
\* customer number that decides the comparison is the one answered.
THEOREM AnswersAreNamedAlways == BatchSpec => []AnswersAreNamed
<1>1. BatchInit => NamedInv
  <2>1. BatchInit => get.pc = "idle"
    BY DEF BatchInit, NoLookup
  <2>2. get.pc = "idle" => KeyHeld /\ AnswersAreNamed
    BY DEF KeyHeld, AnswersAreNamed, Found
  <2> QED
    BY <2>1, <2>2, BatchAssumption, Initially DEF NamedInv
<1>2. ASSUME NamedInv, [BatchNext]_batchVars
      PROVE  NamedInv'
  <2>1. BatchInv'
    BY <1>2, BatchAssumption, NextKeeps DEF NamedInv
  <2>2. CASE Loader \/ UNCHANGED batchVars
    <3>1. UNCHANGED <<get, key, rotation, replaced>>
      BY <2>2 DEF Loader, StartLoad, StartRework, Begin, CopyObject,
                  PublishBackup, PutObject, Publish, batchVars, podVars
    <3> QED
      BY <1>2, <2>1, <3>1 DEF NamedInv, KeyHeld, AnswersAreNamed, Found, KeyOf
  <2>3. CASE Answer \/ \E c \in Cusnos : retrieve_cusno(c)
    <3>1. Answer => get'.pc = "idle"
      BY DEF Answer, NoLookup
    <3>2. ASSUME NEW c \in Cusnos, retrieve_cusno(c)
          PROVE  get'.pc = "pointer"
      BY <3>2 DEF retrieve_cusno, NoLookup
    <3> QED
      BY <2>1, <2>3, <3>1, <3>2 DEF NamedInv, KeyHeld, AnswersAreNamed, Found
  <2>4. CASE Search
    <3>1. get'.pc # "decrypt" /\ (get'.pc = "done" => get'.doc = None)
      BY <1>2, <2>4, SearchSettlesNothing DEF NamedInv
    <3> QED
      BY <2>1, <3>1 DEF NamedInv, KeyHeld, AnswersAreNamed, Found
  <2>5. CASE Settle
    BY <1>2, <2>1, <2>5, BatchAssumption, SettleNames DEF NamedInv
  <2>6. CASE Rival
    <3>1. UNCHANGED <<get, rotation>>
      BY <2>6 DEF Rival, RivalAsks, RivalStores, loaderVars
    <3>2. ~replaced' => ~replaced /\ (key' = key \/ key = None \/ get = NoLookup)
      BY <2>6 DEF Rival, RivalAsks, RivalStores
    <3>3. get.pc = "decrypt" => get # NoLookup
      BY DEF NoLookup
    <3>4. KeyOf(get.doc.load) # None
      BY BatchAssumption, KeysExist
    <3> QED
      BY <1>2, <2>1, <3>1, <3>2, <3>3, <3>4
         DEF NamedInv, KeyHeld, AnswersAreNamed, Found, KeyOf
  <2> QED
    BY <1>2, <2>2, <2>3, <2>4, <2>5, <2>6 DEF BatchNext, Get
<1>3. NamedInv => AnswersAreNamed
  BY DEF NamedInv
<1> QED
  BY <1>1, <1>2, <1>3, PTL DEF BatchSpec


-----------------------------------------------------------------------------
(* What is published.                                                      *)

\* The directory the pointer leads to.
Target == IF pointer.use_latest THEN Latest ELSE pointer.date

\* The directory the loader is writing.
BeingWritten(d) ==
  \/ loader.phase = "backup" /\ d = Latest
  \/ loader.phase = "load" /\ d = loader.date

Whole(d) == \E g \in Loads \cup {Missing} : minio[d] = Complete(g)

DirsAreWhole == \A d \in Dirs : ~BeingWritten(d) => Whole(d)

\* What the loader has still to write is all that its directory lacks.
LoadProgress ==
  /\ loader.todo \subseteq objects
  /\ loader.phase = "idle" => loader = NoLoad
  /\ loader.phase = "backup" =>
       /\ \E g \in Loads : minio[loader.from] = Complete(g)
       /\ \A o \in Kinds \ loader.todo : minio[Latest][o] = minio[loader.from][o]
  /\ loader.phase = "load" =>
       \A o \in Kinds \ loader.todo : minio[loader.date][o] = Complete(loads)[o]

\* The pointer leads to all of the load published last, and the loader writes
\* elsewhere; without a date in the pointer there is one directory, and no loader.
PublishedIsWhole ==
  /\ published \in Loads
  /\ pointer.kind = "dated" =>
       /\ minio[Target] = Complete(published)
       /\ ~BeingWritten(Target)
       /\ loader.phase # "load" => ~pointer.use_latest
  /\ pointer.kind # "dated" =>
       /\ loader = NoLoad
       /\ \/ pointer.kind = "absent" /\ \E d \in Dates : minio = Store(d, published)
          \/ minio = Store(Latest, published) /\ "shard" \in objects

StoreInv == DirsAreWhole /\ LoadProgress /\ PublishedIsWhole

LEMMA CompleteObjects ==
  ASSUME NEW g
  PROVE  \A o \in Kinds : Complete(g)[o] = IF o \in objects THEN g ELSE Missing
BY DEF Complete

LEMMA LayoutUsed ==
  ASSUME BatchInv
  PROVE  /\ objects \subseteq Kinds /\ "meta" \in objects
         /\ objects \cap {"shard", "full"} # {} => "bulk" \in objects
         /\ objects \cap {"shard", "full", "single"} # {}
BY BatchAssumption, LayoutsAreReadable DEF BatchAssumption, BatchInv, BatchTypeOK

LEMMA StoreTypes ==
  ASSUME BatchInv
  PROVE  /\ Dates \subseteq Dirs /\ Latest \in Dirs /\ Latest \notin Dates
         /\ Dates \subseteq Nat /\ Missing \notin Loads /\ Missing = 0
         /\ Loads \subseteq Nat /\ 1 \in Loads /\ objects \subseteq Kinds
         /\ minio \in [Dirs -> [Kinds -> Loads \cup {Missing}]]
         /\ loader \in Load /\ LoadKnows /\ loads \in Loads /\ pointer \in Pointer
  BY BatchAssumption DEF BatchInv, BatchTypeOK, BatchAssumption, Dirs, Loads, Missing

\* A complete directory exists if its load does.
LEMMA ExistingLoad ==
  ASSUME BatchInv, NEW d \in Dirs, NEW g \in Loads \cup {Missing}, minio[d] = Complete(g)
  PROVE  Existing(d) <=> g # Missing
<1>1. "meta" \in objects /\ "meta" \in Kinds
  BY LayoutUsed DEF Kinds
<1> QED BY <1>1, CompleteObjects DEF Existing

LEMMA StoresAreWhole ==
  ASSUME NEW d \in Dirs, NEW g
  PROVE  Store(d, g)[d] = Complete(g) /\ \A e \in Dirs \ {d} : Store(d, g)[e] = Complete(Missing)
BY DEF Store, Empty

LEMMA StoreInitially ==
  ASSUME BatchInit
  PROVE  StoreInv
<1>1. 1 \in Loads /\ Latest \in Dirs /\ Dates \subseteq Dirs /\ Latest \notin Dates
  BY BatchAssumption DEF BatchAssumption, Loads, Dirs
<1>2. loader = NoLoad /\ published = 1
  BY DEF BatchInit
<1>3. \A d : ~BeingWritten(d)
  BY <1>2 DEF BeingWritten, NoLoad
<1>4. ASSUME NEW d \in Dirs, minio = Store(d, 1)
      PROVE  DirsAreWhole /\ minio[d] = Complete(1)
  BY <1>1, <1>4, StoresAreWhole DEF DirsAreWhole, Whole
<1>5. LoadProgress
  BY <1>2 DEF LoadProgress, NoLoad
<1>6. PICK d \in Dates :
        \/ minio = Store(d, 1) /\ pointer = Dated(d, FALSE)
        \/ minio = Store(d, 1) /\ pointer = Undated("absent")
        \/ /\ "shard" \in objects
           /\ minio = Store(Latest, 1)
           /\ \E k \in {"malformed", "absent"} : pointer = Undated(k)
  BY DEF BatchInit
<1>7. CASE minio = Store(d, 1) /\ pointer = Dated(d, FALSE)
  <2>1. pointer.kind = "dated" /\ Target = d /\ ~pointer.use_latest
    BY <1>7 DEF Dated, Target
  <2> QED BY <1>1, <1>2, <1>3, <1>4, <1>5, <1>7, <2>1 DEF StoreInv, PublishedIsWhole
<1>8. CASE minio = Store(d, 1) /\ pointer = Undated("absent")
  <2>1. pointer.kind = "absent"
    BY <1>8 DEF Undated
  <2> QED BY <1>1, <1>2, <1>4, <1>5, <1>8, <2>1 DEF StoreInv, PublishedIsWhole
<1>9. CASE /\ "shard" \in objects
           /\ minio = Store(Latest, 1)
           /\ \E k \in {"malformed", "absent"} : pointer = Undated(k)
  <2>1. pointer.kind \in {"malformed", "absent"}
    BY <1>9 DEF Undated
  <2> QED BY <1>1, <1>2, <1>4, <1>5, <1>9, <2>1 DEF StoreInv, PublishedIsWhole
<1> QED BY <1>6, <1>7, <1>8, <1>9

\* A load that begins finds every directory whole, and writes one that the
\* pointer does not lead to.
LEMMA StoreBegins ==
  ASSUME BatchInv, StoreInv, StartLoad \/ StartRework
  PROVE  StoreInv'
<1>1. /\ loader = NoLoad /\ pointer.kind = "dated"
      /\ UNCHANGED <<objects, minio, pointer, published>>
  BY DEF StartLoad, StartRework, Begin
<1>2. \A d : ~BeingWritten(d)
  BY <1>1 DEF BeingWritten, NoLoad
<1>3. \A d \in Dirs : Whole(d)
  BY <1>2 DEF StoreInv, DirsAreWhole
<1>4. \A g : Complete(g)' = Complete(g)
  BY <1>1 DEF Complete
<1>5. DirsAreWhole'
  BY <1>1, <1>3, <1>4 DEF DirsAreWhole, Whole
<1>6. /\ published \in Loads /\ minio[Target] = Complete(published)
      /\ ~pointer.use_latest /\ Target = pointer.date /\ pointer.date \in Dates
  BY <1>1 DEF StoreInv, PublishedIsWhole, NoLoad, Target, BatchInv, BatchTypeOK, Pointer
<1>7. Dates \subseteq Dirs /\ Latest \in Dirs /\ Latest \notin Dates /\ Missing \notin Loads
  BY BatchAssumption DEF BatchAssumption, Dirs, Loads, Missing
<1>8. CASE StartLoad
  <2>1. PICK d \in Dates :
          /\ \A e \in Dates : Existing(e) => e < d
          /\ loader' = [NoLoad EXCEPT !.phase = "load", !.date = d, !.todo = objects]
    BY <1>8 DEF StartLoad, Begin
  <2>2. loader'.phase = "load" /\ loader'.date = d /\ loader'.todo = objects
    BY <2>1 DEF NoLoad
  <2>3. Existing(pointer.date)
    BY <1>6, <1>7, ExistingLoad
  <2>4. pointer.date # d
    BY <1>6, <1>7, <2>1, <2>3, BatchAssumption DEF BatchAssumption
  <2>5. \A o \in Kinds \ objects : minio[d][o] = Missing
    BY <1>3, <1>7, CompleteObjects DEF Whole
  <2>6. \A o \in Kinds \ objects : Complete(loads')[o] = Missing
    BY CompleteObjects
  <2>7. LoadProgress'
    BY <1>1, <1>4, <2>2, <2>5, <2>6 DEF LoadProgress
  <2>8. PublishedIsWhole'
    BY <1>1, <1>4, <1>6, <2>2, <2>4 DEF PublishedIsWhole, Target, BeingWritten
  <2> QED BY <1>5, <2>7, <2>8 DEF StoreInv
<1>9. CASE StartRework
  <2>1. PICK d \in Dates, b \in Dates :
          /\ Existing(b)
          /\ loader' = [phase |-> "backup", date |-> d, from |-> b, todo |-> objects]
    BY <1>9 DEF StartRework, Begin
  <2>2. loader'.phase = "backup" /\ loader'.from = b /\ loader'.todo = objects
    BY <2>1
  <2>3. \E g \in Loads : minio[b] = Complete(g)
    BY <1>3, <1>7, <2>1, ExistingLoad DEF Whole
  <2>4. \A o \in Kinds \ objects : minio[Latest][o] = Missing /\ minio[b][o] = Missing
    BY <1>3, <1>7, CompleteObjects DEF Whole
  <2>5. LoadProgress'
    BY <1>1, <1>4, <2>2, <2>3, <2>4 DEF LoadProgress
  <2>6. PublishedIsWhole'
    BY <1>1, <1>4, <1>6, <1>7, <2>2 DEF PublishedIsWhole, Target, BeingWritten
  <2> QED BY <1>5, <2>5, <2>6 DEF StoreInv
<1> QED BY <1>8, <1>9

\* Writing one more object.
LEMMA StoreWrites ==
  ASSUME BatchInv, StoreInv, CopyObject \/ PutObject
  PROVE  StoreInv'
<1>1. /\ Dates \subseteq Dirs /\ Latest \in Dirs /\ Latest \notin Dates
      /\ minio \in [Dirs -> [Kinds -> Loads \cup {Missing}]]
      /\ loader \in Load /\ LoadKnows
  BY BatchAssumption DEF BatchInv, BatchTypeOK, BatchAssumption, Dirs
<1>2. /\ UNCHANGED <<objects, pointer, loads, published>>
      /\ \A g : Complete(g)' = Complete(g)
  BY DEF CopyObject, PutObject, Complete
<1>3. PICK o \in loader.todo :
        /\ loader' = [loader EXCEPT !.todo = @ \ {o}]
        /\ \/ /\ loader.phase = "backup"
              /\ minio' = [minio EXCEPT ![Latest][o] = minio[loader.from][o]]
           \/ /\ loader.phase = "load"
              /\ minio' = [minio EXCEPT ![loader.date][o] = loads]
  BY DEF CopyObject, PutObject, Written
<1>4. /\ loader'.phase = loader.phase /\ loader'.date = loader.date
      /\ loader'.from = loader.from /\ loader'.todo = loader.todo \ {o} /\ o \in Kinds
  BY <1>1, <1>3 DEF Load
<1>5. \A d : BeingWritten(d)' <=> BeingWritten(d)
  BY <1>4 DEF BeingWritten
<1>6. \A d \in Dirs : ~BeingWritten(d) => minio'[d] = minio[d]
  BY <1>1, <1>3 DEF BeingWritten
<1>7. DirsAreWhole'
  BY <1>2, <1>5, <1>6 DEF StoreInv, DirsAreWhole, Whole
<1>8. pointer.kind = "dated"
  BY <1>3 DEF StoreInv, PublishedIsWhole, NoLoad
<1>9. PublishedIsWhole'
  <2>1. Target \in Dirs /\ Target' = Target
    BY <1>1, <1>2, <1>8 DEF Target, BatchInv, BatchTypeOK, Pointer
  <2>2. minio[Target] = Complete(published) /\ ~BeingWritten(Target) /\ published \in Loads
        /\ (loader.phase # "load" => ~pointer.use_latest)
    BY <1>8 DEF StoreInv, PublishedIsWhole
  <2> QED BY <1>2, <1>4, <1>5, <1>6, <1>8, <2>1, <2>2 DEF PublishedIsWhole
<1>10. CASE loader.phase = "backup"
  <2> DEFINE b == loader.from
  <2>1. minio' = [minio EXCEPT ![Latest][o] = minio[b][o]]
    BY <1>3, <1>10
  <2>2. b \in Dates
    BY <1>1, <1>10 DEF LoadKnows
  <2>3. /\ \E g \in Loads : minio[b] = Complete(g)
        /\ \A k \in Kinds \ loader.todo : minio[Latest][k] = minio[b][k]
    BY <1>10 DEF StoreInv, LoadProgress
  <2> HIDE DEF b
  <2>4. minio'[b] = minio[b]
    BY <1>1, <2>1, <2>2
  <2>5. \A k \in Kinds : minio'[Latest][k] = IF k = o THEN minio[b][o] ELSE minio[Latest][k]
    BY <1>1, <2>1
  <2>6. \A k \in Kinds \ (loader.todo \ {o}) : minio'[Latest][k] = minio'[b][k]
    BY <2>3, <2>4, <2>5
  <2>7. LoadProgress'
    <3>1. b = loader.from /\ loader'.from = b /\ loader'.phase = "backup"
      BY <1>4, <1>10 DEF b
    <3>2. \E g \in Loads : minio'[b] = Complete(g)'
      BY <1>2, <2>3, <2>4
    <3>3. loader'.todo \subseteq objects'
      BY <1>2, <1>4 DEF StoreInv, LoadProgress
    <3> QED BY <1>4, <2>6, <3>1, <3>2, <3>3 DEF LoadProgress
  <2> QED BY <1>7, <1>9, <2>7 DEF StoreInv
<1>11. CASE loader.phase = "load"
  <2> DEFINE d == loader.date
  <2>1. minio' = [minio EXCEPT ![d][o] = loads]
    BY <1>3, <1>11
  <2>2. d \in Dirs
    BY <1>1, <1>11 DEF LoadKnows
  <2>3. \A k \in Kinds \ loader.todo : minio[d][k] = Complete(loads)[k]
    BY <1>11 DEF StoreInv, LoadProgress
  <2> HIDE DEF d
  <2>4. \A k \in Kinds : minio'[d][k] = IF k = o THEN loads ELSE minio[d][k]
    BY <1>1, <2>1, <2>2
  <2>5. o \in objects
    <3>1. loader.todo \subseteq objects
      BY DEF StoreInv, LoadProgress, NoLoad
    <3> QED BY <3>1
  <2>6. Complete(loads)[o] = loads
    BY <1>4, <2>5, CompleteObjects
  <2>7. \A k \in Kinds \ (loader.todo \ {o}) : minio'[d][k] = Complete(loads)[k]
    BY <2>3, <2>4, <2>6
  <2>8. LoadProgress'
    <3>1. d = loader.date /\ loader'.date = d /\ loader'.phase = "load"
      BY <1>4, <1>11 DEF d
    <3>2. \A k \in Kinds \ loader'.todo : minio'[d][k] = (Complete(loads)[k])'
      BY <1>2, <1>4, <2>7
    <3>3. loader'.todo \subseteq objects'
      BY <1>2, <1>4 DEF StoreInv, LoadProgress
    <3> QED BY <3>1, <3>2, <3>3 DEF LoadProgress
  <2> QED BY <1>7, <1>9, <2>8 DEF StoreInv
<1> QED BY <1>3, <1>10, <1>11

\* Publishing what has been written.
LEMMA StorePublishes ==
  ASSUME BatchInv, StoreInv, PublishBackup \/ Publish
  PROVE  StoreInv'
<1>1. /\ Dates \subseteq Dirs /\ Latest \in Dirs /\ Latest \notin Dates
      /\ minio \in [Dirs -> [Kinds -> Loads \cup {Missing}]]
      /\ loader \in Load /\ LoadKnows /\ loads \in Loads
  BY BatchAssumption DEF BatchInv, BatchTypeOK, BatchAssumption, Dirs
<1>2. /\ UNCHANGED <<objects, minio, loads>>
      /\ \A g : Complete(g)' = Complete(g)
      /\ \A g : Complete(g) \in [Kinds -> {g, Missing}]
      /\ loader.todo = {}
  BY DEF PublishBackup, Publish, Complete
<1>3. CASE PublishBackup
  <2> DEFINE b == loader.from
  <2>1. /\ loader.phase = "backup" /\ pointer' = Dated(b, TRUE)
        /\ published' = minio[Latest]["meta"]
        /\ loader' = [loader EXCEPT !.phase = "load", !.todo = objects]
    BY <1>3 DEF PublishBackup
  <2>2. PICK g \in Loads : minio[b] = Complete(g)
    BY <2>1 DEF StoreInv, LoadProgress
  <2>3. minio[Latest] = Complete(g)
    <3>1. \A o \in Kinds : minio[Latest][o] = minio[b][o]
      BY <1>2, <2>1 DEF StoreInv, LoadProgress
    <3>2. minio[Latest] \in [Kinds -> Loads \cup {Missing}]
      BY <1>1
    <3> QED BY <1>2, <2>2, <3>1, <3>2
  <2>4. published' = g
    BY <2>1, <2>3, LayoutUsed, CompleteObjects DEF Kinds
  <2>5. /\ loader'.phase = "load" /\ loader'.date = loader.date /\ loader'.todo = objects
        /\ loader.date \in Dates
    BY <1>1, <2>1 DEF Load, LoadKnows
  <2>6. \A d \in Dirs : Whole(d)
    BY <1>1, <2>1, <2>3 DEF StoreInv, DirsAreWhole, BeingWritten, Whole
  <2>7. DirsAreWhole'
    BY <1>2, <2>6 DEF DirsAreWhole, Whole
  <2>8. LoadProgress'
    <3>1. \A o \in Kinds \ objects : minio[loader.date][o] = Missing
      BY <1>1, <2>5, <2>6, CompleteObjects DEF Whole
    <3>2. \A o \in Kinds \ objects : Complete(loads)[o] = Missing
      BY CompleteObjects
    <3> QED BY <1>2, <2>5, <3>1, <3>2 DEF LoadProgress
  <2>9. PublishedIsWhole'
    <3>1. pointer'.kind = "dated" /\ pointer'.use_latest
      BY <2>1 DEF Dated
    <3> QED BY <1>1, <1>2, <2>3, <2>4, <2>5, <3>1 DEF PublishedIsWhole, Target, BeingWritten
  <2> QED BY <2>7, <2>8, <2>9 DEF StoreInv
<1>4. CASE Publish
  <2> DEFINE d == loader.date
  <2>1. /\ loader.phase = "load" /\ pointer' = Dated(d, FALSE)
        /\ published' = loads /\ loader' = NoLoad
    BY <1>4 DEF Publish
  <2>2. d \in Dates
    BY <1>1, <2>1 DEF LoadKnows
  <2>3. minio[d] = Complete(loads)
    <3>1. \A o \in Kinds : minio[d][o] = Complete(loads)[o]
      BY <1>2, <2>1 DEF StoreInv, LoadProgress
    <3>2. minio[d] \in [Kinds -> Loads \cup {Missing}]
      BY <1>1, <2>2
    <3> QED BY <1>2, <3>1, <3>2
  <2>4. DirsAreWhole'
    <3>1. \A e \in Dirs : Whole(e)
      BY <1>1, <2>1, <2>3 DEF StoreInv, DirsAreWhole, BeingWritten, Whole
    <3> QED BY <1>2, <3>1 DEF DirsAreWhole, Whole
  <2>5. LoadProgress' /\ \A e : ~BeingWritten(e)'
    BY <2>1 DEF LoadProgress, NoLoad, BeingWritten
  <2>6. pointer'.kind = "dated" /\ ~pointer'.use_latest /\ pointer'.date = d
    BY <2>1 DEF Dated
  <2> HIDE DEF d
  <2>7. PublishedIsWhole'
    BY <1>1, <1>2, <2>1, <2>3, <2>5, <2>6 DEF PublishedIsWhole, Target
  <2> QED BY <2>4, <2>5, <2>7 DEF StoreInv
<1> QED BY <1>3, <1>4

LEMMA StoreNext ==
  ASSUME BatchInv, StoreInv, [BatchNext]_batchVars
  PROVE  StoreInv'
<1>1. CASE Loader
  BY <1>1, StoreBegins, StoreWrites, StorePublishes DEF Loader
<1>2. CASE UNCHANGED <<objects, minio, pointer, loader, loads, published>>
  <2>1. \A g : Complete(g)' = Complete(g)
    BY <1>2 DEF Complete
  <2>2. \A d, g : Store(d, g)' = Store(d, g)
    BY <1>2, <2>1 DEF Store, Empty, Complete
  <2>3. \A d : BeingWritten(d)' <=> BeingWritten(d)
    BY <1>2 DEF BeingWritten
  <2>4. DirsAreWhole'
    BY <1>2, <2>1, <2>3 DEF StoreInv, DirsAreWhole, Whole
  <2>5. LoadProgress'
    BY <1>2, <2>1 DEF StoreInv, LoadProgress
  <2>6. PublishedIsWhole'
    BY <1>2, <2>1, <2>2, <2>3 DEF StoreInv, PublishedIsWhole, Target
  <2> QED BY <2>4, <2>5, <2>6 DEF StoreInv
<1>3. CASE Get \/ Rival \/ UNCHANGED batchVars
  BY <1>2, <1>3 DEF Get, retrieve_cusno, Search, Settle, Answer, Rival, RivalAsks,
                    RivalStores, batchVars, loaderVars
<1> QED BY <1>1, <1>3 DEF BatchNext

-----------------------------------------------------------------------------
(* What a lookup meets that no publication and no failure disturbs.        *)

\* The directory d holds the load published last.
Serves(d) == IF pointer.kind = "dated" THEN d = Target ELSE minio = Store(d, published)

\* The hypotheses of PublishedDataIsServed, at any point of the lookup.
Undisturbed ==
  /\ errors = 0 /\ ~turned /\ ~replaced
  /\ key \in {None, KeyOf(published)}
  /\ get.cusno \in Contents[published]

PublishedDoc == [cusno |-> get.cusno, load |-> published]

\* How the directory to read is chosen.
Choosing == {"pointer", "list", "stat"}

\* Each step of an undisturbed lookup finds the first object that the layout
\* has for it, in the directory that was published, and never turns back.
OnCourse ==
  /\ ~get.fall /\ get.lost = {} /\ get.raw = {}
  /\ get.pc # "scan"
  /\ get.pc \in Choosing => get.dir = Latest
  /\ get.pc = "list" => pointer.kind = "absent"
  /\ get.pc = "stat" => pointer.kind # "dated" /\ minio = Store(Latest, published)
  /\ get.pc \notin Choosing => Serves(get.dir)
  /\ get.pc \in {"full", "full_range"} => "shard" \notin objects
  /\ get.pc = "single" => objects \cap {"shard", "full"} = {}
  /\ get.pc \in Ranges => get.index = published /\ "bulk" \in objects
  /\ get.pc \in Unverified \cup Verified => get.doc = PublishedDoc
  /\ get.pc \in {"match"} \cup Verified => get.cols = Secret[published]

ServedInv ==
  /\ BatchInv /\ StoreInv
  /\ get.pc # "idle" /\ Undisturbed => OnCourse

LEMMA ServesWhole ==
  ASSUME BatchInv, StoreInv, NEW d \in Dirs, Serves(d)
  PROVE  minio[d] = Complete(published)
<1>1. CASE pointer.kind = "dated"
  BY <1>1 DEF Serves, StoreInv, PublishedIsWhole
<1>2. CASE pointer.kind # "dated"
  BY <1>2, StoresAreWhole DEF Serves
<1> QED BY <1>1, <1>2

\* Objects of the directory that is read are of the load published last.
LEMMA PublishedObjects ==
  ASSUME BatchInv, StoreInv, ~get.fall, Serves(get.dir), NEW o \in Kinds
  PROVE  /\ minio[Here][o] = IF o \in objects THEN published ELSE Missing
         /\ published \in Loads /\ published # Missing
<1>1. get.dir \in Dirs /\ Here = get.dir
  BY DEF BatchInv, BatchTypeOK, Lookup, Here
<1>2. published \in Loads /\ published # Missing
  BY BatchAssumption DEF StoreInv, PublishedIsWhole, Loads, Missing, BatchAssumption
<1> QED BY <1>1, <1>2, ServesWhole, CompleteObjects

\* A lookup undisturbed after a step was so before it, and the step has failed
\* in nothing.
LEMMA UndisturbedBefore ==
  ASSUME BatchInv, UNCHANGED <<loaderVars, turned>>, get'.cusno = get.cusno,
         replaced' = FALSE => replaced = FALSE /\ (key # None => key' = key),
         Works \/ Breaks \/ UNCHANGED errors, Undisturbed'
  PROVE  /\ Undisturbed /\ ~Breaks
         /\ key' \in {None, KeyOf(published)}
<1>1. errors \in Nat /\ replaced \in BOOLEAN
  BY DEF BatchInv, BatchTypeOK
<1>2. errors = 0 /\ ~Breaks
  BY <1>1 DEF Undisturbed, Works, Breaks
<1>3. KeyOf(published)' = KeyOf(published)
  BY DEF KeyOf, loaderVars
<1>4. key' \in {None, KeyOf(published)}
  BY <1>3 DEF Undisturbed
<1>5. ~turned /\ ~replaced /\ get.cusno \in Contents[published]
  BY <1>1 DEF Undisturbed, loaderVars
<1>6. key \in {None, KeyOf(published)}
  BY <1>1, <1>4 DEF Undisturbed
<1> QED BY <1>2, <1>4, <1>5, <1>6 DEF Undisturbed

\* With no date in the pointer, the load is where the store says it is.
LEMMA UndatedStore ==
  ASSUME BatchInv, StoreInv, pointer.kind # "dated"
  PROVE  \/ /\ pointer.kind = "absent"
            /\ \E d \in Dates : minio = Store(d, published) /\ Existing(d)
                                /\ \A e \in Dates : Existing(e) => e = d
         \/ /\ minio = Store(Latest, published) /\ "shard" \in objects
            /\ \A e \in Dates : ~Existing(e)
<1>1. /\ Dates \subseteq Dirs /\ Latest \in Dirs /\ Latest \notin Dates
      /\ published \in Loads /\ published # Missing
  BY BatchAssumption DEF BatchAssumption, Dirs, StoreInv, PublishedIsWhole, Loads, Missing
<1>2. ASSUME NEW d \in Dirs, minio = Store(d, published)
      PROVE  Existing(d) /\ \A e \in Dirs \ {d} : ~Existing(e)
  <2>1. minio[d] = Complete(published) /\ \A e \in Dirs \ {d} : minio[e] = Complete(Missing)
    BY <1>2, StoresAreWhole
  <2> QED BY <1>1, <2>1, ExistingLoad
<1>3. \/ pointer.kind = "absent" /\ \E d \in Dates : minio = Store(d, published)
      \/ minio = Store(Latest, published) /\ "shard" \in objects
  BY DEF StoreInv, PublishedIsWhole
<1> QED BY <1>1, <1>2, <1>3

LEMMA ShardsInLatest ==
  ASSUME BatchInv, StoreInv, pointer.kind # "dated", minio = Store(Latest, published)
  PROVE  "shard" \in objects
<1>1. Latest \in Dirs /\ Dates \subseteq Dirs /\ Latest \notin Dates
  BY StoreTypes
<1>2. Existing(Latest)
  BY <1>1, StoresAreWhole, ExistingLoad, StoreTypes DEF StoreInv, PublishedIsWhole
<1>3. ASSUME NEW d \in Dates PROVE minio # Store(d, published)
  <2>1. Store(d, published)[Latest] = Complete(Missing)
    BY <1>1, StoresAreWhole
  <2> QED BY <1>1, <1>2, <2>1, ExistingLoad
<1> QED BY <1>3, UndatedStore

LEMMA ChoosingServes ==
  ASSUME ServedInv, GetPointer \/ ListDates \/ StatLatest,
         UNCHANGED loaderVars, Undisturbed, ~Breaks
  PROVE  OnCourse'
<1> DEFINE Chosen(d) == get' = [get EXCEPT !.pc = "shard", !.dir = d]
<1>1. BatchInv /\ StoreInv /\ get \in Lookup
  BY DEF ServedInv, BatchInv, BatchTypeOK
<1>2. OnCourse /\ get.pc \in Choosing
  BY DEF ServedInv, GetPointer, ListDates, StatLatest, Choosing
<1>3. UNCHANGED <<minio, pointer, published, objects>>
  BY DEF loaderVars
<1>4. \A d, g : Store(d, g)' = Store(d, g)
  BY <1>3 DEF Store, Empty, Complete
<1>5. ~get.fall /\ get.lost = {} /\ get.raw = {} /\ get.dir = Latest
  BY <1>2 DEF OnCourse
<1>6. ASSUME NEW d \in Dirs, Serves(d), get'.pc = "shard", get'.dir = d,
             get'.fall = get.fall, get'.lost = get.lost, get'.raw = get.raw
      PROVE  OnCourse'
  <2>1. Serves(get.dir)'
    BY <1>3, <1>4, <1>6 DEF Serves, Target
  <2> QED BY <1>5, <1>6, <2>1 DEF OnCourse, Choosing, Ranges, Unverified, Verified
<1>7. ASSUME NEW d \in Dirs, Serves(d), Chosen(d)
      PROVE  OnCourse'
  <2>1. /\ get'.pc = "shard" /\ get'.dir = d
        /\ get'.fall = get.fall /\ get'.lost = get.lost /\ get'.raw = get.raw
    BY <1>1, <1>7 DEF Lookup
  <2> QED BY <1>6, <1>7, <2>1
<1>8. ASSUME NEW l \in {"list", "stat", "shard"}, GoTo(l)
      PROVE  /\ get'.pc = l /\ get'.dir = Latest /\ get'.fall = get.fall
             /\ get'.lost = get.lost /\ get'.raw = get.raw
  BY <1>1, <1>5, <1>8 DEF Lookup, GoTo
<1>9. ASSUME GoTo("list"), pointer.kind = "absent"
      PROVE  OnCourse'
  BY <1>3, <1>5, <1>8, <1>9 DEF OnCourse, Choosing, Ranges, Unverified, Verified
<1>10. ASSUME GoTo("stat"), pointer.kind # "dated", minio = Store(Latest, published)
       PROVE  OnCourse'
  <2>1. (pointer.kind # "dated" /\ minio = Store(Latest, published))'
    BY <1>3, <1>4, <1>10
  <2>2. /\ get'.pc = "stat" /\ get'.dir = Latest /\ get'.fall = get.fall
        /\ get'.lost = get.lost /\ get'.raw = get.raw
    BY <1>8, <1>10
  <2> QED BY <1>5, <2>1, <2>2 DEF OnCourse, Choosing, Ranges, Unverified, Verified
<1> HIDE DEF Chosen
<1>11. Dates \subseteq Dirs /\ Latest \in Dirs
  BY DEF Dirs
<1>12. CASE GetPointer
  <2>1. CASE pointer.kind = "dated"
    <3>1. Target \in Dirs
      BY <1>1, <1>11, <2>1 DEF Target, BatchInv, BatchTypeOK, Pointer
    <3>2. Chosen(Target)
      BY <1>12, <2>1 DEF GetPointer, Chosen, Target
    <3> QED BY <1>7, <2>1, <3>1, <3>2 DEF Serves
  <2>2. CASE pointer.kind = "absent"
    BY <1>9, <1>12, <2>2 DEF GetPointer
  <2>3. CASE pointer.kind = "malformed"
    <3>1. minio = Store(Latest, published)
      BY <1>1, <2>3, UndatedStore
    <3> QED BY <1>10, <1>12, <2>3, <3>1 DEF GetPointer
  <2> QED BY <1>1, <2>1, <2>2, <2>3 DEF BatchInv, BatchTypeOK, Pointer
<1>13. CASE ListDates
  <2>1. pointer.kind = "absent" /\ pointer.kind # "dated"
    BY <1>2, <1>13 DEF OnCourse, ListDates
  <2>2. CASE \E d \in Dates : Existing(d) /\ Chosen(d)
    <3>1. PICK d \in Dates : Existing(d) /\ Chosen(d)
      BY <2>2
    <3>2. minio = Store(d, published)
      BY <1>1, <2>1, <3>1, UndatedStore
    <3> QED BY <1>7, <1>11, <2>1, <3>1, <3>2 DEF Serves
  <2>3. CASE (\A d \in Dates : ~Existing(d)) /\ GoTo("stat")
    <3>1. minio = Store(Latest, published)
      BY <1>1, <2>1, <2>3, UndatedStore
    <3> QED BY <1>10, <2>1, <2>3, <3>1
  <2> QED BY <1>13, <2>2, <2>3 DEF ListDates, Chosen
<1>14. CASE StatLatest
  <2>1. pointer.kind # "dated" /\ minio = Store(Latest, published)
    BY <1>2, <1>14 DEF OnCourse, StatLatest
  <2>2. "shard" \in objects /\ "shard" \in Kinds /\ published # Missing
    BY <1>1, <2>1, ShardsInLatest, StoreTypes DEF StoreInv, PublishedIsWhole, Kinds
  <2>3. minio[Latest]["shard"] # Missing
    BY <1>11, <2>1, <2>2, StoresAreWhole, CompleteObjects
  <2>4. GoTo("shard")
    BY <1>14, <2>3 DEF StatLatest
  <2>5. Serves(Latest)
    BY <2>1 DEF Serves
  <2> QED BY <1>6, <1>8, <1>11, <2>4, <2>5
<1> QED BY <1>12, <1>13, <1>14

\* The steps that read an index, a range, an object of a customer or the list
\* of encrypted columns.
LEMMA ReadingServes ==
  ASSUME ServedInv,
         \/ \E k \in {"shard", "full"} : GetIndex(k) \/ GetRange(k)
         \/ GetSingle \/ GetMeta,
         UNCHANGED loaderVars, Undisturbed, ~Breaks
  PROVE  OnCourse'
<1> DEFINE Same == /\ get'.cusno = get.cusno /\ get'.dir = get.dir
                   /\ get'.fall = get.fall /\ get'.lost = get.lost
                   /\ get'.raw = get.raw
<1>1. BatchInv /\ StoreInv /\ get \in Lookup
  BY DEF ServedInv, BatchInv, BatchTypeOK
<1>2. OnCourse /\ get.pc \notin Choosing
  BY DEF ServedInv, GetIndex, GetRange, RangeOf, GetSingle, GetMeta, Choosing
<1>3. UNCHANGED <<minio, pointer, published, objects>>
  BY DEF loaderVars
<1>4. \A d, g : Store(d, g)' = Store(d, g)
  BY <1>3 DEF Store, Empty, Complete
<1>5. /\ ~get.fall /\ get.lost = {} /\ get.raw = {} /\ Serves(get.dir)
      /\ get.cusno \in Contents[published]
  BY <1>2 DEF OnCourse, Undisturbed
<1>6. ASSUME Same
      PROVE  /\ ~get'.fall /\ get'.lost = {} /\ get'.raw = {}
             /\ Serves(get.dir)' /\ get'.dir = get.dir
             /\ PublishedDoc' = PublishedDoc
  BY <1>3, <1>4, <1>5, <1>6 DEF Serves, Target, PublishedDoc
<1>7. /\ published \in Loads /\ published # Missing
      /\ \A o \in Kinds : minio[Here][o] = IF o \in objects THEN published ELSE Missing
  BY <1>1, <1>5, PublishedObjects DEF Kinds
<1>8. /\ "meta" \in objects
      /\ objects \cap {"shard", "full"} # {} => "bulk" \in objects
      /\ objects \cap {"shard", "full", "single"} # {}
  BY <1>1, LayoutUsed
<1>9. \A o \in Kinds : get.cusno \in Holds(minio[Here][o]) <=> o \in objects
  BY <1>5, <1>7 DEF Holds
<1>10. ASSUME NEW k \in {"shard", "full"}, GetIndex(k)
       PROVE  OnCourse'
  <2>1. k \in Kinds
    BY DEF Kinds
  <2>2. get.pc = k /\ (get.pc = "full" => "shard" \notin objects)
    BY <1>2, <1>10 DEF GetIndex, OnCourse
  <2>3. CASE k \in objects
    <3>1. get' = [get EXCEPT !.pc = RangeOf(k), !.index = published]
      BY <1>7, <1>9, <1>10, <2>1, <2>3 DEF GetIndex
    <3>2. Same /\ get'.pc = RangeOf(k) /\ get'.index = published
      BY <1>1, <3>1 DEF Lookup
    <3>3. "bulk" \in objects
      BY <1>8, <2>3
    <3> QED BY <1>3, <1>6, <2>2, <3>2, <3>3
            DEF RangeOf, OnCourse, Choosing, Ranges, Unverified, Verified
  <2>4. CASE k \notin objects
    <3>1. GoTo(AfterIndex(k))
      BY <1>9, <1>10, <2>1, <2>4 DEF GetIndex
    <3>2. Same /\ get'.pc = AfterIndex(k)
      BY <1>1, <3>1 DEF Lookup, GoTo
    <3> QED BY <1>3, <1>6, <2>2, <2>4, <3>2
            DEF AfterIndex, OnCourse, Choosing, Ranges, Unverified, Verified
  <2> QED BY <2>3, <2>4
<1>11. ASSUME NEW k \in {"shard", "full"}, GetRange(k)
       PROVE  OnCourse'
  <2>1. get.pc \in Ranges
    BY <1>11 DEF GetRange, RangeOf, Ranges
  <2>2. get.index = published /\ "bulk" \in objects
    BY <1>2, <2>1 DEF OnCourse
  <2>3. minio[Here]["bulk"] = published
    BY <1>7, <2>2 DEF Kinds
  <2>4. get' = [get EXCEPT !.pc = "meta", !.index = Missing, !.doc = PublishedDoc]
    BY <1>11, <2>2, <2>3 DEF GetRange, LinesAt, PublishedDoc
  <2>5. Same /\ get'.pc = "meta" /\ get'.doc = PublishedDoc
    BY <1>1, <2>4 DEF Lookup
  <2> QED BY <1>6, <2>5 DEF OnCourse, Choosing, Ranges, Unverified, Verified
<1>12. CASE GetSingle
  <2>1. "single" \in objects /\ "single" \in Kinds
    BY <1>2, <1>8, <1>12 DEF OnCourse, GetSingle, Kinds
  <2>2. get' = [get EXCEPT !.pc = "meta", !.doc = PublishedDoc]
    BY <1>7, <1>9, <1>12, <2>1 DEF GetSingle, PublishedDoc
  <2>3. Same /\ get'.pc = "meta" /\ get'.doc = PublishedDoc
    BY <1>1, <2>2 DEF Lookup
  <2> QED BY <1>6, <2>3 DEF OnCourse, Choosing, Ranges, Unverified, Verified
<1>13. CASE GetMeta
  <2>1. get.doc = PublishedDoc
    BY <1>2, <1>13 DEF OnCourse, GetMeta, Unverified
  <2>2. Ciphers(minio[Here]["meta"]) = Secret[published]
    BY <1>7, <1>8 DEF Ciphers, Kinds
  <2>3. get' = [get EXCEPT !.pc = "match", !.cols = Secret[published]]
    BY <1>13, <2>2 DEF GetMeta
  <2>4. /\ Same /\ get'.pc = "match" /\ get'.doc = PublishedDoc
        /\ get'.cols = Secret[published]
    BY <1>1, <2>1, <2>3 DEF Lookup
  <2> QED BY <1>3, <1>6, <2>4 DEF OnCourse, Choosing, Ranges, Unverified, Verified
<1> QED BY <1>10, <1>11, <1>12, <1>13

\* When no call fails and no key but that of load g is about, columns are read
\* with it.
LEMMA FittingKey ==
  ASSUME NEW cols, NEW failed \in SUBSET cols, Key(cols, failed), ~Breaks,
         NEW g, key' \in {None, KeyOf(g)}
  PROVE  failed = {} /\ (cols # {} => key' = KeyOf(g))
<1>1. failed = {}
  BY DEF Key
<1>2. cols # {} => key' # None
  BY <1>1, BatchAssumption, KeysExist DEF Key
<1> QED BY <1>1, <1>2

\* The comparison and the decryption.
LEMMA SettlingServes ==
  ASSUME ServedInv, Settle, Undisturbed, ~Breaks, key' \in {None, KeyOf(published)}
  PROVE  OnCourse'
<1> DEFINE Same == /\ get'.cusno = get.cusno /\ get'.dir = get.dir
                   /\ get'.fall = get.fall
                   /\ get'.doc = get.doc /\ get'.cols = get.cols
<1>1. BatchInv /\ StoreInv /\ get \in Lookup
  BY DEF ServedInv, BatchInv, BatchTypeOK
<1>2. OnCourse /\ get.pc \in {"match", "decrypt"}
  BY DEF ServedInv, Settle, Match, Scan, Decrypt, OnCourse
<1>3. UNCHANGED <<minio, pointer, published, objects, rotation>>
  BY DEF loaderVars, Settle
<1>4. \A d, g : Store(d, g)' = Store(d, g)
  BY <1>3 DEF Store, Empty, Complete
<1>5. /\ ~get.fall /\ get.lost = {} /\ get.raw = {} /\ Serves(get.dir)
      /\ get.doc = PublishedDoc /\ get.cols = Secret[published]
  BY <1>2 DEF OnCourse, Choosing, Unverified, Verified
<1>6. published \in Loads /\ published # Missing
  BY <1>1, BatchAssumption DEF StoreInv, PublishedIsWhole, Loads, Missing, BatchAssumption
<1>7. /\ PublishedDoc.cusno = get.cusno /\ PublishedDoc.load = published
      /\ Ciphers(published) = Secret[published]
      /\ Encrypted(get.doc) = Secret[published]
  BY <1>5, <1>6 DEF PublishedDoc, Ciphers, Encrypted
<1>8. ASSUME Same, get'.pc \in Verified, get'.lost = {}, get'.raw = {}
      PROVE  OnCourse'
  <2>1. Serves(get.dir)' /\ PublishedDoc' = PublishedDoc /\ get'.dir = get.dir
    BY <1>3, <1>4, <1>5, <1>8 DEF Serves, Target, PublishedDoc
  <2> QED BY <1>3, <1>5, <1>8, <2>1 DEF OnCourse, Choosing, Ranges, Unverified, Verified
<1>9. ASSUME NEW l \in Verified, GoTo(l)
      PROVE  OnCourse'
  <2>1. Same /\ get'.pc = l /\ get'.lost = {} /\ get'.raw = {}
    BY <1>1, <1>5, <1>9 DEF Lookup, GoTo, Verified
  <2> QED BY <1>8, <2>1
<1>10. CASE Match
  <2> DEFINE cols == Encrypted(get.doc) \cap {"CUSNO"}
  <2>1. PICK failed \in SUBSET cols :
          /\ Key(cols, failed)
          /\ match_cusno(get.doc, failed) => GoTo("decrypt")
    BY <1>10 DEF Match
  <2>2. failed = {} /\ (cols # {} => key' = KeyOf(published))
    BY <2>1, FittingKey
  <2>3. match_cusno(get.doc, failed)
    BY <1>5, <1>7, <2>2 DEF match_cusno, Fits
  <2> QED BY <1>9, <2>1, <2>3 DEF Verified
<1>11. CASE Decrypt
  <2>1. CASE GoTo("done")
    BY <1>9, <2>1 DEF Verified
  <2>2. ASSUME NEW col \in Encrypted(get.doc), NEW failed \in SUBSET {col},
               DecryptField(col, failed)
        PROVE  OnCourse'
    <3>1. failed = {} /\ key' = KeyOf(published)
      BY <2>2, FittingKey DEF DecryptField
    <3>2. Fits(get.doc)
      BY <1>5, <1>7, <3>1 DEF Fits
    <3> DEFINE p == get.past \cup {col}
    <3>3. get' = [get EXCEPT !.past = p, !.lost = get.lost, !.raw = get.raw]
      BY <2>2, <3>1, <3>2 DEF DecryptField
    <3> HIDE DEF p
    <3>4. Same /\ get'.pc = get.pc /\ get'.lost = {} /\ get'.raw = {}
      BY <1>1, <1>5, <3>3 DEF Lookup
    <3> QED BY <1>8, <1>11, <3>4 DEF Decrypt, Verified
  <2> QED BY <1>11, <2>1, <2>2 DEF Decrypt
<1> QED BY <1>2, <1>10, <1>11 DEF Settle, Scan

\* The steps of the lookup keep whose it is; each is one that works or breaks.
LEMMA LookupGoesOn ==
  ASSUME BatchInv, Search \/ Settle
  PROVE  get'.cusno = get.cusno /\ get.pc # "idle" /\ (Works \/ Breaks)
<1>1. get \in Lookup
  BY DEF BatchInv, BatchTypeOK
<1>2. CASE GetPointer \/ ListDates \/ StatLatest
  BY <1>1, <1>2 DEF GetPointer, ListDates, StatLatest, GoTo, Lookup
<1>3. ASSUME NEW k \in {"shard", "full"}, GetIndex(k) \/ GetRange(k)
      PROVE  get'.cusno = get.cusno /\ get.pc # "idle" /\ (Works \/ Breaks)
  BY <1>1, <1>3 DEF GetIndex, GetRange, GoTo, Lookup, RangeOf
<1>4. CASE GetSingle \/ GetMeta
  BY <1>1, <1>4 DEF GetSingle, GetMeta, GoTo, Lookup
<1>5. CASE Match \/ Scan
  BY <1>1, <1>5 DEF Match, Scan, Key, GoTo, Lookup
<1>6. CASE Decrypt
  <2>1. CASE GoTo("done") /\ Works
    BY <1>1, <1>6, <2>1 DEF Decrypt, GoTo, Lookup
  <2>2. ASSUME NEW col, NEW failed, DecryptField(col, failed)
        PROVE  get'.cusno = get.cusno /\ (Works \/ Breaks)
    BY <1>1, <2>2 DEF DecryptField, Key, Lookup
  <2> QED BY <1>6, <2>1, <2>2 DEF Decrypt
<1> QED BY <1>2, <1>3, <1>4, <1>5, <1>6 DEF Search, Settle

\* The loader writes where no undisturbed lookup reads: it publishes, which
\* disturbs it, or there is a date in the pointer, and the pointer stays.
LEMMA LoaderServes ==
  ASSUME ServedInv, Loader, Undisturbed', get.pc # "idle"
  PROVE  OnCourse'
<1>1. UNCHANGED <<get, key, rotation, replaced, errors, objects>>
  BY DEF Loader, StartLoad, StartRework, Begin, CopyObject, PublishBackup,
         PutObject, Publish, podVars
<1>2. UNCHANGED <<pointer, published, turned>>
  BY DEF Undisturbed, Loader, StartLoad, StartRework, Begin, CopyObject,
         PublishBackup, PutObject, Publish
<1>3. Undisturbed
  BY <1>1, <1>2 DEF Undisturbed, KeyOf
<1>4. OnCourse
  BY <1>3 DEF ServedInv
<1>5. minio' = minio \/ pointer.kind = "dated"
  <2>1. pointer.kind # "dated" => loader.phase = "idle" /\ loader.todo = {}
    BY DEF ServedInv, StoreInv, PublishedIsWhole, NoLoad
  <2>2. CASE pointer.kind # "dated"
    BY <2>1, <2>2 DEF Loader, StartLoad, StartRework, Begin, CopyObject,
                      PublishBackup, PutObject, Publish
  <2> QED BY <2>2
<1>6. \A d, g : Store(d, g)' = Store(d, g)
  BY <1>1 DEF Store, Empty, Complete
<1>7. Serves(get.dir) => Serves(get.dir)'
  BY <1>1, <1>2, <1>5, <1>6 DEF Serves, Target
<1>8. pointer.kind # "dated" /\ minio = Store(Latest, published)
      => (pointer.kind # "dated" /\ minio = Store(Latest, published))'
  BY <1>2, <1>5, <1>6
<1>9. PublishedDoc' = PublishedDoc
  BY <1>1, <1>2 DEF PublishedDoc
<1> QED BY <1>1, <1>2, <1>4, <1>7, <1>8, <1>9 DEF OnCourse

LEMMA ServedNext ==
  ASSUME ServedInv, [BatchNext]_batchVars
  PROVE  ServedInv'
<1>1. BatchInv' /\ StoreInv'
  BY BatchAssumption, NextKeeps, StoreNext DEF ServedInv
<1>2. SUFFICES ASSUME get'.pc # "idle", Undisturbed'
               PROVE  OnCourse'
  BY <1>1 DEF ServedInv
<1>3. BatchInv /\ StoreInv
  BY DEF ServedInv
<1>4. CASE Loader
  <2>1. get' = get
    BY <1>4 DEF Loader, StartLoad, StartRework, Begin, CopyObject, PublishBackup,
                PutObject, Publish
  <2> QED BY <1>2, <1>4, <2>1, LoaderServes
<1>5. CASE Search \/ Settle
  <2>1. get'.cusno = get.cusno /\ get.pc # "idle" /\ (Works \/ Breaks)
    BY <1>3, <1>5, LookupGoesOn
  <2>2. /\ UNCHANGED <<loaderVars, turned, replaced>>
        /\ key # None => key' = key
    <3>1. CASE Search
      BY <3>1 DEF Search, podVars
    <3>2. CASE Settle
      BY <3>2, HeldKeyStays DEF Settle, Match, Scan, Decrypt, DecryptField
    <3> QED BY <1>5, <3>1, <3>2
  <2>3. Undisturbed /\ ~Breaks /\ key' \in {None, KeyOf(published)}
    BY <1>2, <1>3, <2>1, <2>2, UndisturbedBefore
  <2>4. CASE Search
    BY <2>2, <2>3, <2>4, ChoosingServes, ReadingServes DEF Search
  <2>5. CASE Settle
    BY <2>3, <2>5, SettlingServes
  <2> QED BY <1>5, <2>4, <2>5
<1>6. CASE Rival
  <2>1. UNCHANGED <<loaderVars, turned, errors, get>>
    BY <1>6 DEF Rival, RivalAsks, RivalStores
  <2>2. replaced' = FALSE => replaced = FALSE /\ (key # None => key' = key)
    <3>1. get # NoLookup
      BY <1>2, <2>1 DEF NoLookup
    <3>2. CASE RivalAsks
      BY <3>2 DEF RivalAsks
    <3>3. CASE RivalStores
      BY <1>3, <3>1, <3>3 DEF RivalStores, BatchInv, BatchTypeOK
    <3> QED BY <1>6, <3>2, <3>3 DEF Rival
  <2>3. Undisturbed
    BY <1>2, <1>3, <2>1, <2>2, UndisturbedBefore
  <2>4. OnCourse
    BY <1>2, <2>1, <2>3 DEF ServedInv
  <2>5. /\ UNCHANGED <<get, minio, pointer, published, objects>>
        /\ \A d, g : Store(d, g)' = Store(d, g)
    BY <2>1 DEF loaderVars, Store, Empty, Complete
  <2>6. (Serves(get.dir)' <=> Serves(get.dir)) /\ PublishedDoc' = PublishedDoc
    BY <2>5 DEF Serves, Target, PublishedDoc
  <2> QED BY <2>4, <2>5, <2>6 DEF OnCourse
<1>7. ASSUME NEW c \in Cusnos, retrieve_cusno(c)
      PROVE  OnCourse'
  <2>1. /\ get'.pc = "pointer" /\ get'.dir = Latest /\ ~get'.fall
        /\ get'.lost = {} /\ get'.raw = {}
    BY <1>7 DEF retrieve_cusno, NoLookup
  <2> QED BY <2>1 DEF OnCourse, Choosing, Ranges, Unverified, Verified
<1>8. CASE Answer
  BY <1>2, <1>8 DEF Answer, NoLookup
<1>9. CASE UNCHANGED batchVars
  <2>1. Undisturbed /\ OnCourse
    BY <1>2, <1>9 DEF batchVars, podVars, ServedInv, Undisturbed, KeyOf
  <2>2. /\ UNCHANGED <<get, minio, pointer, published, objects>>
        /\ \A d, g : Store(d, g)' = Store(d, g)
    BY <1>9 DEF batchVars, Store, Empty, Complete
  <2>3. (Serves(get.dir)' <=> Serves(get.dir)) /\ PublishedDoc' = PublishedDoc
    BY <2>2 DEF Serves, Target, PublishedDoc
  <2> QED BY <2>1, <2>2, <2>3 DEF OnCourse
<1> QED BY <1>4, <1>5, <1>6, <1>7, <1>8, <1>9 DEF BatchNext, Get

\* A lookup during which nothing is published, no call fails and no other key
\* comes up answers with the data published last, complete and in plaintext:
\* however many loads went before, for any layout that can be read, with a
\* pointer or without, and while a load or a rework writes elsewhere.
THEOREM PublishedIsServed == BatchSpec => []PublishedDataIsServed
<1>1. BatchInit => ServedInv
  <2>1. BatchInit => get.pc = "idle"
    BY DEF BatchInit, NoLookup
  <2> QED BY <2>1, BatchAssumption, Initially, StoreInitially DEF ServedInv
<1>2. ServedInv /\ [BatchNext]_batchVars => ServedInv'
  BY ServedNext
<1>3. ServedInv => PublishedDataIsServed
  BY DEF ServedInv, Undisturbed, OnCourse, PublishedDoc, Verified,
         PublishedDataIsServed
<1> QED BY <1>1, <1>2, <1>3, PTL DEF BatchSpec

-----------------------------------------------------------------------------
(* What loads and reworks leave behind.                                    *)

Stocked(d) == \A o \in Kinds : minio[d][o] # Missing <=> o \in objects

Reworking == loader.phase = "backup" \/ (loader.phase = "load" /\ pointer.use_latest)

\* A rework replaces a whole load, and never the first: the first load is in the
\* oldest directory, and to rework a date there must be an older one.
StockInv ==
  /\ \A d \in Dirs, o \in Kinds : minio[d][o] <= loads
  /\ \A d \in Dates, o \in Kinds :
       minio[d][o] = 1 => \A b \in Dates : Existing(b) => d <= b
  /\ loader.phase # "idle" =>
       loads >= 2 /\ \A e \in Dates : Existing(e) => e <= loader.date
  /\ Reworking => Stocked(loader.date) /\ \A o \in Kinds : minio[loader.date][o] # 1

StoredInv == BatchInv /\ StoreInv /\ StockInv

LEMMA StockInitially ==
  ASSUME BatchInit
  PROVE  StockInv
<1>1. BatchInv
  BY BatchAssumption, Initially
<1>2. loader.phase = "idle" /\ loads = 1
  BY DEF BatchInit, NoLoad
<1>3. PICK d \in Dirs : minio = Store(d, 1)
  BY <1>1, StoreTypes DEF BatchInit
<1>4. minio[d] = Complete(1) /\ \A e \in Dirs \ {d} : minio[e] = Complete(Missing)
  BY <1>3, StoresAreWhole
<1>5. \A e \in Dirs, o \in Kinds : minio[e][o] <= loads
  BY <1>2, <1>4, CompleteObjects DEF Missing
<1>6. \A e \in Dirs \ {d}, o \in Kinds : minio[e][o] = Missing
  BY <1>4, CompleteObjects DEF Missing
<1>7. \A e \in Dirs \ {d} : ~Existing(e)
  BY <1>6 DEF Existing
<1>8. \A f \in Dates, o \in Kinds :
        minio[f][o] = 1 => \A b \in Dates : Existing(b) => f <= b
  BY <1>1, <1>6, <1>7, StoreTypes
<1> QED BY <1>2, <1>5, <1>8 DEF StockInv, Reworking

LEMMA StockBegins ==
  ASSUME StoredInv, StartLoad \/ StartRework
  PROVE  StockInv'
<1>1. /\ loader = NoLoad /\ pointer.kind = "dated" /\ loads' = loads + 1
      /\ UNCHANGED <<objects, minio, pointer>>
  BY DEF StartLoad, StartRework, Begin
<1>2. BatchInv /\ StoreInv /\ StockInv /\ loads \in Nat /\ loads >= 1
  BY StoreTypes DEF StoredInv, Loads
<1>3. /\ \A d \in Dirs, o \in Kinds : minio'[d][o] <= loads'
      /\ loads' >= 2
  <2>1. \A d \in Dirs, o \in Kinds : minio[d][o] \in Nat /\ minio[d][o] <= loads
    BY <1>2, StoreTypes DEF StockInv
  <2> QED BY <1>1, <1>2, <2>1
<1>4. /\ \A e \in Dates : Existing(e)' <=> Existing(e)
      /\ \A d : Stocked(d)' <=> Stocked(d)
  BY <1>1 DEF Existing, Stocked
<1>5. \A d \in Dates, o \in Kinds :
        minio'[d][o] = 1 => \A b \in Dates : Existing(b)' => d <= b
  BY <1>1, <1>2, <1>4 DEF StockInv
<1>6. CASE StartLoad
  <2>1. PICK d \in Dates :
          /\ \A e \in Dates : Existing(e) => e < d
          /\ loader' = [NoLoad EXCEPT !.phase = "load", !.date = d, !.todo = objects]
    BY <1>6 DEF StartLoad, Begin
  <2>2. loader'.phase = "load" /\ loader'.date = d
    BY <2>1 DEF NoLoad
  <2>3. ~pointer'.use_latest
    BY <1>1, <1>2 DEF StoreInv, PublishedIsWhole, NoLoad
  <2>4. \A e \in Dates : Existing(e)' => e <= d
    BY <1>2, <1>4, <2>1, StoreTypes
  <2> QED BY <1>3, <1>5, <2>2, <2>3, <2>4 DEF StockInv, Reworking
<1>7. CASE StartRework
  <2>1. PICK d \in Dates, b \in Dates :
          /\ Existing(d) /\ Existing(b) /\ b < d
          /\ \A e \in Dates : Existing(e) => e <= d
          /\ loader' = [phase |-> "backup", date |-> d, from |-> b, todo |-> objects]
    BY <1>7 DEF StartRework, Begin
  <2>2. loader'.phase = "backup" /\ loader'.date = d
    BY <2>1
  <2>3. \A o \in Kinds : minio[d][o] # 1
    <3>1. d \in Nat /\ b \in Nat
      BY <1>2, StoreTypes
    <3> QED BY <1>2, <2>1, <3>1 DEF StockInv
  <2>4. Stocked(d)
    <3>1. Whole(d) /\ d \in Dirs
      BY <1>1, <1>2, StoreTypes DEF StoreInv, DirsAreWhole, BeingWritten, NoLoad
    <3>2. PICK g \in Loads : minio[d] = Complete(g)
      BY <1>2, <2>1, <3>1, ExistingLoad DEF Whole
    <3> QED BY <1>2, <3>2, CompleteObjects, StoreTypes DEF Stocked
  <2> QED BY <1>1, <1>3, <1>4, <1>5, <2>1, <2>2, <2>3, <2>4 DEF StockInv
<1> QED BY <1>6, <1>7

LEMMA StockWrites ==
  ASSUME StoredInv, CopyObject \/ PutObject
  PROVE  StockInv'
<1>1. BatchInv /\ StoreInv /\ StockInv
  BY DEF StoredInv
<1>2. UNCHANGED <<objects, pointer, loads>>
  BY DEF CopyObject, PutObject
<1>3. PICK o \in loader.todo :
        /\ loader' = [loader EXCEPT !.todo = @ \ {o}]
        /\ \/ /\ loader.phase = "backup"
              /\ minio' = [minio EXCEPT ![Latest][o] = minio[loader.from][o]]
           \/ /\ loader.phase = "load"
              /\ minio' = [minio EXCEPT ![loader.date][o] = loads]
  BY DEF CopyObject, PutObject, Written
<1>4. /\ loader'.phase = loader.phase /\ loader'.date = loader.date
      /\ o \in Kinds /\ o \in objects
      /\ loader.phase # "idle" /\ loader.date \in Dates
    <2>1. o \in objects
      BY <1>1, <1>3 DEF StoreInv, LoadProgress
    <2> QED BY <1>1, <1>3, <2>1, StoreTypes DEF Load, LoadKnows
<1>5. Reworking' <=> Reworking
  BY <1>2, <1>4 DEF Reworking
<1>6. \A d \in Dirs, k \in Kinds : minio[d][k] \in Nat /\ minio[d][k] <= loads
  BY <1>1, StoreTypes DEF StockInv
<1>7. loads >= 2 /\ loads \in Nat /\ \A e \in Dates : Existing(e) => e <= loader.date
  BY <1>1, <1>4, StoreTypes DEF StockInv
<1>8. CASE loader.phase = "backup"
  <2> DEFINE b == loader.from
  <2>1. minio' = [minio EXCEPT ![Latest][o] = minio[b][o]] /\ b \in Dates
    BY <1>1, <1>3, <1>8, StoreTypes DEF LoadKnows
  <2>2. \A d \in Dates : minio'[d] = minio[d]
    BY <1>1, <2>1, StoreTypes
  <2>3. \A e \in Dates : Existing(e)' <=> Existing(e)
    BY <2>2 DEF Existing
  <2>4. \A d \in Dirs, k \in Kinds : minio'[d][k] <= loads
    <3> HIDE DEF b
    <3>1. \A d \in Dirs, k \in Kinds :
            minio'[d][k] = IF d = Latest /\ k = o THEN minio[b][o] ELSE minio[d][k]
      BY <1>1, <2>1, StoreTypes
    <3> QED BY <1>1, <1>4, <1>6, <2>1, <3>1, StoreTypes
  <2>5. \A d \in Dates, k \in Kinds :
          minio'[d][k] = 1 => \A c \in Dates : Existing(c)' => d <= c
    BY <1>1, <2>2, <2>3 DEF StockInv
  <2>6. ASSUME Reworking'
        PROVE  Stocked(loader.date)' /\ \A k \in Kinds : minio'[loader'.date][k] # 1
    <3>1. Stocked(loader.date) /\ \A k \in Kinds : minio[loader.date][k] # 1
      BY <1>1, <1>5, <2>6 DEF StockInv
    <3>2. minio'[loader'.date] = minio[loader.date]
      BY <1>4, <2>2
    <3> QED BY <1>2, <3>1, <3>2 DEF Stocked
  <2> QED BY <1>2, <1>4, <1>7, <2>3, <2>4, <2>5, <2>6 DEF StockInv
<1>9. CASE loader.phase = "load"
  <2> DEFINE t == loader.date
  <2>1. minio' = [minio EXCEPT ![t][o] = loads] /\ t \in Dates /\ t \in Dirs
    BY <1>1, <1>3, <1>4, <1>9, StoreTypes
  <2> HIDE DEF t
  <2>2. \A d \in Dirs, k \in Kinds :
          minio'[d][k] = IF d = t /\ k = o THEN loads ELSE minio[d][k]
    BY <1>1, <2>1, StoreTypes
  <2>3. \A e \in Dates : Existing(e)' => Existing(e) \/ e = t
    BY <1>1, <2>2, StoreTypes DEF Existing
  <2>4. \A d \in Dirs, k \in Kinds : minio'[d][k] <= loads
    BY <1>6, <1>7, <2>2
  <2>5. ASSUME NEW d \in Dates, NEW k \in Kinds, minio'[d][k] = 1,
               NEW c \in Dates, Existing(c)'
        PROVE  d <= c
    <3>1. minio[d][k] = 1 /\ d \in Dirs /\ d \in Nat /\ c \in Nat
      BY <1>1, <1>7, <2>2, <2>5, StoreTypes
    <3>2. Existing(d)
      BY <1>1, <3>1, StoreTypes DEF Existing
    <3>3. d <= t
      BY <1>7, <3>2 DEF t
    <3>4. Existing(c) => d <= c
      BY <1>1, <3>1 DEF StockInv
    <3> QED BY <2>3, <2>5, <3>3, <3>4
  <2>6. \A e \in Dates : Existing(e)' => e <= t
    <3>1. t \in Nat
      BY <1>1, <2>1, StoreTypes
    <3> QED BY <1>7, <2>3, <3>1 DEF t
  <2>7. loader'.date = t
    BY <1>4 DEF t
  <2>8. ASSUME Reworking'
        PROVE  Stocked(loader.date)' /\ \A k \in Kinds : minio'[loader'.date][k] # 1
    <3>1. Stocked(t) /\ \A k \in Kinds : minio[t][k] # 1
      BY <1>1, <1>5, <2>8 DEF StockInv, t
    <3>2. loads # Missing /\ loads # 1
      BY <1>1, <1>7, StoreTypes
    <3>3. \A k \in Kinds : minio'[t][k] # Missing <=> k \in objects
      BY <1>4, <2>1, <2>2, <3>1, <3>2 DEF Stocked
    <3>4. \A k \in Kinds : minio'[t][k] # 1
      BY <2>1, <2>2, <3>1, <3>2
    <3> QED BY <1>2, <2>7, <3>3, <3>4 DEF Stocked
  <2> QED BY <1>2, <1>7, <2>4, <2>5, <2>6, <2>7, <2>8 DEF StockInv
<1> QED BY <1>3, <1>8, <1>9

LEMMA StoredNext ==
  ASSUME StoredInv, [BatchNext]_batchVars
  PROVE  StoredInv'
<1>1. BatchInv' /\ StoreInv'
  BY BatchAssumption, NextKeeps, StoreNext DEF StoredInv
<1>2. ASSUME UNCHANGED <<objects, minio, loads>>,
             loader'.phase = "idle"
             \/ (/\ UNCHANGED pointer \/ loader.phase = "backup"
                 /\ loader'.phase = loader.phase \/ loader.phase = "backup"
                 /\ loader'.date = loader.date)
      PROVE  StockInv'
  <2>1. /\ \A e : Existing(e)' <=> Existing(e)
        /\ \A d : Stocked(d)' <=> Stocked(d)
    BY <1>2 DEF Existing, Stocked
  <2>2. Reworking' => Reworking /\ loader'.date = loader.date
    BY <1>2 DEF Reworking
  <2>3. loader'.phase # "idle" => loader.phase # "idle" /\ loader'.date = loader.date
    BY <1>2
  <2> QED BY <1>2, <2>1, <2>2, <2>3 DEF StockInv, StoredInv
<1>3. CASE PublishBackup
  <2>1. loader.phase = "backup" /\ loader'.date = loader.date
    BY <1>3, StoreTypes DEF PublishBackup, Load, StoredInv
  <2> QED BY <1>1, <1>2, <1>3, <2>1 DEF PublishBackup, StoredInv
<1>4. CASE Publish
  BY <1>1, <1>2, <1>4 DEF Publish, NoLoad, StoredInv
<1>5. CASE Get \/ Rival \/ UNCHANGED batchVars
  <2>1. UNCHANGED <<objects, minio, pointer, loader, loads>>
    BY <1>5 DEF Get, retrieve_cusno, Search, Settle, Answer, Rival, RivalAsks,
                RivalStores, batchVars, loaderVars
  <2> QED BY <1>1, <1>2, <2>1 DEF StoredInv
<1>6. CASE StartLoad \/ StartRework
  BY <1>1, <1>6, StockBegins DEF StoredInv
<1>7. CASE CopyObject \/ PutObject
  BY <1>1, <1>7, StockWrites DEF StoredInv
<1> QED BY <1>3, <1>4, <1>5, <1>6, <1>7 DEF BatchNext, Loader

-----------------------------------------------------------------------------
(* What a lookup meets while one load is in progress.                      *)

\* The hypotheses of ReloadsHideNobody, at any point of the lookup.
Findable ==
  /\ errors = 0 /\ overlap <= 1 /\ ~replaced
  /\ \A g \in 1 .. loads : key \in {None, KeyOf(g)}
  /\ \A g, h \in 2 .. loads : "CUSNO" \in Secret[g] <=> "CUSNO" \in Secret[h]
  /\ \A g \in Loads : get.cusno \in Contents[g]

\* Whether load g has encrypted customer numbers, and whether directory d has.
Numbered(g) == "CUSNO" \in Ciphers(g)
NumberedDir(d) == Numbered(minio[d]["meta"])

Uniform(d) == \A o \in objects : Numbered(minio[d][o]) <=> NumberedDir(d)

\* latest/ is whole, and no load that overlaps the lookup will write it.
Calm ==
  /\ \E g \in Loads : minio[Latest] = Complete(g)
  /\ pointer.kind = "dated" => overlap >= 1 /\ loader.phase # "backup"

\* A date directory has turned out to hold objects of two loads: it is being
\* reworked, or has been, and latest/ has the backup.
Missed == ~get.fall /\ get.dir # Latest /\ Calm

\* A lookup that can find its customer in every load is never led astray: it
\* passes over an object only if the layout has none of the kind or if it may
\* still go to latest/, and takes up a document that is not the customer's only
\* if there is a bulk.jsonl that can be searched for the customer's own.
Finding ==
  /\ get.pc \in Choosing => ~get.fall /\ get.dir = Latest
  /\ get.pc = "list" => pointer.kind = "absent"
  /\ get.pc = "stat" => pointer.kind # "dated" /\ minio = Store(Latest, published)
  /\ get.pc \notin Choosing =>
       /\ Stocked(Here) /\ Uniform(Here)
       /\ Here = Latest => Calm
       /\ loader.phase = "load" /\ ~pointer.use_latest => Here # loader.date
  /\ get.pc \in {"full", "full_range"} => "shard" \notin objects \/ Missed
  /\ get.pc = "single" => objects \cap {"shard", "full"} = {} \/ Missed
  /\ get.pc \in Ranges =>
       "bulk" \in objects /\ (minio[Here]["bulk"] = get.index \/ Missed)
  /\ get.pc \in Unverified =>
       /\ get.doc.cusno = get.cusno \/ "bulk" \in objects
       /\ get.doc.load <= loads
       /\ Numbered(get.doc.load) <=> NumberedDir(Here)
  /\ get.pc \in {"match", "scan"} => ("CUSNO" \in get.cols <=> NumberedDir(Here))
  /\ get.pc = "scan" => "bulk" \in objects
  /\ get.pc \in Verified => get.doc # None

FoundInv ==
  /\ StoredInv
  /\ get.pc # "idle" /\ loader # NoLoad => overlap >= 1
  /\ get.pc # "idle" /\ Findable => Finding

LEMMA WholeReadable ==
  ASSUME StoredInv, NEW d \in Dirs, NEW g \in Loads, minio[d] = Complete(g)
  PROVE  Stocked(d) /\ Uniform(d)
<1>1. "meta" \in objects /\ objects \subseteq Kinds /\ g # Missing
  BY LayoutUsed, StoreTypes DEF StoredInv
<1>2. \A o \in Kinds : minio[d][o] = IF o \in objects THEN g ELSE Missing
  BY CompleteObjects
<1> QED BY <1>1, <1>2 DEF Stocked, Uniform, NumberedDir

LEMMA FindableBefore ==
  ASSUME BatchInv, UNCHANGED <<loaderVars, overlap>>, get'.cusno = get.cusno,
         replaced' = FALSE => replaced = FALSE /\ (key # None => key' = key),
         Works \/ Breaks \/ UNCHANGED errors, Findable'
  PROVE  /\ Findable /\ ~Breaks
         /\ \A g \in 1 .. loads : key' \in {None, KeyOf(g)}
<1>1. errors \in Nat /\ replaced \in BOOLEAN
  BY DEF BatchInv, BatchTypeOK
<1>2. errors = 0 /\ ~Breaks
  BY <1>1 DEF Findable, Works, Breaks
<1>3. loads' = loads /\ \A g : KeyOf(g)' = KeyOf(g)
  BY DEF KeyOf, loaderVars
<1>4. \A g \in 1 .. loads : key' \in {None, KeyOf(g)}
  BY <1>3 DEF Findable
<1>5. overlap <= 1 /\ ~replaced /\ \A g \in Loads : get.cusno \in Contents[g]
  BY <1>1 DEF Findable
<1>6. \A g \in 1 .. loads : key \in {None, KeyOf(g)}
  BY <1>1, <1>4 DEF Findable
<1>7. \A g, h \in 2 .. loads : "CUSNO" \in Secret[g] <=> "CUSNO" \in Secret[h]
  BY <1>3 DEF Findable
<1> QED BY <1>2, <1>4, <1>5, <1>6, <1>7 DEF Findable

LEMMA ChoosingFinds ==
  ASSUME FoundInv, GetPointer \/ ListDates \/ StatLatest,
         UNCHANGED <<loaderVars, overlap>>, Findable, ~Breaks
  PROVE  Finding'
<1> DEFINE Chosen(d) == get' = [get EXCEPT !.pc = "shard", !.dir = d]
<1>1. StoredInv /\ BatchInv /\ StoreInv /\ get \in Lookup
  BY DEF FoundInv, StoredInv, BatchInv, BatchTypeOK
<1>2. Finding /\ get.pc \in Choosing
  BY DEF FoundInv, GetPointer, ListDates, StatLatest, Choosing
<1>3. UNCHANGED <<minio, pointer, published, objects, loader, overlap>>
  BY DEF loaderVars
<1>4. /\ \A d, g : Store(d, g)' = Store(d, g)
      /\ \A g : Complete(g)' = Complete(g)
  BY <1>3 DEF Store, Empty, Complete
<1>5. ~get.fall /\ get.dir = Latest
  BY <1>2 DEF Finding
<1>6. ASSUME NEW d \in Dirs, NEW g \in Loads, minio[d] = Complete(g),
             d = Latest => Calm,
             loader.phase = "load" /\ ~pointer.use_latest => d # loader.date,
             get'.pc = "shard", get'.dir = d, ~get'.fall
      PROVE  Finding'
  <2>1. Stocked(d) /\ Uniform(d)
    BY <1>1, <1>6, WholeReadable
  <2>2. Here' = d
    BY <1>6 DEF Here
  <2>3. Stocked(Here)' /\ Uniform(Here)' /\ (Calm' <=> Calm)
    BY <1>3, <1>4, <2>1, <2>2 DEF Stocked, Uniform, NumberedDir, Numbered, Ciphers, Calm
  <2> QED BY <1>3, <1>6, <2>2, <2>3 DEF Finding, Choosing, Ranges, Unverified, Verified
<1>7. ASSUME NEW d \in Dirs, NEW g \in Loads, minio[d] = Complete(g),
             d = Latest => Calm,
             loader.phase = "load" /\ ~pointer.use_latest => d # loader.date,
             Chosen(d)
      PROVE  Finding'
  <2>1. get'.pc = "shard" /\ get'.dir = d /\ get'.fall = get.fall
    BY <1>1, <1>7 DEF Lookup
  <2> QED BY <1>5, <1>6, <1>7, <2>1
<1>8. ASSUME NEW l \in {"list", "stat", "shard"}, GoTo(l)
      PROVE  get'.pc = l /\ get'.dir = Latest /\ ~get'.fall
  BY <1>1, <1>5, <1>8 DEF Lookup, GoTo
<1>9. ASSUME GoTo("list"), pointer.kind = "absent"
      PROVE  Finding'
  BY <1>3, <1>8, <1>9 DEF Finding, Choosing, Ranges, Unverified, Verified
<1>10. ASSUME GoTo("stat"), pointer.kind # "dated", minio = Store(Latest, published)
       PROVE  Finding'
  <2>1. (pointer.kind # "dated" /\ minio = Store(Latest, published))'
    BY <1>3, <1>4, <1>10
  <2>2. get'.pc = "stat" /\ get'.dir = Latest /\ ~get'.fall
    BY <1>8, <1>10
  <2> QED BY <2>1, <2>2 DEF Finding, Choosing, Ranges, Unverified, Verified
<1> HIDE DEF Chosen
<1>11. Dates \subseteq Dirs /\ Latest \in Dirs /\ Latest \notin Dates /\ published \in Loads
  BY <1>1, StoreTypes DEF StoreInv, PublishedIsWhole
<1>12. pointer.kind # "dated" => loader.phase # "load"
  BY <1>1 DEF StoreInv, PublishedIsWhole, NoLoad
<1>13. CASE GetPointer
  <2>1. CASE pointer.kind = "dated"
    <3>1. Target \in Dirs /\ (Target = Latest => pointer.use_latest)
      BY <1>1, <1>11, <2>1 DEF Target, BatchInv, BatchTypeOK, Pointer
    <3>2. Chosen(Target)
      BY <1>13, <2>1 DEF GetPointer, Chosen, Target
    <3>3. minio[Target] = Complete(published) /\ ~BeingWritten(Target)
          /\ (loader.phase # "load" => ~pointer.use_latest)
      BY <1>1, <2>1 DEF StoreInv, PublishedIsWhole
    <3>4. Target = Latest => Calm
      <4>1. ASSUME Target = Latest
            PROVE  loader.phase = "load" /\ overlap >= 1
        BY <1>2, <3>1, <3>3, <4>1 DEF FoundInv, NoLoad, Choosing
      <4> QED BY <1>11, <3>3, <4>1 DEF Calm
    <3>5. loader.phase = "load" => Target # loader.date
      BY <3>3 DEF BeingWritten
    <3> QED BY <1>7, <1>11, <3>1, <3>2, <3>3, <3>4, <3>5
  <2>2. CASE pointer.kind = "absent"
    BY <1>9, <1>13, <2>2 DEF GetPointer
  <2>3. CASE pointer.kind = "malformed"
    <3>1. minio = Store(Latest, published)
      BY <1>1, <2>3, UndatedStore
    <3> QED BY <1>10, <1>13, <2>3, <3>1 DEF GetPointer
  <2> QED BY <1>1, <2>1, <2>2, <2>3 DEF BatchInv, BatchTypeOK, Pointer
<1>14. CASE ListDates
  <2>1. pointer.kind = "absent" /\ pointer.kind # "dated"
    BY <1>2, <1>14 DEF Finding, ListDates
  <2>2. CASE \E d \in Dates : Existing(d) /\ Chosen(d)
    <3>1. PICK d \in Dates : Existing(d) /\ Chosen(d)
      BY <2>2
    <3>2. minio = Store(d, published)
      BY <1>1, <2>1, <3>1, UndatedStore
    <3>3. minio[d] = Complete(published) /\ d # Latest
      BY <1>11, <3>2, StoresAreWhole
    <3> QED BY <1>7, <1>11, <1>12, <2>1, <3>1, <3>3
  <2>3. CASE (\A d \in Dates : ~Existing(d)) /\ GoTo("stat")
    <3>1. minio = Store(Latest, published)
      BY <1>1, <2>1, <2>3, UndatedStore
    <3> QED BY <1>10, <2>1, <2>3, <3>1
  <2> QED BY <1>14, <2>2, <2>3 DEF ListDates, Chosen
<1>15. CASE StatLatest
  <2>1. pointer.kind # "dated" /\ minio = Store(Latest, published)
    BY <1>2, <1>15 DEF Finding, StatLatest
  <2>2. minio[Latest] = Complete(published) /\ Calm
    BY <1>11, <2>1, StoresAreWhole DEF Calm
  <2>3. "shard" \in objects
    BY <1>1, <2>1, ShardsInLatest
  <2>4. minio[Latest]["shard"] # Missing
    BY <1>1, <1>11, <2>2, <2>3, CompleteObjects, StoreTypes
  <2>5. GoTo("shard")
    BY <1>15, <2>4 DEF StatLatest
  <2> QED BY <1>6, <1>8, <1>11, <1>12, <2>1, <2>2, <2>5
<1> QED BY <1>13, <1>14, <1>15

\* A step of the lookup that stays in its directory finds it as it was.
LEMMA HereStays ==
  ASSUME Finding, get.pc \notin Choosing, UNCHANGED <<loaderVars, overlap>>,
         get'.dir = get.dir, get'.fall = get.fall
  PROVE  /\ Here' = Here /\ UNCHANGED <<objects, minio, loads>>
         /\ Stocked(Here)' /\ Uniform(Here)'
         /\ (Here = Latest => Calm)'
         /\ (loader.phase = "load" /\ ~pointer.use_latest => Here # loader.date)'
         /\ NumberedDir(Here)' <=> NumberedDir(Here)
         /\ Missed' <=> Missed
<1>1. Here' = Here /\ UNCHANGED <<objects, minio, pointer, loader, overlap, loads>>
  BY DEF Here, loaderVars
<1>2. \A g : Complete(g)' = Complete(g)
  BY <1>1 DEF Complete
<1>3. Calm' <=> Calm
  BY <1>1, <1>2 DEF Calm
<1>4. /\ Stocked(Here)' <=> Stocked(Here)
      /\ Uniform(Here)' <=> Uniform(Here)
      /\ NumberedDir(Here)' <=> NumberedDir(Here)
  BY <1>1 DEF Stocked, Uniform, NumberedDir, Numbered, Ciphers
<1>5. Missed' <=> Missed
  BY <1>3 DEF Missed
<1> QED BY <1>1, <1>3, <1>4, <1>5 DEF Finding

\* Objects of two loads are met only in a directory that is being reworked, and
\* then the pointer leads to the backup by now.
LEMMA MixedMeansMissed ==
  ASSUME FoundInv, Finding, get.pc \notin {"idle"} \cup Choosing,
         NEW k \in objects, "bulk" \in objects
  PROVE  minio[Here]["bulk"] = minio[Here][k] \/ Missed
<1>1. /\ StoredInv /\ BatchInv /\ StoreInv /\ StockInv /\ get \in Lookup
      /\ k \in Kinds /\ "bulk" \in Kinds
  BY StoreTypes DEF FoundInv, StoredInv, BatchInv, BatchTypeOK
<1>2. ASSUME NEW g, minio[Here] = Complete(g)
      PROVE  minio[Here]["bulk"] = minio[Here][k]
  BY <1>1, <1>2, CompleteObjects
<1>3. CASE Here = Latest
  BY <1>2, <1>3 DEF Finding, Calm
<1>4. CASE Here # Latest
  <2>1. ~get.fall /\ get.dir = Here /\ Here \in Dirs
    BY <1>1, <1>4 DEF Here, Lookup
  <2>2. CASE ~BeingWritten(Here)
    BY <1>1, <1>2, <2>1, <2>2 DEF StoreInv, DirsAreWhole, Whole
  <2>3. CASE BeingWritten(Here)
    <3>1. loader.phase = "load" /\ Here = loader.date
      BY <1>4, <2>3 DEF BeingWritten
    <3>2. pointer.use_latest
      BY <3>1 DEF Finding
    <3>3. pointer.kind = "dated" /\ Target = Latest
      BY <1>1, <3>2, StoreTypes DEF Pointer, Target
    <3>4. published \in Loads /\ minio[Latest] = Complete(published)
      BY <1>1, <3>3 DEF StoreInv, PublishedIsWhole
    <3>5. overlap >= 1
      BY <3>1 DEF FoundInv, NoLoad
    <3> QED BY <1>4, <2>1, <3>1, <3>4, <3>5 DEF Missed, Calm
  <2> QED BY <2>2, <2>3
<1> QED BY <1>3, <1>4

LEMMA ReadingFinds ==
  ASSUME FoundInv,
         \/ \E k \in {"shard", "full"} : GetIndex(k) \/ GetRange(k)
         \/ GetSingle \/ GetMeta,
         UNCHANGED <<loaderVars, overlap>>, Findable, ~Breaks
  PROVE  Finding'
<1> DEFINE Same == get'.cusno = get.cusno /\ get'.dir = get.dir /\ get'.fall = get.fall
           G(o) == minio[Here][o]
<1>1. StoredInv /\ BatchInv /\ StoreInv /\ StockInv /\ get \in Lookup /\ LookupKnows
  BY DEF FoundInv, StoredInv, BatchInv, BatchTypeOK
<1>2. Finding /\ get.pc \notin Choosing /\ get.pc # "idle"
  BY DEF FoundInv, GetIndex, GetRange, RangeOf, GetSingle, GetMeta, Choosing
<1>3. ASSUME Same
      PROVE  /\ Here' = Here /\ UNCHANGED <<objects, minio, loads>>
             /\ Stocked(Here)' /\ Uniform(Here)'
             /\ (Here = Latest => Calm)'
             /\ (loader.phase = "load" /\ ~pointer.use_latest => Here # loader.date)'
             /\ NumberedDir(Here)' <=> NumberedDir(Here)
             /\ Missed' <=> Missed
  BY <1>2, <1>3, HereStays
<1>4. /\ "meta" \in objects /\ objects \subseteq Kinds
      /\ objects \cap {"shard", "full"} # {} => "bulk" \in objects
      /\ objects \cap {"shard", "full", "single"} # {}
  BY <1>1, LayoutUsed
<1>5. \A o \in Kinds : G(o) \in Loads \cup {Missing} /\ (G(o) # Missing <=> o \in objects)
  BY <1>1, <1>2, HereType DEF Finding, Stocked
<1>6. \A o \in Kinds : get.cusno \in Holds(G(o)) <=> o \in objects
  BY <1>5 DEF Findable, Holds
<1>7. \A o \in objects : /\ G(o) \in Loads /\ G(o) <= loads
                         /\ Numbered(G(o)) <=> NumberedDir(Here)
  <2>1. Here \in Dirs
    BY <1>1, StoreTypes DEF Here, Lookup
  <2> QED BY <1>1, <1>2, <1>4, <1>5, <2>1 DEF Finding, Uniform, StockInv
<1> HIDE DEF G
<1>8. ASSUME NEW k \in {"shard", "full"}, GetIndex(k)
      PROVE  Finding'
  <2>1. k \in Kinds /\ get.pc = k
    BY <1>8 DEF Kinds, GetIndex
  <2>2. get.pc = "full" => "shard" \notin objects \/ Missed
    BY <1>2 DEF Finding
  <2>3. CASE k \in objects
    <3>1. get' = [get EXCEPT !.pc = RangeOf(k), !.index = G(k)]
      BY <1>6, <1>8, <2>1, <2>3 DEF GetIndex, G
    <3>2. Same /\ get'.pc = RangeOf(k) /\ get'.index = G(k)
      BY <1>1, <3>1 DEF Lookup
    <3>3. "bulk" \in objects
      BY <1>4, <2>3
    <3>4. minio[Here]["bulk"] = G(k) \/ Missed
      BY <1>2, <2>3, <3>3, MixedMeansMissed DEF G
    <3> QED BY <1>3, <2>1, <2>2, <3>2, <3>3, <3>4
            DEF RangeOf, Finding, Choosing, Ranges, Unverified, Verified
  <2>4. CASE k \notin objects
    <3>1. GoTo(AfterIndex(k))
      BY <1>6, <1>8, <2>1, <2>4 DEF GetIndex, G
    <3>2. Same /\ get'.pc = AfterIndex(k)
      BY <1>1, <3>1 DEF Lookup, GoTo
    <3> QED BY <1>3, <2>1, <2>2, <2>4, <3>2
            DEF AfterIndex, Finding, Choosing, Ranges, Unverified, Verified
  <2> QED BY <2>3, <2>4
<1>9. ASSUME NEW k \in {"shard", "full"}, GetRange(k)
      PROVE  Finding'
  <2>1. get.pc \in Ranges /\ get.pc = RangeOf(k)
    BY <1>9 DEF GetRange, RangeOf, Ranges
  <2>2. "bulk" \in objects /\ (G("bulk") = get.index \/ Missed)
    BY <1>2, <2>1 DEF Finding, G
  <2>3. CASE \E c \in LinesAt(get.cusno, get.index, G("bulk")) :
               get' = [get EXCEPT !.pc = "meta", !.index = Missing,
                                  !.doc = [cusno |-> c, load |-> G("bulk")]]
    <3>1. PICK c \in LinesAt(get.cusno, get.index, G("bulk")) :
                 get' = [get EXCEPT !.pc = "meta", !.index = Missing,
                                    !.doc = [cusno |-> c, load |-> G("bulk")]]
      BY <2>3
    <3>2. Same /\ get'.pc = "meta" /\ get'.doc = [cusno |-> c, load |-> G("bulk")]
      BY <1>1, <3>1 DEF Lookup
    <3>3. get'.doc.load = G("bulk")
      BY <3>2
    <3>4. (Numbered(get.doc.load))' <=> Numbered(G("bulk"))
      BY <3>3 DEF Numbered, Ciphers
    <3> QED BY <1>3, <1>7, <2>2, <3>2, <3>3, <3>4
            DEF Finding, Choosing, Ranges, Unverified, Verified
  <2>4. CASE /\ get' = [get EXCEPT !.pc = AfterIndex(k), !.index = Missing]
             /\ G("bulk") # get.index
    <3>1. Same /\ get'.pc = AfterIndex(k) /\ Missed
      BY <1>1, <2>2, <2>4 DEF Lookup
    <3> QED BY <1>3, <3>1 DEF AfterIndex, Finding, Choosing, Ranges, Unverified, Verified
  <2> QED BY <1>9, <2>3, <2>4 DEF GetRange, G
<1>10. CASE GetSingle
  <2>1. get.pc = "single" /\ "single" \in Kinds
    BY <1>10 DEF GetSingle, Kinds
  <2>2. CASE "single" \in objects
    <3>1. get' = [get EXCEPT !.pc = "meta",
                             !.doc = [cusno |-> get.cusno, load |-> G("single")]]
      BY <1>6, <1>10, <2>1, <2>2 DEF GetSingle, G
    <3>2. /\ Same /\ get'.pc = "meta"
          /\ get'.doc = [cusno |-> get.cusno, load |-> G("single")]
      BY <1>1, <3>1 DEF Lookup
    <3>3. get'.doc.load = G("single") /\ get'.doc.cusno = get'.cusno
      BY <3>2
    <3>4. (Numbered(get.doc.load))' <=> Numbered(G("single"))
      BY <3>3 DEF Numbered, Ciphers
    <3> QED BY <1>3, <1>7, <2>2, <3>2, <3>3, <3>4
            DEF Finding, Choosing, Ranges, Unverified, Verified
  <2>3. CASE "single" \notin objects
    <3>1. Missed
      BY <1>2, <1>4, <2>1, <2>3 DEF Finding
    <3>2. get' = [get EXCEPT !.pc = "shard", !.fall = TRUE]
      BY <1>6, <1>10, <2>1, <2>3, <3>1 DEF GetSingle, Missed, Here, G
    <3>3. get'.pc = "shard" /\ get'.fall
      BY <1>1, <3>2 DEF Lookup
    <3>4. Stocked(Latest) /\ Uniform(Latest) /\ Calm /\ Latest \in Dirs
      BY <1>1, <3>1, WholeReadable, StoreTypes DEF Missed, Calm
    <3>5. loader.phase = "load" => loader.date # Latest
      BY <1>1, StoreTypes DEF LoadKnows
    <3>6. Here' = Latest /\ UNCHANGED <<objects, minio, pointer, loader, overlap>>
      BY <3>3 DEF Here, loaderVars
    <3>7. \A g : Complete(g)' = Complete(g)
      BY <3>6 DEF Complete
    <3>8. Stocked(Here)' /\ Uniform(Here)' /\ Calm'
      BY <3>4, <3>6, <3>7 DEF Stocked, Uniform, NumberedDir, Numbered, Ciphers, Calm
    <3> QED BY <3>3, <3>5, <3>6, <3>8 DEF Finding, Choosing, Ranges, Unverified, Verified
  <2> QED BY <2>2, <2>3
<1>11. CASE GetMeta
  <2>1. /\ get.doc.cusno = get.cusno \/ "bulk" \in objects
        /\ get.doc.load <= loads
        /\ Numbered(get.doc.load) <=> NumberedDir(Here)
    BY <1>2, <1>11 DEF Finding, GetMeta, Unverified
  <2>2. get' = [get EXCEPT !.pc = "match", !.cols = Ciphers(G("meta"))]
    BY <1>11 DEF GetMeta, G
  <2>3. /\ Same /\ get'.pc = "match" /\ get'.doc = get.doc
        /\ get'.cols = Ciphers(G("meta"))
    BY <1>1, <2>2 DEF Lookup
  <2>4. "CUSNO" \in get'.cols <=> NumberedDir(Here)
    BY <2>3 DEF NumberedDir, Numbered, G
  <2>5. (Numbered(get.doc.load))' <=> Numbered(get.doc.load)
    BY <2>3 DEF Numbered, Ciphers
  <2> QED BY <1>3, <2>1, <2>3, <2>4, <2>5
          DEF Finding, Choosing, Ranges, Unverified, Verified
<1> QED BY <1>8, <1>9, <1>10, <1>11

\* A document of a load that the directory agrees with on customer numbers is
\* the customer's if it says so.
LEMMA FindableMatch ==
  ASSUME Findable, ~Breaks, NEW d, d.load \in 1 .. loads, d.cusno = get.cusno,
         \A g \in 1 .. loads : key' \in {None, KeyOf(g)},
         Numbered(d.load) => "CUSNO" \in get.cols,
         NEW failed \in SUBSET (Encrypted(d) \cap {"CUSNO"}),
         Key(Encrypted(d) \cap {"CUSNO"}, failed)
  PROVE  match_cusno(d, failed)
<1> DEFINE cols == Encrypted(d) \cap {"CUSNO"}
<1>1. failed = {} /\ (cols # {} => key' = KeyOf(d.load))
  BY FittingKey
<1>2. "CUSNO" \in Ciphers(d.load) => "CUSNO" \in get.cols /\ cols # {}
  BY DEF Numbered, Encrypted
<1> QED BY <1>1, <1>2 DEF match_cusno, Fits

LEMMA SettlingFinds ==
  ASSUME FoundInv, Settle, Findable, ~Breaks,
         \A g \in 1 .. loads : key' \in {None, KeyOf(g)}
  PROVE  Finding'
<1> DEFINE Same == get'.cusno = get.cusno /\ get'.dir = get.dir /\ get'.fall = get.fall
<1>1. StoredInv /\ BatchInv /\ StoreInv /\ StockInv /\ get \in Lookup /\ LookupKnows
  BY DEF FoundInv, StoredInv, BatchInv, BatchTypeOK
<1>2. Finding /\ get.pc \in {"match", "scan", "decrypt"} /\ get.pc \notin Choosing
  BY DEF FoundInv, Settle, Match, Scan, Decrypt, Choosing
<1>3. UNCHANGED <<loaderVars, overlap>>
  BY DEF Settle
<1>4. ASSUME Same
      PROVE  /\ Here' = Here /\ UNCHANGED <<objects, minio, loads>>
             /\ Stocked(Here)' /\ Uniform(Here)'
             /\ (Here = Latest => Calm)'
             /\ (loader.phase = "load" /\ ~pointer.use_latest => Here # loader.date)'
             /\ NumberedDir(Here)' <=> NumberedDir(Here)
  BY <1>2, <1>3, <1>4, HereStays
<1>5. ASSUME Same, get'.pc \in Verified, get'.doc # None
      PROVE  Finding'
  BY <1>4, <1>5 DEF Finding, Choosing, Ranges, Unverified, Verified
<1>6. \A d \in Docs : d # None
  BY BatchAssumption DEF BatchAssumption, Docs
<1>7. CASE Match
  <2> DEFINE cols == Encrypted(get.doc) \cap {"CUSNO"}
  <2>1. get.pc = "match" /\ get.doc \in Docs
    BY <1>1, <1>7 DEF Match, LookupKnows, Unverified
  <2>2. /\ get.doc.cusno = get.cusno \/ "bulk" \in objects
        /\ get.doc.load <= loads
        /\ Numbered(get.doc.load) <=> NumberedDir(Here)
        /\ "CUSNO" \in get.cols <=> NumberedDir(Here)
    BY <1>2, <2>1 DEF Finding, Unverified
  <2>3. get.doc.load \in 1 .. loads
    BY <1>1, <2>1, <2>2, StoreTypes DEF Docs, Loads
  <2>4. PICK failed \in SUBSET cols :
          /\ Key(cols, failed)
          /\ IF match_cusno(get.doc, failed)
               THEN GoTo("decrypt")
               ELSE get' = [get EXCEPT !.pc = "scan", !.doc = None]
    BY <1>7 DEF Match
  <2>5. CASE GoTo("decrypt")
    <3>1. Same /\ get'.pc = "decrypt" /\ get'.doc = get.doc
      BY <1>1, <2>5 DEF Lookup, GoTo
    <3> QED BY <1>5, <1>6, <2>1, <3>1 DEF Verified
  <2>6. CASE get.doc.cusno # get.cusno /\ get' = [get EXCEPT !.pc = "scan", !.doc = None]
    <3>1. Same /\ get'.pc = "scan" /\ get'.cols = get.cols
      BY <1>1, <2>6 DEF Lookup
    <3> QED BY <1>4, <2>2, <2>6, <3>1 DEF Finding, Choosing, Ranges, Unverified, Verified
  <2>7. get.doc.cusno = get.cusno => match_cusno(get.doc, failed)
    BY <2>2, <2>3, <2>4, FindableMatch
  <2> QED BY <2>4, <2>5, <2>6, <2>7
<1>8. CASE Scan
  <2> DEFINE h == minio[Here]["bulk"]
             d == [cusno |-> get.cusno, load |-> h]
             cols == Encrypted(d) \cap {"CUSNO"}
  <2>1. get.pc = "scan"
    BY <1>8 DEF Scan
  <2>2. "bulk" \in objects /\ ("CUSNO" \in get.cols <=> NumberedDir(Here))
    BY <1>2, <2>1 DEF Finding
  <2>3. Here \in Dirs /\ "bulk" \in Kinds
    BY <1>1, StoreTypes DEF Here, Lookup, Kinds
  <2>4. h \in Loads /\ h <= loads /\ (Numbered(h) <=> NumberedDir(Here))
    BY <1>1, <1>2, <2>2, <2>3, HereType DEF Finding, Stocked, Uniform, StockInv
  <2>5. h \in 1 .. loads /\ get.cusno \in Holds(h)
    BY <1>1, <2>4, StoreTypes DEF Loads, Findable, Holds
  <2>6. PICK failed \in SUBSET cols :
          /\ Key(cols, failed)
          /\ get' = IF get.cusno \in Holds(h) /\ match_cusno(d, failed)
                      THEN [get EXCEPT !.pc = "decrypt", !.doc = d]
                      ELSE [get EXCEPT !.pc = "done"]
    BY <1>8 DEF Scan
  <2>7. d.load = h /\ d.cusno = get.cusno
    OBVIOUS
  <2>8. d # None
    <3>1. get.cusno \in Cusnos
      BY <1>1, <2>1 DEF LookupKnows
    <3> QED BY <1>6, <2>4, <3>1 DEF Docs
  <2> HIDE DEF d, h
  <2>9. match_cusno(d, failed)
    BY <2>2, <2>4, <2>5, <2>6, <2>7, FindableMatch
  <2>10. get' = [get EXCEPT !.pc = "decrypt", !.doc = d]
    BY <2>5, <2>6, <2>9
  <2>11. Same /\ get'.pc = "decrypt" /\ get'.doc = d
    BY <1>1, <2>10 DEF Lookup
  <2> QED BY <1>5, <2>8, <2>11 DEF Verified
<1>9. CASE Decrypt
  <2>1. get.pc = "decrypt" /\ get.doc # None
    BY <1>2, <1>9 DEF Decrypt, Finding, Verified
  <2>2. CASE GoTo("done")
    <3>1. Same /\ get'.pc = "done" /\ get'.doc = get.doc
      BY <1>1, <2>2 DEF Lookup, GoTo
    <3> QED BY <1>5, <2>1, <3>1 DEF Verified
  <2>3. ASSUME NEW col, NEW failed, DecryptField(col, failed)
        PROVE  Finding'
    <3>1. Same /\ get'.pc = get.pc /\ get'.doc = get.doc
      BY <1>1, <2>3 DEF Lookup, DecryptField
    <3> QED BY <1>5, <2>1, <3>1 DEF Verified
  <2> QED BY <1>9, <2>2, <2>3 DEF Decrypt
<1> QED BY <1>7, <1>8, <1>9 DEF Settle

\* A loader that writes elsewhere disturbs no lookup, unless it could not have
\* begun.
LEMMA HereUntouched ==
  ASSUME Finding, pointer.kind = "dated", pointer'.kind = "dated",
         UNCHANGED <<get, objects>>, loads \in Nat, loads' \in Nat, loads <= loads',
         get.pc \in Unverified => get.doc.load \in Nat,
         get.pc \notin Choosing =>
           /\ minio'[Here] = minio[Here]
           /\ Calm => Calm'
           /\ (loader.phase = "load" /\ ~pointer.use_latest => Here # loader.date)'
  PROVE  Finding'
<1>1. Here' = Here
  BY DEF Here
<1>2. Missed /\ get.pc \notin Choosing => Missed'
  BY DEF Missed
<1>3. CASE get.pc \in Choosing
  BY <1>3 DEF Finding, Choosing, Ranges, Unverified, Verified
<1>4. CASE get.pc \notin Choosing
  <2>1. /\ Stocked(Here)' <=> Stocked(Here)
        /\ Uniform(Here)' <=> Uniform(Here)
        /\ NumberedDir(Here)' <=> NumberedDir(Here)
        /\ (Numbered(get.doc.load))' <=> Numbered(get.doc.load)
    BY <1>1, <1>4 DEF Stocked, Uniform, NumberedDir, Numbered, Ciphers
  <2>2. /\ (Here = Latest => Calm)'
        /\ (loader.phase = "load" /\ ~pointer.use_latest => Here # loader.date)'
    BY <1>1, <1>4 DEF Finding
  <2>3. get.pc \in Unverified => get'.doc.load <= loads'
    <3>1. ASSUME get.pc \in Unverified
          PROVE  get.doc.load \in Nat /\ get.doc.load <= loads /\ get'.doc = get.doc
      BY <3>1 DEF Finding
    <3>2. \A n \in Nat : n <= loads => n <= loads'
      OBVIOUS
    <3> QED BY <3>1, <3>2
  <2>4. get.pc \in Ranges => minio'[Here']["bulk"] = get'.index \/ Missed'
    BY <1>1, <1>2, <1>4 DEF Finding
  <2> QED BY <1>1, <1>2, <1>4, <2>1, <2>2, <2>3, <2>4 DEF Finding, Choosing, Ranges
<1> QED BY <1>3, <1>4

\* A rework writes the directory of a lookup that began before it: the objects
\* written say of customer numbers what those they replace did, and latest/ has
\* the backup.
LEMMA ReworkedHere ==
  ASSUME FoundInv, Finding, Findable, PutObject, get.pc \notin {"idle"} \cup Choosing,
         Here = loader.date
  PROVE  Finding'
<1>1. StoredInv /\ BatchInv /\ StoreInv /\ StockInv /\ get \in Lookup /\ LookupKnows
  BY DEF FoundInv, StoredInv, BatchInv, BatchTypeOK
<1>2. PICK o \in loader.todo :
        /\ loader.phase = "load"
        /\ minio' = [minio EXCEPT ![loader.date][o] = loads]
        /\ loader' = [loader EXCEPT !.todo = @ \ {o}]
  BY DEF PutObject, Written
<1>3. UNCHANGED <<get, objects, pointer, loads, overlap>>
  BY DEF PutObject
<1>4. o \in objects /\ objects \subseteq Kinds /\ "meta" \in objects
  BY <1>1, <1>2, LayoutUsed DEF StoreInv, LoadProgress
<1>5. /\ loader'.phase = "load" /\ loader'.date = loader.date
      /\ Here \in Dates /\ Here \in Dirs /\ Here # Latest
  BY <1>1, <1>2, StoreTypes DEF Load, LoadKnows
<1>6. pointer.use_latest /\ pointer.kind = "dated" /\ Target = Latest
  BY <1>1, <1>2, StoreTypes DEF Finding, Pointer, Target
<1>7. published \in Loads /\ minio[Latest] = Complete(published) /\ overlap >= 1
  BY <1>1, <1>2, <1>6 DEF StoreInv, PublishedIsWhole, FoundInv, NoLoad
<1>8. Here' = Here
  BY <1>3 DEF Here
<1>9. Missed'
  <2>1. ~get'.fall /\ get'.dir # Latest
    BY <1>3, <1>5 DEF Here
  <2>2. minio'[Latest] = minio[Latest]
    BY <1>1, <1>2, <1>5, StoreTypes
  <2>3. \A g : Complete(g)' = Complete(g)
    BY <1>3 DEF Complete
  <2>4. Calm'
    BY <1>3, <1>5, <1>7, <2>2, <2>3 DEF Calm
  <2> QED BY <2>1, <2>4 DEF Missed
<1>10. \A k \in Kinds : minio'[Here][k] = IF k = o THEN loads ELSE minio[Here][k]
  BY <1>1, <1>2, <1>5, StoreTypes
<1>11. /\ loads \in 2 .. loads /\ loads # Missing
       /\ \A k \in objects : minio[Here][k] \in 2 .. loads
       /\ \A g \in 2 .. loads : g \in Loads
  <2>1. loads >= 2 /\ loads \in Nat /\ loads <= MaxLoad
    BY <1>1, <1>2, StoreTypes DEF StockInv, Loads
  <2>2. ASSUME NEW k \in objects
        PROVE  minio[Here][k] \in Nat /\ minio[Here][k] <= loads
               /\ minio[Here][k] # 0 /\ minio[Here][k] # 1
    <3>1. Stocked(Here) /\ \A j \in Kinds : minio[Here][j] # 1
      BY <1>1, <1>2, <1>6 DEF StockInv, Reworking
    <3> QED BY <1>1, <1>4, <1>5, <2>2, <3>1, StoreTypes DEF StockInv, Stocked
  <2> QED BY <2>1, <2>2, BatchAssumption DEF Loads, Missing, BatchAssumption
<1>12. \A g, h \in 2 .. loads : Numbered(g) <=> Numbered(h)
  <2>1. \A g \in 2 .. loads : Ciphers(g) = Secret[g]
    BY <1>11 DEF Ciphers, Loads, Missing
  <2> QED BY <2>1 DEF Findable, Numbered
<1>13. /\ \A k \in objects : minio'[Here][k] \in 2 .. loads
       /\ \A k \in Kinds : minio'[Here][k] # Missing <=> k \in objects
  BY <1>2, <1>4, <1>10, <1>11 DEF Finding, Stocked
<1>14. \A g : Numbered(g)' <=> Numbered(g)
  BY DEF Numbered, Ciphers
<1>15. Stocked(Here)' /\ Uniform(Here)' /\ (NumberedDir(Here)' <=> NumberedDir(Here))
  <2>1. Stocked(Here)'
    BY <1>3, <1>8, <1>13 DEF Stocked
  <2>2. NumberedDir(Here)' <=> NumberedDir(Here)
    BY <1>4, <1>8, <1>11, <1>12, <1>13 DEF NumberedDir, Numbered, Ciphers
  <2>3. Uniform(Here)'
    BY <1>3, <1>4, <1>8, <1>12, <1>13 DEF Uniform, NumberedDir, Numbered, Ciphers
  <2> QED BY <2>1, <2>2, <2>3
<1>16. (Numbered(get.doc.load))' <=> Numbered(get.doc.load)
  BY <1>3 DEF Numbered, Ciphers
<1> QED BY <1>3, <1>5, <1>6, <1>8, <1>9, <1>15, <1>16
        DEF Finding, Choosing, Ranges, Unverified, Verified, Missed

LEMMA LoaderFinds ==
  ASSUME FoundInv, Loader, get.pc # "idle", Findable'
  PROVE  Finding'
<1>1. StoredInv /\ BatchInv /\ StoreInv /\ StockInv /\ get \in Lookup /\ LookupKnows
  BY DEF FoundInv, StoredInv, BatchInv, BatchTypeOK
<1>2. UNCHANGED <<get, key, rotation, replaced, errors, objects>>
  BY DEF Loader, StartLoad, StartRework, Begin, CopyObject, PublishBackup,
         PutObject, Publish, podVars
<1>3. /\ loads \in Nat /\ overlap \in Nat
      /\ \/ loads' = loads /\ overlap' = overlap
         \/ loads' = loads + 1 /\ overlap' = overlap + 1
  BY <1>1, StoreTypes DEF BatchInv, BatchTypeOK, Loader, StartLoad, StartRework,
     Begin, CopyObject, PublishBackup, PutObject, Publish
<1>4. loads' \in Nat /\ loads <= loads'
  BY <1>3
<1>5. Findable
  <2>1. errors = 0 /\ overlap <= 1 /\ ~replaced
    BY <1>2, <1>3 DEF Findable
  <2>2. \A g \in 1 .. loads : g \in 1 .. loads'
    BY <1>3
  <2>3. \A g \in 2 .. loads : g \in 2 .. loads'
    BY <1>3
  <2>4. \A g \in 1 .. loads : key \in {None, KeyOf(g)}
    BY <1>2, <2>2 DEF Findable, KeyOf
  <2> QED BY <1>2, <2>1, <2>3, <2>4 DEF Findable
<1>6. Finding
  BY <1>5 DEF FoundInv
<1>7. pointer.kind = "dated" /\ pointer'.kind = "dated"
  <2>1. pointer.kind # "dated" => loader.phase = "idle" /\ loader.todo = {}
    BY <1>1 DEF StoreInv, PublishedIsWhole, NoLoad
  <2>2. pointer.kind = "dated"
    BY <2>1 DEF Loader, StartLoad, StartRework, Begin, CopyObject, PublishBackup,
                PutObject, Publish
  <2>3. pointer' = pointer \/ \E d, l : pointer' = Dated(d, l)
    BY DEF Loader, StartLoad, StartRework, Begin, CopyObject, PublishBackup,
           PutObject, Publish
  <2> QED BY <2>2, <2>3 DEF Dated
<1>8. get.pc \in Unverified => get.doc.load \in Nat
  BY <1>1, StoreTypes DEF LookupKnows, Docs
<1>9. \A g : Complete(g)' = Complete(g)
  BY <1>2 DEF Complete
<1>10. SUFFICES ASSUME get.pc \notin Choosing
                PROVE  \/ /\ minio'[Here] = minio[Here]
                          /\ Calm => Calm'
                          /\ (loader.phase = "load" /\ ~pointer.use_latest
                              => Here # loader.date)'
                       \/ Finding'
  BY <1>2, <1>3, <1>4, <1>6, <1>7, <1>8, HereUntouched
<1>11. Here' = Here /\ Here \in Dirs /\ (Here = Latest => Calm)
  BY <1>1, <1>2, <1>6, <1>10, StoreTypes DEF Finding, Here, Lookup
<1>12. CASE StartLoad \/ StartRework
  <2>1. UNCHANGED <<minio, pointer>> /\ overlap' = overlap + 1
    BY <1>12 DEF StartLoad, StartRework, Begin
  <2>2. ~Calm
    BY <1>3, <1>7, <2>1 DEF Findable, Calm
  <2>3. ASSUME loader'.phase = "load"
        PROVE  Here # loader'.date
    <3>1. StartLoad
      BY <1>12, <2>3 DEF StartRework, Begin
    <3>2. PICK d \in Dates :
            /\ \A e \in Dates : Existing(e) => e < d
            /\ loader' = [NoLoad EXCEPT !.phase = "load", !.date = d, !.todo = objects]
      BY <3>1 DEF StartLoad, Begin
    <3>3. loader'.date = d
      BY <3>2 DEF NoLoad
    <3>4. Existing(Here)
      BY <1>1, <1>6, <1>10, LayoutUsed, StoreTypes DEF Finding, Stocked, Existing
    <3> QED BY <1>1, <3>2, <3>3, <3>4, StoreTypes
  <2> QED BY <1>11, <2>1, <2>2, <2>3
<1>13. CASE CopyObject
  <2>1. PICK o \in loader.todo :
          /\ loader.phase = "backup"
          /\ minio' = [minio EXCEPT ![Latest][o] = minio[loader.from][o]]
          /\ Written(o)
    BY <1>13 DEF CopyObject
  <2>2. ~Calm /\ loader'.phase = "backup"
    BY <1>1, <1>7, <2>1, StoreTypes DEF Calm, Written, Load
  <2>3. minio'[Here] = minio[Here]
    BY <1>1, <1>11, <2>1, <2>2, StoreTypes
  <2> QED BY <2>2, <2>3
<1>14. CASE PublishBackup
  <2>1. ~Calm /\ minio' = minio /\ pointer'.use_latest
    BY <1>7, <1>14 DEF Calm, PublishBackup, Dated
  <2> QED BY <2>1
<1>15. CASE PutObject
  <2>1. CASE Here = loader.date
    BY <1>5, <1>6, <1>10, <1>15, <2>1, ReworkedHere
  <2>2. CASE Here # loader.date
    <3>1. PICK o \in loader.todo :
            /\ loader.phase = "load"
            /\ minio' = [minio EXCEPT ![loader.date][o] = loads]
            /\ Written(o)
            /\ UNCHANGED <<pointer, overlap>>
      BY <1>15 DEF PutObject
    <3>2. loader.date \in Dates /\ loader.date # Latest
      BY <1>1, <3>1, StoreTypes DEF LoadKnows
    <3>3. minio'[Here] = minio[Here] /\ minio'[Latest] = minio[Latest]
      BY <1>1, <1>11, <2>2, <3>1, <3>2, StoreTypes
    <3>4. loader'.phase = loader.phase /\ loader'.date = loader.date
      BY <1>1, <3>1, StoreTypes DEF Written, Load
    <3>5. Calm => Calm'
      BY <1>9, <3>1, <3>3, <3>4 DEF Calm
    <3> QED BY <1>11, <2>2, <3>3, <3>4, <3>5
  <2> QED BY <2>1, <2>2
<1>16. CASE Publish
  <2>1. UNCHANGED <<minio, overlap>> /\ loader'.phase = "idle"
    BY <1>16 DEF Publish, NoLoad
  <2>2. Calm => Calm'
    BY <1>7, <1>9, <2>1 DEF Calm
  <2> QED BY <2>1, <2>2
<1> QED BY <1>12, <1>13, <1>14, <1>15, <1>16 DEF Loader

LEMMA FoundNext ==
  ASSUME FoundInv, [BatchNext]_batchVars
  PROVE  FoundInv'
<1>1. StoredInv'
  BY StoredNext DEF FoundInv
<1>2. StoredInv /\ BatchInv /\ overlap \in Nat
  BY DEF FoundInv, StoredInv, BatchInv, BatchTypeOK
<1>3. (get.pc # "idle" /\ loader # NoLoad => overlap >= 1)'
  <2>1. CASE Loader
    <3>1. CASE StartLoad \/ StartRework
      <4>1. overlap' = overlap + 1
        BY <3>1 DEF StartLoad, StartRework, Begin
      <4> QED BY <1>2, <4>1
    <3>2. CASE CopyObject \/ PublishBackup \/ PutObject \/ Publish
      <4>1. UNCHANGED <<get, overlap>> /\ loader.phase # "idle"
        BY <3>2 DEF CopyObject, PublishBackup, PutObject, Publish
      <4>2. loader # NoLoad
        BY <4>1 DEF NoLoad
      <4> QED BY <4>1, <4>2 DEF FoundInv
    <3> QED BY <2>1, <3>1, <3>2 DEF Loader
  <2>2. CASE \E c \in Cusnos : retrieve_cusno(c)
    BY <2>2 DEF retrieve_cusno, loaderVars
  <2>3. CASE Answer
    BY <2>3 DEF Answer, NoLookup
  <2>4. CASE Search \/ Settle \/ Rival \/ UNCHANGED batchVars
    <3>1. UNCHANGED <<loader, overlap>>
      BY <2>4 DEF Search, Settle, Rival, RivalAsks, RivalStores, loaderVars, batchVars
    <3>2. get.pc = "idle" => get'.pc = "idle"
      BY <1>2, <2>4, LookupGoesOn DEF Rival, RivalAsks, RivalStores, batchVars
    <3> QED BY <3>1, <3>2 DEF FoundInv
  <2> QED BY <2>1, <2>2, <2>3, <2>4 DEF BatchNext, Get
<1>4. SUFFICES ASSUME get'.pc # "idle", Findable'
               PROVE  Finding'
  BY <1>1, <1>3 DEF FoundInv
<1>5. CASE Loader
  <2>1. get' = get
    BY <1>5 DEF Loader, StartLoad, StartRework, Begin, CopyObject, PublishBackup,
                PutObject, Publish
  <2> QED BY <1>4, <1>5, <2>1, LoaderFinds
<1>6. CASE Search \/ Settle
  <2>1. get'.cusno = get.cusno /\ get.pc # "idle" /\ (Works \/ Breaks)
    BY <1>2, <1>6, LookupGoesOn
  <2>2. /\ UNCHANGED <<loaderVars, overlap, replaced>>
        /\ key # None => key' = key
    <3>1. CASE Search
      BY <3>1 DEF Search, podVars
    <3>2. CASE Settle
      BY <3>2, HeldKeyStays DEF Settle, Match, Scan, Decrypt, DecryptField
    <3> QED BY <1>6, <3>1, <3>2
  <2>3. Findable /\ ~Breaks /\ \A g \in 1 .. loads : key' \in {None, KeyOf(g)}
    BY <1>2, <1>4, <2>1, <2>2, FindableBefore
  <2>4. CASE Search
    BY <2>2, <2>3, <2>4, ChoosingFinds, ReadingFinds DEF Search
  <2>5. CASE Settle
    BY <2>3, <2>5, SettlingFinds
  <2> QED BY <1>6, <2>4, <2>5
<1>7. CASE Rival \/ UNCHANGED batchVars
  <2>1. UNCHANGED <<loaderVars, overlap, errors, get>>
    BY <1>7 DEF Rival, RivalAsks, RivalStores, batchVars, loaderVars
  <2>2. replaced' = FALSE => replaced = FALSE /\ (key # None => key' = key)
    <3>1. get # NoLookup
      BY <1>4, <2>1 DEF NoLookup
    <3>2. CASE RivalAsks \/ UNCHANGED batchVars
      BY <3>2 DEF RivalAsks, batchVars, podVars
    <3>3. CASE RivalStores
      BY <1>2, <3>1, <3>3 DEF RivalStores, BatchInv, BatchTypeOK
    <3> QED BY <1>7, <3>2, <3>3 DEF Rival
  <2>3. Findable
    BY <1>2, <1>4, <2>1, <2>2, FindableBefore
  <2>4. Finding
    BY <1>4, <2>1, <2>3 DEF FoundInv
  <2>5. /\ UNCHANGED <<get, minio, pointer, loader, loads, published, objects, overlap>>
        /\ \A d, g : Store(d, g)' = Store(d, g)
        /\ \A g : Complete(g)' = Complete(g)
    BY <2>1 DEF loaderVars, Store, Empty, Complete
  <2>6. /\ Here' = Here /\ (Calm' <=> Calm) /\ (Missed' <=> Missed)
        /\ Stocked(Here)' <=> Stocked(Here)
        /\ Uniform(Here)' <=> Uniform(Here)
        /\ NumberedDir(Here)' <=> NumberedDir(Here)
        /\ (Numbered(get.doc.load))' <=> Numbered(get.doc.load)
    BY <2>5 DEF Here, Calm, Missed, Stocked, Uniform, NumberedDir, Numbered, Ciphers
  <2> QED BY <2>4, <2>5, <2>6 DEF Finding
<1>8. ASSUME NEW c \in Cusnos, retrieve_cusno(c)
      PROVE  Finding'
  <2>1. get'.pc = "pointer" /\ get'.dir = Latest /\ ~get'.fall
    BY <1>8 DEF retrieve_cusno, NoLookup
  <2> QED BY <2>1 DEF Finding, Choosing, Ranges, Unverified, Verified
<1>9. CASE Answer
  BY <1>4, <1>9 DEF Answer, NoLookup
<1> QED BY <1>5, <1>6, <1>7, <1>8, <1>9 DEF BatchNext, Get

\* A customer of every load is found by a lookup that meets no more than one
\* load in progress, wherever the two are when they meet: for any number of
\* customers, dates and loads, any layout that can be read and any contents of
\* the loads.
THEOREM NobodyIsHidden == BatchSpec => []ReloadsHideNobody
<1>1. BatchInit => FoundInv
  <2>1. BatchInit => get.pc = "idle"
    BY DEF BatchInit, NoLookup
  <2> QED BY <2>1, BatchAssumption, Initially, StoreInitially, StockInitially
          DEF FoundInv, StoredInv
<1>2. FoundInv /\ [BatchNext]_batchVars => FoundInv'
  BY FoundNext
<1>3. FoundInv => ReloadsHideNobody
  BY DEF FoundInv, Findable, Finding, Verified, ReloadsHideNobody
<1> QED BY <1>1, <1>2, <1>3, PTL DEF BatchSpec
=============================================================================
