------------------------------ MODULE PkgOrder ------------------------------
(***************************************************************************)
(* Package info objects of src/src/apk_adb.c and their order:              *)
(* adb_wo_pkginfo writes the unique-id from a checksum, scalar_int writes   *)
(* integers (build-time, sizes, priority) through adb_w_int, pkginfo_cmp    *)
(* orders by name, version and unique-id, and the package arrays are       *)
(* committed with adb_wa_sort.  int_compare is the comparator of every int  *)
(* field, also across two databases.                                       *)
(*                                                                         *)
(* A handle is a 32-bit word with a 4-bit tag and a 28-bit payload (spec    *)
(* section 4.1): an int that fits the payload is stored inline, a larger    *)
(* one goes into the database's content-addressed int32 pool.              *)
(***************************************************************************)
EXTENDS Integers, Sequences, SequencesExt, FiniteSets

CONSTANTS
    Dbs,        \* the databases being built
    Names,      \* package names, as a sequence in byte order
    Versions,   \* versions, as a sequence in version order
    Csums,      \* first 32-bit words of checksums; Short for one under 4 bytes
    IntVals,    \* 32-bit values of an int field (build-time)
    MaxPkgs     \* packages per database

ADB_VALUE_MASK == 2^28 - 1
Short == -1            \* a unique-id value shorter than 4 bytes

(***************************************************************************)
(* adb_w_int / adb_r_int (adb.c): the handle of an int, and its value when *)
(* read back through db's int32 pool.  A pool offset past the pool's end   *)
(* is rejected by the bounds check of the read, which then returns 0.      *)
(***************************************************************************)
PoolAfter(pool, v) ==
    IF v <= ADB_VALUE_MASK \/ v \in Range(pool) THEN pool ELSE Append(pool, v)
IntHandle(pool, v) ==
    IF v <= ADB_VALUE_MASK THEN [tag |-> "INT", val |-> v]
    ELSE [tag |-> "INT32", val |-> SelectInSeq(PoolAfter(pool, v), LAMBDA x : x = v)]
ReadInt(pool, h) ==
    CASE h.tag = "INT"                -> h.val
    []   h.val \in DOMAIN pool        -> pool[h.val]
    []   OTHER                        -> 0
NullInt == [tag |-> "NULL", val |-> 0]

\* int_compare, lines 166-173 (the second value is read through db1).
int_compare(pool1, v1, pool2, v2) ==
    LET r1 == ReadInt(pool1, v1)
        r2 == ReadInt(pool1, v2)
    IN CASE r1 < r2 -> -1 [] r1 > r2 -> 1 [] OTHER -> 0

\* string_compare and version_compare (lines 93-96, 119-126) over the
\* byte order of Names and the version order of Versions.
SeqCompare(s, x, y) ==
    LET i == SelectInSeq(s, LAMBDA e : e = x)
        j == SelectInSeq(s, LAMBDA e : e = y)
    IN CASE i < j -> -1 [] i > j -> 1 [] OTHER -> 0

(***************************************************************************)
(* pkginfo_cmp, lines 333-341: name, then version, then unique-id; a       *)
(* package is a record of its field values as written in pool.             *)
(***************************************************************************)
pkginfo_cmp_nouid(pool1, o1, pool2, o2) ==
    IF SeqCompare(Names, o1.name, o2.name) # 0 THEN SeqCompare(Names, o1.name, o2.name)
    ELSE SeqCompare(Versions, o1.version, o2.version)

pkginfo_cmp(pool1, o1, pool2, o2) ==
    CASE SeqCompare(Names, o1.name, o2.name) # 0 -> SeqCompare(Names, o1.name, o2.name)
    []   SeqCompare(Versions, o1.version, o2.version) # 0 ->
                SeqCompare(Versions, o1.version, o2.version)
    []   OTHER -> int_compare(pool1, o1.uid, pool2, o2.uid)

(***************************************************************************)
(* adb_wo_pkginfo, lines 28-52, for ADBI_PI_UNIQUE_ID: a value under 4     *)
(* bytes is an error and nothing is written; otherwise the checksum's      *)
(* first 32-bit word, masked with ADB_VALUE_MASK, is written as an int.    *)
(***************************************************************************)
adb_wo_pkginfo_nomask(pool, c) ==
    IF c = Short THEN NullInt ELSE [tag |-> "INT", val |-> c]
adb_wo_pkginfo(pool, c) ==
    IF c = Short THEN NullInt ELSE IntHandle(pool, c % (ADB_VALUE_MASK + 1))
UidPoolAfter(pool, c) ==
    IF c = Short THEN pool ELSE PoolAfter(pool, c % (ADB_VALUE_MASK + 1))

VARIABLES
    pool,       \* pool[d]: database d's int32 pool
    arr,        \* arr[d]: the package array of d, in append or committed order
    csum,       \* csum[d][i]: the checksum word the i-th package was given
    added,      \* added[d]: the packages as they were appended (history)
    committed   \* the databases whose array has been committed

vars == <<pool, arr, csum, added, committed>>

\* An inline int's payload fits the 28 bits below the tag.
Handle == [tag : {"INT", "NULL"}, val : 0..ADB_VALUE_MASK] \cup [tag : {"INT32"}, val : Nat]
PkgInfo == [name : Range(Names), version : Range(Versions), uid : Handle, btime : Handle]

TypeOK ==
    /\ pool \in [Dbs -> Seq(IntVals \cup (Csums \ {Short}))]
    /\ arr \in [Dbs -> Seq(PkgInfo)]
    /\ csum \in [Dbs -> Seq(Csums)]
    /\ \A d \in Dbs : Len(arr[d]) = Len(csum[d]) /\ Len(arr[d]) <= MaxPkgs
    /\ added \in [Dbs -> Seq(PkgInfo)]
    /\ committed \subseteq Dbs

Init ==
    /\ pool = [d \in Dbs |-> <<>>]
    /\ arr = [d \in Dbs |-> <<>>]
    /\ csum = [d \in Dbs |-> <<>>]
    /\ added = [d \in Dbs |-> <<>>]
    /\ committed = {}

(***************************************************************************)
(* A package info object is built in database d (name, version, the       *)
(* unique-id through adb_wo_pkginfo, build-time through int_fromstring,   *)
(* lines 159-164) and appended to d's package array.                       *)
(***************************************************************************)
AddPkg(d, n, v, c, t) ==
    /\ d \notin committed
    /\ Len(arr[d]) < MaxPkgs
    /\ LET p1 == UidPoolAfter(pool[d], c)
       IN /\ pool' = [pool EXCEPT ![d] = PoolAfter(p1, t)]
          /\ arr' = [arr EXCEPT ![d] = Append(@,
                        [name |-> n, version |-> v,
                         uid |-> adb_wo_pkginfo(pool[d], c),
                         btime |-> IntHandle(p1, t)])]
    /\ csum' = [csum EXCEPT ![d] = Append(@, c)]
    /\ added' = [added EXCEPT ![d] = Append(@, Last(arr'[d]))]
    /\ UNCHANGED committed

(***************************************************************************)
(* Commit of d's array (schema_pkginfo_array, lines 370-375): the        *)
(* pre-commit rule adb_wa_sort, a stable sort by the schema's compare,     *)
(* pkginfo_cmp (schema_package_adb_array, lines 497-502, sorts packages   *)
(* the same way through package_cmp).  The checksum record is permuted    *)
(* along with the packages.                                               *)
(***************************************************************************)
\* The stable insertion of element i of s into the sorted sequence acc.
Insert(acc, i, Less(_, _)) ==
    LET k == SelectInSeq(acc, LAMBDA j : Less(i, j))
    IN IF k = 0 THEN Append(acc, i) ELSE InsertAt(acc, k, i)
StableOrder(n, Less(_, _)) == FoldLeft(LAMBDA acc, i : Insert(acc, i, Less), <<>>, [i \in 1..n |-> i])

PreCommit(d) ==
    LET less(i, j) == pkginfo_cmp(pool[d], arr[d][i], pool[d], arr[d][j]) < 0
    IN StableOrder(Len(arr[d]), less)

Commit(d) ==
    /\ d \notin committed
    /\ arr' = [arr EXCEPT ![d] = [k \in DOMAIN PreCommit(d) |-> @[PreCommit(d)[k]]]]
    /\ csum' = [csum EXCEPT ![d] = [k \in DOMAIN PreCommit(d) |-> @[PreCommit(d)[k]]]]
    /\ committed' = committed \cup {d}
    /\ UNCHANGED <<pool, added>>

Next ==
    \/ \E d \in Dbs, n \in Range(Names), v \in Range(Versions), c \in Csums, t \in IntVals :
          AddPkg(d, n, v, c, t)
    \/ \E d \in Dbs : Commit(d)

Spec == Init /\ [][Next]_vars

-----------------------------------------------------------------------------
(***************************************************************************)
(* Properties                                                              *)
(***************************************************************************)

Sign(x) == CASE x < 0 -> -1 [] x > 0 -> 1 [] OTHER -> 0
\* The key a package is ordered by: name, version, unique-id value.
Key(d, p) == <<SelectInSeq(Names, LAMBDA e : e = p.name),
               SelectInSeq(Versions, LAMBDA e : e = p.version),
               ReadInt(pool[d], p.uid)>>
KeyLeq(a, b) == \/ a[1] < b[1]
                \/ a[1] = b[1] /\ a[2] < b[2]
                \/ a[1] = b[1] /\ a[2] = b[2] /\ a[3] <= b[3]

(***************************************************************************)
(* SortedByCascade (spec section 3: PkgInfo orders by name, then version,  *)
(* then unique-id): a committed package array is ordered by that key, read *)
(* through its own database.                                              *)
(***************************************************************************)
SortedByCascade ==
    \A d \in committed : \A i, j \in DOMAIN arr[d] :
        i < j => KeyLeq(Key(d, arr[d][i]), Key(d, arr[d][j]))

(***************************************************************************)
(* CompareAcrossDbs (spec section 9: comparators are pure functions of the *)
(* inputs and the databases they are given; section 3: compare is used for *)
(* cross-database equality): int_compare of two int fields of different    *)
(* databases has the sign of the difference of their values.              *)
(***************************************************************************)
CompareAcrossDbs ==
    \A d1, d2 \in Dbs : \A i \in DOMAIN arr[d1], j \in DOMAIN arr[d2] :
        LET a == arr[d1][i].btime  b == arr[d2][j].btime
        IN int_compare(pool[d1], a, pool[d2], b)
             = Sign(ReadInt(pool[d1], a) - ReadInt(pool[d2], b))

=============================================================================
