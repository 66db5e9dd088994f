------------------------------ MODULE Manifest ------------------------------
(***************************************************************************)
(* The File and Path objects of a package manifest, src/src/apk_adb.c:     *)
(* schema_file and schema_path with their get_default_int, built with the  *)
(* object builder of the ADB core (spec section 4.5; adb.c is not part of   *)
(* src/): set a field to a handle, or from text through the field's scalar  *)
(* fromstring, then commit, which sorts the entries by field index, drops  *)
(* those equal to the field's default and interns the vector in the        *)
(* database's object pool.                                                 *)
(***************************************************************************)
EXTENDS Integers, Sequences, SequencesExt, FiniteSets

CONSTANTS
    SetTexts,   \* texts given to set-from-text, as sequences of characters
    MaxSets,    \* sets per object
    MaxObjs     \* objects committed

Kinds == {"file", "path"}

\* The ADB_FIELD rows of schema_file (lines 403-416) and schema_path (lines
\* 437-450), in field-index order, and each field's scalar schema.
FileFields == <<"name", "hash", "uid", "gid", "mode", "xattr">>
PathFields == <<"name", "files", "uid", "gid", "mode", "xattr">>
FieldsOf == [file |-> FileFields, path |-> PathFields]
Fields == Range(FieldsOf.file) \cup Range(FieldsOf.path)
ScalarOf == [name |-> "string", hash |-> "hexblob", files |-> "array",
             uid |-> "int", gid |-> "int", mode |-> "oct", xattr |-> "hexblob"]
IndexOf(k, f) == SelectInSeq(FieldsOf[k], LAMBDA g : g = f)

\* A handle, by its kind tag: an int's value n or a blob's bytes b.
H(t, n, b) == [t |-> t, n |-> n, b |-> b]
IntH(n)  == H("int", n, <<>>)
BlobH(b) == H("blob", 0, b)
Null   == H("null", 0, <<>>)     \* ADB_VAL_NULL: the field was not set
Absent == H("absent", 0, <<>>)   \* what an unset field without a default reads as
Err    == H("error", 0, <<>>)    \* an ADB_ERROR handle
ErrH   == 0                      \* commit's ERROR handle (pool indexes start at 1)

(***************************************************************************)
(* file_get_default_int (lines 386-396) and path_get_default_int (lines    *)
(* 425-435): uid and gid default to 0, mode to 0644 for a file and 0755   *)
(* for a path.  The -1 of any other field is not an int a field holds: the *)
(* other fields are blobs and arrays, which have no default.               *)
(***************************************************************************)
file_get_default_int(f) ==
    CASE f \in {"uid", "gid"} -> IntH(0)
    []   f = "mode"           -> IntH(420)
    []   OTHER                -> Absent

path_get_default_int_filemode(f) == file_get_default_int(f)

path_get_default_int(f) ==
    CASE f \in {"uid", "gid"} -> IntH(0)
    []   f = "mode"           -> IntH(493)
    []   OTHER                -> Absent

DefaultOf(k, f) == IF k = "file" THEN file_get_default_int(f) ELSE path_get_default_int(f)

(***************************************************************************)
(* The scalars' fromstring (lines 88-91, 98-103, 149-152, 159-164, 175-190):*)
(* a string is stored as the blob of its bytes; an int is the value of its *)
(* decimal digits (the texts are too short to reach uint32_t's wrap), and *)
(* any byte left after them is EINVAL; hexblob, oct                        *)
(* and the files array have no fromstring, so their text is not            *)
(* convertible (an ERROR handle).                                          *)
(***************************************************************************)
Digits == <<"0", "1", "2", "3", "4", "5", "6", "7", "8", "9">>
DigitVal(c) == SelectInSeq(Digits, LAMBDA d : d = c) - 1

int_fromstring_nolen(t) ==
    LET lead == SelectInSeq(t, LAMBDA c : c \notin Range(Digits))
        ds   == IF lead = 0 THEN t ELSE SubSeq(t, 1, lead - 1)
    IN IntH(FoldLeft(LAMBDA n, c : 10 * n + DigitVal(c), 0, ds))

int_fromstring(t) ==
    IF \A i \in DOMAIN t : t[i] \in Range(Digits)
    THEN IntH(FoldLeft(LAMBDA n, c : 10 * n + DigitVal(c), 0, t))
    ELSE Err

string_fromstring(t) == BlobH(t)

FromString(f, t) ==
    CASE ScalarOf[f] = "string" -> string_fromstring(t)
    []   ScalarOf[f] = "int"    -> int_fromstring(t)
    []   OTHER                  -> Err

\* Handles a caller may set directly: blobs, an array and ints of each field.
HandleVals == [name |-> {BlobH(<<"a">>)}, hash |-> {BlobH(<<"h">>)},
               files |-> {H("array", 1, <<>>)}, uid |-> {IntH(0), IntH(1)},
               gid |-> {IntH(0)}, mode |-> {IntH(420), IntH(493)}, xattr |-> {}]

VARIABLES
    isOpen,     \* a builder is open
    kind,       \* the schema of the builder last opened
    entries,    \* entries[f]: the handle set for field f, or Null
    berr,       \* the builder has received an ERROR handle
    nsets,      \* sets made on the open builder
    pool,       \* the object pool: the committed field vectors
    results,    \* the handles commit returned: [kind, h], h a pool index or ErrH
    texts,      \* texts[f]: the text field f was last set from, or NoText
    fromText    \* history: texts of each committed object, in commit order

vars == <<isOpen, kind, entries, berr, nsets, pool, results, texts, fromText>>

NoEntries == [f \in Fields |-> Null]
NoText == <<"none">>    \* not a text of SetTexts: the field was not set from text
NoTexts == [f \in Fields |-> NoText]

\* What the builder's object reads as: a set field its handle, another its default.
Logical(k, e) == [f \in Fields |-> IF e[f] = Null THEN DefaultOf(k, f) ELSE e[f]]

Init ==
    /\ isOpen = FALSE
    /\ kind = "file"
    /\ entries = NoEntries
    /\ berr = FALSE
    /\ nsets = 0
    /\ pool = <<>>
    /\ results = <<>>
    /\ texts = NoTexts
    /\ fromText = <<>>

\* open(schema): a builder with no entries.
Open(k) ==
    /\ ~isOpen /\ Len(results) < MaxObjs
    /\ isOpen' = TRUE
    /\ kind' = k
    /\ entries' = NoEntries
    /\ berr' = FALSE
    /\ nsets' = 0
    /\ texts' = NoTexts
    /\ UNCHANGED <<pool, results, fromText>>

\* set(field-index, handle): last write wins; an ERROR handle is remembered.
Put(f, v, t) ==
    /\ isOpen /\ nsets < MaxSets
    /\ f \in Range(FieldsOf[kind])
    /\ entries' = [entries EXCEPT ![f] = v]
    /\ berr' = (berr \/ v = Err)
    /\ nsets' = nsets + 1
    /\ texts' = [texts EXCEPT ![f] = t]
    /\ UNCHANGED <<isOpen, kind, pool, results, fromText>>

SetVal(f, v) == Put(f, v, NoText)

\* set-from-text(field-index, bytes): the field's scalar fromstring.
SetText(f, t) == Put(f, FromString(f, t), t)

(***************************************************************************)
(* commit: the (field-index, handle) pairs in field-index order, without   *)
(* the unset fields and those equal to the default; interned, so an equal  *)
(* vector already in the pool gives its handle.  A builder that received  *)
(* an ERROR handle commits to an ERROR handle.  The builder is then done   *)
(* with; it is kept empty until the next open.                             *)
(***************************************************************************)
Vector(k, e) ==
    LET kept == SelectSeq(FieldsOf[k], LAMBDA f : e[f] # Null /\ e[f] # DefaultOf(k, f))
    IN [i \in DOMAIN kept |-> <<IndexOf(k, kept[i]), e[kept[i]]>>]

Commit_InternErr ==
    /\ isOpen
    /\ LET vec == Vector(kind, entries)
           p1  == IF vec \in Range(pool) THEN pool ELSE Append(pool, vec)
       IN /\ pool' = p1
          /\ results' = Append(results,
                 [kind |-> kind, h |-> SelectInSeq(p1, LAMBDA x : x = vec)])
    /\ fromText' = Append(fromText, texts)
    /\ texts' = NoTexts
    /\ isOpen' = FALSE
    /\ entries' = NoEntries
    /\ berr' = FALSE
    /\ nsets' = 0
    /\ UNCHANGED kind

Commit ==
    /\ isOpen
    /\ LET vec == Vector(kind, entries)
           p1  == IF vec \in Range(pool) THEN pool ELSE Append(pool, vec)
       IN /\ pool' = IF berr THEN pool ELSE p1
          /\ results' = Append(results,
                 [kind |-> kind,
                  h |-> IF berr THEN ErrH ELSE SelectInSeq(p1, LAMBDA x : x = vec)])
    /\ fromText' = Append(fromText, texts)
    /\ texts' = NoTexts
    /\ isOpen' = FALSE
    /\ entries' = NoEntries
    /\ berr' = FALSE
    /\ nsets' = 0
    /\ UNCHANGED kind

Next ==
    \/ \E k \in Kinds : Open(k)
    \/ \E f \in Fields : \E v \in HandleVals[f] : SetVal(f, v)
    \/ \E f \in Fields, t \in SetTexts : SetText(f, t)
    \/ Commit

Spec == Init /\ [][Next]_vars

-----------------------------------------------------------------------------
Vals == UNION {HandleVals[f] : f \in Fields} \cup {FromString(f, t) : f \in Fields, t \in SetTexts}
        \cup {Absent, IntH(0), IntH(420), IntH(493)}
Handle == [kind : Kinds, h : Nat]

TypeOK ==
    /\ isOpen \in BOOLEAN /\ kind \in Kinds
    /\ entries \in [Fields -> Vals \cup {Null}]
    /\ berr \in BOOLEAN /\ nsets \in 0..MaxSets
    /\ \A i \in DOMAIN pool : \A j \in DOMAIN pool[i] : pool[i][j][2] \notin {Null, Err}
    /\ results \in Seq(Handle) /\ Len(results) <= MaxObjs
    /\ \A i \in DOMAIN results : results[i].h # ErrH => results[i].h \in DOMAIN pool
    /\ texts \in [Fields -> SetTexts \cup {NoText}] /\ Len(fromText) = Len(results)

\* The reference reading of a text: the decimal numeral of n, no leading zeros.
RECURSIVE Decimal(_)
Decimal(n) == IF n < 10 THEN <<Digits[n + 1]>> ELSE Decimal(n \div 10) \o <<Digits[(n % 10) + 1]>>

\* What a field set from text t must hold: an int field the number t is the
\* numeral of, a string field the bytes of t; no other scalar converts text.
TextStored(f, t) ==
    CASE ScalarOf[f] = "int"    -> {IntH(n) : n \in {m \in 0..10^Len(t) - 1 : Decimal(m) = t}}
    []   ScalarOf[f] = "string" -> {BlobH(t)}
    []   OTHER                  -> {}

\* What a committed handle reads as, through the schema it was built with.
ReadBack(r) ==
    IF r.h = ErrH THEN [f \in Fields |-> Err]
    ELSE LET vec == pool[r.h]
             at(f) == {j \in DOMAIN vec : vec[j][1] = IndexOf(r.kind, f)}
         IN [f \in Fields |-> IF at(f) = {} THEN DefaultOf(r.kind, f)
                              ELSE vec[CHOOSE j \in at(f) : TRUE][2]]

(***************************************************************************)
(* TextSetsHonoured (spec section 4.5: set-from-text converts through the *)
(* field's scalar fromstring, and an ERROR handle makes the commit ERROR): *)
(* an object committed without error reads back, for every field it last  *)
(* set from a text, the value that text denotes.  A text int_fromstring    *)
(* cannot read whole (line 162), or a field with no fromstring, must make  *)
(* the commit fail rather than store a value, which may also be dropped    *)
(* as the field's default on the way.                                      *)
(***************************************************************************)
TextSetsHonoured ==
    \A i \in DOMAIN results : results[i].h # ErrH =>
        \A f \in Fields : fromText[i][f] # NoText =>
            ReadBack(results[i])[f] \in TextStored(f, fromText[i][f])

(***************************************************************************)
(* Refinement: the builder implements AdbObject.  Its content is what the  *)
(* entries read as through get_default_int, and a committed object is what *)
(* its interned vector reads back as; the spec's defaults are the table of *)
(* section 3 (File mode 0644, Path mode 0755, uid and gid 0).              *)
(***************************************************************************)
SpecDefaults == [k \in Kinds |-> [f \in Fields |->
                   CASE f \in {"uid", "gid"}  -> IntH(0)
                   []   f = "mode"            -> IntH(IF k = "file" THEN 420 ELSE 493)
                   []   OTHER                 -> Absent]]

Abstract == INSTANCE AdbObject WITH
    Vals <- Vals, SpecDefault <- SpecDefaults,
    open <- IF isOpen THEN kind ELSE "none",
    cur <- Logical(kind, entries),
    bad <- berr,
    done <- [i \in DOMAIN results |->
                [kind |-> results[i].kind, content |-> ReadBack(results[i])]]

\* ImplementsAdbObject: every behaviour of the builder is one AdbObject allows.
ImplementsAdbObject == Abstract!Spec
=============================================================================
