----------------------------- MODULE AdbScalars -----------------------------
(***************************************************************************)
(* Two table-driven conversions of src/src/apk_adb.c, checked over every   *)
(* input in their bounds: adb_pkg_field_index, the one-letter field codes  *)
(* of the legacy index format, and hexblob_tostring, which renders a blob  *)
(* as hex into a caller's buffer or, when the hex does not fit, as         *)
(* "(N bytes)".                                                            *)
(***************************************************************************)
EXTENDS Integers, Sequences, FiniteSets

CONSTANTS
    MaxBlob,    \* longest blob rendered
    MaxBuf      \* largest buffer size

\* A char is signed: its code is in -128..127.  'A' is 65.
Chars == -128..127
A == 65

\* The ADBI_PI_* indices (apk_adb.h); 0 is "no field".
PkgInfoFields == {"UNIQUE_ID", "NAME", "VERSION", "DESCRIPTION", "URL",
                  "INSTALLED_SIZE", "FILE_SIZE", "LICENSE", "ARCH", "DEPENDS",
                  "INSTALL_IF", "PROVIDES", "ORIGIN", "MAINTAINER", "BUILD_TIME",
                  "REPO_COMMIT", "REPLACES", "PRIORITY"}
NoField == "NONE"    \* index 0
\* What reading map[] past its end yields: some byte that is not 0.
Garbage == "GARBAGE"

(***************************************************************************)
(* The map[] of adb_pkg_field_index, lines 57-76, as code -> index.  Its    *)
(* size is one past the highest code used, 't' - 'A' + 1 = 52; the codes   *)
(* with no MAP() entry hold 0.                                             *)
(***************************************************************************)
Code(c) == CASE c = "C" -> 67 [] c = "P" -> 80 [] c = "V" -> 86 [] c = "T" -> 84
           []   c = "U" -> 85 [] c = "I" -> 73 [] c = "S" -> 83 [] c = "L" -> 76
           []   c = "A" -> 65 [] c = "D" -> 68 [] c = "i" -> 105 [] c = "p" -> 112
           []   c = "o" -> 111 [] c = "m" -> 109 [] c = "t" -> 116 [] c = "c" -> 99
           []   c = "r" -> 114 [] c = "k" -> 107
MapEntries_Typo ==
    [C |-> "UNIQUE_ID", P |-> "NAME", V |-> "VERSION", T |-> "DESCRIPTION",
     U |-> "URL", I |-> "INSTALL_IF", S |-> "FILE_SIZE", L |-> "LICENSE",
     A |-> "ARCH", D |-> "DEPENDS", i |-> "INSTALLED_SIZE", p |-> "PROVIDES",
     o |-> "ORIGIN", m |-> "MAINTAINER", t |-> "BUILD_TIME", c |-> "REPO_COMMIT",
     r |-> "REPLACES", k |-> "PRIORITY"]
MapEntries ==
    [C |-> "UNIQUE_ID", P |-> "NAME", V |-> "VERSION", T |-> "DESCRIPTION",
     U |-> "URL", I |-> "INSTALLED_SIZE", S |-> "FILE_SIZE", L |-> "LICENSE",
     A |-> "ARCH", D |-> "DEPENDS", i |-> "INSTALL_IF", p |-> "PROVIDES",
     o |-> "ORIGIN", m |-> "MAINTAINER", t |-> "BUILD_TIME", c |-> "REPO_COMMIT",
     r |-> "REPLACES", k |-> "PRIORITY"]
MapSize == Code("t") - A + 1     \* 't' is the highest code in map[]
MapAt(k) ==
    IF \E c \in DOMAIN MapEntries : Code(c) - A = k
    THEN MapEntries[CHOOSE c \in DOMAIN MapEntries : Code(c) - A = k]
    ELSE IF k < MapSize THEN NoField ELSE Garbage

\* adb_pkg_field_index, lines 54-79: codes outside map[] give 0.
adb_pkg_field_index(f) == IF f < A \/ f - A >= MapSize THEN NoField ELSE MapAt(f - A)

NullBlob == -1     \* APK_BLOB_NULL, as a blob length

(***************************************************************************)
(* apk_blob_push_hexdump (apk_blob.c): two hex digits per byte into the    *)
(* target; a target too short for them becomes APK_BLOB_NULL.  The result *)
(* is the room left, or NullBlob.                                          *)
(***************************************************************************)
PushHexdump(room, len) == IF room < 2 * len THEN NullBlob ELSE room - 2 * len

\* The length snprintf reports for "(%ld bytes)": the untruncated length.
Digits(n) == IF n < 10 THEN 1 ELSE IF n < 100 THEN 2 ELSE 3
BytesNoteLen(n) == 1 + Digits(n) + Len(" bytes)")

(***************************************************************************)
(* hexblob_tostring, lines 136-147: the rendered blob as [kind, len]: the  *)
(* hex digits (to.ptr - 1 is the last byte written), or the "(N bytes)"    *)
(* note with the length snprintf returned, or NULL for a NULL value.       *)
(***************************************************************************)
hexblob_tostring(len, bufsz) ==
    CASE len = NullBlob -> [kind |-> "null", len |-> 0]
    []   PushHexdump(bufsz, len) # NullBlob -> [kind |-> "hex", len |-> 2 * len]
    []   OTHER -> [kind |-> "note", len |-> BytesNoteLen(len)]

VARIABLES
    ch,         \* the field code looked up
    blen,       \* the length of the blob rendered (NullBlob for none)
    bufsz       \* the size of the buffer it is rendered into

vars == <<ch, blen, bufsz>>

Init ==
    /\ ch \in Chars
    /\ blen \in {NullBlob} \cup 0..MaxBlob
    /\ bufsz \in 1..MaxBuf

Next == UNCHANGED vars

Spec == Init /\ [][Next]_vars

Rendered == hexblob_tostring(blen, bufsz)

\* The inputs, and a field code maps to a pkginfo field or to none.
TypeOK ==
    /\ ch \in Chars /\ blen \in {NullBlob} \cup 0..MaxBlob /\ bufsz \in 1..MaxBuf
    /\ adb_pkg_field_index(ch) \in PkgInfoFields \cup {NoField}

-----------------------------------------------------------------------------
(***************************************************************************)
(* Properties                                                              *)
(***************************************************************************)

\* The spec's table of legacy field codes (section 4.3).
SpecCodes ==
    {<<"C", "UNIQUE_ID">>, <<"P", "NAME">>, <<"V", "VERSION">>,
     <<"T", "DESCRIPTION">>, <<"U", "URL">>, <<"I", "INSTALLED_SIZE">>,
     <<"S", "FILE_SIZE">>, <<"L", "LICENSE">>, <<"A", "ARCH">>,
     <<"D", "DEPENDS">>, <<"i", "INSTALL_IF">>, <<"p", "PROVIDES">>,
     <<"o", "ORIGIN">>, <<"m", "MAINTAINER">>, <<"t", "BUILD_TIME">>,
     <<"c", "REPO_COMMIT">>, <<"r", "REPLACES">>, <<"k", "PRIORITY">>}

(***************************************************************************)
(* FieldIndexMatchesSpec (spec section 4.3 and the scenario "'C' maps to   *)
(* UNIQUE_ID; unknown 'Z' maps to 0"): every char, negative ones and those *)
(* past the table included, maps as the spec's table says, or to 0.        *)
(***************************************************************************)
FieldIndexMatchesSpec ==
    adb_pkg_field_index(ch) =
        IF \E e \in SpecCodes : Code(e[1]) = ch
        THEN (CHOOSE e \in SpecCodes : Code(e[1]) = ch)[2]
        ELSE NoField

(***************************************************************************)
(* RenderFitsBuffer (tostring renders into buf of bufsz bytes; spec        *)
(* section 8: with a 3-byte target a 4-byte blob renders "(4 bytes)"):     *)
(* the blob hexblob_tostring returns lies inside the caller's buffer.     *)
(***************************************************************************)
RenderFitsBuffer == Rendered.len <= bufsz

=============================================================================
