------------------------------ MODULE DepParse ------------------------------
(***************************************************************************)
(* The dependency expression converters of src/src/apk_adb.c:              *)
(* dependency_fromstring (text -> the fields of a Dependency object) and   *)
(* dependency_tostring (Dependency object -> text), with the schema's      *)
(* default for a missing match field.                                      *)
(*                                                                         *)
(* Text is a sequence of one-character strings over a small alphabet:     *)
(* the operator characters, '!', the repository tag separator '@', a name  *)
(* character "a" and a version digit "1".  A match mask is a set of flags. *)
(* The checked input is chosen in Init; nothing changes afterwards.        *)
(***************************************************************************)
EXTENDS Integers, Sequences, SequencesExt, FiniteSets

CONSTANTS
    Alphabet,   \* characters the input may contain
    MaxLen      \* longest input text

\* Match flags (apk_version.h; APK_VERSION_CONFLICT is defined at line 7).
LESS == "LESS"
EQUAL == "EQUAL"
GREATER == "GREATER"
FUZZY == "FUZZY"
CONFLICT == "CONFLICT"
DEPMASK_ANY      == {LESS, EQUAL, GREATER}
DEPMASK_CHECKSUM == {LESS, GREATER}

\* apk_spn_dependency_comparer and apk_spn_repotag_separator.
Comparer == {"<", ">", "~", "="}
RepoTagSep == {"@"}

NoBlob == <<"NULL">>    \* APK_BLOB_NULL (never a text of the alphabet)
NoMatch == {}           \* match field not written (no mask is empty)
Fail   == [ok |-> FALSE, name |-> <<>>, ver |-> NoBlob, match |-> NoMatch]
                        \* -EAPKDEPFORMAT

(***************************************************************************)
(* apk_blob_cspn / apk_blob_spn: split b at the first character that is   *)
(* (cspn) or is not (spn) in the set; TRUE when such a character exists.   *)
(***************************************************************************)
FirstIdx(b, Test(_)) == SelectInSeq(b, Test)
Cspn(b, S) ==
    LET i == FirstIdx(b, LAMBDA c : c \in S)
    IN IF i = 0 THEN [found |-> FALSE, l |-> b, r |-> <<>>]
       ELSE [found |-> TRUE, l |-> SubSeq(b, 1, i - 1), r |-> SubSeq(b, i, Len(b))]
Spn(b, S) ==
    LET i == FirstIdx(b, LAMBDA c : c \notin S)
    IN IF i = 0 THEN [found |-> FALSE, l |-> b, r |-> <<>>]
       ELSE [found |-> TRUE, l |-> SubSeq(b, 1, i - 1), r |-> SubSeq(b, i, Len(b))]

(***************************************************************************)
(* apk_version_validate (apk_version.c), over this alphabet: digits,        *)
(* optionally ended by one letter.                                          *)
(***************************************************************************)
VersionValid(v) ==
    /\ Len(v) >= 1 /\ v[1] = "1"
    /\ \A i \in 2..Len(v) : v[i] = "1" \/ (v[i] = "a" /\ i = Len(v))

\* The operator characters' flags (the switch of lines 252-267).
OpFlags(c) == CASE c = "<" -> {LESS}
              []   c = ">" -> {GREATER}
              []   c = "~" -> {FUZZY, EQUAL}
              []   c = "=" -> {EQUAL}
              []   OTHER   -> {}
MaskOf(op) == UNION {OpFlags(op[i]) : i \in DOMAIN op}

(***************************************************************************)
(* dependency_fromstring, lines 227-290.  The result is the fields it      *)
(* writes: name, version (NoBlob when not written) and match (NoMatch     *)
(* when not written), or Fail.  An empty text is read one byte past its   *)
(* end at line 237; that byte is the string's terminator, never '!'.       *)
(***************************************************************************)
dependency_fromstring_keeptag(bdep) ==
    LET bang  == Len(bdep) > 0 /\ bdep[1] = "!"
        b     == IF bang THEN Tail(bdep) ELSE bdep
        mask0 == IF bang THEN DEPMASK_ANY \cup {CONFLICT} ELSE DEPMASK_ANY
        c     == Cspn(b, Comparer)
        s     == Spn(c.r, Comparer)
        mask  == IF c.found THEN MaskOf(s.l) ELSE mask0
        bver  == IF c.found THEN s.r ELSE NoBlob
    IN IF c.found /\ (mask0 = {} \/ ~s.found
                      \/ (~(DEPMASK_CHECKSUM \subseteq mask) /\ ~VersionValid(bver)))
       THEN Fail
       ELSE [ok    |-> TRUE,
             name  |-> IF c.found THEN c.l ELSE b,
             ver   |-> IF mask # DEPMASK_ANY THEN bver ELSE NoBlob,
             match |-> IF mask # DEPMASK_ANY /\ mask # {EQUAL} THEN mask ELSE NoMatch]

dependency_fromstring(bdep) ==
    LET bang  == Len(bdep) > 0 /\ bdep[1] = "!"
        b     == IF bang THEN Tail(bdep) ELSE bdep
        mask0 == IF bang THEN DEPMASK_ANY \cup {CONFLICT} ELSE DEPMASK_ANY
        c     == Cspn(b, Comparer)
        s     == Spn(c.r, Comparer)
        mask  == IF c.found THEN MaskOf(s.l) ELSE mask0
        bname == IF c.found THEN c.l ELSE b
        bver  == IF c.found THEN s.r ELSE NoBlob
        name  == Cspn(bname, RepoTagSep).l
    IN IF c.found /\ (mask0 = {} \/ ~s.found
                      \/ (~(DEPMASK_CHECKSUM \subseteq mask) /\ ~VersionValid(bver)))
       THEN Fail
       ELSE [ok    |-> TRUE,
             name  |-> name,
             ver   |-> IF mask # DEPMASK_ANY THEN bver ELSE NoBlob,
             match |-> IF mask # DEPMASK_ANY /\ mask # {EQUAL} THEN mask ELSE NoMatch]

(***************************************************************************)
(* apk_version_op_string (apk_version.c): the operators listed in the      *)
(* comment of line 234; any other mask renders as "?".                     *)
(***************************************************************************)
OpString(m) == CASE m = {LESS}                 -> <<"<">>
                 [] m = {LESS, EQUAL}          -> <<"<", "=">>
                 [] m = {LESS, EQUAL, FUZZY}   -> <<"<", "~">>
                 [] m = {EQUAL}                -> <<"=">>
                 [] m = {EQUAL, FUZZY}         -> <<"~">>
                 [] m = {GREATER, EQUAL, FUZZY} -> <<">", "~">>
                 [] m = {GREATER, EQUAL}       -> <<">", "=">>
                 [] m = {GREATER}              -> <<">">>
                 [] m = DEPMASK_CHECKSUM       -> <<">", "<">>
                 [] OTHER                      -> <<"?">>

(***************************************************************************)
(* dependency_tostring, lines 207-225: no version renders the name alone;  *)
(* a missing match means EQUAL.                                            *)
(***************************************************************************)
dependency_tostring_nodefault(d) ==
    IF d.ver = NoBlob THEN d.name
    ELSE (IF CONFLICT \in d.match THEN <<"!">> ELSE <<>>)
         \o d.name \o OpString(d.match \ {CONFLICT}) \o d.ver

dependency_tostring(d) ==
    IF d.ver = NoBlob THEN d.name
    ELSE LET mask == IF d.match = NoMatch THEN {EQUAL} ELSE d.match
         IN (IF CONFLICT \in mask THEN <<"!">> ELSE <<>>)
            \o d.name \o OpString(mask \ {CONFLICT}) \o d.ver

-----------------------------------------------------------------------------
VARIABLE text

Texts == BoundedSeq(Alphabet, MaxLen)

Init == text \in Texts
Next == UNCHANGED text
Spec == Init /\ [][Next]_text

Parsed == dependency_fromstring(text)

\* The type of a text and of what dependency_fromstring makes of it: a name
\* never holds an operator or the tag separator, a version is text or absent.
TypeOK ==
    /\ text \in Texts
    /\ Parsed.ok \in BOOLEAN
    /\ Parsed.name \in Seq(Alphabet \ (Comparer \cup RepoTagSep))
    /\ Parsed.ver \in Seq(Alphabet) \cup {NoBlob}
    /\ Parsed.match \subseteq {LESS, EQUAL, GREATER, FUZZY, CONFLICT}

(***************************************************************************)
(* Properties                                                              *)
(***************************************************************************)

\* A text in the canonical form dependency_tostring produces: a name, then
\* optionally one of the operators of line 234 and a valid version.
Canonical(t) ==
    \E i \in 1..Len(t) + 1 :
        LET name == SubSeq(t, 1, i - 1)  rest == SubSeq(t, i, Len(t))
        IN /\ name # <<>> /\ \A j \in DOMAIN name : name[j] = "a"
           /\ \/ rest = <<>>
              \/ \E m \in SUBSET {LESS, EQUAL, GREATER, FUZZY} :
                    /\ OpString(m) # <<"?">> /\ m # DEPMASK_ANY
                    /\ Len(rest) > Len(OpString(m))
                    /\ SubSeq(rest, 1, Len(OpString(m))) = OpString(m)
                    /\ VersionValid(SubSeq(rest, Len(OpString(m)) + 1, Len(rest)))

(***************************************************************************)
(* RoundTrip (spec section 8, property 1): a canonical text parses, and    *)
(* rendering what was parsed gives the text back.  Exercises the mask      *)
(* built from the operator characters, the elision of an EQUAL match      *)
(* (line 283) and the EQUAL default when rendering (line 218).             *)
(***************************************************************************)
RoundTrip ==
    Canonical(text) => Parsed.ok /\ dependency_tostring(Parsed) = text

(***************************************************************************)
(* ConflictKept (spec section 8 scenario "!foo>=1.2.3-r4" yields           *)
(* CONFLICT|GREATER|EQUAL): a text with a leading '!' and an operator      *)
(* parses to a dependency whose match has the CONFLICT flag.               *)
(***************************************************************************)
ConflictKept ==
    Parsed.ok /\ text # <<>> /\ text[1] = "!" /\ Parsed.ver # NoBlob =>
        CONFLICT \in Parsed.match

=============================================================================
