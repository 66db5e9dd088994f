------------------------------ MODULE DepList ------------------------------
(***************************************************************************)
(* Dependency lists of src/src/apk_adb.c: dependencies_fromstring splits a *)
(* text with apk_dep_split and folds each element, parsed by               *)
(* dependency_fromstring (module DepParse), into the array being built;    *)
(* when the array is committed its pre-commit rule (schema_dependency_array*)
(* selects adb_wa_sort_unique) orders the elements by dependency_cmp, the  *)
(* name, and collapses equal ones.                                         *)
(*                                                                         *)
(* The loop of dependencies_fromstring is one step per element; the commit *)
(* done by the ADB core afterwards is one more step.                       *)
(***************************************************************************)
EXTENDS Integers, Sequences, SequencesExt, FiniteSets

CONSTANTS
    Alphabet,   \* characters a list text may contain
    MaxLen      \* longest list text

LOCAL D == INSTANCE DepParse WITH text <- <<>>

\* apk_spn_dependency_separator (apk_blob.c): whitespace and commas.
Separator == {" ", ","}

\* Byte order of the characters that can occur, for apk_blob_sort.
CharOrder == <<" ", "!", ",", "1", "<", "=", ">", "@", "a", "b", "~">>
Ord(c) == SelectInSeq(CharOrder, LAMBDA x : x = c)

(***************************************************************************)
(* apk_blob_sort (apk_blob.c): memcmp over the common length, then the     *)
(* shorter blob first.  BlobLess is its "< 0".                             *)
(***************************************************************************)
BlobLess(x, y) ==
    \/ /\ Len(x) < Len(y)
       /\ \A i \in 1..Len(x) : x[i] = y[i]
    \/ \E i \in 1..Min({Len(x), Len(y)}) :
          /\ \A j \in 1..i - 1 : x[j] = y[j]
          /\ Ord(x[i]) < Ord(y[i])

(***************************************************************************)
(* apk_dep_split, lines 11-26: a NULL blob ends the list; otherwise the    *)
(* element runs up to the first separator and the rest starts after the   *)
(* run of separators (NULL when only separators follow); with no separator *)
(* the whole blob is the last element.                                     *)
(***************************************************************************)
apk_dep_split_droplast(b) ==
    LET c == D!Cspn(b, Separator)
        s == D!Spn(c.r, Separator)
    IN IF b = D!NoBlob \/ ~c.found THEN [more |-> FALSE]
       ELSE [more |-> TRUE, bdep |-> c.l, rest |-> IF s.found THEN s.r ELSE D!NoBlob]

apk_dep_split(b) ==
    LET c == D!Cspn(b, Separator)
        s == D!Spn(c.r, Separator)
    IN CASE b = D!NoBlob -> [more |-> FALSE]
       []   c.found      -> [more |-> TRUE, bdep |-> c.l,
                             rest |-> IF s.found THEN s.r ELSE D!NoBlob]
       []   OTHER        -> [more |-> TRUE, bdep |-> b, rest |-> D!NoBlob]

(***************************************************************************)
(* The dependency object adb_wa_append_obj commits: the fields             *)
(* dependency_fromstring wrote.  On -EAPKDEPFORMAT it wrote none, so the   *)
(* element is an object with no name.                                      *)
(***************************************************************************)
Committed(r) == IF r.ok THEN [name |-> r.name, ver |-> r.ver, match |-> r.match]
                ELSE [name |-> <<>>, ver |-> D!NoBlob, match |-> D!NoMatch]

VARIABLES
    text,       \* the list text given to dependencies_fromstring
    rest,       \* b: the part not split yet, or NoBlob
    elems,      \* the array's elements, in append order
    ret,        \* dependencies_fromstring's result (NotReturned while running)
    phase       \* "split", "returned", "committed"

vars == <<text, rest, elems, ret, phase>>

NotReturned == -1

Texts == BoundedSeq(Alphabet, MaxLen)
Dep == [name : Seq(Alphabet), ver : Seq(Alphabet) \cup {D!NoBlob},
        match : SUBSET {D!LESS, D!EQUAL, D!GREATER, D!FUZZY, D!CONFLICT}]

TypeOK ==
    /\ text \in Texts
    /\ rest \in Texts \cup {D!NoBlob}
    /\ elems \in Seq(Dep) /\ Len(elems) <= MaxLen + 1
    /\ ret \in {NotReturned, 0}
    /\ phase \in {"split", "returned", "committed"}

Init ==
    /\ text \in Texts
    /\ rest = text
    /\ elems = <<>>
    /\ ret = NotReturned
    /\ phase = "split"

SplitStep_NoAdvance ==
    /\ phase = "split"
    /\ apk_dep_split(rest).more
    /\ elems' = Append(elems, Committed(D!dependency_fromstring(apk_dep_split(rest).bdep)))
    /\ UNCHANGED <<text, rest, ret, phase>>

SplitStep_SkipFailed ==
    /\ phase = "split"
    /\ apk_dep_split(rest).more
    /\ rest' = apk_dep_split(rest).rest
    /\ elems' = IF D!dependency_fromstring(apk_dep_split(rest).bdep).ok
                THEN Append(elems, Committed(D!dependency_fromstring(apk_dep_split(rest).bdep)))
                ELSE elems
    /\ UNCHANGED <<text, ret, phase>>

\* One iteration of the loop of dependencies_fromstring (lines 317-320);
\* the result of adb_wo_fromstring is not looked at.
SplitStep ==
    /\ phase = "split"
    /\ apk_dep_split(rest).more
    /\ rest' = apk_dep_split(rest).rest
    /\ elems' = Append(elems, Committed(D!dependency_fromstring(apk_dep_split(rest).bdep)))
    /\ UNCHANGED <<text, ret, phase>>

\* The loop ends and dependencies_fromstring returns 0 (line 322).
dependencies_fromstring ==
    /\ phase = "split"
    /\ ~apk_dep_split(rest).more
    /\ ret' = 0
    /\ phase' = "returned"
    /\ UNCHANGED <<text, rest, elems>>

(***************************************************************************)
(* The pre-commit rules of adb.c (spec section 4.3): sort is a stable sort *)
(* by the element compare; sort_unique then keeps the first of each run   *)
(* of elements that compare equal.  dependency_cmp (lines 292-295)        *)
(* compares the names only.                                                *)
(***************************************************************************)
SortedNames(s) == SetToSortSeq({s[i].name : i \in DOMAIN s}, BlobLess)
FirstNamed(s, n) == s[SelectInSeq(s, LAMBDA e : e.name = n)]
adb_wa_sort_unique(s) == [i \in DOMAIN SortedNames(s) |-> FirstNamed(s, SortedNames(s)[i])]
adb_wa_sort(s) ==
    LET names == SortedNames(s)
        run(n) == SelectSeq(s, LAMBDA e : e.name = n)
    IN FoldLeft(LAMBDA acc, n : acc \o run(n), <<>>, names)

\* schema_dependency_array, lines 325-331: its pre_commit hook.
PreCommit(s) == adb_wa_sort_unique(s)

\* The ADB core commits the array: the pre-commit rule runs once.
Commit ==
    /\ phase = "returned"
    /\ elems' = PreCommit(elems)
    /\ phase' = "committed"
    /\ UNCHANGED <<text, rest, ret>>

Next == SplitStep \/ dependencies_fromstring \/ Commit

Spec == Init /\ [][Next]_vars

-----------------------------------------------------------------------------
(***************************************************************************)
(* Properties                                                              *)
(***************************************************************************)

\* Reference split: the maximal runs of characters that are not separators.
Tokens(t) ==
    { SubSeq(t, i, j) :
        <<i, j>> \in { p \in (1..Len(t)) \X (1..Len(t)) :
                        /\ p[1] <= p[2]
                        /\ \A k \in p[1]..p[2] : t[k] \notin Separator
                        /\ p[1] = 1 \/ t[p[1] - 1] \in Separator
                        /\ p[2] = Len(t) \/ t[p[2] + 1] \in Separator } }

PkgNamesOf(s) == {s[i].name : i \in DOMAIN s} \ {<<>>}

(***************************************************************************)
(* NamesKept (spec section 4.4: a list is split on any run of separators  *)
(* and every element folded in): the committed array names exactly the    *)
(* packages named by the elements of the text that parse.                 *)
(***************************************************************************)
NamesKept ==
    phase = "committed" =>
        PkgNamesOf(elems) = {D!dependency_fromstring(t).name :
                            t \in {u \in Tokens(text) : D!dependency_fromstring(u).ok}}
                       \ {<<>>}


(***************************************************************************)
(* FailedElementKept (spec section 4.4: a dependency that does not parse  *)
(* is a DEP-FORMAT error): dependencies_fromstring ignores the result of  *)
(* adb_wo_fromstring and returns 0 (lines 318-322), so a failure can only *)
(* be seen in the array, as the object with no name, version or match.    *)
(* The committed array holds that object exactly when some element of the *)
(* text failed to parse, or the split produced an empty element (an empty *)
(* text, or a leading separator, which apk_dep_split returns as an element*)
(* of length 0 and which commits to the same object), however many there  *)
(* were and wherever they stood, after sort-unique has run.               *)
(***************************************************************************)
Unparsed == [name |-> <<>>, ver |-> D!NoBlob, match |-> D!NoMatch]
EmptyElement(t) == t = <<>> \/ t[1] \in Separator

FailedElementKept ==
    phase = "committed" =>
        ((\E t \in Tokens(text) : ~D!dependency_fromstring(t).ok) \/ EmptyElement(text)
            <=> Unparsed \in Range(elems))

=============================================================================
