------------------------------ MODULE AdbObject ------------------------------
(***************************************************************************)
(* What an ADB object builder promises (spec sections 3, 4.5 and 8): a     *)
(* builder opened on an object schema reads every field as the schema's    *)
(* default until it is set; set is last-write-wins; commit yields the      *)
(* object's logical content, or an error when the builder ever received an *)
(* ERROR handle (invariant 6, error stickiness).  Nothing here is about    *)
(* how the content is stored: that is the concrete module's business.     *)
(***************************************************************************)
EXTENDS Naturals, Sequences

CONSTANTS
    Kinds,          \* the object schemas
    Fields,         \* the field names of every schema
    Vals,           \* the values a field can hold
    Err,            \* an ERROR handle
    SpecDefault,    \* SpecDefault[k][f]: what an unset field of a k object reads as
    MaxObjs         \* objects committed

None == "none"

VARIABLES
    open,       \* the schema of the open builder, or None
    cur,        \* the builder's content, field by field
    bad,        \* the builder has received an ERROR handle
    done        \* the objects committed so far: [kind, content]; an error reads Err everywhere

vars == <<open, cur, bad, done>>

Init ==
    /\ open = None
    /\ cur \in {SpecDefault[k] : k \in Kinds}
    /\ bad = FALSE
    /\ done = <<>>

Open(k) ==
    /\ open = None /\ Len(done) < MaxObjs
    /\ open' = k
    /\ cur' = SpecDefault[k]
    /\ bad' = FALSE
    /\ UNCHANGED done

\* set(field-index, handle): last write wins; an ERROR handle is remembered.
Set(f, v) ==
    /\ open # None
    /\ cur' = [cur EXCEPT ![f] = v]
    /\ bad' = (bad \/ v = Err)
    /\ UNCHANGED <<open, done>>

Commit ==
    /\ open # None
    /\ done' = Append(done, [kind |-> open, content |-> IF bad THEN [f \in Fields |-> Err] ELSE cur])
    /\ open' = None
    /\ cur' = SpecDefault[open]
    /\ bad' = FALSE

Next ==
    \/ \E k \in Kinds : Open(k)
    \/ \E f \in Fields, v \in Vals \cup {Err} : Set(f, v)
    \/ Commit

Spec == Init /\ [][Next]_vars
=============================================================================
