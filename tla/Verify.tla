------------------------------- MODULE Verify -------------------------------
(***************************************************************************)
(* verify_main (src/src/verify.c, lines 20-47) driving the multipart gzip  *)
(* stream of module Gunzip: for each file it opens a gunzip_mpart stream   *)
(* whose callback is the signature context, lets apk_tar_parse read it to  *)
(* the end, and counts the file as failed unless the context's two flags,  *)
(* control_verified and data_verified, are both set.                      *)
(*                                                                         *)
(* The signature context and apk_tar_parse are not part of src/; they are  *)
(* modelled from the spec (sections 4.6 and 6).  A signed package is three *)
(* gzip members: the signature, the control section and the data section. *)
(* The context digests the compressed bytes each callback reports and, at  *)
(* the BOUNDARY or END that closes a section, checks the digest: the      *)
(* control section against the signature, the data section against the   *)
(* hash the control section carries.  A member may have been tampered      *)
(* with, which no digest of it survives.                                   *)
(***************************************************************************)
EXTENDS Gunzip

CONSTANTS
    NFiles,         \* arguments given to verify_main
    Tamperings      \* sets of members (1 signature, 2 control, 3 data) altered in a file

EBADMSG == -74
ENOMEM  == -12

VARIABLES
    file,       \* the argument being verified (parg), NFiles + 1 once the loop is over
    tampered,   \* the members of this file that were altered
    rc,         \* verify_main's rc
    outcomes    \* history: per file, apk_tar_parse's result, ok, and whether it was intact

verifyVars == <<file, tampered, rc, outcomes>>
allVars == <<vars, verifyVars>>

(***************************************************************************)
(* The signature context (spec section 6).  The callbacks of one stream,   *)
(* log, report the compressed input in ranges; section n is closed by the *)
(* n-th BOUNDARY or END that carries a range, and its digest covers the    *)
(* bytes of every range reported since the previous close, in order.      *)
(***************************************************************************)
ClosesOf(log) == {i \in DOMAIN log : log[i].kind # "data" /\ log[i].arg # NullBlob}
CloseOf(log, n) == CHOOSE i \in ClosesOf(log) : Cardinality({j \in ClosesOf(log) : j <= i}) = n
Offsets(a) == [k \in 1..(a[2] - a[1]) |-> a[1] + k - 1]
Digested(log, n) ==
    LET from == IF n = 1 THEN 1 ELSE CloseOf(log, n - 1) + 1
        part == SelectSeq(SubSeq(log, from, CloseOf(log, n)), LAMBDA e : e.arg # NullBlob)
    IN FoldLeft(LAMBDA acc, e : acc \o Offsets(e.arg), <<>>, part)
MemberBytes(n) == Offsets(<<IF n = 1 THEN 0 ELSE Ends[n - 1], Ends[n]>>)

SectionIntact(log, n) ==
    /\ n <= Cardinality(ClosesOf(log)) /\ n <= Len(Ends)
    /\ n \notin tampered
    /\ Digested(log, n) = MemberBytes(n)

control_verified(log) == SectionIntact(log, 1) /\ SectionIntact(log, 2)
data_verified(log) == control_verified(log) /\ SectionIntact(log, 3)

\* apk_sign_ctx_mpart_cb answers a callback: DATA and a section that checks
\* out with 0; a section that fails its check with 0 (the applet forces
\* APK_ALLOW_UNTRUSTED, line 55) or with an error.
SctxAnswers ==
    /\ \A i \in Len(events) + 1..Len(events') : events'[i].kind = "data" => events'[i].ret = 0
    /\ Len(events') > Len(events) /\ Last(events').kind # "data" /\ Last(events').arg # NullBlob
          => LET n == Cardinality(ClosesOf(events'))
             IN Last(events').ret \in IF SectionIntact(events', n) THEN {0} ELSE {0, EBADMSG}

(***************************************************************************)
(* apk_tar_parse reads the stream until a read returns an error or the     *)
(* end: gzi_read's -ENOMEM (a failed inflateInit2, is.err still 0), or     *)
(* is.err, of which the end-of-file marker 1 is success.  It may also stop *)
(* at a tar header it rejects.                                             *)
(***************************************************************************)
StreamDone == pc = "idle" /\ (err # 0 \/ zdead)
ParseResult_Raw == IF err = 0 THEN ENOMEM ELSE err
ParseResult == IF err = 0 THEN ENOMEM ELSE IF err < 0 THEN err ELSE 0

Intact == Len(Ends) = 3 /\ Ends[3] = Len0 /\ tampered = {}

\* A fresh gunzip_mpart stream over the next file (apk_istream_from_file).
NextStream ==
    /\ layout' \in Layouts /\ tampered' \in Tamperings
    /\ pc' = "idle" /\ pos' = 0 /\ chunkEnd' = 0
    /\ cbprev' = NoPtr /\ cbarg' = NullBlob
    /\ err' = 0 /\ zerr' = 0 /\ cur' = 1 /\ zdead' = FALSE
    /\ availOut' = 0 /\ callOut' = {} /\ events' = <<>>

VInit == Init /\ file = 1 /\ tampered \in Tamperings /\ rc = 0 /\ outcomes = <<>>

\* apk_tar_parse reading through gzi_read; the caller stops at -ENOMEM.
ParseStep ==
    /\ file <= NFiles
    /\ ~(pc = "idle" /\ zdead)
    /\ Next
    /\ SctxAnswers
    /\ UNCHANGED verifyVars

(***************************************************************************)
(* apk_tar_parse has returned r (lines 28-31): ok is both flags (line 32), *)
(* the file is counted when not ok (lines 38-39), the context is freed and *)
(* the loop takes the next argument.                                       *)
(***************************************************************************)
FileDone(r) ==
    LET ok == control_verified(events) /\ data_verified(events)
    IN /\ outcomes' = Append(outcomes, [r |-> r, ok |-> ok, intact |-> Intact])
       /\ rc' = rc + (IF ok THEN 0 ELSE 1)
       /\ file' = file + 1
       /\ IF file < NFiles THEN NextStream ELSE UNCHANGED <<vars, tampered>>

verify_main ==
    /\ file <= NFiles
    /\ \/ StreamDone /\ FileDone(ParseResult)
       \/ pc = "idle" /\ err = 0 /\ ~zdead /\ FileDone(EBADMSG)

VNext == ParseStep \/ verify_main

VSpec == VInit /\ [][VNext]_allVars /\ WF_allVars(VNext)

-----------------------------------------------------------------------------
Results == {0, EIO, ZisError, ECANCELED, EBADMSG, ENOMEM}

VerifyTypeOK ==
    /\ file \in 1..NFiles + 1
    /\ tampered \in Tamperings
    /\ rc \in 0..NFiles
    /\ outcomes \in Seq([r : Results, ok : BOOLEAN, intact : BOOLEAN])
    /\ Len(outcomes) = file - 1

(***************************************************************************)
(* NoFalseReject: a file that is an intact signed package and that         *)
(* apk_tar_parse read without error is reported OK: the ranges gunzip      *)
(* reports to the signature context at DATA, BOUNDARY and END digest      *)
(* exactly the bytes of each member, whatever the chunking of the input    *)
(* and the sizes the parser reads.                                         *)
(***************************************************************************)
NoFalseReject ==
    \A i \in DOMAIN outcomes :
        outcomes[i].intact /\ outcomes[i].r >= 0 => outcomes[i].ok

(***************************************************************************)
(* ErrorCounted: a file whose apk_tar_parse failed (r < 0, reported with   *)
(* its error string at line 35) is counted in the exit code.               *)
(***************************************************************************)
ErrorCounted ==
    \A i \in DOMAIN outcomes : outcomes[i].r < 0 => ~outcomes[i].ok

(***************************************************************************)
(* AllFilesVerified: verify_main reaches a verdict on every argument: no   *)
(* stream leaves apk_tar_parse reading forever.                            *)
(***************************************************************************)
AllFilesVerified == <>(file > NFiles)
=============================================================================
