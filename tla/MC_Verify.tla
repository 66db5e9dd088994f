------------------------------ MODULE MC_Verify ------------------------------
(***************************************************************************)
(* Gunzip checked on its own and under verify_main.  In part "stream" the  *)
(* multipart callback may accept, cancel or fail any callback and the      *)
(* stream is read until it ends; in part "verify" the callback is the      *)
(* signature context and verify_main runs over NFiles files.               *)
(***************************************************************************)
EXTENDS Verify

\* Three signed members, with and without a trailing byte; two members;
\* one member; a truncated third member.
MCLayouts == { [ends |-> <<1, 3, 4>>, len |-> 4],
               [ends |-> <<1, 2, 3>>, len |-> 4],
               [ends |-> <<2, 5>>,    len |-> 5],
               [ends |-> <<3>>,       len |-> 3],
               [ends |-> <<1, 3>>,    len |-> 5] }
\* cb results: success, a cancel request, and a failure (-EBADMSG).
MCCbResults == {0, 1, -74}
MCDataCbOk == {0}
MCDataCbAny == {0, 1, -74}
MCTamperings == {{}, {2}, {3}}

VARIABLE part
mcVars == <<allVars, part>>

MCInit ==
    \/ part = "stream" /\ Init /\ file = 1 /\ tampered = {} /\ rc = 0 /\ outcomes = <<>>
    \/ part = "verify" /\ VInit

MCNext ==
    \/ part = "stream" /\ Next /\ UNCHANGED <<verifyVars, part>>
    \/ part = "verify" /\ VNext /\ UNCHANGED part

MCSpec == MCInit /\ [][MCNext]_mcVars /\ WF_mcVars(MCNext)

\* StreamTerminates (Terminates of Gunzip): a stream read on its own ends.
StreamTerminates == part = "stream" => Terminates

\* VerifyTerminates (AllFilesVerified): verify_main reaches a verdict on every file.
VerifyTerminates == part = "verify" => AllFilesVerified
=============================================================================
