------------------------------ MODULE MC_Gunzip ------------------------------
(* Instantiation of Gunzip for TLC: an input of at most five compressed     *)
(* bytes holding one to three gzip members, or a truncated last member.    *)
EXTENDS Gunzip

MCLayouts == { [ends |-> <<1, 3, 4>>, len |-> 4],
               [ends |-> <<2, 5>>,    len |-> 5],
               [ends |-> <<3>>,       len |-> 3],
               [ends |-> <<1, 3>>,    len |-> 5] }
\* cb results: success, a cancel request, and a failure (-EBADMSG).
MCCbResults == {0, 1, -74}
MCDataCbOk == {0}
MCDataCbAny == {0, 1, -74}
=============================================================================
