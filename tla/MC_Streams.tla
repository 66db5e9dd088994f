----------------------------- MODULE MC_Streams -----------------------------
(***************************************************************************)
(* Instantiation of Streams for TLC: one URL of each scheme kind, and       *)
(* libfetch codes that are mapped, unmapped (INFO, OK), and out of range.  *)
(* The info applet, which shares no state with the streams, is checked in  *)
(* the same run: part "info" runs InfoApplet with two options and two      *)
(* arguments of every kind while the streams stay at rest; part "print"    *)
(* runs InfoPrint over three packages in two repositories of two tags.   *)
(***************************************************************************)
EXTENDS Streams

MCUrls == { <<"f","i","l","e",":","p">>, <<"h","t","t","p",":","p">>,
            <<"h","t","t","p","s",":","p">>, <<"f","t","p",":","p">>, <<"p">> }
MCFetchCodes == {-1, 2, 6, 10, 20, 21}

VARIABLES phase, given, action, mask, noRepos, ran, args, next, errors, part
infoVars == <<phase, given, action, mask, noRepos, ran, args, next, errors>>
VARIABLES ipDb, ipMask, ipArgs, ipNext, ipOut, ipErrors
printVars == <<ipDb, ipMask, ipArgs, ipNext, ipOut, ipErrors>>

IA == INSTANCE InfoApplet WITH
    MaxOpts <- 2, MaxArgs <- 2,
    ArgKinds <- {"malformed", "missing", "available", "installed", "unsatisfied"}

\* Packages a, b and c; b depends on a; b and c may be installed if a is.
IP == INSTANCE InfoPrint WITH
    Pkgs <- {"p1", "p2", "p3"}, NameOf <- [p1 |-> "a", p2 |-> "b", p3 |-> "c"],
    NRepos <- 2, NTags <- 2, Present <- {"Description", "URL"},
    DependsOn <- [p1 |-> {}, p2 |-> {"a"}, p3 |-> {}], Listed <- {"Depends"},
    Triggered <- {"p3"}, IifNames <- {"a"}, MaxArgs <- 1,
    db <- ipDb, mask <- ipMask, args <- ipArgs, next <- ipNext, out <- ipOut,
    errors <- ipErrors

\* The state InfoPrint rests in while another part runs.
PrintAtRest ==
    ipArgs = <<>> /\ ipDb = [inst |-> {}, repos |-> [p \in {"p1", "p2", "p3"} |-> {}],
                             tagOf |-> [i \in 1..2 |-> 1], iif |-> [p \in {"p1", "p2", "p3"} |-> {}]]

MCInit ==
    /\ Init /\ IA!Init /\ IP!Init
    /\ \/ part = "streams" /\ args = <<>> /\ PrintAtRest
       \/ part = "info" /\ PrintAtRest
       \/ part = "print" /\ args = <<>>

MCNext ==
    \/ part = "streams" /\ Next /\ UNCHANGED <<infoVars, printVars, part>>
    \/ part = "info" /\ IA!Next /\ UNCHANGED <<vars, printVars, part>>
    \/ part = "print" /\ IP!Next /\ UNCHANGED <<vars, infoVars, part>>

MCSpec == MCInit /\ [][MCNext]_<<vars, infoVars, printVars, part>>

\* InfoTypeOK (TypeOK of InfoApplet).
InfoTypeOK == IA!TypeOK

\* RepositoryListsHolders of InfoPrint: the Repository row names exactly the
\* repositories holding the package, and the installed database iff installed.
RepositoryListsHolders == part = "print" => IP!RepositoryListsHolders

\* RinstallIfExact of InfoPrint: Reverse-Install-If lists, once and under one
\* header, exactly the installed packages whose install_if names the package.
RinstallIfExact == part = "print" => IP!RinstallIfExact
=============================================================================
