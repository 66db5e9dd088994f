---------------------------- MODULE MC_AdbArrays ----------------------------
(***************************************************************************)
(* The builders of src/src/apk_adb.c's schemas checked in one model: a    *)
(* behaviour either builds and commits a dependency list (DepList: every   *)
(* list text of up to six characters over two names, one operator, one     *)
(* version digit and both separators) or a package array (PkgOrder: one   *)
(* database, up to three packages over two names, two versions, checksum   *)
(* words that are short, small, or differ only above bit 28), or two       *)
(* manifest objects (Manifest: File or Path, two sets each, from handles  *)
(* or from the texts "0" and "x").  The pure converters are checked here  *)
(* too: a dependency text for DepParse (every text of up to five          *)
(* characters over the operator characters, '!', the tag separator, one    *)
(* name character and one version digit) or an input of AdbScalars (every  *)
(* signed char; blobs of up to 12 bytes into buffers of up to 26 bytes).   *)
(* part says which; the other components stay in their initial states.    *)
(***************************************************************************)
EXTENDS DepList

VARIABLES part, poPool, poArr, poCsum, poAdded, poCommitted,
          mfOpen, mfKind, mfEntries, mfBerr, mfNsets, mfPool, mfResults, mfTexts, mfFromText,
          dpText, asCh, asBlen, asBufsz

MCAlphabet == {"a", "b", ">", "1", " ", ","}
DPAlphabet == {"!", "<", ">", "~", "=", "@", "a", "1"}

poVars == <<poPool, poArr, poCsum, poAdded, poCommitted>>
mfVars == <<mfOpen, mfKind, mfEntries, mfBerr, mfNsets, mfPool, mfResults, mfTexts, mfFromText>>
cvVars == <<dpText, asCh, asBlen, asBufsz>>
allVars == <<part, vars, poVars, mfVars, cvVars>>

PO == INSTANCE PkgOrder WITH Dbs <- {1}, Names <- <<"a", "b">>, Versions <- <<"1", "2">>,
          Csums <- {-1, 7, 9, 2^28 + 7}, IntVals <- {3}, MaxPkgs <- 3,
          pool <- poPool, arr <- poArr, csum <- poCsum, added <- poAdded,
          committed <- poCommitted
MF == INSTANCE Manifest WITH SetTexts <- {<<"0">>, <<"x">>}, MaxSets <- 2, MaxObjs <- 2,
          isOpen <- mfOpen, kind <- mfKind, entries <- mfEntries, berr <- mfBerr,
          nsets <- mfNsets, pool <- mfPool, results <- mfResults,
          texts <- mfTexts, fromText <- mfFromText

DP == INSTANCE DepParse WITH Alphabet <- DPAlphabet, MaxLen <- 5, text <- dpText
AS == INSTANCE AdbScalars WITH MaxBlob <- 12, MaxBuf <- 26,
                               ch <- asCh, blen <- asBlen, bufsz <- asBufsz

MCInit ==
    /\ PO!Init /\ MF!Init
    /\ \/ part = "deps" /\ Init
       \/ part \in {"pkgs", "objs", "dep", "scalar"} /\ Init /\ text = <<>>
    /\ \/ part = "dep" /\ DP!Init /\ asCh = 0 /\ asBlen = 0 /\ asBufsz = 1
       \/ part = "scalar" /\ dpText = <<>> /\ AS!Init
       \/ part \in {"deps", "pkgs", "objs"} /\ dpText = <<>> /\ asCh = 0 /\ asBlen = 0 /\ asBufsz = 1

MCNext ==
    \/ part = "deps" /\ Next /\ UNCHANGED <<part, poVars, mfVars, cvVars>>
    \/ part = "pkgs" /\ PO!Next /\ UNCHANGED <<part, vars, mfVars, cvVars>>
    \/ part = "objs" /\ MF!Next /\ UNCHANGED <<part, vars, poVars, cvVars>>

MCSpec == MCInit /\ [][MCNext]_allVars

\* DepParse's type invariant: a parsed dependency has a name, a version or
\* none, and a match mask of the known bits.
DepParseTypeOK == part = "dep" => DP!TypeOK

\* RoundTrip of DepParse: a canonical dependency text parses and renders back to itself.
RoundTrip == part = "dep" => DP!RoundTrip

\* FieldIndexMatchesSpec of AdbScalars: every char maps as the spec's table says.
FieldIndexMatchesSpec == part = "scalar" => AS!FieldIndexMatchesSpec

\* PkgOrder's type invariant: pools, arrays and checksum words keep their shapes.
PkgOrderTypeOK == part = "pkgs" => PO!TypeOK

\* SortedByCascade of PkgOrder: committed packages are ordered by name, version, unique-id.
SortedByCascade == part = "pkgs" => PO!SortedByCascade

\* Manifest's type invariant: the object pool holds no unset or ERROR entry.
ManifestTypeOK == part = "objs" => MF!TypeOK

\* Manifest's builder implements AdbObject, the spec's object builder.
ImplementsAdbObject == MF!ImplementsAdbObject

\* TextSetsHonoured of Manifest: a field set from text holds what the text denotes.
TextSetsHonoured == part = "objs" => MF!TextSetsHonoured

=============================================================================
