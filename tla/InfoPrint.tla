------------------------------ MODULE InfoPrint ------------------------------
(***************************************************************************)
(* What `apk info NAME...` prints, src/src/app_info.c: print_name_info      *)
(* calls info_subaction for every provider of each name, and              *)
(* info_subaction runs the printer of every row of info_fields whose bits  *)
(* are in the mask (lines 67-251, 365-391); with no names, info_main lists *)
(* the installed packages through verbose_print_pkg.                      *)
(*                                                                         *)
(* The database is abstracted to what the printers read: each package's   *)
(* name, whether it is installed (pkg->ipkg), the repositories it is in   *)
(* (pkg->repos), its install_if names, and the tag of each repository     *)
(* (db->repo_tags[j].allowed_repos).  A printed line is abstracted to the  *)
(* package, the row, what kind of line it is and what it refers to: a     *)
(* package for a list entry, <<tag, repository>> for a repository line.   *)
(***************************************************************************)
EXTENDS Integers, Sequences, SequencesExt, FiniteSets

CONSTANTS
    Pkgs,           \* the packages of the database
    NameOf,         \* pkg->name->name
    NRepos,         \* db->num_repos
    NTags,          \* db->num_repo_tags; tag 1 is the untagged one (j == 0)
    Present,        \* the optional blob and string rows every package carries
    DependsOn,      \* the names each package depends on
    Listed,         \* rows whose dependency array is not empty for every package
    Triggered,      \* installed packages with triggers
    IifNames,       \* the names an install_if may refer to
    MaxArgs         \* longest argument list

Names   == {NameOf[p] : p \in Pkgs}
NoName  == "no-such-name"
NoPkg   == "none"
RepoIds == 1..NRepos
TagIds  == 1..NTags

\* info_fields (lines 67-85) in order: the row, the bits it needs, its printer.
Rows == <<
    [row |-> "Package",            bit |-> {},              pr |-> "name"],
    [row |-> "Version",            bit |-> {},              pr |-> "blob"],
    [row |-> "Repository",         bit |-> {"REPOSITORY"},  pr |-> "repository"],
    [row |-> "Source-Package",     bit |-> {"ORIGIN"},      pr |-> "blob"],
    [row |-> "Description",        bit |-> {"DESC"},        pr |-> "blob"],
    [row |-> "URL",                bit |-> {"URL"},         pr |-> "blob"],
    [row |-> "License",            bit |-> {"LICENSE"},     pr |-> "blob"],
    [row |-> "Maintainer",         bit |-> {"MAINTAINER"},  pr |-> "blob"],
    [row |-> "Download-Size",      bit |-> {"SIZE"},        pr |-> "size"],
    [row |-> "Installed-Size",     bit |-> {"SIZE"},        pr |-> "size"],
    [row |-> "Depends",            bit |-> {"DEPENDS"},     pr |-> "deps"],
    [row |-> "Provides",           bit |-> {"PROVIDES"},    pr |-> "deps"],
    [row |-> "Replaces",           bit |-> {"PROVIDES"},    pr |-> "ideps"],
    [row |-> "Install-If",         bit |-> {"INSTALL_IF"},  pr |-> "deps"],
    [row |-> "Reverse-Depends",    bit |-> {"RDEPENDS"},    pr |-> "revdep"],
    [row |-> "Reverse-Install-If", bit |-> {"RINSTALL_IF"}, pr |-> "rinstall_if"],
    [row |-> "Triggers",           bit |-> {"TRIGGERS"},    pr |-> "triggers"] >>

VARIABLES
    db,         \* [inst, repos, tagOf, iif]: the database the applet opened
    mask,       \* ctx->subaction_mask, as a set of bits
    args,       \* the names given on the command line
    next,       \* the argument apk_name_foreach_matching is at
    out,        \* the lines printed so far
    errors      \* ctx->errors

vars == <<db, mask, args, next, out, errors>>

Line(p, row, kind, ref) == [pkg |-> p, row |-> row, kind |-> kind, ref |-> ref]

\* apk_pkg_get_installed: the installed package of a name, if any.
InstalledOf(n) ==
    IF \E q \in db.inst : NameOf[q] = n THEN CHOOSE q \in db.inst : NameOf[q] = n ELSE NoPkg

\* name->rinstall_if: the names with a package whose install_if names n.
RInstallIf(n) == {NameOf[q] : q \in {r \in Pkgs : n \in db.iif[r]}}

\* db->repo_tags[j].allowed_repos
Allowed(j) == {i \in RepoIds : db.tagOf[i] = j}

\* print_info_repository, lines 229-251.
print_info_repository_AllRepos(p) ==
    <<Line(p, "Repository", "header", <<>>)>>
    \o FlattenSeq([i \in RepoIds |->
          SelectSeq([j \in TagIds |-> Line(p, "Repository", "url", <<j, i>>)],
                    LAMBDA l : Allowed(l.ref[1]) \cap db.repos[p] # {})])
print_info_repository(p) ==
    <<Line(p, "Repository", "header", <<>>)>>
    \o (IF p \in db.inst THEN <<Line(p, "Repository", "installed", <<>>)>> ELSE <<>>)
    \o FlattenSeq([i \in RepoIds |->
          IF i \notin db.repos[p] THEN <<>>
          ELSE SelectSeq([j \in TagIds |-> Line(p, "Repository", "url", <<j, i>>)],
                         LAMBDA l : Allowed(l.ref[1]) \cap db.repos[p] # {})])

\* print_info_rinstall_if, lines 197-227: the installed package of every
\* name in rinstall_if that has p's name in its install_if, under one header.
Installers_AnyProvider(p) ==
    LET order == SetToSeq(RInstallIf(NameOf[p]))
    IN SelectSeq([k \in DOMAIN order |-> CHOOSE q \in Pkgs : NameOf[q] = order[k]],
                 LAMBDA q : NameOf[p] \in db.iif[q])
Installers(p) ==
    LET order == SetToSeq(RInstallIf(NameOf[p]))
    IN SelectSeq([k \in DOMAIN order |-> InstalledOf(order[k])],
                 LAMBDA q : q # NoPkg /\ NameOf[p] \in db.iif[q])
print_info_rinstall_if(p) ==
    LET found == Installers(p)
    IN IF found = <<>> THEN <<>>
       ELSE <<Line(p, "Reverse-Install-If", "header", <<>>)>>
            \o [k \in DOMAIN found |-> Line(p, "Reverse-Install-If", "item", <<found[k]>>)]

\* print_info_revdep, lines 178-195: the header whatever follows, then the
\* installed packages with a dependency on p's name.
print_info_revdep(p) ==
    LET rdeps == SetToSeq({q \in db.inst : NameOf[p] \in DependsOn[q]})
    IN <<Line(p, "Reverse-Depends", "header", <<>>)>>
       \o [k \in DOMAIN rdeps |-> Line(p, "Reverse-Depends", "item", <<rdeps[k]>>)]

\* One row's printer, lines 87-176: blob and string rows print when the
\* field is set, dependency arrays when not empty, Replaces and Triggers
\* only for an installed package.
PrintRow(r, p) ==
    LET one == <<Line(p, r.row, "value", <<>>)>>
    IN CASE r.pr \in {"name", "size"} -> one
       []   r.pr = "blob"        -> IF r.row \in Present \/ r.row = "Version" THEN one ELSE <<>>
       []   r.pr = "deps"        -> IF r.row \in Listed \/ (r.row = "Install-If" /\ db.iif[p] # {})
                                    THEN one ELSE <<>>
       []   r.pr = "ideps"       -> IF p \in db.inst /\ r.row \in Listed THEN one ELSE <<>>
       []   r.pr = "triggers"    -> IF p \in db.inst /\ p \in Triggered THEN one ELSE <<>>
       []   r.pr = "revdep"      -> print_info_revdep(p)
       []   r.pr = "rinstall_if" -> print_info_rinstall_if(p)
       []   r.pr = "repository"  -> print_info_repository(p)

\* info_subaction, lines 365-377: the selected rows in order, then a blank line.
info_subaction(p) ==
    FlattenSeq([k \in DOMAIN Rows |-> IF Rows[k].bit \subseteq mask THEN PrintRow(Rows[k], p) ELSE <<>>])
    \o <<Line(p, "", "blank", <<>>)>>

(***************************************************************************)
(* The database opened and the options parsed: any packages installed (at *)
(* most one per name), in any repositories, with at most one install_if   *)
(* name of IifNames other than their own, and any tag for each repository. *)
(***************************************************************************)
DbStates ==
    [inst : {I \in SUBSET Pkgs : \A q, r \in I : NameOf[q] = NameOf[r] => q = r},
     repos : [Pkgs -> SUBSET RepoIds],
     tagOf : [RepoIds -> TagIds],
     iif : {f \in [Pkgs -> SUBSET IifNames] :
                \A q \in Pkgs : Cardinality(f[q]) <= 1 /\ NameOf[q] \notin f[q]}]

Init ==
    /\ db \in DbStates
    /\ mask = {"REPOSITORY", "ORIGIN", "DESC", "URL", "LICENSE", "MAINTAINER", "SIZE", "DEPENDS",
               "PROVIDES", "REPLACES", "INSTALL_IF", "RDEPENDS", "RINSTALL_IF", "TRIGGERS"}
    /\ args \in UNION {[1..n -> Names \cup {NoName}] : n \in 0..MaxArgs}
    /\ next = 1
    /\ out = <<>>
    /\ errors = 0

(***************************************************************************)
(* print_name_info, lines 379-391, called by apk_name_foreach_matching     *)
(* for the next argument: no such name counts an error, otherwise every    *)
(* provider is printed.                                                    *)
(***************************************************************************)
print_name_info ==
    /\ next <= Len(args)
    /\ LET n == args[next]
           providers == SetToSeq({p \in Pkgs : NameOf[p] = n})
       IN IF n = NoName
          THEN errors' = errors + 1 /\ UNCHANGED out
          ELSE /\ out' = out \o FlattenSeq([k \in DOMAIN providers |-> info_subaction(providers[k])])
               /\ UNCHANGED errors
    /\ next' = next + 1
    /\ UNCHANGED <<db, mask, args>>

\* info_main with no arguments (lines 513-517): verbose_print_pkg (lines
\* 253-268) at minimal verbosity 1 prints each installed package's name.
ListInstalled ==
    /\ args = <<>> /\ out = <<>> /\ db.inst # {}
    /\ LET inst == SetToSeq(db.inst)
       IN out' = [k \in DOMAIN inst |-> Line(inst[k], "Package", "value", <<>>)]
    /\ UNCHANGED <<db, mask, args, next, errors>>

Next == print_name_info \/ ListInstalled

Spec == Init /\ [][Next]_vars

-----------------------------------------------------------------------------
\* The lines printed for package p on a row, of a kind.
RowLines(p, row, kind) == {l \in Range(out) : l.pkg = p /\ l.row = row /\ l.kind = kind}
\* How often info_subaction has run for p.
Times(p) == Cardinality({k \in DOMAIN out : out[k].pkg = p /\ out[k].kind = "blank"})

(***************************************************************************)
(* RepositoryListsHolders: the Repository row of a printed package names   *)
(* every repository the package is in and no other, and the installed     *)
(* database exactly when it is installed.  print_info_repository walks    *)
(* every repository, skips those without the package's bit, and prints a  *)
(* line for each tag that allows one of the package's repositories.       *)
(***************************************************************************)
RepositoryListsHolders ==
    \A p \in Pkgs : Times(p) > 0 =>
        /\ {l.ref[2] : l \in RowLines(p, "Repository", "url")} = db.repos[p]
        /\ (RowLines(p, "Repository", "installed") # {}) = (p \in db.inst)

(***************************************************************************)
(* RinstallIfExact: each time a package is printed, its Reverse-Install-If *)
(* row lists once every installed package whose install_if names it, and  *)
(* nothing else, under one header that appears only when the list is not  *)
(* empty.  The code reaches those packages indirectly: through the names  *)
(* in name->rinstall_if, the installed package of each (a name may have   *)
(* versions that are not installed), and a second look at its install_if. *)
(***************************************************************************)
RinstallIfExact ==
    \A p \in Pkgs :
        LET expect == {q \in db.inst : NameOf[p] \in db.iif[q]}
            n(kind, ref) == Cardinality({k \in DOMAIN out :
                                out[k] = Line(p, "Reverse-Install-If", kind, ref)})
        IN /\ \A q \in Pkgs : n("item", <<q>>) = IF q \in expect THEN Times(p) ELSE 0
           /\ n("header", <<>>) = IF expect = {} THEN 0 ELSE Times(p)

=============================================================================
