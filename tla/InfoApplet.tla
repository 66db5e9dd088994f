----------------------------- MODULE InfoApplet -----------------------------
(***************************************************************************)
(* The option handling and dispatch of the info applet, src/src/app_info.c: *)
(* option_parse_applet is called once per command-line option, then        *)
(* info_main runs the chosen action or, for package names, info_subaction  *)
(* selects which rows of info_fields are printed for every provider.       *)
(* The database is abstracted away: what is modelled is which action runs, *)
(* with which open flags, and which info_fields handlers are invoked.      *)
(***************************************************************************)
EXTENDS Integers, Sequences, FiniteSets

CONSTANTS
    MaxOpts,    \* longest option list
    MaxArgs,    \* longest argument list
    ArgKinds    \* what an argument turns out to be in the database

(***************************************************************************)
(* An argument is abstracted to what the handlers tell apart:              *)
(*   "malformed"   apk_blob_pull_dep leaves bytes over (line 283)           *)
(*   "missing"     no name matches / no package owns the path               *)
(*   "available"   a known name none of whose providers is installed       *)
(*   "installed"   installed, and the installed version satisfies the arg  *)
(*   "unsatisfied" installed, but its version does not satisfy the arg     *)
(***************************************************************************)
AllArgKinds == {"malformed", "missing", "available", "installed", "unsatisfied"}
ASSUME ArgKinds \subseteq AllArgKinds /\ MaxOpts \in Nat /\ MaxArgs \in Nat

\* The APK_INFO_* bits of lines 28-41.
Bits == {"DESC", "URL", "SIZE", "DEPENDS", "PROVIDES", "RDEPENDS", "TRIGGERS",
         "INSTALL_IF", "RINSTALL_IF", "REPLACES", "LICENSE", "MAINTAINER",
         "ORIGIN", "REPOSITORY"}
ALL == Bits        \* 0xffffffff: every bit set

\* info_fields, lines 67-85: each row's name and the bits it needs.
InfoFields ==
    { [name |-> "Package",            mask |-> {}],
      [name |-> "Version",            mask |-> {}],
      [name |-> "Repository",         mask |-> {"REPOSITORY"}],
      [name |-> "Source-Package",     mask |-> {"ORIGIN"}],
      [name |-> "Description",        mask |-> {"DESC"}],
      [name |-> "URL",                mask |-> {"URL"}],
      [name |-> "License",            mask |-> {"LICENSE"}],
      [name |-> "Maintainer",         mask |-> {"MAINTAINER"}],
      [name |-> "Download-Size",      mask |-> {"SIZE"}],
      [name |-> "Installed-Size",     mask |-> {"SIZE"}],
      [name |-> "Depends",            mask |-> {"DEPENDS"}],
      [name |-> "Provides",           mask |-> {"PROVIDES"}],
      [name |-> "Replaces",           mask |-> {"PROVIDES"}],
      [name |-> "Install-If",         mask |-> {"INSTALL_IF"}],
      [name |-> "Reverse-Depends",    mask |-> {"RDEPENDS"}],
      [name |-> "Reverse-Install-If", mask |-> {"RINSTALL_IF"}],
      [name |-> "Triggers",           mask |-> {"TRIGGERS"}] }

\* The OPT_INFO_* options (lines 448-489) that select a field bit, and the bit.
FieldOpt == [webpage |-> "URL", depends |-> "DEPENDS", provides |-> "PROVIDES",
             rdepends |-> "RDEPENDS", install_if |-> "INSTALL_IF",
             rinstall_if |-> "RINSTALL_IF", size |-> "SIZE",
             description |-> "DESC", triggers |-> "TRIGGERS",
             replaces |-> "REPLACES", license |-> "LICENSE",
             maintainer |-> "MAINTAINER", origin |-> "ORIGIN"]
\* The options that choose an action instead.
ActionOpt == [installed |-> "info_exists", who_owns |-> "info_who_owns",
              contents |-> "info_contents"]
Options == DOMAIN FieldOpt \cup DOMAIN ActionOpt \cup {"all"}

VARIABLES
    phase,      \* "options", "main", "args" (info_main's loop), "done"
    given,      \* the options parsed so far, in order
    action,     \* ctx->action ("none" for NULL)
    mask,       \* ctx->subaction_mask, as the set of bits it has
    noRepos,    \* APK_OPENF_NO_REPOS in dbopts->open_flags
    ran,        \* what info_main chose: "none", an action, "names" or "installed"
    args,       \* the command-line arguments
    next,       \* index of the argument the running handler is at
    errors      \* ctx->errors, the applet's exit code

vars == <<phase, given, action, mask, noRepos, ran, args, next, errors>>

Actions == {ActionOpt[o] : o \in DOMAIN ActionOpt}

TypeOK ==
    /\ phase \in {"options", "main", "args", "done"}
    /\ given \in Seq(Options) /\ Len(given) <= MaxOpts
    /\ action \in {"none"} \cup Actions
    /\ mask \subseteq Bits
    /\ noRepos \in BOOLEAN
    /\ ran \in {"none", "names", "installed"} \cup Actions
    /\ args \in Seq(ArgKinds) /\ Len(args) <= MaxArgs
    /\ next \in 1..Len(args) + 1
    /\ errors \in 0..MaxArgs

\* struct info_ctx is zeroed; the arguments are any list.
Init ==
    /\ phase = "options"
    /\ given = <<>>
    /\ action = "none"
    /\ mask = {}
    /\ noRepos = FALSE
    /\ ran = "none"
    /\ args \in UNION {[1..n -> ArgKinds] : n \in 0..MaxArgs}
    /\ next = 1
    /\ errors = 0

(***************************************************************************)
(* option_parse_applet, lines 433-496: every option first clears the       *)
(* action, then sets an action (and NO_REPOS for -e and -W), ORs in a      *)
(* field bit, or sets every bit for -a.                                    *)
(***************************************************************************)
option_parse_applet(opt) ==
    /\ phase = "options"
    /\ Len(given) < MaxOpts
    /\ given' = Append(given, opt)
    /\ action' = IF opt \in DOMAIN ActionOpt THEN ActionOpt[opt] ELSE "none"
    /\ noRepos' = (noRepos \/ opt \in {"installed", "who_owns"})
    /\ mask' = CASE opt \in DOMAIN FieldOpt -> mask \cup {FieldOpt[opt]}
               []   opt = "all"             -> ALL
               []   OTHER                   -> mask
    /\ UNCHANGED <<phase, ran, args, next, errors>>

\* The applet framework opens the database and calls info_main.
OpenDb ==
    /\ phase = "options"
    /\ phase' = "main"
    /\ UNCHANGED <<given, action, mask, noRepos, ran, args, next, errors>>

(***************************************************************************)
(* info_main, lines 498-520: an empty mask means every field; then the     *)
(* action, or info on the given names, or the list of installed packages. *)
(* info_contents (lines 360-363) only prints a message; the listing of     *)
(* installed packages prints and counts nothing.                           *)
(***************************************************************************)
Chosen == CASE action # "none" -> action
          []   args # <<>>     -> "names"
          []   OTHER           -> "installed"
LoopsOverArgs == {"names", "info_exists", "info_who_owns"}

info_main ==
    /\ phase = "main"
    /\ mask' = IF mask = {} THEN ALL ELSE mask
    /\ ran' = Chosen
    /\ phase' = IF Chosen \in LoopsOverArgs THEN "args" ELSE "done"
    /\ UNCHANGED <<given, action, noRepos, args, next, errors>>

\* One iteration of the running handler's loop over the arguments.
ArgStep_NoAdvance(fails) ==
    /\ phase = "args"
    /\ next <= Len(args)
    /\ errors' = IF fails THEN errors + 1 ELSE errors
    /\ UNCHANGED <<phase, given, action, mask, noRepos, ran, args, next>>

ArgStep(fails) ==
    /\ phase = "args"
    /\ next <= Len(args)
    /\ errors' = IF fails THEN errors + 1 ELSE errors
    /\ next' = next + 1
    /\ UNCHANGED <<phase, given, action, mask, noRepos, ran, args>>

ArgsDone ==
    /\ phase = "args"
    /\ next = Len(args) + 1
    /\ phase' = "done"
    /\ UNCHANGED <<given, action, mask, noRepos, ran, args, next, errors>>

\* print_name_info, lines 379-391: no matching name counts an error.
print_name_info ==
    /\ ran = "names"
    /\ ArgStep(args[next] \in {"malformed", "missing"})

(***************************************************************************)
(* info_exists, lines 270-299: an argument that does not parse as a        *)
(* dependency is skipped; otherwise it is an error unless the first        *)
(* installed provider satisfies it (no installed provider: the dependency  *)
(* is checked against nothing, which only a conflict would pass).          *)
(***************************************************************************)
info_exists ==
    /\ ran = "info_exists"
    /\ ArgStep(args[next] \in {"missing", "available", "unsatisfied"})

(***************************************************************************)
(* info_who_owns, lines 301-358: the argument is a path; it is an error    *)
(* when no installed package owns it nor the target of the symlink it is.  *)
(* A path is owned iff it belongs to an installed package, whether or not  *)
(* that package's version would satisfy anything.                          *)
(***************************************************************************)
info_who_owns ==
    /\ ran = "info_who_owns"
    /\ ArgStep(args[next] \notin {"installed", "unsatisfied"})

Next ==
    \/ \E opt \in Options : option_parse_applet(opt)
    \/ OpenDb
    \/ info_main
    \/ print_name_info
    \/ info_exists
    \/ info_who_owns
    \/ ArgsDone

Spec == Init /\ [][Next]_vars

\* info_subaction, lines 365-377: the rows whose bits are all in the mask.
Printed == {f.name : f \in {g \in InfoFields : g.mask \subseteq mask}}

-----------------------------------------------------------------------------
(***************************************************************************)
(* Properties                                                              *)
(***************************************************************************)

FieldOptsGiven == {given[i] : i \in DOMAIN given} \cap DOMAIN FieldOpt

(***************************************************************************)
(* FlagSelectsField (spec section 6: the flags enable per-field            *)
(* rendering): when info is printed for names, every field option given   *)
(* makes its row print.  The row named for each option: --replaces ->       *)
(* Replaces, -P -> Provides, -R -> Depends, and so on.                     *)
(***************************************************************************)
RowOf == [webpage |-> {"URL"}, depends |-> {"Depends"}, provides |-> {"Provides"},
          rdepends |-> {"Reverse-Depends"}, install_if |-> {"Install-If"},
          rinstall_if |-> {"Reverse-Install-If"},
          size |-> {"Download-Size", "Installed-Size"},
          description |-> {"Description"}, triggers |-> {"Triggers"},
          replaces |-> {"Replaces"}, license |-> {"License"},
          maintainer |-> {"Maintainer"}, origin |-> {"Source-Package"}]

FlagSelectsField ==
    ran = "names" => \A o \in FieldOptsGiven : RowOf[o] \subseteq Printed

(***************************************************************************)
(* ExistsCountsAll (spec section 6: the exit code equals the accumulated   *)
(* error count; -e/--installed asks whether each argument is installed):  *)
(* when info_exists finishes, the exit code counts every argument that is *)
(* not an installed, satisfied dependency.  info_exists skips an argument *)
(* that apk_blob_pull_dep cannot parse (line 283) without counting it,    *)
(* while an unknown but well-formed name is counted.                      *)
(***************************************************************************)
ExistsCountsAll ==
    phase = "done" /\ ran = "info_exists"
        => errors = Cardinality({j \in DOMAIN args : args[j] # "installed"})

\* The action options given, -e/--installed and -W/--who-owns.
ActionOptsGiven == {given[i] : i \in DOMAIN given} \cap {"installed", "who_owns"}

(***************************************************************************)
(* ActionOptionHonoured (spec section 6 lists -e and -W among the flags   *)
(* of info, which combine): once -e or -W is given, info_main runs that   *)
(* action.  option_parse_applet clears ctx->action on every option (line  *)
(* 437), so a field option after -e falls back to name info, with         *)
(* APK_OPENF_NO_REPOS still set.                                          *)
(***************************************************************************)
ActionOptionHonoured ==
    ran # "none" /\ ActionOptsGiven # {} => ran \in Actions


=============================================================================
