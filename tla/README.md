# TLA+ models of apk-tools (src/)

This directory holds TLA+ models of the parts of apk-tools whose code is under
`src/src/`, the TLC configurations that check them, and `PROJECT.json`, which
records every run, every mutant, the source lines each definition models, the
findings and the hazards.

## The system and its parts

`src/` holds a slice of apk-tools (the Alpine package manager):

| file | part | what it does |
|---|---|---|
| `gunzip.c` | multipart gzip streams | `apk_istream_gunzip_mpart` wraps a byte stream and inflates a concatenation of gzip members. A callback receives the compressed bytes of each member (`DATA`), a `BOUNDARY` between members and an `END` at the end. The signature verifier uses this to hash the control and data parts of a package separately. `gzo_*` is the gzip output stream. |
| `apk_adb.c` | ADB schemas | The schema tables of the ADB database format: scalar converters and comparators (string, version, int, hex blob, human size), the dependency expression parser and renderer, the legacy one-letter field codes, `adb_wo_pkginfo`, the comparators of pkginfo, dependency, file and package objects, and which arrays are sorted or sorted-and-deduplicated on commit. |
| `app_info.c` | `apk info` applet | Option parsing into an action and a field mask, dispatch in `info_main`, the per-argument loops of `-e` and `-W`, and the per-field printers. |
| `url.c` | fetch layer | `file:` URLs and plain paths open locally; `http:`, `https:` and `ftp:` go through libfetch. libfetch's error codes are mapped to errno values. |
| `verify.c` | `apk verify` applet | Verifies each file by feeding it through `gunzip_mpart` into the tar parser, with the signature context as the multipart callback. |
| `apk_database.h`, `apk_print.h` | declarations | Only types and prototypes, with no behaviour to model. |

The parts interact along one path. `verify_main` builds a file stream, wraps it
in a multipart gunzip stream whose callback is the signature context, and hands
the result to the tar parser. `apk_istream_from_url_gz` wraps a fetched stream
in a gunzip stream without a callback. The ADB schemas are used by the ADB core
(`adb.c`, which is not in `src/`), which calls their `fromstring`, `tostring`
and `compare` hooks and runs their pre-commit rule when an array is committed.

## Modules

### `Gunzip` (gunzip.c), instantiated by `MC_Verify` and `MC_Gunzip`

- **State.** `pos`/`chunkEnd` play `next_in`/`avail_in` over an abstract
  compressed input. The input is a `layout`: a length and the offsets where
  each gzip member ends.
- **Other variables.** `cbprev` and `cbarg` are the fields of the same names.
  `err` is `is.err`, `zerr` is the underlying stream's error, and `availOut` is
  `avail_out`.
- **History.** `events` records every callback call with its kind, the byte
  range it covered and its result. `callOut` records whether the current
  `read()` has produced output.
- **Control.** `pc` holds the position in the `gzi_read` loop. Each action is
  one branch of the loop body: `Read`, `LoopTop`, `Fill` with its three
  outcomes, `InflateOk`, `InflateStreamEnd` and `InflateError`.
  `BoundaryChange` is `gzi_boundary_change`.
- **Inputs.** The callback's return value, the sizes of the chunks
  `apk_istream_get_all` returns, an underlying read error, a corrupt member
  and whether a callback is installed at all are all chosen from small
  CONSTANT sets.
- **Fault.** With `InitMayFail`, the `inflateInit2` that re-arms the inflater
  after a member end may fail (lines 106-107 ignore its result); the stream
  is then dead (`zdead`) and every later `inflate` returns `Z_STREAM_ERROR`.
- **DATA results.** The DATA callback may return 0, a positive value or an
  error in any callback of the stream; `gzi_read` ignores it (line 67).

### `DepParse` (apk_adb.c, `dependency_fromstring` and `dependency_tostring`), checked in `MC_AdbArrays` and `MC_DepParse`

- Pure operators, checked over every text of up to five characters from the
  alphabet `! < > ~ = @ a 1`.
- `apk_blob_cspn`/`apk_blob_spn`, `apk_version_validate` and
  `apk_version_op_string` live outside `src/`. They are modelled from their
  contracts, marked `spec_modelled` in the map.

### `InfoApplet` (app_info.c), checked in `MC_Streams` and on its own

- **Variables.** `action`, `mask` and `noRepos` are `ctx->action`,
  `ctx->subaction_mask` and the `APK_OPENF_NO_REPOS` bit.
- **Steps.** Every option is one `option_parse_applet` step. `info_main` picks
  the handler. Each argument is then one step of that handler's loop.
- **Arguments.** An argument is abstracted to what the handlers tell apart:
  malformed, missing, available, installed, or installed with a
  non-satisfying version.
- **Counters.** `errors` is `ctx->errors`, the exit code.

### `InfoPrint` (app_info.c, `print_name_info`, `info_subaction` and the row printers), checked in `MC_Streams`

- **Database.** Abstracted to what the printers read, chosen in `Init`:
  - which packages are installed (at most one per name);
  - the repositories each package is in;
  - the tag of each repository;
  - each package's `install_if` name.
  `name->rinstall_if`, `apk_pkg_get_installed` and the repository tags'
  `allowed_repos` are outside `src/`. They are derived from that database,
  and `rinstall_if` is a set of names.
- **Output.** `out` is the sequence of lines printed. A line is the package,
  the row, the kind of line (value, header, list item, repository URL,
  installed database, blank) and what it refers to. The text is not modelled.
- **Steps.** `print_name_info` prints every provider of the next argument
  through `info_subaction`, which runs each selected row's printer in
  `info_fields` order. An unknown name counts an error. `ListInstalled` is
  `info_main`'s listing of installed packages.
- **Abstractions.** A name's providers are the packages of that name; the
  mask is every field (`InfoApplet` checks how the mask is chosen).
- **Row contents.** A reverse dependency is a dependency on the name;
  version matching is not modelled.

### `DepList` (apk_adb.c, `apk_dep_split`, `dependencies_fromstring`, the dependency-array pre-commit), checked in `MC_AdbArrays`

- **State.** `rest` is the blob still to split, `elems` the array being built,
  `ret` the result, and `phase` says whether the loop is running, has
  returned, or the array has been committed.
- **Steps.** `SplitStep` is one loop iteration: split, parse with
  `DepParse`'s `dependency_fromstring`, append. `Commit` runs the pre-commit
  rule the schema selects, `adb_wa_sort_unique` by `dependency_cmp`.
- **Inputs.** Every text of up to six characters over `a b > 1`, space and
  comma.

### `PkgOrder` (apk_adb.c, pkginfo and package ordering), checked in `MC_AdbArrays` (and `MC_PkgOrder` for the cross-database run)

- **State.** Per database: its int32 `pool`, the package array `arr`, and the
  checksum word each package was given.
- **Steps.** `AddPkg` writes a pkginfo (the unique-id through
  `adb_wo_pkginfo`, build-time through `int_fromstring`). `Commit` sorts the
  array with `pkginfo_cmp`, the pre-commit rule of `schema_pkginfo_array`.
- **Handles.** An int is inline when it fits the 28-bit payload, otherwise it
  is an offset into the pool. That is what makes `int_compare`'s choice of
  database matter.

### `AdbScalars` (apk_adb.c, `adb_pkg_field_index` and `hexblob_tostring`), checked in `MC_AdbArrays`

- Pure functions, checked over every signed char (-128..127), blob lengths
  0..12 and NULL, and buffer sizes 1..26.
- `apk_blob_push_hexdump` lives outside `src/`. It is modelled from its
  contract and marked `spec_modelled`.

### `Manifest` (apk_adb.c, `schema_file`, `schema_path`, their `get_default_int`, `string_fromstring`, `int_fromstring`), checked in `MC_AdbArrays`

- **State.** One object builder of the ADB core: whether it is open, its
  schema (`file` or `path`), the handle set per field, whether it received an
  ERROR handle, and the database's object pool with the handles commit
  returned. As history: the text each field was last set from, per
  committed object.
- **Steps.** `Open`, `SetVal` (set a field to a handle), `SetText` (set a
  field from text through the field's scalar `fromstring`; hexblob, oct and
  array fields have none, so the set is an error) and `Commit`, which keeps
  the set entries not equal to `get_default_int` in field order and interns
  the vector, or returns an ERROR handle when the builder saw one.
- The builder itself lives in `adb.c`, outside `src/`; it is modelled from
  spec section 4.5 and marked `spec_modelled`. The schema tables, defaults
  and converters are translated from `apk_adb.c`.

### `AdbObject` (spec sections 3, 4.5, 8)

- The abstract object: every field reads as the schema default until set,
  set is last-write-wins, and commit yields the content, or an error if the
  builder ever received one. `Manifest` is shown to implement it through a
  refinement mapping (`Abstract == INSTANCE AdbObject WITH ...`): the
  abstract content is the builder's entries read through `get_default_int`,
  and a committed object is what its interned vector reads back as.

### `Streams` (url.c, gunzip.c constructors and `gzo_*`, verify.c), instantiated by `MC_Streams`

- **State.** What each of three callers holds (`live`) and whether a release
  was ever made of something not held (`fault`): `rd` opens a URL (plain or
  gzip-wrapped), reads and closes; `wr` opens a gzip output stream, writes
  and closes; `vf` is `verify_main`'s per-file loop.
- **Steps.** A constructor call is one step returning a pointer (valid,
  `ERR_PTR` or NULL), what it allocated and what it released, with every
  failure point of `apk_istream_fetch`, `apk_istream_gunzip_mpart` and
  `apk_ostream_gzip` as an alternative. `apk_url_local_file` and
  `fetch_maperror` are translated as operators.

### `Verify` (verify.c, `verify_main`, composed with `Gunzip`), instantiated by `MC_Verify`

- **Composition.** `Verify` extends `Gunzip`: the stream's variables are
  those of one file's `gunzip_mpart` stream, and `verify_main` adds the
  argument being verified (`file`), which members of it were altered
  (`tampered`), `rc`, and a history of `[r, ok, intact]` per file.
- **Signature context** (outside `src/`, from spec sections 4.6 and 6). A
  signed package is three gzip members: signature, control, data. The
  context digests the bytes of every range the callbacks report, and the
  n-th BOUNDARY or END with a range closes section n. `control_verified`
  holds when sections 1 and 2 digest to their members untampered, and
  `data_verified` when section 3 does too. The callback answers 0, or an
  error for a section that fails its check (`SctxAnswers`).
- **Tar parser** (outside `src/`). `apk_tar_parse` reads until the stream
  ends; its result is `-ENOMEM` when `gzi_read` returned it, is.err when
  negative, and 0 at the end of input. It may also stop early at a header it
  rejects.
- **Steps.** `ParseStep` is one `Gunzip` step while the file is being read.
  `verify_main` records the verdict (lines 32-41) and opens the next file's
  stream (lines 26-30).

### MC modules

- `MC_Verify`: extends `Verify`. In part `stream`, `Gunzip` runs alone with a
  callback that may accept, cancel or fail. In part `verify`, `verify_main`
  runs over two files.
- `MC_Gunzip`: `Gunzip` without a callback, for the NULL-callback run.
- `MC_AdbArrays`: extends `DepList` and instantiates `PkgOrder`, `Manifest`,
  `DepParse` and `AdbScalars` over renamed variables. A `part` variable picks
  the component a behaviour exercises, and the others stay in one fixed
  state. Each lifted invariant is guarded by its part.
- `MC_Streams`: extends `Streams` and instantiates `InfoApplet` and
  `InfoPrint` the same way. `InfoPrint` runs over three packages `a`, `b` and
  `c`, where `b` depends on `a` and `b` and `c` may install-if `a`, with two
  repositories and two tags.
- `MC_DepParse`, `MC_PkgOrder`: constants for their violation runs.

## Runs

| run | checks | result |
|---|---|---|
| `gunzip_verify` | `TypeOK`, `SectionsMatchMembers` (the n-th BOUNDARY/END callback covers exactly the bytes of the n-th member), `StopIsFinal` (once a BOUNDARY or END callback cancels or fails, no callback runs again and the error stays), `EndAtEof`, `BoundaryAfterReturn` (a BOUNDARY is never delivered in a read that already produced output), `StreamTerminates`; `VerifyTypeOK`, `NoFalseReject` (an intact signed package that parses is reported OK), `VerifyTerminates` (every file gets a verdict) | pass |
| `gunzip_null_cb` | `NoNullCallback` with no callback installed | violation: the END at EOF calls NULL (gunzip.c:42) |
| `verify_error` | `ErrorCounted` (a file whose parse failed is counted in the exit code) | violation: a stream error after the data section verified, such as a trailing byte inflate rejects, is printed but not counted (verify.c:40) |
| `depparse_conflict` | `ConflictKept` | violation: `!a=1` loses CONFLICT (apk_adb.c:251) |
| `info_flags` | `FlagSelectsField` | violation: Replaces is keyed on PROVIDES (app_info.c:80) |
| `info_action` | `ActionOptionHonoured` | violation: every option resets `ctx->action`, so a later option cancels `-e`/`-W` (app_info.c:437) |
| `info_exists` | `ExistsCountsAll` | violation: an argument that does not parse is skipped without `ctx->errors++` (app_info.c:283) |
| `arrays` | `TypeOK`, `NamesKept` (dependency arrays); `PkgOrderTypeOK`, `SortedByCascade` (package arrays); `ManifestTypeOK`, `ImplementsAdbObject` (the builder refines `AdbObject`), `TextSetsHonoured` (a field set from text and committed without error holds the number or bytes the text denotes, by a reference decimal reading, so a text `int_fromstring` cannot read whole must fail the commit); `DepParseTypeOK`, `RoundTrip`, `FieldIndexMatchesSpec` (the converters) | pass |
| `deplist_failure` | `FailedElementKept` (a dependency list with an element that fails to parse commits with a trace of the failure) | violation: `>1,>` commits as `>1`, because the failed element has an empty name and sort-unique merges it with `>1` (apk_adb.c:318) |
| `pkgorder_cross` | `CompareAcrossDbs` | violation: `int_compare` reads the second value through the first database (apk_adb.c:169) |
| `adbscalars_fit` | `RenderFitsBuffer` | violation: the `(N bytes)` fallback returns snprintf's untruncated length (apk_adb.c:146) |
| `streams` | `TypeOK`, `Owned` (each caller holds exactly the resources of its live streams), `NoMisuse` (nothing released twice or released unheld), `OpenResultValid`, `RoutedByScheme`, `LossReported` (a failed gzip write is reported by a write or the close); `InfoTypeOK` (the info applet); `RepositoryListsHolders` (the Repository row names exactly the repositories holding the package, and the installed database iff it is installed), `RinstallIfExact` (Reverse-Install-If lists each installed package whose install_if names the package, once, under one header) | pass |

The exact wording of each property, and of each finding, is in the modules
and in `PROJECT.json`. Every property of a passing run has a mutant there: a
plausible bug in the modelled code that makes TLC report the property
violated.

## Bounds and why they suffice

- **Gunzip and Verify.** Five input layouts (three members, three members
  and a trailing byte, two members, one member shorter than its stream, two
  members followed by trailing bytes), chunks of one to three
  bytes, and up to twelve callback events. This puts a member end inside a
  fill and at its end, EOF right after a member, every callback result, and
  a failing re-initialisation on a middle and on the last member. Two files
  for `verify_main`, each intact or with its control or data member altered,
  give a verdict after another file's stream was torn down.
- **DepParse.** All texts up to length 5 over `! < > ~ = @ a 1` reach every
  operator pair, `!` with and without an operator, a tag and invalid versions.
- **DepList.** Six characters allow up to three elements, repeated and
  distinct names, leading, trailing and doubled separators, and an element
  that fails to parse.
- **PkgOrder.** Three packages over two names, two versions and checksum
  words that are short, small, equal, or above 2^28 (which collide after
  masking). The cross run has two databases and build-times on both sides of
  the inline limit.
- **Manifest.** Two objects of either schema with up to two sets each, set
  directly (including a value equal to the default) or from the texts `0` and
  `x` (an int, a string, and an int with trailing garbage). Two sets are
  enough to set a field to its default, overwrite a set field, and mix an
  error with a good set.
- **AdbScalars.** Exhaustive over chars. Lengths up to 12 give both one- and
  two-digit byte counts, and buffers up to 26 give exact fits.
- **InfoApplet.** Two options cover every option order that matters, and two
  arguments of the five kinds cover mixed results.
- **InfoPrint.** Every database over three packages and two repositories
  with two tags. This includes:
  - a package in both repositories of different tags;
  - a package that no installed package install-ifs;
  - a package installed-if by two installed packages of other names;
  - an installer whose name is in `rinstall_if` but which is not installed.
  One argument of each name, an unknown name, or none.
- **Streams.** Every URL kind, every failure point of every constructor,
  two files for `verify_main` and two reads or writes per stream.

## Fairness

`gzi_read` runs synchronously on the caller's thread, and its callers
(`apk_tar_parse`, `apk_istream_get_all`) read until EOF or an error.
`verify_main` is a plain loop over its arguments. `MC_Verify` therefore
assumes weak fairness of its whole next-state relation, and
`StreamTerminates` and `VerifyTerminates` are checked under it. The other models have no liveness properties: each
handler runs to completion in one step or a bounded loop. `arrays`,
`gunzip_verify` and `streams` disable deadlock checking because the callers stop once their
bounded work is done; `gunzip_null_cb` and the info runs stop when the
program returns.

## Not modelled

- The ADB core (`adb.c`) is not in `src/`. Its object builder is modelled
  from the spec in `Manifest`; the storage layout and the database file
  format are not.
- The string, hexblob, oct and hsize `tostring` converters of `apk_adb.c` are
  formatting only; the one with a length hazard (`hexblob_tostring`) is
  modelled.
- Of the `app_info.c` printers, only which lines are printed is modelled,
  not their text or the human-readable sizes. `info_who_owns`'s path
  resolution and `apk_pkg_foreach_reverse_dependency` are outside `src/`.
- `print_info_repository` pairs tags and URLs wrongly (app_info.c:244). It
  prints tag j before repository i whenever tag j allows any of the
  package's repositories, not repository i. A package that is in an
  untagged repository and in an `@edge` repository is therefore listed with
  both tags before each URL. An invariant that each printed tag allows its
  URL's repository fails on `InfoPrint` at once. The spec does not say how
  `info` lists repositories, so no run states it.
- The signature context and the tar parser that `verify_main` drives are
  outside `src/`. `Verify` models them from the spec, abstracted to digests
  of byte ranges and to the parse result. The tar format, the key lookup and
  the message printing are not modelled.
- The DATA callback's result is ignored (gunzip.c:67), against spec section
  6: a refusal at DATA is dropped, and takes effect only if the callback
  repeats it at the next BOUNDARY or END. This is recorded as a divergence;
  no run states it.
- Two packages whose unique-ids differ only above bit 28 (apk_adb.c:38)
  compare equal and keep their append order; no property covers it, since
  the spec gives no order for equal keys.
- Which versions `apk_version_validate` accepts, and so apk_adb.c:268's
  checksum exemption, is not checked; the validator is outside `src/`.
- `fetch_get_meta` and the libfetch internals are outside `src/`.
- `apk_print.h` and `apk_database.h` contain declarations only.
