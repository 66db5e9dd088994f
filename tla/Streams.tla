------------------------------ MODULE Streams ------------------------------
(***************************************************************************)
(* Ownership of the stream objects of src/src/url.c, src/src/gunzip.c and  *)
(* src/src/verify.c.  A stream is a stack of layers (a gunzip istream over *)
(* a fetch or file istream, a gzip ostream over an output ostream); a      *)
(* constructor takes ownership of the stream it wraps, closes it when it   *)
(* fails, and passes an error pointer through unchanged.  Three callers    *)
(* drive them:                                                            *)
(*   rd - apk_istream_from_url / apk_istream_from_url_gz, reads, close;    *)
(*   wr - apk_ostream_gzip over an output, gzo_write calls, gzo_close;     *)
(*   vf - verify_main, one file per iteration.                            *)
(* Their states are disjoint: interleaving them only forms the product.   *)
(*                                                                         *)
(* A call is one step.  It returns a pointer (STREAM for a valid one, a    *)
(* negative errno for ERR_PTR, 0 for NULL), the resources it allocated and *)
(* the sequence of resources it released; releasing one that is not held  *)
(* (a NULL or a double release) is a fault, except free(NULL).             *)
(***************************************************************************)
EXTENDS Integers, Sequences, SequencesExt, FiniteSets

CONSTANTS
    Urls,       \* URLs opened, as sequences of characters
    FetchCodes, \* fetchLastErrCode values libfetch may leave
    NFiles,     \* files given to verify_main
    MaxCalls    \* reads or writes per open stream

\* errno values (Linux) and EAPKBADURL (apk_defines.h).
EIO == 5
ENOMEM == 12
ENOENT == 2
EACCES == 13
EAPKBADURL == 1024
STREAM == 1                        \* a valid stream pointer
IsErrOrNull(p) == p <= 0           \* IS_ERR_OR_NULL
IsErr(p) == p \in -4095..-1        \* IS_ERR
NullSafe == {"fis", "gis", "gos"}  \* released with free(), which accepts NULL

\* The resources a layer owns.
LayerRes(l) == CASE l = "fetch" -> {"fis", "io"} [] l = "file" -> {"file"}
               []   l = "gunzip" -> {"gis"} [] l = "gzo" -> {"gos"} [] l = "out" -> {"out"}

\* Releases of a layer's close: fetch_close (lines 90-96), gzi_close (gunzip.c
\* 122-129, zis before gis), apk_ostream_close of a file or output.
LayerClose(l) == CASE l = "fetch" -> <<"io", "fis">> [] l = "gunzip" -> <<"gis">>
                 []   l = "gzo" -> <<"gos">> [] OTHER -> <<l>>
CloseSeq(chain) == FoldLeft(LAMBDA acc, l : LayerClose(l) \o acc, <<>>, chain)

Call(ret, chain, acq, frees) == [ret |-> ret, chain |-> chain, acq |-> acq, frees |-> frees]

(***************************************************************************)
(* apk_url_local_file, lines 23-34: the path after "file:", the URL itself *)
(* when it starts with none of "http:", "https:", "ftp:", NULL otherwise.   *)
(***************************************************************************)
apk_url_local_file_nohttps(url) ==
    CASE IsPrefix(<<"f","i","l","e",":">>, url) -> [local |-> TRUE, path |-> SubSeq(url, 6, Len(url))]
    []   ~IsPrefix(<<"h","t","t","p",":">>, url) /\ ~IsPrefix(<<"f","t","p",":">>, url)
                                               -> [local |-> TRUE, path |-> url]
    []   OTHER                                 -> [local |-> FALSE, path |-> <<>>]
apk_url_local_file(url) ==
    CASE IsPrefix(<<"f","i","l","e",":">>, url) -> [local |-> TRUE, path |-> SubSeq(url, 6, Len(url))]
    []   ~IsPrefix(<<"h","t","t","p",":">>, url) /\ ~IsPrefix(<<"h","t","t","p","s",":">>, url)
         /\ ~IsPrefix(<<"f","t","p",":">>, url) -> [local |-> TRUE, path |-> url]
    []   OTHER                                 -> [local |-> FALSE, path |-> <<>>]

(***************************************************************************)
(* fetch_maperror, lines 42-68: map[] indexed by the FETCH_* codes of      *)
(* libfetch (ABORT = 1 .. UNCHANGED = 20); entries not named are 0.        *)
(***************************************************************************)
FetchMap == <<0, -103, -13, -111, -17, -28, 0, -12, -2, -101, 0, -71, -6, -121,
              -11, -110, -2, -5, -EAPKBADURL, 0, -114>>
fetch_maperror_nozero(ec) ==
    IF ec < 0 \/ ec >= Len(FetchMap) THEN -EIO ELSE FetchMap[ec + 1]
fetch_maperror(ec) ==
    IF ec < 0 \/ ec >= Len(FetchMap) \/ FetchMap[ec + 1] = 0 THEN -EIO ELSE FetchMap[ec + 1]

(***************************************************************************)
(* apk_istream_fetch, lines 104-144, failing at step s ("parse",           *)
(* "malloc", "get") or succeeding ("ok").  The err label releases what is  *)
(* non-NULL: the URL, the fetch handle, the buffer.                        *)
(***************************************************************************)
FetchAcq(s) == CASE s = "parse" -> {} [] s = "malloc" -> {"u"}
               []   s = "get" -> {"u", "fis"} [] s = "ok" -> {"u", "fis", "io"}
ErrFrees_Unguarded(acq) == <<"u", "io", "fis">>
ErrFrees(acq) == SelectSeq(<<"u", "io", "fis">>, LAMBDA r : r \in acq)
apk_istream_fetch(s, ec) ==
    CASE s = "ok"    -> Call(STREAM, <<"fetch">>, FetchAcq(s), <<"u">>)
    []   s = "parse" -> Call(-EAPKBADURL, <<>>, {}, ErrFrees(FetchAcq(s)))
    []   s = "malloc" -> Call(-ENOMEM, <<>>, FetchAcq(s), ErrFrees(FetchAcq(s)))
    []   OTHER       -> Call(fetch_maperror(ec), <<>>, FetchAcq(s), ErrFrees(FetchAcq(s)))

\* apk_istream_from_file (outside src/): a file stream, or -ENOENT.
FromFile == {Call(STREAM, <<"file">>, {"file"}, <<>>), Call(-ENOENT, <<>>, {}, <<>>)}

\* apk_istream_from_fd_url_if_modified, lines 146-151: a local path opens a
\* file, anything else is fetched.
FromUrl(url) ==
    IF apk_url_local_file(url).local THEN FromFile
    ELSE {apk_istream_fetch(s, ec) : s \in {"parse", "malloc", "get", "ok"}, ec \in FetchCodes}

(***************************************************************************)
(* apk_istream_gunzip_mpart (gunzip.c 137-164) and apk_ostream_gzip        *)
(* (gunzip.c 227-251) wrapping the call o: an error or NULL is passed on;  *)
(* when malloc or the zlib init fails the inner stream is closed and the   *)
(* result is -ENOMEM.                                                      *)
(***************************************************************************)
Wrap_NoCloseInner(o, layer, res, s) ==
    CASE IsErrOrNull(o.ret) -> o
    []   s = "malloc"      -> Call(-ENOMEM, <<>>, o.acq, o.frees)
    []   s = "init"        -> Call(-ENOMEM, <<>>, o.acq \cup {res}, o.frees \o <<res>>)
    []   OTHER             -> Call(STREAM, <<layer>> \o o.chain, o.acq \cup {res}, o.frees)
Wrap(o, layer, res, s) ==
    CASE IsErrOrNull(o.ret) -> o
    []   s = "malloc"      -> Call(-ENOMEM, <<>>, o.acq, o.frees \o CloseSeq(o.chain))
    []   s = "init"        -> Call(-ENOMEM, <<>>, o.acq \cup {res},
                                   o.frees \o <<res>> \o CloseSeq(o.chain))
    []   OTHER             -> Call(STREAM, <<layer>> \o o.chain, o.acq \cup {res}, o.frees)
Wrapped(O, layer, res) == {Wrap(o, layer, res, s) : o \in O, s \in {"malloc", "init", "ok"}}

\* The output stream handed to apk_ostream_gzip (made outside src/).
Outputs == {Call(STREAM, <<"out">>, {"out"}, <<>>), Call(-EACCES, <<>>, {}, <<>>)}


\* fetch_read, lines 80-88: a libfetch read error becomes -EIO.
fetch_read_raw(r) == r
fetch_read(r) == IF r < 0 THEN -EIO ELSE r

(***************************************************************************)
(* gzo_write (gunzip.c 172-195) over the deflate rounds of one call: a     *)
(* Z_STREAM_ERROR ("zerr") or a short write of the output ("short") returns *)
(* -EIO at once; otherwise the size written is returned.                   *)
(* gzo_close (lines 197-220): every Z_FINISH round writes to the output and *)
(* a short write makes rc -EIO; a failing close of the output overrides it. *)
(***************************************************************************)
gzo_write(rounds) == IF \A i \in DOMAIN rounds : rounds[i] = "ok" THEN 1 ELSE -EIO
gzo_close_lastround(rounds, outErr) ==
    IF outErr # 0 THEN outErr ELSE IF Last(rounds) = "short" THEN -EIO ELSE 0
gzo_close(rounds, outErr) ==
    IF outErr # 0 THEN outErr
    ELSE IF \E i \in DOMAIN rounds : rounds[i] = "short" THEN -EIO ELSE 0

Clients == {"rd", "wr", "vf"}
ChainRes(ch) == UNION {LayerRes(ch[i]) : i \in DOMAIN ch}

VARIABLES
    live,   \* live[c]: the resources of caller c that are allocated
    fault,  \* a NULL or already released resource was released
    rd,     \* the URL reader
    wr,     \* the gzip writer
    vf      \* verify_main

vars == <<live, fault, rd, wr, vf>>

\* Releasing frees, with have allocated: a fault for a NULL (other than
\* free(NULL)) or a resource released twice.
Misused(have, frees) ==
    \/ \E i \in DOMAIN frees : frees[i] \notin have /\ frees[i] \notin NullSafe
    \/ \E i, j \in DOMAIN frees : i < j /\ frees[i] = frees[j]

Apply(c, acq, frees) ==
    /\ fault' = (fault \/ Misused(live[c] \cup acq, frees))
    /\ live' = [live EXCEPT ![c] = (@ \cup acq) \ Range(frees)]

Init ==
    /\ live = [c \in Clients |-> {}]
    /\ fault = FALSE
    /\ rd = [state |-> "idle", url |-> <<>>, via |-> "none", path |-> <<>>,
             ret |-> 0, chain |-> <<>>, calls |-> 0, last |-> 0]
    /\ wr = [state |-> "idle", ret |-> 0, chain |-> <<>>, calls |-> 0,
             lost |-> FALSE, reported |-> FALSE]
    /\ vf = [state |-> "next", file |-> 1, ret |-> 0, chain |-> <<>>, rc |-> 0]

(***************************************************************************)
(* apk_istream_from_url (gz = FALSE) or apk_istream_from_url_gz (lines 153-*)
(* 156, a gunzip stream without a multipart callback).                     *)
(***************************************************************************)
RdOpen(url, gz) ==
    /\ rd.state = "idle"
    /\ \E o \in IF gz THEN Wrapped(FromUrl(url), "gunzip", "gis") ELSE FromUrl(url) :
          /\ Apply("rd", o.acq, o.frees)
          /\ rd' = [rd EXCEPT !.state = IF o.ret = STREAM THEN "open" ELSE "failed",
                              !.url = url, !.ret = o.ret, !.chain = o.chain,
                              !.via = IF apk_url_local_file(url).local THEN "file" ELSE "fetch",
                              !.path = apk_url_local_file(url).path]
    /\ UNCHANGED <<wr, vf>>

\* A read of the reader's stream: fetch_read on a fetch stream; file and
\* gunzip reads (modelled elsewhere) return data, the end, or an error.
RdRead ==
    /\ rd.state = "open" /\ rd.calls < MaxCalls
    /\ \E r \in IF rd.chain = <<"fetch">> THEN {fetch_read(x) : x \in {1, 0, -1}}
                ELSE {1, 0, -EIO} :
          rd' = [rd EXCEPT !.calls = @ + 1, !.last = r]
    /\ UNCHANGED <<live, fault, wr, vf>>

RdClose ==
    /\ rd.state = "open"
    /\ Apply("rd", {}, CloseSeq(rd.chain))
    /\ rd' = [rd EXCEPT !.state = "closed"]
    /\ UNCHANGED <<wr, vf>>

\* apk_ostream_gzip (gunzip.c 227-251) over the caller's output.
WrOpen ==
    /\ wr.state = "idle"
    /\ \E o \in Wrapped(Outputs, "gzo", "gos") :
          /\ Apply("wr", o.acq, o.frees)
          /\ wr' = [wr EXCEPT !.state = IF o.ret = STREAM THEN "open" ELSE "failed",
                              !.ret = o.ret, !.chain = o.chain]
    /\ UNCHANGED <<rd, vf>>

Rounds == {<<"ok">>, <<"ok", "ok">>, <<"zerr">>, <<"short">>, <<"ok", "short">>}
CloseRounds == {<<"ok">>, <<"short">>, <<"short", "ok">>, <<"ok", "short">>}

WrWrite ==
    /\ wr.state = "open" /\ wr.calls < MaxCalls
    /\ \E rounds \in Rounds :
          wr' = [wr EXCEPT !.calls = @ + 1,
                           !.lost = @ \/ gzo_write(rounds) < 0,
                           !.reported = @ \/ gzo_write(rounds) < 0]
    /\ UNCHANGED <<live, fault, rd, vf>>

WrClose ==
    /\ wr.state = "open"
    /\ \E rounds \in CloseRounds, outErr \in {0, -EIO} :
          /\ Apply("wr", {}, CloseSeq(wr.chain))
          /\ wr' = [wr EXCEPT !.state = "closed",
                              !.lost = @ \/ outErr # 0 \/ \E i \in DOMAIN rounds : rounds[i] = "short",
                              !.reported = @ \/ gzo_close(rounds, outErr) # 0]
    /\ UNCHANGED <<rd, vf>>

(***************************************************************************)
(* verify_main, lines 20-47.  VfOpen: apk_sign_ctx_init and the argument   *)
(* of apk_tar_parse, a gunzip_mpart stream over the file.  VfParse:        *)
(* apk_tar_parse consumes the stream and closes it (an error pointer it     *)
(* returns as the result); the file counts as failed unless both signed    *)
(* sections were verified; apk_sign_ctx_free.                              *)
(***************************************************************************)
VfOpen ==
    /\ vf.state = "next" /\ vf.file <= NFiles
    /\ \E o \in Wrapped(FromFile, "gunzip", "gis") :
          /\ Apply("vf", o.acq \cup {"sctx"}, o.frees)
          /\ vf' = [vf EXCEPT !.state = "parsing", !.ret = o.ret, !.chain = o.chain]
    /\ UNCHANGED <<rd, wr>>

VfParse ==
    /\ vf.state = "parsing"
    /\ \E cv, dv \in BOOLEAN :
          /\ vf.ret # STREAM => ~cv /\ ~dv
          /\ Apply("vf", {}, (IF vf.ret = STREAM THEN CloseSeq(vf.chain) ELSE <<>>) \o <<"sctx">>)
          /\ vf' = [vf EXCEPT !.state = "next", !.file = @ + 1,
                              !.rc = @ + (IF cv /\ dv THEN 0 ELSE 1)]
    /\ UNCHANGED <<rd, wr>>

VfDone ==
    /\ vf.state = "next" /\ vf.file > NFiles
    /\ vf' = [vf EXCEPT !.state = "done"]
    /\ UNCHANGED <<live, fault, rd, wr>>

Next ==
    \/ \E url \in Urls, gz \in BOOLEAN : RdOpen(url, gz)
    \/ RdRead \/ RdClose
    \/ WrOpen \/ WrWrite \/ WrClose
    \/ VfOpen \/ VfParse \/ VfDone

Spec == Init /\ [][Next]_vars

Res == {"u", "fis", "io", "file", "gis", "gos", "out", "sctx"}
Ptrs == {STREAM, 0} \cup -4095..-1
Chains == {<<>>, <<"fetch">>, <<"file">>, <<"gunzip", "fetch">>, <<"gunzip", "file">>,
           <<"gzo", "out">>}

TypeOK ==
    /\ live \in [Clients -> SUBSET Res] /\ fault \in BOOLEAN
    /\ rd.state \in {"idle", "open", "failed", "closed"} /\ rd.url \in Urls \cup {<<>>}
    /\ rd.ret \in Ptrs /\ rd.chain \in Chains /\ rd.calls \in 0..MaxCalls
    /\ rd.last \in {1, 0, -EIO}
    /\ wr.state \in {"idle", "open", "failed", "closed"} /\ wr.ret \in Ptrs
    /\ wr.chain \in Chains /\ wr.calls \in 0..MaxCalls
    /\ wr.lost \in BOOLEAN /\ wr.reported \in BOOLEAN
    /\ vf.state \in {"next", "parsing", "done"} /\ vf.file \in 1..NFiles + 1
    /\ vf.ret \in Ptrs /\ vf.chain \in Chains /\ vf.rc \in 0..NFiles

-----------------------------------------------------------------------------
(***************************************************************************)
(* Properties                                                              *)
(***************************************************************************)

\* What caller c holds: the layers of the stream it has open, and the
\* signature context of the file verify_main is on.
Holds(c) ==
    CASE c = "rd" -> IF rd.state = "open" THEN ChainRes(rd.chain) ELSE {}
    []   c = "wr" -> IF wr.state = "open" THEN ChainRes(wr.chain) ELSE {}
    []   OTHER    -> IF vf.state = "parsing"
                     THEN {"sctx"} \cup (IF vf.ret = STREAM THEN ChainRes(vf.chain) ELSE {})
                     ELSE {}

(***************************************************************************)
(* Owned (the ownership rule of the istream and ostream constructors: the  *)
(* wrapped stream belongs to the wrapper, and a failing constructor closes *)
(* it): after every call, a caller's allocated resources are exactly the   *)
(* layers of the stream it holds.  A failing open, a close and each        *)
(* verify_main iteration leak nothing.                                    *)
(***************************************************************************)
Owned == \A c \in Clients : live[c] = Holds(c)

(***************************************************************************)
(* NoMisuse (the err label of apk_istream_fetch, lines 139-143, and the     *)
(* error paths of the gzip constructors): nothing is released twice and    *)
(* nothing NULL is passed to fetchFreeURL, fetchIO_close or a close.      *)
(***************************************************************************)
NoMisuse == ~fault

(***************************************************************************)
(* OpenResultValid (fetch_maperror's fallback to -EIO, and ERR_CAST in the *)
(* gzip constructors): an open yields a stream or an error pointer that    *)
(* the caller's IS_ERR recognises, never NULL.                             *)
(***************************************************************************)
OpenResultValid ==
    /\ rd.state = "failed" => IsErr(rd.ret)
    /\ wr.state = "failed" => IsErr(wr.ret)
    /\ vf.state = "parsing" => vf.ret = STREAM \/ IsErr(vf.ret)

\* The scheme of a URL: the characters before its first ':'.
SchemeOf(url) == LET k == SelectInSeq(url, LAMBDA ch : ch = ":")
                 IN IF k = 0 THEN <<>> ELSE SubSeq(url, 1, k - 1)
RemoteSchemes == {<<"h","t","t","p">>, <<"h","t","t","p","s">>, <<"f","t","p">>}

(***************************************************************************)
(* RoutedByScheme (spec section 6: file: URLs open locally, http(s): and   *)
(* ftp: URLs are fetched; apk_url_local_file with its strncmp lengths):    *)
(* an opened URL went to libfetch exactly when its scheme is http, https  *)
(* or ftp, and a file: URL opened the path after "file:".                 *)
(***************************************************************************)
RoutedByScheme ==
    rd.state # "idle" =>
        /\ (rd.via = "fetch") = (SchemeOf(rd.url) \in RemoteSchemes)
        /\ SchemeOf(rd.url) = <<"f","i","l","e">> =>
              rd.path = SubSeq(rd.url, Len(SchemeOf(rd.url)) + 2, Len(rd.url))

(***************************************************************************)
(* LossReported (gzo_write and gzo_close): when compressed data failed to  *)
(* reach the output, in a write or in the final flush, or the output      *)
(* failed to close, some call on the gzip stream returned an error by the *)
(* time it is closed.                                                     *)
(***************************************************************************)
LossReported == wr.state = "closed" /\ wr.lost => wr.reported

=============================================================================
