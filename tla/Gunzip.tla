------------------------------- MODULE Gunzip -------------------------------
(***************************************************************************)
(* The multipart gzip input stream of src/src/gunzip.c: gzi_read, the      *)
(* loop that inflates a concatenation of gzip members read in chunks from  *)
(* an underlying stream (zis) and reports, through the multipart callback  *)
(* cb, which compressed bytes were consumed (DATA), where one member ends  *)
(* and the next begins (BOUNDARY) and the end of the stream (END).         *)
(*                                                                         *)
(* Compressed input is abstracted to byte offsets 0..len; the layout       *)
(* (where each gzip member ends) is chosen in Init.  Decompressed output   *)
(* is abstracted to a count: what matters is which member produced it and  *)
(* whether the caller has received it.  gzi_read's loop is modelled with   *)
(* a program counter, one action per block of the loop body: the loop      *)
(* test with the postponed boundary (lines 56-61), the input refill        *)
(* (lines 62-84) and the inflate call with its result (lines 86-115).      *)
(***************************************************************************)
EXTENDS Integers, Sequences, SequencesExt, FiniteSets

CONSTANTS
    Layouts,        \* possible inputs: [ends |-> member end offsets, len |-> input length]
    MaxChunk,       \* largest chunk apk_istream_get_all hands out
    ReadSizes,      \* sizes the caller passes to read
    HasCb,          \* cb != NULL (apk_istream_gunzip_mpart vs apk_istream_gunzip)
    CbResults,      \* what cb may return for BOUNDARY and END
    DataCbResults,  \* what cb may return for DATA
    ZisMayFail,     \* apk_istream_get_all may return a negative error
    CorruptInput,   \* inflate may report a data error
    InitMayFail,    \* inflateInit2 may fail (out of memory) between members
    MaxEvents       \* bound on the callback log (never reached by the code)

ASSUME /\ \A l \in Layouts : /\ l.ends \in Seq(1..l.len)
                             /\ \A i \in 1..Len(l.ends) - 1 : l.ends[i] < l.ends[i+1]
       /\ MaxChunk \in Nat \ {0}
       /\ ReadSizes \subseteq Nat \ {0}
       /\ MaxEvents >= 2 * Max({l.len : l \in Layouts}) + 2

\* Error codes stored in is.err.  1 is the end-of-file marker of apk_istream.
EOF       == 1
EIO       == -5
ECANCELED == -125
ZisError  == -5          \* apk_istream_get_all failure (an I/O error of zis)

NoPtr    == -1           \* cbprev == NULL
NullBlob == <<>>         \* APK_BLOB_NULL
NoEvent  == [kind |-> "none", arg |-> NullBlob, ret |-> 0]

VARIABLES
    layout,     \* the compressed input (fixed after Init)
    pc,         \* "idle" (not in gzi_read), "top", "fill", "inflate", "crashed"
    pos,        \* zs.next_in as an input offset
    chunkEnd,   \* zs.next_in + zs.avail_in
    cbprev,     \* gis->cbprev
    cbarg,      \* gis->cbarg: a postponed boundary range <<from, to>> or NullBlob
    err,        \* gis->is.err
    zerr,       \* gis->zis->err
    cur,        \* the gzip member inflate is in
    zdead,      \* zs was ended and inflateInit2 failed to set it up again
    availOut,   \* zs.avail_out
    callOut,    \* members whose output is in the buffer of the current read call
    events      \* history: callbacks made, [kind, arg, ret]

vars == <<layout, pc, pos, chunkEnd, cbprev, cbarg, err, zerr, cur, zdead, availOut,
          callOut, events>>

Ends == layout.ends
Len0 == layout.len

\* Offset of the end of member m; a member past the last complete one never ends.
EndOf(m) == IF m <= Len(Ends) THEN Ends[m] ELSE Len0 + 1

Cb(kind, arg, r) == [kind |-> kind, arg |-> arg, ret |-> r]

\* The error gzi_boundary_change leaves in is.err after cb returned r (lines
\* 43-44): a positive result becomes -ECANCELED, a non-zero one is stored.
ErrAfterCb_NoStore(e, r) == e
ErrAfterCb(e, r) == IF r > 0 THEN ECANCELED ELSE IF r # 0 THEN r ELSE e

(***************************************************************************)
(* gzi_boundary_change (lines 38-46) called with is.err = e and cbarg =     *)
(* arg, after the callbacks already in log: cb is told END if is.err is    *)
(* set, BOUNDARY otherwise.  gzi_read goes on at cont when cb returned 0   *)
(* and returns otherwise.  gis->cb is called unconditionally: without a    *)
(* callback this is a call through NULL.                                   *)
(***************************************************************************)
BoundaryChange(e, arg, log, cont) ==
    IF HasCb
    THEN /\ Len(log) < MaxEvents
         /\ \E r \in CbResults :
              /\ events' = Append(log, Cb(IF e # 0 THEN "end" ELSE "boundary", arg, r))
              /\ err' = ErrAfterCb(e, r)
              /\ pc' = IF r # 0 THEN "idle" ELSE cont
    ELSE /\ events' = log
         /\ err' = e
         /\ pc' = "crashed"

TypeOK ==
    /\ pc \in {"idle", "top", "fill", "inflate", "crashed"}
    /\ pos \in 0..Len0 /\ chunkEnd \in pos..Len0
    /\ cbprev \in {NoPtr} \cup 0..Len0
    /\ cbarg \in {NullBlob} \cup ((0..Len0) \X (0..Len0))
    /\ err \in {0, EOF, EIO, ECANCELED, ZisError} \cup CbResults
    /\ zerr \in {0, EOF}
    /\ cur \in 1..Len(Ends) + 1
    /\ zdead \in BOOLEAN
    /\ availOut \in 0..Max(ReadSizes)
    /\ callOut \subseteq 1..Len(Ends) + 1
    /\ events \in Seq([kind : {"data", "boundary", "end"},
                       arg : {NullBlob} \cup ((0..Len0) \X (0..Len0)),
                       ret : CbResults \cup DataCbResults])

Init ==
    /\ layout \in Layouts
    /\ pc = "idle"
    /\ pos = 0 /\ chunkEnd = 0
    /\ cbprev = NoPtr /\ cbarg = NullBlob
    /\ err = 0 /\ zerr = 0
    /\ cur = 1
    /\ zdead = FALSE
    /\ availOut = 0
    /\ callOut = {}
    /\ events = <<>>

(***************************************************************************)
(* The caller (apk_istream_read, driven by the tar parser) calls gzi_read   *)
(* while the stream has no error.  Lines 53-54.                             *)
(***************************************************************************)
Read ==
    /\ pc = "idle" /\ err = 0
    /\ \E size \in ReadSizes : availOut' = size
    /\ pc' = "top"
    /\ callOut' = {}
    /\ UNCHANGED <<layout, pos, chunkEnd, cbprev, cbarg, err, zerr, cur, zdead, events>>

\* Loop test false (line 56): return size - avail_out (line 119).
LoopExit ==
    /\ pc = "top"
    /\ availOut = 0 \/ err # 0
    /\ pc' = "idle"
    /\ UNCHANGED <<layout, pos, chunkEnd, cbprev, cbarg, err, zerr, cur, zdead, availOut,
                   callOut, events>>

\* Loop body, lines 57-61: deliver a boundary postponed by Z_STREAM_END.
LoopTop ==
    /\ pc = "top"
    /\ availOut # 0 /\ err = 0
    /\ \/ /\ cbarg = NullBlob
          /\ pc' = "fill"
          /\ UNCHANGED <<cbarg, err, events>>
       \/ /\ cbarg # NullBlob
          /\ BoundaryChange(err, cbarg, events, "fill")
          /\ cbarg' = IF err' = 0 THEN NullBlob ELSE cbarg
    /\ UNCHANGED <<layout, pos, chunkEnd, cbprev, zerr, cur, zdead, availOut, callOut>>

(***************************************************************************)
(* Lines 62-84: with no input left, report the consumed bytes since cbprev  *)
(* as DATA (its result is not looked at), then take the next chunk from     *)
(* zis.  A chunk of length 0 is the end of the input: is.err becomes 1 and *)
(* the END callback is made at once through gzi_boundary_change, which     *)
(* calls gis->cb whether or not one was given.                             *)
(***************************************************************************)
DataEvent == IF HasCb /\ cbprev # NoPtr /\ cbprev < pos
             THEN {Cb("data", <<cbprev, pos>>, r) : r \in DataCbResults}
             ELSE {NoEvent}

Logged(ev) == IF ev = NoEvent THEN events ELSE Append(events, ev)

FillChunk_PastEnd(ev) ==
    /\ pos < Len0
    /\ \E l \in 1..MaxChunk :
          /\ chunkEnd' = pos + l
          /\ zerr' \in IF pos + l >= Len0 THEN {0, EOF} ELSE {0}
    /\ cbprev' = pos
    /\ events' = Logged(ev)
    /\ pc' = "inflate"
    /\ UNCHANGED <<pos, cbarg, err>>

\* A chunk of data; zis may learn of its end with the last one.
FillChunk(ev) ==
    /\ pos < Len0
    /\ \E l \in 1..Min({MaxChunk, Len0 - pos}) :
          /\ chunkEnd' = pos + l
          /\ zerr' \in IF pos + l = Len0 THEN {0, EOF} ELSE {0}
    /\ cbprev' = pos
    /\ events' = Logged(ev)
    /\ pc' = "inflate"
    /\ UNCHANGED <<pos, cbarg, err>>

\* A read error of zis (lines 75-77): no callback.
FillError(ev) ==
    /\ ZisMayFail
    /\ err' = ZisError
    /\ events' = Logged(ev)
    /\ pc' = "idle"
    /\ UNCHANGED <<pos, chunkEnd, cbprev, cbarg, zerr>>

\* The end of the input (lines 78-82): is.err = 1, then END with no range.
FillEof_NoEnd(ev) ==
    /\ pos = Len0
    /\ zerr' = EOF /\ cbarg' = NullBlob
    /\ err' = EOF /\ events' = Logged(ev) /\ pc' = "idle"
    /\ UNCHANGED <<pos, chunkEnd, cbprev>>
FillEof_NoErr(ev) ==
    /\ pos = Len0
    /\ zerr' = EOF /\ cbarg' = NullBlob
    /\ BoundaryChange(0, NullBlob, Logged(ev), "idle")
    /\ UNCHANGED <<pos, chunkEnd, cbprev>>
FillEof(ev) ==
    /\ pos = Len0
    /\ zerr' = EOF
    /\ cbarg' = NullBlob
    /\ BoundaryChange(EOF, NullBlob, Logged(ev), "idle")
    /\ UNCHANGED <<pos, chunkEnd, cbprev>>

Fill ==
    /\ pc = "fill"
    /\ \/ /\ chunkEnd # pos
          /\ pc' = "inflate"
          /\ UNCHANGED <<pos, chunkEnd, cbprev, cbarg, err, zerr, events>>
       \/ /\ chunkEnd = pos
          /\ Len(events) < MaxEvents - 1
          /\ \E ev \in DataEvent : FillChunk(ev) \/ FillEof(ev) \/ FillError(ev)
    /\ UNCHANGED <<layout, cur, zdead, availOut, callOut>>

(***************************************************************************)
(* Lines 86-115: inflate consumes k >= 1 bytes of the current member and   *)
(* writes o bytes of output.  Consuming the member's last byte is           *)
(* Z_STREAM_END (zlib checks the trailer only after all output is made).  *)
(* On Z_STREAM_END the consumed range since cbprev becomes the postponed    *)
(* boundary; if zis has already hit its end and the input is used up, the   *)
(* stream ends here and END is called at once (lines 90-104).  Otherwise   *)
(* inflate is reset and, when there is a callback, gzi_read returns so the *)
(* caller takes the member's output before the boundary is reported.       *)
(* When inflateInit2 fails (line 106-107) gzi_read returns -ENOMEM with     *)
(* is.err still 0, the member's output of this call unreported, and zs     *)
(* ended; the caller may read again.                                       *)
(***************************************************************************)
Produced(o) == IF o > 0 THEN callOut \cup {cur} ELSE callOut

InflateOk ==
    /\ pc = "inflate"
    /\ ~zdead
    /\ \E k \in 1..(chunkEnd - pos), o \in 0..availOut :
          /\ pos + k < EndOf(cur)
          /\ pos' = pos + k
          /\ availOut' = availOut - o
          /\ callOut' = Produced(o)
    /\ pc' = "top"
    /\ UNCHANGED <<layout, chunkEnd, cbprev, cbarg, err, zerr, cur, zdead, events>>

\* cbprev after Z_STREAM_END (lines 92-95).
CbprevAtEnd_Stale(end) == cbprev
CbprevAtEnd(end) == IF HasCb THEN end ELSE cbprev

\* Where gzi_read goes after a member ended mid-stream (line 108): it
\* returns when there is a callback, and inflates on otherwise.
ResumeAfterEnd_NoReturn == "top"
ResumeAfterEnd == IF HasCb THEN "idle" ELSE "top"

InflateStreamEnd ==
    /\ pc = "inflate"
    /\ ~zdead
    /\ EndOf(cur) <= chunkEnd
    /\ \E o \in 0..availOut :
       LET end == EndOf(cur)
           e1  == IF zerr # 0 /\ chunkEnd = end THEN zerr ELSE err
           arg == IF HasCb THEN <<cbprev, end>> ELSE cbarg
       IN /\ pos' = end
          /\ availOut' = availOut - o
          /\ callOut' = Produced(o)
          /\ cur' = cur + 1
          /\ cbarg' = arg
          /\ cbprev' = CbprevAtEnd(end)
          /\ IF e1 # 0
             THEN /\ BoundaryChange(e1, arg, events, "idle")
                  /\ UNCHANGED zdead
             ELSE \/ /\ pc' = ResumeAfterEnd
                     /\ UNCHANGED <<err, events, zdead>>
                  \/ /\ InitMayFail
                     /\ pc' = "idle"
                     /\ zdead' = TRUE
                     /\ UNCHANGED <<err, events>>
    /\ UNCHANGED <<layout, chunkEnd, zerr>>

\* Any other inflate result (lines 112-114) is an error: is.err = -EIO.  It is
\* a data error of corrupt input, or Z_STREAM_ERROR from inflate on a z_stream
\* that inflateEnd released and inflateInit2 failed to set up again.
InflateError_NoErr ==
    /\ pc = "inflate"
    /\ CorruptInput
    /\ pc' = "top"
    /\ UNCHANGED <<layout, pos, chunkEnd, cbprev, cbarg, err, zerr, cur, zdead, availOut,
                   callOut, events>>

InflateError ==
    /\ pc = "inflate"
    /\ CorruptInput \/ zdead
    /\ err' = EIO
    /\ pc' = "top"
    /\ UNCHANGED <<layout, pos, chunkEnd, cbprev, cbarg, zerr, cur, zdead, availOut,
                   callOut, events>>

Next ==
    \/ Read
    \/ LoopExit
    \/ LoopTop
    \/ Fill
    \/ InflateOk
    \/ InflateStreamEnd
    \/ InflateError

\* gzi_read runs on the caller's thread to completion; the tar parser keeps
\* reading until the stream reports an error or the end.
Spec == Init /\ [][Next]_vars /\ WF_vars(Next)

-----------------------------------------------------------------------------
(***************************************************************************)
(* Properties                                                              *)
(***************************************************************************)

\* Positions in events of callbacks that close a member (BOUNDARY or an END
\* carrying a range).
Closes == {i \in DOMAIN events : events[i].kind # "data" /\ events[i].arg # NullBlob}
Ranged == {i \in DOMAIN events : events[i].arg # NullBlob}

\* Where the range before event i ended (0 if there is none).
PrevEnd(i) == LET before == {j \in Ranged : j < i}
              IN IF before = {} THEN 0 ELSE events[Max(before)].arg[2]

(***************************************************************************)
(* The signature check digests each signed section from the ranges the     *)
(* callback is given.  SectionsMatchMembers: the ranges passed to DATA,     *)
(* BOUNDARY and END follow each other without gap or overlap from offset 0, *)
(* and the n-th range that closes a member ends exactly where the n-th      *)
(* gzip member ends, so the bytes reported between two boundaries are       *)
(* exactly one member.  Relies on cbprev being moved on refill (line 72)    *)
(* and at Z_STREAM_END (line 94).                                          *)
(***************************************************************************)
SectionsMatchMembers ==
    \A i \in Ranged :
        /\ events[i].arg[1] = PrevEnd(i)
        /\ events[i].arg[1] <= events[i].arg[2]
        /\ i \in Closes =>
              events[i].arg[2] = Ends[Cardinality({j \in Closes : j <= i})]

(***************************************************************************)
(* StopIsFinal: a BOUNDARY or END callback that returns non-zero, and END  *)
(* itself, stop the stream: no callback follows them, and is.err then says *)
(* why (-ECANCELED for a positive result, the result itself otherwise).    *)
(* The result of DATA is not looked at (line 67) and stops nothing.        *)
(***************************************************************************)
StopIsFinal ==
    /\ \A i \in 1..Len(events) - 1 :
          events[i].kind # "end" /\ (events[i].kind = "data" \/ events[i].ret = 0)
    /\ events # <<>> /\ Last(events).kind # "data" /\ Last(events).ret # 0
          => err = ErrAfterCb(0, Last(events).ret)

(***************************************************************************)
(* EndAtEof: whenever the stream ends at the end of its input (is.err = 1) *)
(* the last callback made is END, so the signature context saw the end.    *)
(***************************************************************************)
EndAtEof == err = EOF => events # <<>> /\ Last(events).kind = "end"

(***************************************************************************)
(* BoundaryAfterReturn: a BOUNDARY callback is only made at the start of a *)
(* read call, before that call has produced output; all output of the      *)
(* member it closes has already been returned to the caller (the           *)
(* postponement of lines 96-108).                                          *)
(***************************************************************************)
BoundaryAfterReturn ==
    [][Len(events') > Len(events) /\ Last(events').kind = "boundary"
         => callOut = {}]_vars

(***************************************************************************)
(* NoNullCallback: gzi_read never calls through a NULL multipart callback. *)
(***************************************************************************)
NoNullCallback == pc # "crashed"

(***************************************************************************)
(* Terminates: a caller that keeps reading eventually sees the stream end   *)
(* (end of input, an error or a cancel).                                   *)
(***************************************************************************)
Terminates == <>(err # 0)

=============================================================================
