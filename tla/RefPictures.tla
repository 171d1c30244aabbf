------------------------------ MODULE RefPictures ------------------------------
(***************************************************************************)
(* The reconstructed pictures of the VeriSilicon encoder (HEVC): the store *)
(* of sw_picture.c, the choice and the marking of references in            *)
(* hevcencapi.c and sw_parameter_set.c, and the frames that several cores  *)
(* have in flight.  Put together with the encode order, and compared with  *)
(* what a decoder of the stream keeps.                                     *)
(*                                                                         *)
(* A picture of the store is found by its POC, from the one put longest    *)
(* ago.  It may be given to a new frame when it is no reference and no     *)
(* frame in flight reads or writes it.                                     *)
(***************************************************************************)
EXTENDS EncodeOrder, Sequences, Functions

VARIABLES
    pool,       \* [pics: by picture_memory_id, store: container.picture from its tail,
                \*  flight: the frames of the cores, oldest first]
    dpb,        \* decoder: the frame it holds for a POC
    delivered   \* the last frame of the stream: [reads, seen: the frames its references were
                \* for the encoder, and are for the decoder]

vars == <<setup, order, pool, dpb, delivered>>

-----------------------------------------------------------------------------
(***************************************************************************)
(* The store.                                                              *)
(***************************************************************************)
NewPicture == [poc |-> -1, reference |-> FALSE, refCnt |-> 0, first |-> FALSE, frame |-> -1]

Positions(store, P) == {i \in DOMAIN store : store[i] \in P}
FirstIn(store, P) == store[Min(Positions(store, P))]
\* queue_remove and queue_put
MovedLast(store, k) ==
    LET at == Min(Positions(store, {k}))
    IN  [i \in DOMAIN store |-> IF i < at THEN store[i]
                                ELSE IF i < Len(store) THEN store[i + 1] ELSE k]

\* get_picture with a POC
WithPoc(p, poc) == {k \in DOMAIN p.pics : p.pics[k].poc = poc}
GetPicture(p, poc) == FirstIn(p.store, WithPoc(p, poc))

\* get_picture without one, or create_picture_ctrlsw
Unused_NoReference(p) == {k \in DOMAIN p.pics : ~p.pics[k].reference}
Unused(p) == {k \in DOMAIN p.pics : p.pics[k].refCnt = 0 /\ ~p.pics[k].reference}
FreePicture(p) == IF Unused(p) = {} THEN Len(p.pics) + 1 ELSE FirstIn(p.store, Unused(p))
WithFree(p) ==
    IF Unused(p) # {} THEN p
    ELSE [p EXCEPT !.pics = Append(@, NewPicture), !.store = Append(@, Len(p.pics) + 1)]

-----------------------------------------------------------------------------
(***************************************************************************)
(* The references of a frame.                                              *)
(***************************************************************************)
References(p) == {k \in DOMAIN p.pics : p.pics[k].reference}
Held(p) == {p.pics[k].poc : k \in References(p)}
HeldFirst(p) == {p.pics[k].poc : k \in {r \in References(p) : p.pics[r].first}}

Found(p, cfg, poc) == {r \in cfg.refs : poc + r.delta \in Held(p)}
PocsOf(refs, poc) == {poc + r.delta : r \in refs}
UsedOf(refs) == {r \in refs : r.used}

\* get_ref_picture: for each missing reference the closest first picture of a group on its side
\* that is not used yet.
Closest(poc, candidates, n) ==
    {q \in candidates :
        Cardinality({x \in candidates : Max({x - poc, poc - x}) < Max({q - poc, poc - q})}) < n}
Recovered(p, cfg, poc) ==
    LET missing == UsedOf(cfg.refs \ Found(p, cfg, poc))
        candidates == HeldFirst(p) \ PocsOf(UsedOf(Found(p, cfg, poc)), poc)
    IN  Closest(poc, {q \in candidates : q < poc},
                Cardinality({r \in missing : r.delta < 0}))
        \cup Closest(poc, {q \in candidates : q > poc},
                     Cardinality({r \in missing : r.delta > 0}))

\* get_rps_id, check_multi_references: the pictures a frame keeps, and those of them it reads.
Rps(p, e, idr, poc) ==
    LET cfg == Gop[e.size][e.idx + 1]
    IN  IF idr THEN {}
        ELSE PocsOf(Found(p, cfg, poc), poc)
                \cup IF e.idx = 0 THEN Recovered(p, cfg, poc) ELSE {}
Used(p, e, idr, poc) ==
    LET cfg == Gop[e.size][e.idx + 1]
    IN  IF idr THEN {}
        ELSE PocsOf(UsedOf(Found(p, cfg, poc)), poc)
                \cup IF e.idx = 0 THEN Recovered(p, cfg, poc) ELSE {}

\* ref_pic_marking
PocAfter_Kept(picture, kept) == picture.poc
PocAfter(picture, kept) == IF ~kept /\ picture.refCnt = 0 THEN -1 ELSE picture.poc
IsKept_Always(p, rps, k) == p.pics[k].reference
IsKept(p, rps, k) == \E q \in rps : k = GetPicture(p, q)
Marked(p, rps) ==
    [p EXCEPT !.pics =
        [k \in DOMAIN p.pics |->
            [p.pics[k] EXCEPT !.reference = IsKept(p, rps, k),
                              !.poc = PocAfter(p.pics[k], IsKept(p, rps, k))]]]

-----------------------------------------------------------------------------
(***************************************************************************)
(* What a call makes of the store.                                         *)
(***************************************************************************)
\* The references are marked and a free picture gets the POC.
Prepared(p, rps, poc, first) ==
    LET m == Marked(p, rps)
        k == FreePicture(m)
    IN  [WithFree(m) EXCEPT !.pics[k].poc = poc, !.pics[k].first = first]

\* The frame with the next job: [cnt, idr, poc, rps; pic, refs: the pictures it writes and
\* reads; reads: the frames those hold].
FrameOf(p, e, idr, poc) ==
    LET rps == Rps(p, e, idr, poc)
        m == Marked(p, rps)
        refs == [q \in Used(p, e, idr, poc) |-> GetPicture(m, q)]
    IN  [cnt |-> e.cnt, idr |-> idr, poc |-> poc, rps |-> rps, pic |-> FreePicture(m),
         refs |-> refs, reads |-> [q \in DOMAIN refs |-> p.pics[refs[q]].frame]]

\* sw_ref_cnt_increase and sw_ref_cnt_decrease
Counted(pics, f, n) ==
    [k \in DOMAIN pics |->
        [pics[k] EXCEPT !.refCnt = IF k = f.pic \/ k \in Range(f.refs) THEN @ + n ELSE @]]

\* The frame is left with a core; a picture without references is a reference itself.
Started(p, f, e) ==
    LET g == Prepared(p, f.rps, f.poc, e.idx = 0)
        reference == f.rps = {} \/ ~Gop[e.size][e.idx + 1].nonReference
        written == [g.pics EXCEPT ![f.pic].reference = reference, ![f.pic].frame = f.cnt]
    IN  [pics |-> Counted(written, f, 1), store |-> MovedLast(g.store, f.pic),
         flight |-> Append(g.flight, f)]
\* Rate control leaves the frame out.
SkippedIn(p, rps, poc, first) ==
    LET g == Prepared(p, rps, poc, first)
    IN  [g EXCEPT !.store = MovedLast(@, FreePicture(Marked(p, rps)))]
\* The core with the oldest frame is done.
Finished(p) ==
    LET f == Head(p.flight)
    IN  [pics |-> Counted(p.pics, f, -1), store |-> MovedLast(p.store, f.pic),
         flight |-> Tail(p.flight)]

-----------------------------------------------------------------------------
(***************************************************************************)
(* The decoder.                                                            *)
(***************************************************************************)
\* It keeps what the reference picture set of a frame names and adds the frame.
Deliver(f) ==
    LET kept == IF f.idr THEN <<>> ELSE Restrict(dpb, DOMAIN dpb \cap f.rps)
    IN  /\ dpb' = [q \in DOMAIN kept \cup {f.poc} |-> IF q = f.poc THEN f.cnt ELSE kept[q]]
        /\ delivered' = [reads |-> f.reads,
                         seen |-> Restrict(kept, DOMAIN kept \cap DOMAIN f.reads)]
DeliverIf(sent, f) == IF sent THEN Deliver(f) ELSE UNCHANGED <<dpb, delivered>>
Streams == IF "discard" \in setup.lost THEN BOOLEAN ELSE {TRUE}   \* discarded at an overflow, or sent

-----------------------------------------------------------------------------
(***************************************************************************)
(* The calls.                                                              *)
(***************************************************************************)
Init ==
    /\ OrderInit
    /\ pool = [pics |-> <<>>, store |-> <<>>, flight |-> <<>>]
    /\ dpb = <<>>
    /\ delivered = [reads |-> <<>>, seen |-> <<>>]

\* No picture can be coded yet, or none is left.
Wait(o) ==
    /\ ~HasJob(o)
    /\ order' = o
    /\ UNCHANGED <<pool, dpb, delivered>>

\* VCEncMultiCoreFlush
MultiCoreFlush(o) ==
    /\ ~HasJob(o) /\ pool.flight # <<>>
    /\ order' = o
    /\ pool' = Finished(pool)
    /\ \E sent \in Streams : DeliverIf(sent, Head(pool.flight))

\* rateControl.picSkipAllowed
MaySkip(o) == "skip" \in setup.lost /\ setup.cores = 1 /\ (IsIdr(o) \/ o.enc.size = 1)

Skip(o) ==
    /\ HasJob(o) /\ MaySkip(o)
    /\ pool' = SkippedIn(pool, Rps(pool, o.enc, IsIdr(o), JobPoc(o)), JobPoc(o), o.enc.idx = 0)
    /\ order' = PutOff(Taken(o))
    /\ UNCHANGED <<dpb, delivered>>

\* A core is still free: the call returns at once.
Start(o) ==
    /\ HasJob(o) /\ Len(pool.flight) < setup.cores - 1
    /\ pool' = Started(pool, FrameOf(pool, o.enc, IsIdr(o), JobPoc(o)), o.enc)
    /\ \E size \in NextSizes(o) : order' = Advanced(Taken(o), size)
    /\ UNCHANGED <<dpb, delivered>>

\* All cores are busy now: the call waits for the oldest frame.
StartAndWait(o) ==
    /\ HasJob(o) /\ Len(pool.flight) >= setup.cores - 1
    /\ LET p == Started(pool, FrameOf(pool, o.enc, IsIdr(o), JobPoc(o)), o.enc)
       IN  /\ pool' = Finished(p)
           /\ \E sent \in Streams :
                /\ DeliverIf(sent, Head(p.flight))
                /\ IF sent THEN \E size \in NextSizes(o) : order' = Advanced(Taken(o), size)
                   ELSE order' = PutOff(Taken(o))

Encode(o) == Skip(o) \/ Start(o) \/ StartAndWait(o)

VCEncStrmEncode ==
    /\ MayGive
    /\ \E idr \in IF MayForceIdr THEN BOOLEAN ELSE {FALSE} :
          Encode(Given(order, idr)) \/ Wait(Given(order, idr))
    /\ UNCHANGED setup

VCEncFlush ==
    /\ MayFlush
    /\ \/ Encode(Flushed(order))
       \/ MultiCoreFlush(Flushed(order))
       \/ pool.flight = <<>> /\ Wait(Flushed(order))
    /\ UNCHANGED setup

Next == VCEncStrmEncode \/ VCEncFlush

Spec == Init /\ [][Next]_vars

-----------------------------------------------------------------------------
(***************************************************************************)
(* Properties.                                                             *)
(***************************************************************************)
\* The decoder has the pictures a frame was predicted from, under the same POC
\* (sw_parameter_set.c:1530: "Encoder can't use picture if it is not in the decoders buffer
\* anymore").
SameReferences == delivered.reads = delivered.seen

\* What a frame in flight writes and reads is not overwritten by a later frame.
BuffersIntact ==
    \A i \in DOMAIN pool.flight :
        LET f == pool.flight[i]
        IN  /\ pool.pics[f.pic].frame = f.cnt
            /\ \A q \in DOMAIN f.refs : pool.pics[f.refs[q]].frame = f.reads[q]

\* Picture memory is allocated for as many pictures as are ever created
\* (hevcencapi.c:655, encasiccontroller_v2.c:213).
BuffersSuffice == Len(pool.pics) <= setup.refFrameAmount + setup.cores

\* The picture the encoder waits for is in the queue or still to come, and a flush leaves none
\* (FindNextPic).  Exception: a group planned again from a picture that was left out
\* (hevcencapi.c:6276, 6299) may pass a picture over.
NextIsToCome ==
    \/ order.astray
    \/ HasJob(order)
    \/ IF order.flushing THEN order.jobs = {} ELSE order.enc.cnt >= order.submitted

\* An IDR picture is coded after all pictures before it in the source, so that a group is cut
\* where it comes.
IdrCutsTheOrder == order.enc.idr => \A j \in order.jobs : j.cnt >= order.enc.cnt
=============================================================================
