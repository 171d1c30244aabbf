------------------------------ MODULE EncodeOrder ------------------------------
(***************************************************************************)
(* The order in which the VeriSilicon encoder codes the pictures of a      *)
(* stream in a single pass: VCEncStrmEncode of hevcencapi.c leaves each    *)
(* picture in a job queue and FindNextPic of hevcencapi_utils.c computes   *)
(* which picture count comes next, its POC, its place in the group of      *)
(* pictures, and where a group is cut short by an IDR picture or by the    *)
(* end of the stream.                                                      *)
(*                                                                         *)
(* Everything is kept in one record, so that RefPictures can compose what  *)
(* a call does to it.  Left out: GDR, interlaced and rate-converted input, *)
(* long-term and special pictures, and a group size given with a picture.  *)
(***************************************************************************)
EXTENDS Integers, FiniteSets, FiniteSetsExt

CONSTANTS Gop,          \* by size: the pictures of a group, in encoding order
          Setups,       \* how an encoder may be set up
          PicMax        \* bound: the pictures a stream may have

\* A picture of a group: its POC in the group, the distances to its reference pictures with
\* whether it uses them itself, and whether it is one.
ASSUME GopAssumption ==
    \A size \in DOMAIN Gop :
          /\ size \in Nat \ {0} /\ 1 .. size \subseteq DOMAIN Gop
          /\ DOMAIN Gop[size] = 1 .. size
          /\ \A i \in 1 .. size :
                /\ Gop[size][i].poc \in 1 .. size /\ Gop[size][i].nonReference \in BOOLEAN
                /\ \A r \in Gop[size][i].refs : r.delta \in Int \ {0} /\ r.used \in BOOLEAN
ASSUME SetupsAssumption ==
    \A s \in Setups :
        /\ s.cores \in Nat \ {0}        \* parallelCoreNum
        /\ s.sizes # {} /\ s.sizes \subseteq DOMAIN Gop
                                        \* gopSize; with several the encoder adapts it
        /\ s.idrInterval \in Nat        \* gopConfig.idr_interval
        /\ s.idrGap \in Nat             \* bound: how far apart the application forces IDRs
        /\ s.lastPic \in Nat            \* gopConfig.lastPic
        /\ s.lowdelay \in BOOLEAN       \* gopConfig.gopLowdelay
        /\ s.lost \subseteq {"skip", "discard"}
                                        \* rate control may skip a frame, or the stream of one
                                        \* overflow
        /\ s.refFrameAmount \in Nat

VARIABLES
    setup,  \* what the encoder was started with
    order   \* struct vcenc_instance: [enc, last: encInFor1pass and lastPicCfg; size:
            \* nextGopSize; nextIdr: nextIdrCnt; jobs: jobQueue; submitted: enqueueJobNum;
            \* lastPic: gopConfig.lastPic; flushing: bFlush;
            \* astray: history, a group was planned again from a picture that was left out]

-----------------------------------------------------------------------------
\* The first picture, as VCEncStrmStart copies it from the application.
FirstPicture(size) ==
    [cnt |-> 0, poc |-> 0, idr |-> TRUE, size |-> size, idx |-> 0, lastIdr |-> 0]
\* lastPicCfg.poc = -1
NoPicture == [FirstPicture(1) EXCEPT !.poc = -1]

OrderInit ==
    /\ setup \in Setups
    /\ LET size == IF Cardinality(setup.sizes) = 1 THEN CHOOSE n \in setup.sizes : TRUE ELSE 1
       IN  order = [enc |-> FirstPicture(size), last |-> NoPicture, size |-> size,
                    nextIdr |-> 0, jobs |-> {}, submitted |-> 0,
                    lastPic |-> setup.lastPic, flushing |-> FALSE, astray |-> FALSE]

\* By how many pictures an IDR cuts the group that would end with that picture.
CutByIdr_OneLess(end, due) == IF end >= due THEN end - due ELSE 0
CutByIdr(end, due) == IF end >= due THEN 1 + end - due ELSE 0

\* max_reduced_gop_size: what is left of a group that is cut
MaxReducedSize == IF setup.lowdelay THEN 1 ELSE 4

\* The picture after e, where a new group is to have that size.
FindNextPic(e, size, nextIdr, lastPic) ==
    LET interval == IF nextIdr >= 0 THEN nextIdr - e.lastIdr ELSE 0
        idx == IF e.idr THEN 0 ELSE (e.idx + 1) % e.size
        place == Gop[e.size][e.idx + 1].poc     \* of e in its group
        cur == IF e.idr THEN 0 ELSE IF idx = 0 THEN place - e.size ELSE place
        step == Gop[size][1].poc - cur          \* to the last picture of the new group
        end == e.cnt + step
        byIdr == IF interval = 0 THEN 0 ELSE CutByIdr(end, e.lastIdr + interval)
        byTail == Min({size - 1, Max({0, end - lastPic})})
        short == IF idx = 0 /\ step > 1 THEN Max({byIdr, byTail}) ELSE 0
        newSize == IF idx # 0 THEN e.size
                   ELSE IF 0 < short /\ short < size THEN Min({size - short, MaxReducedSize})
                   ELSE size
        cnt == e.cnt + IF short >= size THEN 1 - cur ELSE Gop[newSize][idx + 1].poc - cur
        idr == interval # 0 /\ cnt - e.lastIdr >= interval
    IN  [cnt |-> cnt, idr |-> idr, poc |-> IF idr THEN 0 ELSE e.poc + cnt - e.cnt,
         size |-> newSize, idx |-> idx, lastIdr |-> IF idr THEN cnt ELSE e.lastIdr]

FindNext(o, e) == FindNextPic(e, o.size, o.nextIdr, o.lastPic)

\* SinglePassEnqueueJob: the picture is left in the queue; an IDR before the next one expected
\* becomes the next one.
Enqueued(o, idr) ==
    [o EXCEPT !.jobs = @ \cup {[cnt |-> o.submitted, idr |-> idr]},
              !.submitted = @ + 1,
              !.nextIdr = IF idr /\ (@ > o.submitted \/ @ < 0) THEN o.submitted ELSE @]

\* The last picture was left out, and the one behind it has taken its place.
LeftOut(o) == o.size > 1 /\ o.enc = [o.last EXCEPT !.cnt = @ + 1]
Refound(o) == [o EXCEPT !.enc = FindNext(o, o.last), !.astray = @ \/ LeftOut(o)]

\* An IDR has come up before the next picture: that one is found again from the last one.
RefoundAtIdr(o) == IF o.nextIdr > 0 /\ o.nextIdr <= o.enc.cnt THEN Refound(o) ELSE o

\* The flush of a stream that ends early: lastPic is set to what there is.
RefoundAtEnd(o) ==
    IF o.lastPic + 1 <= o.submitted THEN o ELSE Refound([o EXCEPT !.lastPic = o.submitted - 1])

\* The first half of a call: the application gives the next picture, or flushes what is left.
Given(o, idr) == RefoundAtIdr(Enqueued(o, idr))
Flushed(o) == RefoundAtEnd([o EXCEPT !.flushing = TRUE])

MayGive == ~order.flushing /\ order.submitted < PicMax /\ order.submitted <= setup.lastPic
MayForceIdr ==
    LET idrs == {order.enc.lastIdr} \cup {j.cnt : j \in {k \in order.jobs : k.idr}}
                    \cup ({order.nextIdr} \cap 0 .. order.submitted)
    IN  order.submitted - Max(idrs) >= setup.idrGap
\* Bound: with three cores and more VCEncMultiCoreFlush takes a wrong frame for the oldest
\* when fewer than cores - 1 are in flight (AwaitedIsOldest of CoreWait).
MayFlush == order.submitted >= Max({1, setup.cores - 1})

\* SinglePassGetNextJob
Waiting(o) == {j.cnt : j \in o.jobs}
HasJob(o) == o.enc.cnt \in Waiting(o)
NextJob(o) == CHOOSE j \in o.jobs : j.cnt = o.enc.cnt

\* What a job is coded as: SetPictureCfgToJob
IsIdr(o) == NextJob(o).idr \/ o.enc.idr
JobPoc(o) == IF IsIdr(o) THEN 0 ELSE o.enc.poc

\* The job is taken and, when it is an IDR, the next one is looked for.
Taken(o) ==
    LET rest == o.jobs \ {NextJob(o)}
        forced == {j.cnt : j \in {k \in rest : k.idr}}
        usual == IF setup.idrInterval > 0 THEN o.nextIdr + setup.idrInterval ELSE -1
        next == IF forced = {} THEN -1 ELSE Min(forced)     \* FindNextForceIdr
        found == IF next > o.nextIdr /\ (usual < 0 \/ next < usual) THEN next ELSE usual
    IN  [o EXCEPT !.jobs = rest,
                  !.nextIdr = IF IsIdr(o) /\ @ <= o.enc.cnt THEN found ELSE @]

\* AGopDecision after the last picture of a group
NextSizes(o) ==
    IF Cardinality(setup.sizes) > 1 /\ ~o.enc.idr /\ o.enc.idx = o.enc.size - 1
    THEN setup.sizes ELSE {o.size}

\* The picture was coded, or left with a core: the one after it comes next.
Advanced(o, size) ==
    LET sized == [o EXCEPT !.size = size, !.last = o.enc]
    IN  [sized EXCEPT !.enc = FindNext(sized, o.enc)]
PutOff_KeepsCount(o) == [o EXCEPT !.last = o.enc, !.nextIdr = IF @ > 0 THEN @ + 1 ELSE @]
\* There is no stream for the picture: the one that follows it in the source takes its place.
PutOff(o) ==
    [o EXCEPT !.last = o.enc, !.enc.cnt = @ + 1, !.nextIdr = IF @ > 0 THEN @ + 1 ELSE @]
=============================================================================
