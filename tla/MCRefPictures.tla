---------------------------- MODULE MCRefPictures ----------------------------
EXTENDS RefPictures

Ref(delta) == [delta |-> delta, used |-> TRUE]
Kept(delta) == [delta |-> delta, used |-> FALSE]
P(poc, refs) == [poc |-> poc, refs |-> refs, nonReference |-> FALSE]
N(poc, refs) == [poc |-> poc, refs |-> refs, nonReference |-> TRUE]
\* The default groups of test_bench_utils.c:43-77
MCGop == << <<P(1, {Ref(-1)})>>,
            <<P(2, {Ref(-2)}), N(1, {Ref(-1), Ref(1)})>>,
            <<P(3, {Ref(-3)}), P(1, {Ref(-1), Ref(2)}), N(2, {Ref(-1), Ref(1)})>>,
            <<P(4, {Ref(-4)}), P(2, {Ref(-2), Ref(2)}), N(1, {Ref(-1), Ref(1), Kept(3)}),
              N(3, {Ref(-1), Ref(1)})>> >>

Base == [cores |-> 1, sizes |-> {4}, idrInterval |-> 0, idrGap |-> 1, lastPic |-> 20,
         lowdelay |-> FALSE, lost |-> {}, refFrameAmount |-> 3]
MCSetups ==
    {[Base EXCEPT !.sizes = {1, 2, 3, 4}, !.lastPic = 8],
     [Base EXCEPT !.idrInterval = 5],
     [Base EXCEPT !.idrInterval = 6, !.idrGap = PicMax, !.lost = {"skip"}],
     [Base EXCEPT !.idrInterval = 7, !.lowdelay = TRUE],
     [Base EXCEPT !.sizes = {1}, !.lost = {"skip", "discard"}, !.refFrameAmount = 1],
     [Base EXCEPT !.cores = 2, !.idrGap = 4],
     [Base EXCEPT !.cores = 2, !.sizes = {1}, !.idrGap = 3, !.refFrameAmount = 1],
     [Base EXCEPT !.cores = 3, !.idrInterval = 9, !.idrGap = 8],
     [Base EXCEPT !.cores = 3, !.sizes = {2, 4}, !.idrGap = PicMax]}
\* The application forces an IDR every other picture.
StaleSetups == {[Base EXCEPT !.cores = 2, !.sizes = {1}, !.idrGap = 2, !.refFrameAmount = 1]}
=============================================================================
