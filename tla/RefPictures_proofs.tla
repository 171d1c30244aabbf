--------------------------- MODULE RefPictures_proofs ---------------------------
(***************************************************************************)
(* What frames in flight write and read is never overwritten, for every    *)
(* group of pictures, number of cores and way of losing frames; with one   *)
(* core and no losses the decoder has the references of the encoder; with  *)
(* several it has them, and the picture memory is enough, wherever a POC   *)
(* finds a reference, as it does in a stream with one IDR.  Where groups   *)
(* name each picture once and no frame is lost, every picture is coded in  *)
(* its turn.                                                               *)
(***************************************************************************)
EXTENDS RefPictures, FiniteSetTheorems, WellFoundedInduction, TLAPS

-----------------------------------------------------------------------------
(* Minima and maxima *)

\* The minimum of a set of natural numbers is its least element.
LEMMA MinNat ==
    ASSUME NEW S \in SUBSET Nat, S # {}
    PROVE  Min(S) \in S /\ \A y \in S : Min(S) <= y
<1>1. PICK x \in S : \A y \in S : ~(<<y, x>> \in OpToRel(<, Nat))
  BY NatLessThanWellFounded, WFMin
<1>2. \A y \in S : ~(y < x)
  BY <1>1, Zenon DEF OpToRel
<1>3. \A y \in S : x <= y
  BY <1>2
<1>. QED  BY <1>3 DEF Min

\* The lesser and the greater of two numbers.
LEMMA MinMaxPair ==
    ASSUME NEW a \in Int, NEW b \in Int
    PROVE  /\ Min({a, b}) = IF a <= b THEN a ELSE b
           /\ Max({a, b}) = IF a >= b THEN a ELSE b
BY DEF Min, Max

-----------------------------------------------------------------------------
(* The encode order *)

Enc == [cnt : Int, poc : Int, idr : BOOLEAN, size : DOMAIN Gop, idx : Nat, lastIdr : Int]
\* A picture lies in its group, and its POC is not less than its place there.
EncOk(e) ==
    /\ e \in Enc
    /\ e.idx < e.size
    /\ IF e.idr THEN e.poc = 0 ELSE e.poc >= Gop[e.size][e.idx + 1].poc

Order == [enc : Enc, last : [cnt : Int, poc : Int, idr : BOOLEAN, size : Int, idx : Nat,
                             lastIdr : Int],
          size : DOMAIN Gop, nextIdr : Int, jobs : SUBSET [cnt : Nat, idr : BOOLEAN],
          submitted : Nat, lastPic : Int, flushing : BOOLEAN, astray : BOOLEAN]
\* Before the first picture there is no last one, and nothing asks for it.
OrderOk(o) ==
    /\ o \in Order
    /\ EncOk(o.enc)
    /\ EncOk(o.last) \/ (o.submitted = 0 /\ o.enc.cnt = 0 /\ o.nextIdr = 0)
\* In the middle of a call, too: then the first picture has its job.
MidOk(o) == o \in Order /\ EncOk(o.enc) /\ (EncOk(o.last) \/ HasJob(o))

\* The sizes of groups are the numbers up to the largest one.
LEMMA GopSizes ==
    /\ DOMAIN Gop \subseteq Nat \ {0}
    /\ \A n \in DOMAIN Gop : \A k \in 1 .. n : k \in DOMAIN Gop
    /\ \A n \in DOMAIN Gop : \A i \in 1 .. n : Gop[n][i].poc \in 1 .. n
BY GopAssumption

LEMMA ReducedSize == MaxReducedSize \in Int /\ MaxReducedSize >= 1
BY DEF MaxReducedSize

\* FindNextPic stays in the group and never steps below POC 0.
LEMMA NextOk ==
    ASSUME NEW e, EncOk(e), NEW size \in DOMAIN Gop, NEW nextIdr \in Int, NEW lastPic \in Int
    PROVE  EncOk(FindNextPic(e, size, nextIdr, lastPic))
<1>. DEFINE interval == IF nextIdr >= 0 THEN nextIdr - e.lastIdr ELSE 0
            idx == IF e.idr THEN 0 ELSE (e.idx + 1) % e.size
            place == Gop[e.size][e.idx + 1].poc
            cur == IF e.idr THEN 0 ELSE IF idx = 0 THEN place - e.size ELSE place
            step == Gop[size][1].poc - cur
            end == e.cnt + step
            byIdr == IF interval = 0 THEN 0 ELSE CutByIdr(end, e.lastIdr + interval)
            byTail == Min({size - 1, Max({0, end - lastPic})})
            short == IF idx = 0 /\ step > 1 THEN Max({byIdr, byTail}) ELSE 0
            newSize == IF idx # 0 THEN e.size
                       ELSE IF 0 < short /\ short < size THEN Min({size - short, MaxReducedSize})
                       ELSE size
            cnt == e.cnt + IF short >= size THEN 1 - cur ELSE Gop[newSize][idx + 1].poc - cur
            idr == interval # 0 /\ cnt - e.lastIdr >= interval
            poc == IF idr THEN 0 ELSE e.poc + cnt - e.cnt
<1>1. /\ e.cnt \in Int /\ e.poc \in Int /\ e.idr \in BOOLEAN /\ e.size \in DOMAIN Gop
      /\ e.idx \in Nat /\ e.lastIdr \in Int /\ e.idx < e.size
  BY DEF EncOk, Enc
<1>2. e.size \in Nat \ {0} /\ size \in Nat \ {0}
  BY <1>1, GopSizes
<1>3. idx \in Nat /\ idx < e.size /\ (idx # 0 => idx = e.idx + 1 /\ ~e.idr)
  <2>. DEFINE s == e.size
              n == e.idx + 1
  <2>1. s \in Nat \ {0} /\ n \in 1 .. s
    BY <1>1, <1>2
  <2>2. n % s = IF n = s THEN 0 ELSE n
    <3>. HIDE DEF s, n
    <3>. QED  BY <2>1
  <2>. QED  BY <2>1, <2>2, <1>1
<1>4. place \in 1 .. e.size
  BY <1>1, <1>2, GopSizes
<1>5. cur \in Int /\ Gop[size][1].poc \in 1 .. size /\ step \in Int /\ end \in Int
  BY <1>1, <1>2, <1>4, GopSizes
<1>6. interval \in Int
  BY <1>1
<1>. HIDE DEF place, cur, step, interval, idx
<1>7. byIdr \in Int /\ (byIdr # 0 => interval # 0 /\ byIdr = 1 + end - e.lastIdr - interval)
  BY <1>1, <1>5, <1>6 DEF CutByIdr
<1>8. Max({0, end - lastPic}) \in Nat
  <2>. DEFINE d == end - lastPic
  <2>1. d \in Int
    BY <1>5
  <2>. HIDE DEF d
  <2>2. Max({0, d}) = IF 0 >= d THEN 0 ELSE d
    BY <2>1, MinMaxPair
  <2>3. Max({0, d}) \in Nat
    BY <2>1, <2>2
  <2>. QED  BY <2>3 DEF d
<1>9. byTail \in Nat /\ byTail < size
  <2>. DEFINE m == Max({0, end - lastPic})
  <2>1. size - 1 \in Nat /\ m \in Nat
    BY <1>2, <1>8
  <2>. HIDE DEF m
  <2>2. Min({size - 1, m}) = IF size - 1 <= m THEN size - 1 ELSE m
    BY <2>1, MinMaxPair
  <2>3. byTail = Min({size - 1, m})
    BY DEF m
  <2>. QED  BY <2>1, <2>2, <2>3, <1>2
<1>. HIDE DEF byIdr, byTail, end
<1>10. short \in Int /\ (short >= size => short = byIdr /\ idx = 0)
  <2>1. Max({byIdr, byTail}) = IF byIdr >= byTail THEN byIdr ELSE byTail
    BY <1>7, <1>9, MinMaxPair
  <2>. QED  BY <2>1, <1>7, <1>9, <1>2
<1>. HIDE DEF short
<1>11. newSize \in DOMAIN Gop /\ idx < newSize /\ (short >= size => newSize = size)
  <2>1. CASE 0 < short /\ short < size /\ idx = 0
    <3>1. Min({size - short, MaxReducedSize}) 
           = IF size - short <= MaxReducedSize THEN size - short ELSE MaxReducedSize
      <4>1. size - short \in Int
        BY <1>10, <1>2
      <4>. QED  BY <4>1, ReducedSize, MinMaxPair
    <3>2. Min({size - short, MaxReducedSize}) \in 1 .. size
      BY <2>1, <3>1, <1>10, <1>2, ReducedSize
    <3>. QED  BY <3>2, <2>1, <1>10, <1>2, GopSizes
  <2>2. CASE ~(0 < short /\ short < size /\ idx = 0)
    BY <2>2, <1>1, <1>2, <1>3, <1>10
  <2>. QED  BY <2>1, <2>2
<1>. HIDE DEF newSize
<1>12. newSize \in Nat \ {0} /\ Gop[newSize][idx + 1].poc \in 1 .. newSize
  BY <1>11, <1>3, GopSizes
<1>13. cnt \in Int
  BY <1>1, <1>5, <1>12
<1>14. ~idr => poc >= Gop[newSize][idx + 1].poc
  <2>. SUFFICES ASSUME ~idr PROVE e.poc + cnt - e.cnt >= Gop[newSize][idx + 1].poc
    OBVIOUS
  <2>1. CASE short >= size
    <3>1. cnt = e.cnt + 1 - cur
      BY <2>1, <1>1, <1>5
    <3>2. interval # 0 /\ 1 + end - e.lastIdr - interval >= size
      BY <2>1, <1>10, <1>7, <1>2
    <3>3. end = e.cnt + Gop[size][1].poc - cur
      BY <1>5, <1>1 DEF end, step
    <3>. QED  BY <3>1, <3>2, <3>3, <1>1, <1>2, <1>5, <1>6
  <2>2. CASE ~(short >= size)
    <3>1. cnt = e.cnt + Gop[newSize][idx + 1].poc - cur
      BY <2>2, <1>1, <1>5, <1>12
    <3>2. e.poc - cur >= 0
      BY <1>1, <1>2, <1>4 DEF cur, place, EncOk
    <3>. QED  BY <3>1, <3>2, <1>1, <1>5, <1>12
  <2>. QED  BY <2>1, <2>2
<1>15. poc \in Int /\ idr \in BOOLEAN
  BY <1>1, <1>13
<1>16. FindNextPic(e, size, nextIdr, lastPic)
         = [cnt |-> cnt, idr |-> idr, poc |-> poc, size |-> newSize, idx |-> idx,
            lastIdr |-> IF idr THEN cnt ELSE e.lastIdr]
  BY DEF FindNextPic, newSize, short, byIdr, byTail, end, step, cur, place, interval, idx
<1>. HIDE DEF cnt, idr, poc
<1>. QED
  <2>. DEFINE f == [cnt |-> cnt, idr |-> idr, poc |-> poc, size |-> newSize, idx |-> idx,
                    lastIdr |-> IF idr THEN cnt ELSE e.lastIdr]
  <2>1. f \in Enc
    BY <1>1, <1>3, <1>11, <1>13, <1>15 DEF Enc
  <2>2. f.idr => f.poc = 0
    BY DEF poc
  <2>. QED  BY <2>1, <2>2, <1>11, <1>14, <1>16 DEF EncOk

\* What finding the next picture again changes.
LEMMA RefoundIs ==
    ASSUME NEW o \in Order, NEW r, r = Refound(o)
    PROVE  /\ r.enc = FindNext(o, o.last)
           /\ r.last = o.last /\ r.size = o.size /\ r.nextIdr = o.nextIdr /\ r.jobs = o.jobs
           /\ r.submitted = o.submitted /\ r.lastPic = o.lastPic /\ r.flushing = o.flushing
           /\ r.enc \in Enc => r \in Order
<1>. DEFINE astray == o.astray \/ LeftOut(o)
            enc == FindNext(o, o.last)
<1>1. astray \in BOOLEAN
  BY DEF LeftOut, Order
<1>2. r = [o EXCEPT !.enc = enc, !.astray = astray]
  BY DEF Refound
<1>. HIDE DEF astray, enc
<1>3. r.enc = enc
  BY <1>2 DEF Order
<1>. QED  BY <1>1, <1>2, <1>3 DEF Order, enc

\* A picture given is queued with its count.
LEMMA EnqueuedOk ==
    ASSUME NEW o \in Order, NEW idr \in BOOLEAN
    PROVE  Enqueued(o, idr) \in Order
<1>. DEFINE n == IF idr /\ (o.nextIdr > o.submitted \/ o.nextIdr < 0) THEN o.submitted
                 ELSE o.nextIdr
            jobs == o.jobs \cup {[cnt |-> o.submitted, idr |-> idr]}
<1>1. jobs \in SUBSET [cnt : Nat, idr : BOOLEAN] /\ n \in Int /\ o.submitted + 1 \in Nat
  BY DEF Order
<1>2. Enqueued(o, idr) = [o EXCEPT !.jobs = jobs, !.submitted = o.submitted + 1, !.nextIdr = n]
  BY DEF Enqueued, Order
<1>. HIDE DEF n, jobs
<1>. QED  BY <1>1, <1>2 DEF Order

\* The picture given is queued; the first one is found in the queue at once.
LEMMA GivenOk ==
    ASSUME NEW o, OrderOk(o), NEW idr \in BOOLEAN
    PROVE  MidOk(Given(o, idr))
<1>. DEFINE q == Enqueued(o, idr)
<1>1. /\ o \in Order /\ o.enc \in Enc /\ o.submitted \in Nat /\ o.nextIdr \in Int
      /\ EncOk(o.enc) /\ o.size \in DOMAIN Gop /\ o.lastPic \in Int
  BY DEF OrderOk, Order
<1>2. /\ q \in Order /\ q.enc = o.enc /\ q.last = o.last /\ q.size = o.size
      /\ q.lastPic = o.lastPic /\ q.nextIdr \in Int
      /\ [cnt |-> o.submitted, idr |-> idr] \in q.jobs
      /\ (o.submitted = 0 /\ o.nextIdr = 0 => q.nextIdr = 0)
  <2>. DEFINE job == [cnt |-> o.submitted, idr |-> idr]
              n == IF idr /\ (o.nextIdr > o.submitted \/ o.nextIdr < 0) THEN o.submitted
                   ELSE o.nextIdr
              jobs == o.jobs \cup {job}
  <2>1. jobs \in SUBSET [cnt : Nat, idr : BOOLEAN] /\ job \in jobs
    BY <1>1 DEF Order
  <2>2. n \in Int /\ (o.submitted = 0 /\ o.nextIdr = 0 => n = 0)
    BY <1>1
  <2>3. q = [o EXCEPT !.jobs = jobs, !.submitted = o.submitted + 1, !.nextIdr = n]
    BY <1>1 DEF Enqueued, Order
  <2>. HIDE DEF q, n, jobs
  <2>4. q.nextIdr = n /\ q.jobs = jobs
    BY <1>1, <2>3 DEF Order
  <2>5. q \in Order
    <3>1. o.submitted + 1 \in Nat
      BY <1>1
    <3>. QED  BY <1>1, <2>1, <2>2, <2>3, <3>1 DEF Order
  <2>6. q.enc = o.enc /\ q.last = o.last /\ q.size = o.size /\ q.lastPic = o.lastPic
    BY <1>1, <2>3 DEF Order
  <2>. QED  BY <2>1, <2>2, <2>4, <2>5, <2>6
<1>3. EncOk(q.last) \/ (HasJob(q) /\ q.nextIdr = 0)
  <2>1. CASE EncOk(o.last)
    BY <2>1, <1>2
  <2>2. CASE o.submitted = 0 /\ o.enc.cnt = 0 /\ o.nextIdr = 0
    <3>1. 0 \in Waiting(q)
      BY <2>2, <1>2 DEF Waiting
    <3>. QED  BY <3>1, <2>2, <1>2 DEF HasJob
  <2>. QED  BY <2>1, <2>2 DEF OrderOk
<1>. HIDE DEF q
<1>4. CASE q.nextIdr > 0 /\ q.nextIdr <= q.enc.cnt
  <2>1. EncOk(q.last)
    BY <1>3, <1>4
  <2>2. EncOk(FindNext(q, q.last))
    BY <2>1, <1>1, <1>2, NextOk DEF FindNext
  <2>3. Given(o, idr) = Refound(q)
    BY <1>4 DEF Given, RefoundAtIdr, q
  <2>. QED  BY <2>1, <2>2, <2>3, <1>2, RefoundIs DEF MidOk, EncOk
<1>5. CASE ~(q.nextIdr > 0 /\ q.nextIdr <= q.enc.cnt)
  <2>1. Given(o, idr) = q
    BY <1>5 DEF Given, RefoundAtIdr, q
  <2>. QED  BY <2>1, <1>1, <1>2, <1>3 DEF MidOk
<1>. QED  BY <1>4, <1>5

\* A flush follows the first picture.
LEMMA FlushedOk ==
    ASSUME NEW o, OrderOk(o), o.submitted > 0
    PROVE  MidOk(Flushed(o))
<1>. DEFINE q == [o EXCEPT !.flushing = TRUE]
            ended == [q EXCEPT !.lastPic = q.submitted - 1]
<1>1. o \in Order /\ EncOk(o.enc) /\ EncOk(o.last) /\ o.submitted \in Nat
  BY DEF OrderOk, Order
<1>2. q \in Order /\ q.enc = o.enc /\ q.last = o.last
  BY <1>1 DEF Order
<1>3. /\ ended \in Order /\ ended.last = o.last /\ ended.size \in DOMAIN Gop
      /\ ended.nextIdr \in Int /\ ended.lastPic \in Int
  <2>1. q.submitted = o.submitted
    BY <1>1 DEF Order
  <2>. HIDE DEF q
  <2>. QED  BY <1>1, <1>2, <2>1 DEF Order
<1>4. Flushed(o) = IF q.lastPic + 1 <= q.submitted THEN q
                   ELSE Refound(ended)
  BY DEF Flushed, RefoundAtEnd
<1>. HIDE DEF q, ended
<1>5. EncOk(FindNext(ended, q.last))
  BY <1>1, <1>2, <1>3, NextOk DEF FindNext
<1>. QED  BY <1>1, <1>2, <1>3, <1>4, <1>5, RefoundIs DEF MidOk, EncOk

\* The job of the picture that comes next has a POC that no unused picture has.
LEMMA JobOk ==
    ASSUME NEW o, MidOk(o), HasJob(o)
    PROVE  NextJob(o) \in o.jobs /\ IsIdr(o) \in BOOLEAN /\ JobPoc(o) \in Nat
<1>1. o \in Order /\ EncOk(o.enc) /\ o.enc \in Enc
  BY DEF MidOk, Order
<1>2. \E j \in o.jobs : j.cnt = o.enc.cnt
  BY DEF HasJob, Waiting
<1>3. NextJob(o) \in o.jobs
  BY <1>2 DEF NextJob
<1>4. NextJob(o).idr \in BOOLEAN /\ o.enc.idr \in BOOLEAN
  BY <1>1, <1>3 DEF Order, Enc
<1>5. ~o.enc.idr => o.enc.poc \in Nat
  <2>. SUFFICES ASSUME ~o.enc.idr PROVE o.enc.poc \in Nat
    OBVIOUS
  <2>1. o.enc.size \in DOMAIN Gop /\ o.enc.idx \in Nat /\ o.enc.idx < o.enc.size
        /\ o.enc.poc \in Int /\ o.enc.poc >= Gop[o.enc.size][o.enc.idx + 1].poc
    BY <1>1 DEF EncOk, Enc
  <2>2. o.enc.idx + 1 \in 1 .. o.enc.size /\ o.enc.size \in Nat
    BY <2>1, GopSizes
  <2>3. Gop[o.enc.size][o.enc.idx + 1].poc \in 1 .. o.enc.size
    BY <2>1, <2>2, GopSizes
  <2>. QED  BY <2>1, <2>2, <2>3
<1>. QED  BY <1>3, <1>4, <1>5 DEF IsIdr, JobPoc

\* Taking the job leaves the picture and the last one alone.
LEMMA TakenOk ==
    ASSUME setup \in Setups, NEW o, MidOk(o), HasJob(o)
    PROVE  Taken(o) \in Order /\ Taken(o).enc = o.enc
<1>. DEFINE rest == o.jobs \ {NextJob(o)}
            forced == {j.cnt : j \in {k \in rest : k.idr}}
            usual == IF setup.idrInterval > 0 THEN o.nextIdr + setup.idrInterval ELSE -1
            next == IF forced = {} THEN -1 ELSE Min(forced)
            found == IF next > o.nextIdr /\ (usual < 0 \/ next < usual) THEN next ELSE usual
            idr == IF IsIdr(o) /\ o.nextIdr <= o.enc.cnt THEN found ELSE o.nextIdr
<1>1. o \in Order /\ o.nextIdr \in Int /\ o.jobs \in SUBSET [cnt : Nat, idr : BOOLEAN]
  BY DEF MidOk, Order
<1>2. rest \in SUBSET [cnt : Nat, idr : BOOLEAN]
  BY <1>1
<1>3. forced \in SUBSET Nat
  BY <1>2
<1>4. usual \in Int
  BY <1>1, SetupsAssumption
<1>. HIDE DEF forced, usual
<1>5. next \in Int
  <2>1. forced # {} => Min(forced) \in forced
    BY <1>3, MinNat
  <2>2. forced # {} => Min(forced) \in Nat
    BY <1>3, <2>1
  <2>. QED  BY <2>2
<1>. HIDE DEF next
<1>6. idr \in Int
  BY <1>1, <1>4, <1>5
<1>7. Taken(o) = [o EXCEPT !.jobs = rest, !.nextIdr = idr]
  BY DEF Taken, forced, usual, next
<1>. HIDE DEF rest, idr
<1>. QED  BY <1>1, <1>2, <1>6, <1>7 DEF Order

\* So the encoder may go on to the next picture, or put it off.
LEMMA AdvancedOk ==
    ASSUME NEW o, o \in Order, EncOk(o.enc), NEW size \in DOMAIN Gop
    PROVE  OrderOk(Advanced(o, size))
<1>. DEFINE sized == [o EXCEPT !.size = size, !.last = o.enc]
<1>1. o.enc \in Enc
  BY DEF Order
<1>2. o.enc.size \in Int
  BY <1>1, GopSizes DEF Enc
<1>3. /\ sized \in Order /\ sized.size = size /\ sized.nextIdr \in Int /\ sized.lastPic \in Int
      /\ sized.last = o.enc
  BY <1>1, <1>2 DEF Order, Enc
<1>4. Advanced(o, size) = [sized EXCEPT !.enc = FindNext(sized, o.enc)]
  BY DEF Advanced
<1>. HIDE DEF sized
<1>5. EncOk(FindNext(sized, o.enc))
  BY <1>3, NextOk DEF FindNext
<1>. QED  BY <1>3, <1>4, <1>5 DEF OrderOk, Order, EncOk

\* A job put off leaves the order well-formed.
LEMMA PutOffOk ==
    ASSUME NEW o, o \in Order, EncOk(o.enc)
    PROVE  OrderOk(PutOff(o))
<1>. DEFINE e == [o.enc EXCEPT !.cnt = @ + 1]
            n == IF o.nextIdr > 0 THEN o.nextIdr + 1 ELSE o.nextIdr
<1>1. o.enc \in Enc /\ o.nextIdr \in Int
  BY DEF Order
<1>2. o.enc.size \in Int
  BY <1>1, GopSizes DEF Enc
<1>3. e \in Enc /\ EncOk(e)
  BY <1>1 DEF Enc, EncOk
<1>4. n \in Int
  BY <1>1
<1>5. PutOff(o) = [o EXCEPT !.last = o.enc, !.enc = e, !.nextIdr = n]
  BY <1>1 DEF PutOff, Order
<1>. HIDE DEF e, n
<1>. QED  BY <1>1, <1>2, <1>3, <1>4, <1>5 DEF OrderOk, Order, Enc

-----------------------------------------------------------------------------
(* The store *)

\* A store in which the set of pictures has a member has a first one.
LEMMA FirstInOk ==
    ASSUME NEW store \in Seq(Nat), NEW P, Positions(store, P) # {}
    PROVE  LET at == Min(Positions(store, P))
           IN  /\ at \in DOMAIN store /\ store[at] \in P /\ FirstIn(store, P) = store[at]
               /\ \A i \in DOMAIN store : store[i] \in P => at <= i
<1>1. DOMAIN store \subseteq Nat
  OBVIOUS
<1>2. Positions(store, P) \in SUBSET Nat
  BY <1>1 DEF Positions
<1>3. Min(Positions(store, P)) \in Positions(store, P)
  BY <1>2, MinNat
<1>4. \A y \in Positions(store, P) : Min(Positions(store, P)) <= y
  BY <1>2, MinNat
<1>. QED  BY <1>3, <1>4 DEF Positions, FirstIn

\* The first of a set is the first of a smaller one that still has it.
LEMMA FirstInFewer ==
    ASSUME NEW store \in Seq(Nat), NEW P, NEW Q, Q \subseteq P,
           Positions(store, P) # {}, FirstIn(store, P) \in Q
    PROVE  FirstIn(store, Q) = FirstIn(store, P)
<1>. DEFINE a == Min(Positions(store, P))
            b == Min(Positions(store, Q))
<1>1. /\ a \in DOMAIN store /\ FirstIn(store, P) = store[a]
      /\ \A i \in DOMAIN store : store[i] \in P => a <= i
  BY FirstInOk
<1>2. a \in Positions(store, Q)
  BY <1>1 DEF Positions
<1>3. /\ b \in DOMAIN store /\ store[b] \in Q /\ FirstIn(store, Q) = store[b]
      /\ \A i \in DOMAIN store : store[i] \in Q => b <= i
  BY <1>2, FirstInOk
<1>. HIDE DEF a, b
<1>4. a <= b /\ b <= a /\ a \in Nat /\ b \in Nat
  BY <1>1, <1>2, <1>3 DEF Positions
<1>5. a = b
  BY <1>4
<1>. QED  BY <1>1, <1>3, <1>5

\* Moving a picture to the end of the store loses none.
LEMMA MovedLastOk ==
    ASSUME NEW store \in Seq(Nat), NEW k \in Range(store)
    PROVE  MovedLast(store, k) \in Seq(Nat) /\ Range(MovedLast(store, k)) = Range(store)
<1>. DEFINE at == Min(Positions(store, {k}))
            moved == MovedLast(store, k)
<1>1. PICK x \in DOMAIN store : store[x] = k
  BY DEF Range
<1>2. x \in Positions(store, {k})
  BY <1>1 DEF Positions
<1>3. at \in DOMAIN store /\ store[at] = k
  BY <1>2, FirstInOk
<1>. HIDE DEF at
<1>4. DOMAIN store = 1 .. Len(store) /\ Len(store) \in Nat
  OBVIOUS
<1>5. moved = [i \in 1 .. Len(store) |-> IF i < at THEN store[i]
                                         ELSE IF i < Len(store) THEN store[i + 1] ELSE k]
  BY <1>4 DEF MovedLast, at
<1>. HIDE DEF moved
<1>6. \A i \in 1 .. Len(store) : moved[i] \in Range(store)
  <2>. TAKE i \in 1 .. Len(store)
  <2>1. CASE i < at
    BY <2>1, <1>4, <1>5 DEF Range
  <2>2. CASE ~(i < at) /\ i < Len(store)
    <3>1. i + 1 \in DOMAIN store
      BY <2>2, <1>4
    <3>2. moved[i] = store[i + 1]
      BY <2>2, <1>5
    <3>. QED  BY <3>1, <3>2 DEF Range
  <2>3. CASE ~(i < at) /\ ~(i < Len(store))
    BY <2>3, <1>5
  <2>. QED  BY <2>1, <2>2, <2>3
<1>7. \A y \in Range(store) : \E i \in 1 .. Len(store) : moved[i] = y
  <2>. TAKE y \in Range(store)
  <2>1. PICK j \in DOMAIN store : store[j] = y
    BY DEF Range
  <2>2. CASE j < at
    BY <2>1, <2>2, <1>4, <1>5
  <2>3. CASE j = at
    <3>1. Len(store) \in 1 .. Len(store) /\ ~(Len(store) < at)
      BY <1>3, <1>4
    <3>2. moved[Len(store)] = k
      BY <3>1, <1>4, <1>5
    <3>. QED  BY <3>1, <3>2, <2>1, <2>3, <1>3
  <2>4. CASE j > at
    <3>1. j - 1 \in 1 .. Len(store) /\ ~(j - 1 < at) /\ j - 1 < Len(store) /\ j - 1 + 1 = j
      BY <2>1, <2>4, <1>3, <1>4
    <3>2. moved[j - 1] = store[j]
      BY <3>1, <1>5
    <3>. QED  BY <3>1, <3>2, <2>1
  <2>. QED  BY <2>1, <2>2, <2>3, <2>4, <1>3, <1>4
<1>8. DOMAIN moved = 1 .. Len(store)
  BY <1>5
<1>9. Range(store) \subseteq Nat
  BY DEF Range
<1>10. moved \in [1 .. Len(store) -> Nat]
  BY <1>5, <1>6, <1>8, <1>9
<1>11. moved \in Seq(Nat)
  BY <1>4, <1>10
<1>12. Range(moved) = Range(store)
  BY <1>6, <1>7, <1>8 DEF Range
<1>. QED  BY <1>11, <1>12 DEF moved

Picture == [poc : Int, reference : BOOLEAN, refCnt : Int, first : BOOLEAN, frame : Int]
Frame == [cnt : Int, idr : BOOLEAN, poc : Nat, rps : SUBSET Int, pic : Nat,
          refs : UNION {[Q -> Nat] : Q \in SUBSET Int},
          reads : UNION {[Q -> Int] : Q \in SUBSET Int}]

Pool == [pics : Seq(Picture), store : Seq(Nat), flight : Seq(Frame)]
\* The frames in flight that write or read a picture.
Holds(f, k) == k = f.pic \/ k \in Range(f.refs)
Holders(flight, k) == {i \in DOMAIN flight : Holds(flight[i], k)}
\* A frame's pictures hold what they held for it.
FrameIntact(pics, f) ==
    /\ f.pic \in DOMAIN pics /\ pics[f.pic].frame = f.cnt
    /\ DOMAIN f.reads = DOMAIN f.refs
    /\ \A q \in DOMAIN f.refs : /\ f.refs[q] \in DOMAIN pics
                                /\ pics[f.refs[q]].frame = f.reads[q]
CountsExact(p) == \A k \in DOMAIN p.pics : p.pics[k].refCnt = Cardinality(Holders(p.flight, k))
ReferencesNamed(p) == \A k \in DOMAIN p.pics : p.pics[k].reference => p.pics[k].poc # -1
\* The counts of the pictures are those of the frames in flight, whose pictures are intact.
PoolOk(p) ==
    /\ p \in Pool
    /\ Range(p.store) = DOMAIN p.pics
    /\ \A i \in DOMAIN p.flight : FrameIntact(p.pics, p.flight[i])
    /\ CountsExact(p)
    /\ ReferencesNamed(p)

\* A frame holds the pictures it was given as long as it is in flight.
LEMMA HoldersFinite ==
    ASSUME NEW flight \in Seq(Frame), NEW k
    PROVE  IsFiniteSet(Holders(flight, k)) /\ Cardinality(Holders(flight, k)) \in Nat
<1>1. DOMAIN flight = 1 .. Len(flight) /\ Len(flight) \in Nat
  OBVIOUS
<1>2. IsFiniteSet(1 .. Len(flight))
  BY <1>1, FS_Interval
<1>3. Holders(flight, k) \in SUBSET (1 .. Len(flight))
  BY <1>1 DEF Holders
<1>4. IsFiniteSet(Holders(flight, k))
  BY <1>2, <1>3, FS_Subset
<1>. QED  BY <1>4, FS_CardinalityType

\* A POC that some picture has names one.
LEMMA GetPictureOk ==
    ASSUME NEW p, p \in Pool, Range(p.store) = DOMAIN p.pics,
           NEW r \in DOMAIN p.pics, NEW poc, p.pics[r].poc = poc
    PROVE  /\ Positions(p.store, WithPoc(p, poc)) # {}
           /\ GetPicture(p, poc) \in WithPoc(p, poc)
<1>1. p.store \in Seq(Nat)
  BY DEF Pool
<1>2. PICK i \in DOMAIN p.store : p.store[i] = r
  BY DEF Range
<1>3. i \in Positions(p.store, WithPoc(p, poc))
  BY <1>2 DEF Positions, WithPoc
<1>. QED  BY <1>1, <1>3, FirstInOk DEF GetPicture

\* Marking keeps the pictures of the reference picture set, findable under their POC, and
\* forgets the POC of every other picture that no frame in flight holds.
LEMMA MarkedOk ==
    ASSUME NEW p, PoolOk(p), NEW rps, rps \subseteq Held(p), NEW m, m = Marked(p, rps)
    PROVE  /\ PoolOk(m)
           /\ m.store = p.store /\ m.flight = p.flight /\ DOMAIN m.pics = DOMAIN p.pics
           /\ \A k \in DOMAIN p.pics : /\ m.pics[k].frame = p.pics[k].frame
                                       /\ m.pics[k].refCnt = p.pics[k].refCnt
                                       /\ m.pics[k].poc \in {-1, p.pics[k].poc}
           /\ \A k \in DOMAIN p.pics :
                 m.pics[k].refCnt = 0 /\ m.pics[k].poc # -1 => m.pics[k].poc \in rps
           /\ \A q \in rps : /\ GetPicture(p, q) \in DOMAIN p.pics
                             /\ p.pics[GetPicture(p, q)].poc = q /\ q \in Int \ {-1}
                             /\ m.pics[GetPicture(p, q)].reference
                             /\ GetPicture(m, q) = GetPicture(p, q)
<1>. DEFINE n == Len(p.pics)
            kept(k) == IsKept(p, rps, k)
            pics == [k \in DOMAIN p.pics |->
                       [p.pics[k] EXCEPT !.reference = kept(k),
                                         !.poc = PocAfter(p.pics[k], kept(k))]]
<1>1. /\ p \in Pool /\ p.pics \in Seq(Picture) /\ p.store \in Seq(Nat)
      /\ p.flight \in Seq(Frame) /\ Range(p.store) = DOMAIN p.pics
      /\ \A k \in DOMAIN p.pics : p.pics[k] \in Picture
  BY DEF PoolOk, Pool
<1>2. DOMAIN p.pics = 1 .. n /\ n \in Nat
  BY <1>1
<1>3. m = [p EXCEPT !.pics = pics]
  BY DEF Marked
<1>4. m.pics = pics /\ m.store = p.store /\ m.flight = p.flight
  BY <1>1, <1>3 DEF Pool
<1>5. \A k \in DOMAIN p.pics :
         /\ pics[k] \in Picture
         /\ pics[k].frame = p.pics[k].frame /\ pics[k].refCnt = p.pics[k].refCnt
         /\ pics[k].reference = kept(k) /\ pics[k].poc = PocAfter(p.pics[k], kept(k))
  <2>. TAKE k \in DOMAIN p.pics
  <2>1. p.pics[k] \in Picture
    BY <1>1
  <2>2. PocAfter(p.pics[k], kept(k)) \in Int
    BY <2>1 DEF PocAfter, Picture
  <2>3. kept(k) \in BOOLEAN
    BY DEF IsKept
  <2>4. pics[k] = [p.pics[k] EXCEPT !.reference = kept(k), !.poc = PocAfter(p.pics[k], kept(k))]
    OBVIOUS
  <2>. HIDE DEF kept, pics
  <2>. QED  BY <2>1, <2>2, <2>3, <2>4 DEF Picture
<1>6. DOMAIN pics = 1 .. n
  BY <1>2
<1>. HIDE DEF pics
<1>7. pics \in [1 .. n -> Picture]
  <2>1. pics = [k \in 1 .. n |-> pics[k]]
    BY <1>2 DEF pics
  <2>. QED  BY <1>2, <1>5, <2>1
<1>8. m \in Pool
  <2>1. pics \in Seq(Picture)
    BY <1>2, <1>7
  <2>. QED  BY <2>1, <1>1, <1>3 DEF Pool
<1>9. \A q \in rps : /\ q \in Int \ {-1}
                     /\ \E r \in DOMAIN p.pics : p.pics[r].poc = q /\ p.pics[r].reference
  BY <1>1 DEF Held, References, PoolOk, ReferencesNamed, Picture
<1>10. \A q \in rps : /\ GetPicture(p, q) \in WithPoc(p, q)
                      /\ Positions(p.store, WithPoc(p, q)) # {}
  BY <1>1, <1>9, GetPictureOk
<1>11. \A q \in rps : /\ GetPicture(p, q) \in DOMAIN p.pics /\ p.pics[GetPicture(p, q)].poc = q
                      /\ kept(GetPicture(p, q))
  BY <1>10 DEF WithPoc, IsKept
<1>12. \A k \in DOMAIN p.pics : kept(k) => p.pics[k].poc \in rps
  BY <1>11 DEF IsKept
<1>13. \A k \in DOMAIN p.pics : pics[k].poc \in {-1, p.pics[k].poc}
  BY <1>5 DEF PocAfter
<1>14. \A k \in DOMAIN p.pics : pics[k].refCnt = 0 /\ pics[k].poc # -1 => pics[k].poc \in rps
  BY <1>5, <1>12 DEF PocAfter
<1>15. \A q \in rps : GetPicture(m, q) = GetPicture(p, q)
  <2>. TAKE q \in rps
  <2>. DEFINE k == GetPicture(p, q)
  <2>1. k \in DOMAIN p.pics /\ pics[k].poc = q
    BY <1>5, <1>11 DEF PocAfter
  <2>2. k \in WithPoc(m, q)
    BY <2>1, <1>2, <1>4, <1>6 DEF WithPoc
  <2>3. WithPoc(m, q) \subseteq WithPoc(p, q)
    BY <1>2, <1>4, <1>6, <1>9, <1>13 DEF WithPoc
  <2>4. FirstIn(p.store, WithPoc(m, q)) = FirstIn(p.store, WithPoc(p, q))
    <3>1. FirstIn(p.store, WithPoc(p, q)) \in WithPoc(m, q)
      BY <2>2 DEF GetPicture
    <3>. QED  BY <3>1, <2>3, <1>1, <1>10, FirstInFewer
  <2>. QED  BY <2>4, <1>4 DEF GetPicture
<1>16. \A i \in DOMAIN m.flight : FrameIntact(m.pics, m.flight[i])
  <2>. SUFFICES ASSUME NEW i \in DOMAIN p.flight
                PROVE  FrameIntact(pics, p.flight[i])
    BY <1>4
  <2>1. FrameIntact(p.pics, p.flight[i])
    BY DEF PoolOk
  <2>. QED  BY <2>1, <1>2, <1>5, <1>6 DEF FrameIntact
<1>17. CountsExact(m)
  <2>1. CountsExact(p)
    BY DEF PoolOk
  <2>. QED  BY <2>1, <1>2, <1>4, <1>5, <1>6 DEF CountsExact
<1>18. ReferencesNamed(m)
  <2>. SUFFICES ASSUME NEW k \in DOMAIN pics, pics[k].reference
                PROVE  pics[k].poc # -1
    BY <1>4 DEF ReferencesNamed
  <2>1. kept(k) /\ k \in DOMAIN p.pics
    BY <1>2, <1>5, <1>6
  <2>. QED  BY <2>1, <1>5, <1>9, <1>12 DEF PocAfter
<1>19. PoolOk(m)
  BY <1>1, <1>2, <1>4, <1>6, <1>8, <1>16, <1>17, <1>18 DEF PoolOk
<1>20. \A q \in rps : pics[GetPicture(p, q)].reference
  BY <1>5, <1>11
<1>. QED  BY <1>2, <1>4, <1>5, <1>6, <1>9, <1>11, <1>13, <1>14, <1>15, <1>19, <1>20

\* The picture a new frame gets is no reference, and no frame in flight holds it.
LEMMA FreeOk ==
    ASSUME NEW m, PoolOk(m), NEW k, k = FreePicture(m), NEW g, g = WithFree(m)
    PROVE  /\ PoolOk(g) /\ g.flight = m.flight
           /\ k \in DOMAIN g.pics /\ DOMAIN g.pics = DOMAIN m.pics \cup {k}
           /\ ~g.pics[k].reference
           /\ \A i \in DOMAIN g.flight : ~Holds(g.flight[i], k)
           /\ \A r \in DOMAIN m.pics : g.pics[r] = m.pics[r]
<1>1. /\ m \in Pool /\ m.pics \in Seq(Picture) /\ m.store \in Seq(Nat)
      /\ m.flight \in Seq(Frame) /\ Range(m.store) = DOMAIN m.pics /\ CountsExact(m)
      /\ \A i \in DOMAIN m.flight : FrameIntact(m.pics, m.flight[i])
  BY DEF PoolOk, Pool
<1>2. DOMAIN m.pics = 1 .. Len(m.pics) /\ Len(m.pics) \in Nat
  BY <1>1
<1>3. CASE Unused(m) # {}
  <2>1. PICK r \in DOMAIN m.pics : r \in Unused(m)
    BY <1>3 DEF Unused
  <2>2. PICK i \in DOMAIN m.store : m.store[i] = r
    BY <1>1 DEF Range
  <2>3. Positions(m.store, Unused(m)) # {}
    BY <2>1, <2>2 DEF Positions
  <2>4. k \in Unused(m)
    <3>1. m.store \in Seq(Nat)
      BY <1>1
    <3>2. FirstIn(m.store, Unused(m)) \in Unused(m)
      BY <2>3, <3>1, FirstInOk
    <3>. QED  BY <3>2, <1>3 DEF FreePicture
  <2>5. k \in DOMAIN m.pics /\ m.pics[k].refCnt = 0 /\ ~m.pics[k].reference
    BY <2>4 DEF Unused
  <2>6. Holders(m.flight, k) = {}
    <3>1. IsFiniteSet(Holders(m.flight, k)) /\ Cardinality(Holders(m.flight, k)) = 0
      BY <1>1, <2>5, HoldersFinite DEF CountsExact
    <3>. QED  BY <3>1, FS_EmptySet
  <2>7. g = m
    BY <1>3 DEF WithFree
  <2>. QED  BY <2>5, <2>6, <2>7 DEF Holders
<1>4. CASE Unused(m) = {}
  <2>. DEFINE pics == Append(m.pics, NewPicture)
              store == Append(m.store, k)
  <2>1. k = Len(m.pics) + 1 /\ k \in Nat /\ k \notin DOMAIN m.pics
    BY <1>2, <1>4 DEF FreePicture
  <2>2. NewPicture \in Picture
    BY DEF NewPicture, Picture
  <2>3. /\ pics \in Seq(Picture) /\ DOMAIN pics = DOMAIN m.pics \cup {k}
        /\ pics[k] = NewPicture /\ \A r \in DOMAIN m.pics : pics[r] = m.pics[r]
    BY <1>1, <1>2, <2>1, <2>2
  <2>4. store \in Seq(Nat) /\ Range(store) = Range(m.store) \cup {k}
    <3>1. /\ DOMAIN store = 1 .. Len(m.store) + 1 /\ Len(m.store) \in Nat
          /\ DOMAIN m.store = 1 .. Len(m.store)
          /\ \A i \in DOMAIN m.store : store[i] = m.store[i]
          /\ store[Len(m.store) + 1] = k
      BY <1>1, <2>1
    <3>2. DOMAIN store = DOMAIN m.store \cup {Len(m.store) + 1}
      BY <3>1
    <3>3. store \in Seq(Nat)
      BY <1>1, <2>1
    <3>4. store[Len(m.store) + 1] = k /\ \A i \in DOMAIN m.store : store[i] = m.store[i]
      BY <3>1
    <3>. HIDE DEF store
    <3>5. Range(store) = Range(m.store) \cup {k}
      BY <3>2, <3>4 DEF Range
    <3>. QED  BY <3>3, <3>5
  <2>5. g = [m EXCEPT !.pics = pics, !.store = store]
    BY <1>1, <1>4, <2>1 DEF WithFree, Pool
  <2>. HIDE DEF pics, store
  <2>6. g \in Pool /\ g.pics = pics /\ g.store = store /\ g.flight = m.flight
    BY <1>1, <2>3, <2>4, <2>5 DEF Pool
  <2>7. \A i \in DOMAIN m.flight : ~Holds(m.flight[i], k)
    BY <1>1, <2>1 DEF FrameIntact, Holds, Range
  <2>8. \A i \in DOMAIN g.flight : FrameIntact(g.pics, g.flight[i])
    BY <1>1, <2>3, <2>6 DEF FrameIntact
  <2>9. CountsExact(g)
    <3>1. Holders(m.flight, k) = {}
      BY <2>7 DEF Holders
    <3>2. Cardinality(Holders(m.flight, k)) = 0
      BY <3>1, FS_EmptySet
    <3>3. NewPicture.refCnt = 0
      BY DEF NewPicture
    <3>. QED  BY <3>2, <3>3, <1>1, <2>3, <2>6 DEF CountsExact
  <2>10. ReferencesNamed(g) /\ ~NewPicture.reference
    <3>1. ~NewPicture.reference
      BY DEF NewPicture
    <3>. QED  BY <3>1, <2>3, <2>6 DEF PoolOk, ReferencesNamed
  <2>. QED  BY <1>1, <2>3, <2>4, <2>6, <2>7, <2>8, <2>9, <2>10 DEF PoolOk
<1>. QED  BY <1>3, <1>4

\* A frame stays intact as long as the pictures it holds show what they showed.
LEMMA KeptIntact ==
    ASSUME NEW a, NEW b, NEW f, FrameIntact(a, f),
           \A k \in DOMAIN a : Holds(f, k) => k \in DOMAIN b /\ b[k].frame = a[k].frame
    PROVE  FrameIntact(b, f)
<1>1. \A q \in DOMAIN f.refs : Holds(f, f.refs[q])
  BY DEF Holds, Range
<1>. QED  BY <1>1 DEF FrameIntact, Holds

\* The frame started last holds its pictures, too.
LEMMA HoldersAppend ==
    ASSUME NEW flight \in Seq(Frame), NEW f \in Frame, NEW r
    PROVE  Cardinality(Holders(Append(flight, f), r))
             = Cardinality(Holders(flight, r)) + IF Holds(f, r) THEN 1 ELSE 0
<1>. DEFINE n == Len(flight)
            longer == Append(flight, f)
            H == Holders(flight, r)
<1>1. /\ n \in Nat /\ DOMAIN flight = 1 .. n /\ DOMAIN longer = 1 .. n + 1
      /\ \A i \in 1 .. n : longer[i] = flight[i]
      /\ longer[n + 1] = f
  OBVIOUS
<1>2. DOMAIN longer = DOMAIN flight \cup {n + 1} /\ n + 1 \notin DOMAIN flight
  BY <1>1
<1>. HIDE DEF longer, n
<1>3. Holders(longer, r) = IF Holds(f, r) THEN H \cup {n + 1} ELSE H
  BY <1>1, <1>2 DEF Holders
<1>4. IsFiniteSet(H) /\ Cardinality(H) \in Nat /\ n + 1 \notin H
  BY <1>2, HoldersFinite DEF Holders
<1>. HIDE DEF H
<1>5. Cardinality(H \cup {n + 1}) = Cardinality(H) + 1
  BY <1>4, FS_AddElement
<1>. QED  BY <1>3, <1>4, <1>5 DEF longer, H

\* The oldest frame no longer holds its pictures.
LEMMA HoldersTail ==
    ASSUME NEW flight \in Seq(Frame), flight # <<>>, NEW r
    PROVE  Cardinality(Holders(Tail(flight), r))
             = Cardinality(Holders(flight, r)) - IF Holds(Head(flight), r) THEN 1 ELSE 0
<1>. DEFINE n == Len(flight)
            shorter == Tail(flight)
            H == Holders(flight, r)
            T == Holders(shorter, r)
            back == [i \in T |-> i + 1]
<1>1. /\ n \in Nat /\ n > 0 /\ DOMAIN flight = 1 .. n /\ DOMAIN shorter = 1 .. n - 1
      /\ \A i \in 1 .. n - 1 : shorter[i] = flight[i + 1]
      /\ Head(flight) = flight[1] /\ shorter \in Seq(Frame)
  OBVIOUS
<1>2. IsFiniteSet(H) /\ IsFiniteSet(T) /\ Cardinality(H) \in Nat
  BY <1>1, HoldersFinite
<1>. HIDE DEF shorter, n
<1>3. \A i \in T : i \in Nat /\ i + 1 \in H \ {1}
  BY <1>1 DEF Holders
<1>4. \A j \in H \ {1} : j \in Nat /\ j - 1 \in T
  BY <1>1 DEF Holders
<1>5. 1 \in H <=> Holds(Head(flight), r)
  BY <1>1 DEF Holders
<1>. HIDE DEF H, T
<1>6. back \in Bijection(T, H \ {1})
  <2>1. back \in [T -> H \ {1}]
    BY <1>3
  <2>2. \A i, j \in T : back[i] = back[j] => i = j
    BY <1>3
  <2>3. \A j \in H \ {1} : \E i \in T : back[i] = j
    <3>. TAKE j \in H \ {1}
    <3>1. j - 1 \in T /\ j - 1 + 1 = j
      BY <1>4
    <3>. QED  BY <3>1
  <2>. QED  BY <2>1, <2>2, <2>3 DEF Bijection, Injection, Surjection, IsInjective
<1>7. Cardinality(H \ {1}) = Cardinality(T)
  <2>1. ExistsBijection(T, H \ {1})
    BY <1>6 DEF ExistsBijection
  <2>. QED  BY <2>1, <1>2, FS_Bijection
<1>8. Cardinality(H \ {1}) = IF 1 \in H THEN Cardinality(H) - 1 ELSE Cardinality(H)
  BY <1>2, FS_RemoveElement
<1>. QED  BY <1>2, <1>5, <1>7, <1>8 DEF H, T, shorter

\* A frame keeps pictures the store has, reads some of those it keeps, and its own POC is new.
LEMMA RpsOk ==
    ASSUME NEW p, PoolOk(p), NEW e, EncOk(e), NEW idr \in BOOLEAN, NEW poc \in Nat
    PROVE  /\ Rps(p, e, idr, poc) \subseteq Held(p)
           /\ Used(p, e, idr, poc) \subseteq Rps(p, e, idr, poc)
           /\ Held(p) \subseteq Int
           /\ poc \notin Rps(p, e, idr, poc)
<1>. DEFINE cfg == Gop[e.size][e.idx + 1]
            found == Found(p, cfg, poc)
            recovered == Recovered(p, cfg, poc)
<1>1. \A r \in cfg.refs : r.delta \in Int \ {0}
  <2>1. e.size \in DOMAIN Gop /\ e.idx \in Nat /\ e.idx < e.size
    BY DEF EncOk, Enc
  <2>2. e.idx + 1 \in 1 .. e.size
    BY <2>1, GopSizes
  <2>. QED  BY <2>1, <2>2, GopAssumption
<1>2. Held(p) \subseteq Int
  <2>1. \A k \in DOMAIN p.pics : p.pics[k].poc \in Int
    <3>1. \A k \in DOMAIN p.pics : p.pics[k] \in Picture
      BY DEF PoolOk, Pool
    <3>. QED  BY <3>1 DEF Picture
  <2>. QED  BY <2>1 DEF Held, References
<1>. HIDE DEF cfg
<1>3. found \subseteq cfg.refs /\ PocsOf(found, poc) \subseteq Held(p)
  BY DEF Found, PocsOf
<1>4. poc \notin PocsOf(found, poc)
  BY <1>1, <1>3 DEF PocsOf
<1>5. PocsOf(UsedOf(found), poc) \subseteq PocsOf(found, poc)
  BY DEF PocsOf, UsedOf
<1>6. recovered \subseteq Held(p) /\ \A q \in recovered : q < poc \/ q > poc
  <2>1. HeldFirst(p) \subseteq Held(p)
    BY DEF HeldFirst, Held
  <2>. QED  BY <2>1 DEF Recovered, Closest
<1>7. poc \notin recovered
  BY <1>6
<1>. HIDE DEF found, recovered
<1>8. Rps(p, e, idr, poc) = IF idr THEN {} ELSE PocsOf(found, poc)
                               \cup IF e.idx = 0 THEN recovered ELSE {}
  BY DEF Rps, found, recovered, cfg
<1>9. Used(p, e, idr, poc) = IF idr THEN {} ELSE PocsOf(UsedOf(found), poc)
                               \cup IF e.idx = 0 THEN recovered ELSE {}
  BY DEF Used, found, recovered, cfg
<1>. QED  BY <1>2, <1>3, <1>4, <1>5, <1>6, <1>7, <1>8, <1>9

\* Preparing a frame names a free picture.
LEMMA PreparedOk ==
    ASSUME NEW p, PoolOk(p), NEW rps, rps \subseteq Held(p), NEW poc \in Nat,
           NEW first \in BOOLEAN, NEW m, m = Marked(p, rps), NEW k, k = FreePicture(m),
           NEW g, g = Prepared(p, rps, poc, first)
    PROVE  /\ PoolOk(g) /\ g.flight = p.flight
           /\ DOMAIN g.pics = DOMAIN p.pics \cup {k}
           /\ g.pics[k].poc = poc /\ ~g.pics[k].reference
           /\ \A i \in DOMAIN p.flight : ~Holds(p.flight[i], k)
           /\ \A r \in DOMAIN p.pics : g.pics[r].frame = p.pics[r].frame
           /\ \A r \in DOMAIN p.pics \ {k} : g.pics[r] = m.pics[r]
           /\ k \in DOMAIN p.pics => ~m.pics[k].reference
<1>. DEFINE w == WithFree(m)
            old == w.pics[k]
            named == [old EXCEPT !.poc = poc, !.first = first]
            pics == [w.pics EXCEPT ![k] = named]
<1>1. /\ PoolOk(m) /\ m.flight = p.flight /\ DOMAIN m.pics = DOMAIN p.pics
      /\ \A r \in DOMAIN p.pics : m.pics[r].frame = p.pics[r].frame
  BY MarkedOk
<1>2. /\ PoolOk(w) /\ w.flight = m.flight
      /\ k \in DOMAIN w.pics /\ DOMAIN w.pics = DOMAIN m.pics \cup {k}
      /\ ~w.pics[k].reference
      /\ \A i \in DOMAIN w.flight : ~Holds(w.flight[i], k)
      /\ \A r \in DOMAIN m.pics : w.pics[r] = m.pics[r]
  BY <1>1, FreeOk
<1>. HIDE DEF w
<1>3. w \in Pool /\ w.pics \in Seq(Picture) /\ w.pics[k] \in Picture
  BY <1>2 DEF PoolOk, Pool
<1>4. g = [w EXCEPT !.pics = pics]
  <2>1. g = [w EXCEPT !.pics[k].poc = poc, !.pics[k].first = first]
    BY DEF Prepared, w
  <2>2. [w EXCEPT !.pics[k].poc = poc, !.pics[k].first = first]
          = [w EXCEPT !.pics = [[w.pics EXCEPT ![k].poc = poc] EXCEPT ![k].first = first]]
    BY <1>3 DEF Pool
  <2>3. [[w.pics EXCEPT ![k].poc = poc] EXCEPT ![k].first = first] = pics
    BY <1>2, <1>3
  <2>. QED  BY <2>1, <2>2, <2>3
<1>5. /\ named \in Picture /\ named.poc = poc /\ named.reference = w.pics[k].reference
      /\ named.refCnt = w.pics[k].refCnt /\ named.frame = w.pics[k].frame
  <2>1. old \in Picture
    BY <1>3
  <2>. HIDE DEF old
  <2>2. named \in Picture
    <3>1. [old EXCEPT !.poc = poc] \in Picture
      BY <2>1 DEF Picture
    <3>2. named = [[old EXCEPT !.poc = poc] EXCEPT !.first = first]
      BY <2>1 DEF Picture
    <3>. QED  BY <3>1, <3>2 DEF Picture
  <2>3. named.poc = poc /\ named.reference = old.reference
    BY <2>1 DEF Picture
  <2>4. named.refCnt = old.refCnt /\ named.frame = old.frame
    BY <2>1 DEF Picture
  <2>. QED  BY <2>2, <2>3, <2>4 DEF old
<1>. HIDE DEF named
<1>6. /\ pics \in Seq(Picture) /\ DOMAIN pics = DOMAIN w.pics /\ pics[k] = named
      /\ \A r \in DOMAIN w.pics \ {k} : pics[r] = w.pics[r]
  BY <1>2, <1>3, <1>5
<1>. HIDE DEF pics
<1>7. g \in Pool /\ g.pics = pics /\ g.flight = w.flight /\ g.store = w.store
  BY <1>3, <1>4, <1>6 DEF Pool
<1>8. \A r \in DOMAIN w.pics : /\ pics[r].frame = w.pics[r].frame
                               /\ pics[r].refCnt = w.pics[r].refCnt
  BY <1>5, <1>6
<1>9. \A i \in DOMAIN g.flight : FrameIntact(g.pics, g.flight[i])
  <2>. SUFFICES ASSUME NEW i \in DOMAIN w.flight
                PROVE  FrameIntact(pics, w.flight[i])
    BY <1>7
  <2>1. FrameIntact(w.pics, w.flight[i])
    BY <1>2 DEF PoolOk
  <2>. QED  BY <2>1, <1>6, <1>8 DEF FrameIntact
<1>10. CountsExact(g)
  BY <1>2, <1>6, <1>7, <1>8 DEF PoolOk, CountsExact
<1>11. ReferencesNamed(g)
  BY <1>2, <1>5, <1>6, <1>7 DEF PoolOk, ReferencesNamed
<1>12. PoolOk(g)
  BY <1>2, <1>6, <1>7, <1>9, <1>10, <1>11 DEF PoolOk
<1>. QED  BY <1>1, <1>2, <1>5, <1>6, <1>7, <1>8, <1>12

\* Counting a frame changes nothing but the counts of the pictures it holds.
LEMMA CountedOk ==
    ASSUME NEW pics \in Seq(Picture), NEW f, NEW n \in Int, NEW c, c = Counted(pics, f, n)
    PROVE  /\ c \in Seq(Picture) /\ DOMAIN c = DOMAIN pics
           /\ \A k \in DOMAIN pics :
                 /\ c[k].poc = pics[k].poc /\ c[k].reference = pics[k].reference
                 /\ c[k].frame = pics[k].frame
                 /\ c[k].refCnt = pics[k].refCnt + IF Holds(f, k) THEN n ELSE 0
<1>. DEFINE count(k) == IF Holds(f, k) THEN pics[k].refCnt + n ELSE pics[k].refCnt
<1>1. DOMAIN pics = 1 .. Len(pics) /\ Len(pics) \in Nat /\ \A k \in DOMAIN pics : pics[k] \in Picture
  OBVIOUS
<1>2. c = [k \in 1 .. Len(pics) |-> [pics[k] EXCEPT !.refCnt = count(k)]]
  BY <1>1 DEF Counted, Picture, Holds
<1>3. \A k \in DOMAIN pics :
         /\ c[k] \in Picture
         /\ c[k].poc = pics[k].poc /\ c[k].reference = pics[k].reference
         /\ c[k].frame = pics[k].frame /\ c[k].refCnt = count(k)
         /\ pics[k].refCnt \in Int
  <2>. TAKE k \in DOMAIN pics
  <2>1. pics[k] \in Picture /\ c[k] = [pics[k] EXCEPT !.refCnt = count(k)]
    BY <1>1, <1>2
  <2>2. count(k) \in Int /\ pics[k].refCnt \in Int
    BY <2>1 DEF Picture
  <2>. HIDE DEF count
  <2>. QED  BY <2>1, <2>2 DEF Picture
<1>4. c \in [1 .. Len(pics) -> Picture]
  BY <1>1, <1>2, <1>3
<1>5. c \in Seq(Picture) /\ DOMAIN c = DOMAIN pics
  BY <1>1, <1>4
<1>. QED  BY <1>3, <1>5

\* What starting a frame makes of the store, and what the frame reads.
StartedFrom(p, f, s) ==
    /\ PoolOk(s) /\ f \in Frame /\ s.flight = Append(p.flight, f)
    /\ f.rps \subseteq Int /\ f.poc \notin f.rps /\ (f.idr => f.rps = {})
    /\ DOMAIN f.reads \subseteq f.rps
    /\ \A q \in DOMAIN f.reads : \E k \in DOMAIN p.pics :
          p.pics[k].poc = q /\ q # -1 /\ f.reads[q] = p.pics[k].frame
    /\ f.rps \subseteq Held(p) /\ f.pic = FreePicture(Marked(p, f.rps))
    /\ \A q \in DOMAIN f.refs : q \in f.rps /\ f.refs[q] = GetPicture(p, q)
    /\ DOMAIN s.pics = DOMAIN p.pics \cup {f.pic}
    /\ s.pics[f.pic].poc = f.poc /\ s.pics[f.pic].frame = f.cnt
    /\ \A k \in DOMAIN p.pics \ {f.pic} :
          LET picture == Marked(p, f.rps).pics[k]
          IN  /\ s.pics[k].reference = picture.reference
              /\ s.pics[k].poc = picture.poc /\ s.pics[k].frame = picture.frame
    /\ p.flight = <<>> =>
          \A k \in DOMAIN s.pics : s.pics[k].poc # -1 =>
             \/ s.pics[k].poc = f.poc /\ s.pics[k].frame = f.cnt
             \/ /\ k \in DOMAIN p.pics /\ s.pics[k].poc = p.pics[k].poc
                /\ s.pics[k].poc \in f.rps /\ s.pics[k].frame = p.pics[k].frame

\* Starting a frame gives it a picture that no frame in flight holds and that it does not read.
LEMMA StartedOk ==
    ASSUME NEW p, PoolOk(p), NEW e, EncOk(e), NEW idr \in BOOLEAN, NEW poc \in Nat,
           NEW f, f = FrameOf(p, e, idr, poc), NEW s, s = Started(p, f, e)
    PROVE  StartedFrom(p, f, s)
<1>. DEFINE rps == Rps(p, e, idr, poc)
            used == Used(p, e, idr, poc)
            m == Marked(p, rps)
            k == FreePicture(m)
            refs == [q \in used |-> GetPicture(m, q)]
            reads == [q \in used |-> p.pics[refs[q]].frame]
            first == e.idx = 0
            g == Prepared(p, rps, poc, first)
            reference == rps = {} \/ ~Gop[e.size][e.idx + 1].nonReference
            old == g.pics[k]
            taken == [old EXCEPT !.reference = reference, !.frame = e.cnt]
            written == [g.pics EXCEPT ![k] = taken]
<1>1. /\ e.cnt \in Int /\ first \in BOOLEAN /\ reference \in BOOLEAN
      /\ p \in Pool /\ p.pics \in Seq(Picture) /\ p.flight \in Seq(Frame)
  BY DEF EncOk, Enc, PoolOk, Pool
<1>2. rps \subseteq Held(p) /\ used \subseteq rps /\ Held(p) \subseteq Int /\ poc \notin rps
  BY RpsOk
<1>3. idr => rps = {}
  BY DEF Rps
<1>. HIDE DEF rps, used, first, reference
<1>4. /\ PoolOk(m) /\ DOMAIN m.pics = DOMAIN p.pics /\ m.flight = p.flight
      /\ \A r \in DOMAIN p.pics : /\ m.pics[r].frame = p.pics[r].frame
                                  /\ m.pics[r].refCnt = p.pics[r].refCnt
                                  /\ m.pics[r].poc \in {-1, p.pics[r].poc}
                                  /\ m.pics[r].refCnt = 0 /\ m.pics[r].poc # -1
                                       => m.pics[r].poc \in rps
      /\ \A q \in rps : /\ GetPicture(p, q) \in DOMAIN p.pics
                        /\ p.pics[GetPicture(p, q)].poc = q /\ q \in Int \ {-1}
                        /\ m.pics[GetPicture(p, q)].reference
                        /\ GetPicture(m, q) = GetPicture(p, q)
  BY <1>2, MarkedOk
<1>. HIDE DEF m
<1>5. /\ PoolOk(g) /\ g.flight = p.flight
      /\ DOMAIN g.pics = DOMAIN p.pics \cup {k}
      /\ g.pics[k].poc = poc
      /\ \A i \in DOMAIN p.flight : ~Holds(p.flight[i], k)
      /\ \A r \in DOMAIN p.pics : g.pics[r].frame = p.pics[r].frame
      /\ \A r \in DOMAIN p.pics \ {k} : g.pics[r] = m.pics[r]
      /\ k \in DOMAIN p.pics => ~m.pics[k].reference
  <2>1. m = Marked(p, rps) /\ k = FreePicture(m) /\ g = Prepared(p, rps, poc, first)
    BY DEF m
  <2>. HIDE DEF k, g
  <2>. QED  BY <2>1, <1>1, <1>2, PreparedOk
<1>. HIDE DEF k, g
<1>6. /\ g \in Pool /\ g.pics \in Seq(Picture) /\ g.store \in Seq(Nat)
      /\ g.flight \in Seq(Frame) /\ old \in Picture /\ k \in Nat
      /\ Range(g.store) = DOMAIN g.pics /\ CountsExact(g) /\ ReferencesNamed(g)
      /\ \A i \in DOMAIN p.flight : FrameIntact(g.pics, p.flight[i])
  BY <1>5 DEF PoolOk, Pool
<1>7. f = [cnt |-> e.cnt, idr |-> idr, poc |-> poc, rps |-> rps, pic |-> k,
           refs |-> refs, reads |-> reads]
  BY DEF FrameOf, rps, used, m, k
<1>8. \A q \in used : refs[q] \in DOMAIN p.pics /\ refs[q] = GetPicture(p, q)
  BY <1>2, <1>4
<1>9. /\ DOMAIN refs = used /\ DOMAIN reads = used
      /\ \A q \in used : reads[q] = p.pics[refs[q]].frame /\ reads[q] \in Int
  <2>1. \A q \in used : p.pics[refs[q]] \in Picture
    BY <1>1, <1>8
  <2>. HIDE DEF refs
  <2>2. \A q \in used : p.pics[refs[q]].frame \in Int
    BY <2>1 DEF Picture
  <2>. QED  BY <2>2 DEF refs
<1>10. refs \in [used -> Nat] /\ reads \in [used -> Int]
  <2>1. DOMAIN p.pics \subseteq Nat
    BY <1>1
  <2>2. refs \in [used -> Nat]
    BY <2>1, <1>8
  <2>. HIDE DEF refs
  <2>. QED  BY <2>2, <1>9
<1>. HIDE DEF refs, reads
<1>11. f \in Frame
  BY <1>1, <1>2, <1>6, <1>7, <1>10 DEF Frame
<1>12. /\ f.cnt = e.cnt /\ f.idr = idr /\ f.poc = poc /\ f.rps = rps /\ f.pic = k
       /\ f.refs = refs /\ f.reads = reads
  BY <1>7
<1>13. /\ taken \in Picture /\ taken.poc = poc /\ taken.frame = e.cnt
       /\ taken.refCnt = old.refCnt
  <2>1. old.poc = poc
    BY <1>5
  <2>. HIDE DEF old
  <2>2. [old EXCEPT !.reference = reference] \in Picture
    BY <1>1, <1>6 DEF Picture
  <2>3. taken = [[old EXCEPT !.reference = reference] EXCEPT !.frame = e.cnt]
    BY <1>6 DEF Picture
  <2>4. taken \in Picture
    BY <2>2, <2>3, <1>1 DEF Picture
  <2>. QED  BY <2>1, <2>4, <1>1, <1>6 DEF Picture
<1>. HIDE DEF taken
<1>14. /\ written \in Seq(Picture) /\ DOMAIN written = DOMAIN g.pics /\ written[k] = taken
       /\ \A r \in DOMAIN g.pics \ {k} : written[r] = g.pics[r]
  BY <1>5, <1>6, <1>13
<1>. DEFINE c == Counted(written, f, 1)
<1>15. s = [pics |-> c, store |-> MovedLast(g.store, k), flight |-> Append(p.flight, f)]
  <2>1. [g.pics EXCEPT ![k].reference = reference, ![k].frame = e.cnt] = written
    BY <1>5, <1>6 DEF taken
  <2>2. s = [pics |-> Counted([g.pics EXCEPT ![k].reference = reference, ![k].frame = e.cnt], f, 1),
             store |-> MovedLast(g.store, k), flight |-> Append(g.flight, f)]
    BY <1>12 DEF Started, g, reference, first
  <2>. QED  BY <2>1, <2>2, <1>5
<1>. HIDE DEF written, old
<1>16. /\ c \in Seq(Picture) /\ DOMAIN c = DOMAIN written
       /\ \A r \in DOMAIN written :
             /\ c[r].poc = written[r].poc /\ c[r].reference = written[r].reference
             /\ c[r].frame = written[r].frame
             /\ c[r].refCnt = written[r].refCnt + IF Holds(f, r) THEN 1 ELSE 0
  BY <1>14, CountedOk
<1>. HIDE DEF c
<1>17. \A r \in DOMAIN g.pics \ {k} : c[r].frame = g.pics[r].frame /\ c[r].poc = g.pics[r].poc
  BY <1>14, <1>16
<1>18. c[k].frame = e.cnt /\ c[k].poc = poc
  BY <1>5, <1>13, <1>14, <1>16
<1>19. MovedLast(g.store, k) \in Seq(Nat) /\ Range(MovedLast(g.store, k)) = DOMAIN c
  BY <1>5, <1>6, <1>14, <1>16, MovedLastOk
<1>20. s \in Pool /\ s.pics = c /\ s.store = MovedLast(g.store, k) /\ s.flight = Append(p.flight, f)
  BY <1>1, <1>11, <1>15, <1>16, <1>19 DEF Pool
<1>21. \A i \in DOMAIN s.flight : FrameIntact(s.pics, s.flight[i])
  <2>1. \A i \in DOMAIN p.flight : FrameIntact(c, p.flight[i])
    <3>. TAKE i \in DOMAIN p.flight
    <3>1. FrameIntact(g.pics, p.flight[i]) /\ ~Holds(p.flight[i], k)
      BY <1>5, <1>6
    <3>2. \A r \in DOMAIN g.pics : Holds(p.flight[i], r) => r \in DOMAIN c /\ c[r].frame = g.pics[r].frame
      BY <3>1, <1>14, <1>16, <1>17
    <3>. QED  BY <3>1, <3>2, KeptIntact
  <2>2. FrameIntact(c, f)
    <3>1. \A q \in used : refs[q] \in DOMAIN c /\ c[refs[q]].frame = reads[q]
      <4>. TAKE q \in used
      <4>1. refs[q] \in DOMAIN p.pics /\ m.pics[refs[q]].reference
        BY <1>2, <1>4, <1>8
      <4>2. refs[q] # k
        BY <4>1, <1>5
      <4>. QED  BY <4>1, <4>2, <1>5, <1>9, <1>14, <1>16, <1>17
    <3>. QED  BY <3>1, <1>5, <1>9, <1>12, <1>14, <1>16, <1>18 DEF FrameIntact
  <2>3. /\ DOMAIN s.flight = DOMAIN p.flight \cup {Len(p.flight) + 1}
        /\ \A i \in DOMAIN p.flight : s.flight[i] = p.flight[i]
        /\ s.flight[Len(p.flight) + 1] = f
    BY <1>1, <1>11, <1>20
  <2>. QED  BY <2>1, <2>2, <2>3, <1>20
<1>22. CountsExact(s)
  <2>. SUFFICES ASSUME NEW r \in DOMAIN c
                PROVE  c[r].refCnt = Cardinality(Holders(Append(p.flight, f), r))
    BY <1>20 DEF CountsExact
  <2>1. c[r].refCnt = g.pics[r].refCnt + IF Holds(f, r) THEN 1 ELSE 0
    BY <1>13, <1>14, <1>16 DEF old
  <2>2. g.pics[r].refCnt = Cardinality(Holders(p.flight, r))
    BY <1>5, <1>6, <1>14, <1>16 DEF CountsExact
  <2>. QED  BY <2>1, <2>2, <1>1, <1>11, HoldersAppend
<1>23. ReferencesNamed(s)
  <2>. SUFFICES ASSUME NEW r \in DOMAIN c, c[r].reference PROVE c[r].poc # -1
    BY <1>20 DEF ReferencesNamed
  <2>1. CASE r = k
    BY <2>1, <1>18
  <2>2. CASE r # k
    BY <2>2, <1>6, <1>14, <1>16 DEF ReferencesNamed
  <2>. QED  BY <2>1, <2>2
<1>24. PoolOk(s)
  BY <1>19, <1>20, <1>21, <1>22, <1>23 DEF PoolOk
<1>25. \A q \in DOMAIN reads : \E r \in DOMAIN p.pics :
          p.pics[r].poc = q /\ q # -1 /\ reads[q] = p.pics[r].frame
  BY <1>2, <1>4, <1>8, <1>9
<1>26. ASSUME p.flight = <<>>, NEW r \in DOMAIN c, c[r].poc # -1
       PROVE  \/ c[r].poc = poc /\ c[r].frame = e.cnt
              \/ /\ r \in DOMAIN p.pics /\ c[r].poc = p.pics[r].poc
                 /\ c[r].poc \in rps /\ c[r].frame = p.pics[r].frame
  <2>1. CASE r = k
    BY <2>1, <1>18
  <2>2. CASE r # k
    <3>1. /\ r \in DOMAIN p.pics /\ c[r].poc = m.pics[r].poc /\ c[r].frame = p.pics[r].frame
      BY <2>2, <1>5, <1>14, <1>16, <1>17
    <3>2. m.pics[r].refCnt = 0
      <4>1. Holders(<<>>, r) = {}
        BY DEF Holders
      <4>2. CountsExact(m)
        BY <1>4 DEF PoolOk
      <4>3. m.pics[r].refCnt = Cardinality(Holders(<<>>, r))
        BY <3>1, <4>2, <1>4, <1>26 DEF CountsExact
      <4>. QED  BY <4>1, <4>3, FS_EmptySet
    <3>. QED  BY <3>1, <3>2, <1>4, <1>26
  <2>. QED  BY <2>1, <2>2
<1>27. \A q \in DOMAIN refs : q \in rps /\ refs[q] = GetPicture(p, q)
  BY <1>2, <1>8, <1>9
<1>28. DOMAIN c = DOMAIN p.pics \cup {k}
  BY <1>5, <1>14, <1>16
<1>29. ASSUME NEW r \in DOMAIN p.pics \ {k}
       PROVE  c[r].reference = m.pics[r].reference /\ c[r].poc = m.pics[r].poc /\ c[r].frame = m.pics[r].frame
  BY <1>4, <1>5, <1>14, <1>16
<1>30. m = Marked(p, rps) /\ k = FreePicture(m)
  BY DEF m, k
<1>31. /\ f.rps \subseteq Held(p) /\ f.pic = FreePicture(Marked(p, f.rps))
       /\ \A q \in DOMAIN f.refs : q \in f.rps /\ f.refs[q] = GetPicture(p, q)
       /\ DOMAIN s.pics = DOMAIN p.pics \cup {f.pic}
       /\ s.pics[f.pic].poc = f.poc /\ s.pics[f.pic].frame = f.cnt
       /\ \A r \in DOMAIN p.pics \ {f.pic} :
             LET picture == Marked(p, f.rps).pics[r]
             IN  /\ s.pics[r].reference = picture.reference
                 /\ s.pics[r].poc = picture.poc /\ s.pics[r].frame = picture.frame
  <2>. HIDE DEF m, k
  <2>. QED  BY <1>2, <1>12, <1>18, <1>20, <1>27, <1>28, <1>29, <1>30
<1>. QED
  BY <1>2, <1>3, <1>9, <1>11, <1>12, <1>20, <1>24, <1>25, <1>26, <1>31 DEF StartedFrom

\* A skipped frame leaves the picture it would have had to the next one.
LEMMA SkippedOk ==
    ASSUME NEW p, PoolOk(p), NEW rps, rps \subseteq Held(p), NEW poc \in Nat,
           NEW first \in BOOLEAN
    PROVE  PoolOk(SkippedIn(p, rps, poc, first))
<1>. DEFINE m == Marked(p, rps)
            k == FreePicture(m)
            g == Prepared(p, rps, poc, first)
            s == SkippedIn(p, rps, poc, first)
<1>1. s = [g EXCEPT !.store = MovedLast(g.store, k)]
  <2>1. \A q : [q EXCEPT !.store = MovedLast(@, k)] = [q EXCEPT !.store = MovedLast(q.store, k)]
    OBVIOUS
  <2>. HIDE DEF g
  <2>2. s = [g EXCEPT !.store = MovedLast(@, k)]
    BY DEF SkippedIn, g
  <2>. QED  BY <2>1, <2>2
<1>2. PoolOk(g) /\ k \in DOMAIN g.pics
  <2>1. m = Marked(p, rps) /\ k = FreePicture(m) /\ g = Prepared(p, rps, poc, first)
    OBVIOUS
  <2>. HIDE DEF m, k, g
  <2>. QED  BY <2>1, PreparedOk
<1>. HIDE DEF m, k, g, s
<1>3. g \in Pool /\ g.store \in Seq(Nat) /\ Range(g.store) = DOMAIN g.pics
  BY <1>2 DEF PoolOk, Pool
<1>4. MovedLast(g.store, k) \in Seq(Nat) /\ Range(MovedLast(g.store, k)) = DOMAIN g.pics
  BY <1>2, <1>3, MovedLastOk
<1>5. /\ s \in Pool /\ s.pics = g.pics /\ s.flight = g.flight
      /\ s.store = MovedLast(g.store, k)
  BY <1>1, <1>3, <1>4 DEF Pool
<1>. QED  BY <1>2, <1>4, <1>5 DEF PoolOk, CountsExact, ReferencesNamed, s

\* What the end of the oldest frame makes of the store.
FinishedFrom(p, s) ==
    /\ PoolOk(s) /\ s.flight = Tail(p.flight) /\ DOMAIN s.pics = DOMAIN p.pics
    /\ \A k \in DOMAIN p.pics : /\ s.pics[k].poc = p.pics[k].poc
                                /\ s.pics[k].frame = p.pics[k].frame
                                /\ s.pics[k].reference = p.pics[k].reference

\* The oldest frame gives back its pictures; what the others hold stays.
LEMMA FinishedOk ==
    ASSUME NEW p, PoolOk(p), p.flight # <<>>, NEW s, s = Finished(p)
    PROVE  FinishedFrom(p, s)
<1>. DEFINE f == Head(p.flight)
            c == Counted(p.pics, f, -1)
            moved == MovedLast(p.store, f.pic)
<1>1. /\ p.pics \in Seq(Picture) /\ p.store \in Seq(Nat) /\ p.flight \in Seq(Frame)
      /\ Range(p.store) = DOMAIN p.pics /\ CountsExact(p) /\ ReferencesNamed(p)
      /\ \A i \in DOMAIN p.flight : FrameIntact(p.pics, p.flight[i])
  BY DEF PoolOk, Pool
<1>2. f \in Frame /\ f = p.flight[1] /\ 1 \in DOMAIN p.flight
  BY <1>1
<1>3. f.pic \in DOMAIN p.pics
  BY <1>1, <1>2 DEF FrameIntact
<1>4. moved \in Seq(Nat) /\ Range(moved) = DOMAIN p.pics
  BY <1>1, <1>3, MovedLastOk
<1>5. /\ c \in Seq(Picture) /\ DOMAIN c = DOMAIN p.pics
      /\ \A k \in DOMAIN p.pics :
            /\ c[k].poc = p.pics[k].poc /\ c[k].reference = p.pics[k].reference
            /\ c[k].frame = p.pics[k].frame
            /\ c[k].refCnt = p.pics[k].refCnt + IF Holds(f, k) THEN -1 ELSE 0
  <2>. HIDE DEF f
  <2>. QED  BY <1>1, CountedOk
<1>6. Tail(p.flight) \in Seq(Frame)
  BY <1>1
<1>7. s = [pics |-> c, store |-> moved, flight |-> Tail(p.flight)]
  BY DEF Finished
<1>. HIDE DEF c, moved
<1>8. s \in Pool /\ s.pics = c /\ s.store = moved /\ s.flight = Tail(p.flight)
  BY <1>4, <1>5, <1>6, <1>7 DEF Pool
<1>9. \A i \in DOMAIN s.flight : FrameIntact(s.pics, s.flight[i])
  <2>. SUFFICES ASSUME NEW i \in DOMAIN Tail(p.flight) PROVE FrameIntact(c, Tail(p.flight)[i])
    BY <1>8
  <2>1. i + 1 \in DOMAIN p.flight /\ Tail(p.flight)[i] = p.flight[i + 1]
    BY <1>1
  <2>2. FrameIntact(p.pics, p.flight[i + 1])
    BY <2>1, <1>1
  <2>3. FrameIntact(c, p.flight[i + 1])
    BY <2>2, <1>5, KeptIntact
  <2>. QED  BY <2>1, <2>3
<1>10. CountsExact(s)
  <2>. SUFFICES ASSUME NEW k \in DOMAIN p.pics
                PROVE  c[k].refCnt = Cardinality(Holders(Tail(p.flight), k))
    BY <1>5, <1>8 DEF CountsExact
  <2>1. p.pics[k].refCnt = Cardinality(Holders(p.flight, k))
    BY <1>1 DEF CountsExact
  <2>2. Cardinality(Holders(p.flight, k)) \in Nat
    BY <1>1, HoldersFinite
  <2>3. Cardinality(Holders(Tail(p.flight), k))
          = Cardinality(Holders(p.flight, k)) - IF Holds(f, k) THEN 1 ELSE 0
    BY <1>1, HoldersTail
  <2>. QED  BY <2>1, <2>2, <2>3, <1>5
<1>11. ReferencesNamed(s)
  BY <1>1, <1>5, <1>8 DEF ReferencesNamed
<1>. QED  BY <1>4, <1>5, <1>8, <1>9, <1>10, <1>11 DEF PoolOk, FinishedFrom

-----------------------------------------------------------------------------
(* The specification *)

IInv == setup \in Setups /\ OrderOk(order) /\ PoolOk(pool)

\* The invariant holds at the start.
LEMMA InitOk == Init => IInv
<1>. SUFFICES ASSUME Init PROVE IInv
  OBVIOUS
<1>1. setup \in Setups
  BY DEF Init, OrderInit
<1>2. /\ setup.sizes # {} /\ setup.sizes \subseteq DOMAIN Gop /\ setup.lastPic \in Nat
  BY <1>1, SetupsAssumption
<1>3. 1 \in DOMAIN Gop
  <2>1. PICK n \in DOMAIN Gop : n \in Nat \ {0}
    BY <1>2, GopSizes
  <2>2. 1 \in 1 .. n
    BY <2>1
  <2>. QED  BY <2>2, GopSizes
<1>4. OrderOk(order)
  <2>. DEFINE size == IF Cardinality(setup.sizes) = 1 THEN CHOOSE n \in setup.sizes : TRUE ELSE 1
  <2>1. size \in DOMAIN Gop
    BY <1>2, <1>3
  <2>2. order = [enc |-> FirstPicture(size), last |-> NoPicture, size |-> size,
                 nextIdr |-> 0, jobs |-> {}, submitted |-> 0,
                 lastPic |-> setup.lastPic, flushing |-> FALSE, astray |-> FALSE]
    BY DEF Init, OrderInit
  <2>. HIDE DEF size
  <2>3. size \in Nat \ {0}
    BY <2>1, GopSizes
  <2>4. FirstPicture(size) \in Enc /\ EncOk(FirstPicture(size)) /\ FirstPicture(size).cnt = 0
    BY <2>1, <2>3 DEF FirstPicture, Enc, EncOk
  <2>5. NoPicture \in [cnt : Int, poc : Int, idr : BOOLEAN, size : Int, idx : Nat, lastIdr : Int]
    <3>1. FirstPicture(1) \in [cnt : Int, poc : Int, idr : BOOLEAN, size : Int, idx : Nat,
                              lastIdr : Int]
      BY DEF FirstPicture
    <3>. QED  BY <3>1 DEF NoPicture
  <2>. QED  BY <2>1, <2>2, <2>4, <2>5, <1>2 DEF OrderOk, Order
<1>5. PoolOk(pool)
  <2>1. pool = [pics |-> <<>>, store |-> <<>>, flight |-> <<>>]
    BY DEF Init
  <2>2. pool \in Pool
    BY <2>1 DEF Pool
  <2>3. DOMAIN pool.pics = {} /\ DOMAIN pool.store = {} /\ DOMAIN pool.flight = {}
    BY <2>1
  <2>. QED  BY <2>2, <2>3 DEF PoolOk, CountsExact, ReferencesNamed, Range
<1>. QED  BY <1>1, <1>4, <1>5 DEF IInv

\* What a call that codes a picture makes of the order and the store.
LEMMA EncodeOk ==
    ASSUME setup \in Setups, PoolOk(pool), NEW o, MidOk(o), Encode(o)
    PROVE  OrderOk(order') /\ PoolOk(pool')
<1>1. HasJob(o)
  BY DEF Encode, Skip, Start, StartAndWait
<1>2. /\ o.enc \in Enc /\ EncOk(o.enc) /\ IsIdr(o) \in BOOLEAN /\ JobPoc(o) \in Nat
      /\ o \in Order
  BY <1>1, JobOk DEF MidOk, Order
<1>3. /\ Taken(o) \in Order /\ EncOk(Taken(o).enc)
  BY <1>1, <1>2, TakenOk
<1>4. NextSizes(o) \subseteq DOMAIN Gop
  BY <1>2, SetupsAssumption DEF NextSizes, Order
<1>5. \A size \in NextSizes(o) : OrderOk(Advanced(Taken(o), size))
  BY <1>3, <1>4, AdvancedOk
<1>6. OrderOk(PutOff(Taken(o)))
  BY <1>3, PutOffOk
<1>. DEFINE f == FrameOf(pool, o.enc, IsIdr(o), JobPoc(o))
            p == Started(pool, f, o.enc)
<1>7. PoolOk(p) /\ p.flight = Append(pool.flight, f) /\ pool.flight \in Seq(Frame) /\ f \in Frame
  <2>1. pool.flight \in Seq(Frame)
    BY DEF PoolOk, Pool
  <2>2. StartedFrom(pool, f, p)
    <3>. DEFINE idr == IsIdr(o)
                poc == JobPoc(o)
    <3>1. f = FrameOf(pool, o.enc, idr, poc) /\ p = Started(pool, f, o.enc)
      OBVIOUS
    <3>. HIDE DEF f, p, idr, poc
    <3>2. idr \in BOOLEAN /\ poc \in Nat
      BY <1>2 DEF idr, poc
    <3>. QED  BY <3>1, <3>2, <1>2, StartedOk
  <2>. HIDE DEF f, p
  <2>. QED  BY <2>1, <2>2 DEF StartedFrom
<1>. HIDE DEF f, p
<1>8. CASE Skip(o)
  <2>1. Rps(pool, o.enc, IsIdr(o), JobPoc(o)) \subseteq Held(pool)
    BY <1>2, RpsOk
  <2>2. PoolOk(pool')
    BY <1>2, <1>8, <2>1, SkippedOk DEF Skip
  <2>. QED  BY <2>2, <1>6, <1>8 DEF Skip
<1>9. CASE Start(o)
  BY <1>5, <1>7, <1>9 DEF Start, f, p
<1>10. CASE StartAndWait(o)
  <2>1. pool' = Finished(p)
    BY <1>10 DEF StartAndWait, p, f
  <2>2. p.flight # <<>>
    BY <1>7
  <2>3. PoolOk(pool')
    BY <2>1, <2>2, <1>7, FinishedOk DEF FinishedFrom
  <2>4. OrderOk(order')
    BY <1>5, <1>6, <1>10 DEF StartAndWait
  <2>. QED  BY <2>3, <2>4
<1>. QED  BY <1>8, <1>9, <1>10 DEF Encode

\* A call that codes none leaves the order as it found it.
LEMMA WaitOk ==
    ASSUME NEW o, MidOk(o), ~HasJob(o)
    PROVE  OrderOk(o)
BY DEF MidOk, OrderOk

\* There is something to flush.
LEMMA FlushFollows ==
    ASSUME setup \in Setups, OrderOk(order), MayFlush
    PROVE  order.submitted > 0
<1>. DEFINE n == setup.cores - 1
<1>1. n \in Int
  BY SetupsAssumption
<1>2. order.submitted \in Nat
  BY DEF OrderOk, Order
<1>3. order.submitted >= Max({1, n})
  BY DEF MayFlush
<1>. HIDE DEF n
<1>4. Max({1, n}) = IF 1 >= n THEN 1 ELSE n
  BY <1>1, MinMaxPair
<1>. QED  BY <1>1, <1>2, <1>3, <1>4

\* Every step keeps it.
LEMMA NextStepOk == IInv /\ [Next]_vars => IInv'
<1>. SUFFICES ASSUME IInv, [Next]_vars PROVE IInv'
  OBVIOUS
<1>1. setup \in Setups /\ OrderOk(order) /\ PoolOk(pool)
  BY DEF IInv
<1>2. CASE VCEncStrmEncode
  <2>1. PICK idr \in BOOLEAN : Encode(Given(order, idr)) \/ Wait(Given(order, idr))
    BY <1>2 DEF VCEncStrmEncode
  <2>2. setup' = setup
    BY <1>2 DEF VCEncStrmEncode
  <2>3. MidOk(Given(order, idr))
    BY <1>1, GivenOk
  <2>4. CASE Encode(Given(order, idr))
    BY <2>2, <2>3, <2>4, <1>1, EncodeOk DEF IInv
  <2>5. CASE Wait(Given(order, idr))
    BY <2>2, <2>3, <2>5, <1>1, WaitOk DEF IInv, Wait
  <2>. QED  BY <2>1, <2>4, <2>5
<1>3. CASE VCEncFlush
  <2>1. setup' = setup
    BY <1>3 DEF VCEncFlush
  <2>2. order.submitted > 0
    BY <1>1, <1>3, FlushFollows DEF VCEncFlush
  <2>3. MidOk(Flushed(order))
    BY <2>2, <1>1, FlushedOk
  <2>4. CASE Encode(Flushed(order))
    BY <2>1, <2>3, <2>4, <1>1, EncodeOk DEF IInv
  <2>5. CASE MultiCoreFlush(Flushed(order))
    <3>1. pool' = Finished(pool) /\ pool.flight # <<>> /\ OrderOk(order')
      BY <2>3, <2>5, WaitOk DEF MultiCoreFlush
    <3>. QED  BY <2>1, <3>1, <1>1, FinishedOk DEF FinishedFrom, IInv
  <2>6. CASE Wait(Flushed(order))
    BY <2>1, <2>3, <2>6, <1>1, WaitOk DEF IInv, Wait
  <2>. QED  BY <1>3, <2>4, <2>5, <2>6 DEF VCEncFlush
<1>4. CASE UNCHANGED vars
  BY <1>4 DEF IInv, vars
<1>. QED  BY <1>2, <1>3, <1>4 DEF Next

\* The types of the encode order and of the store (the fields of struct vcenc_instance that pick
\* the next picture, and container.picture of sw_picture.c).
TypeOk == order \in Order /\ pool \in Pool
THEOREM TypeCorrect == Spec => []TypeOk
<1>1. IInv => TypeOk
  BY DEF IInv, OrderOk, PoolOk, TypeOk
<1>. QED  BY <1>1, InitOk, NextStepOk, PTL DEF Spec

\* Every picture's count is the number of frames in flight that write or read it
\* (sw_ref_cnt_increase and sw_ref_cnt_decrease balance, whatever is skipped or discarded).
THEOREM RefCountsExact == Spec => []CountsExact(pool)
<1>1. IInv => CountsExact(pool)
  BY DEF IInv, PoolOk
<1>. QED  BY <1>1, InitOk, NextStepOk, PTL DEF Spec

\* For every group of pictures, number of cores and way of losing frames: what a frame in flight
\* writes and reads is never given to a later one (get_picture of sw_picture.c).
THEOREM NothingOverwritten == Spec => []BuffersIntact
<1>1. IInv => BuffersIntact
  BY DEF IInv, PoolOk, FrameIntact, BuffersIntact
<1>. QED  BY <1>1, InitOk, NextStepOk, PTL DEF Spec

-----------------------------------------------------------------------------
(* One core *)

\* The decoder holds every picture that can still be found by its POC.
InStep ==
    \A k \in DOMAIN pool.pics : pool.pics[k].poc # -1 =>
        pool.pics[k].poc \in DOMAIN dpb /\ dpb[pool.pics[k].poc] = pool.pics[k].frame
Alone == setup.cores = 1 /\ setup.lost = {}
OneCore == Alone => pool.flight = <<>> /\ InStep /\ SameReferences

\* With one core a coded picture leaves encoder and decoder in step.
LEMMA OneCoreEncodes ==
    ASSUME IInv, OneCore, Alone, NEW o, MidOk(o), Encode(o)
    PROVE  pool'.flight = <<>> /\ InStep' /\ SameReferences'
<1>1. StartAndWait(o) /\ HasJob(o)
  <2>1. ~Skip(o)
    BY DEF Alone, Skip, MaySkip
  <2>2. ~Start(o)
    <3>1. Len(pool.flight) = 0 /\ setup.cores - 1 = 0
      BY DEF OneCore, Alone
    <3>. QED  BY <3>1 DEF Start
  <2>. QED  BY <2>1, <2>2 DEF Encode, StartAndWait
<1>2. o.enc \in Enc /\ EncOk(o.enc) /\ IsIdr(o) \in BOOLEAN /\ JobPoc(o) \in Nat
  BY <1>1, JobOk DEF MidOk, Order
<1>. DEFINE f == FrameOf(pool, o.enc, IsIdr(o), JobPoc(o))
            p == Started(pool, f, o.enc)
            kept == IF f.idr THEN <<>> ELSE Restrict(dpb, DOMAIN dpb \cap f.rps)
<1>3. pool.flight = <<>> /\ InStep /\ PoolOk(pool)
  BY DEF IInv, OneCore
<1>4. /\ PoolOk(p) /\ f \in Frame /\ p.flight = Append(pool.flight, f)
      /\ f.rps \subseteq Int /\ f.poc \notin f.rps /\ (f.idr => f.rps = {})
      /\ DOMAIN f.reads \subseteq f.rps
      /\ \A q \in DOMAIN f.reads : \E k \in DOMAIN pool.pics :
            pool.pics[k].poc = q /\ q # -1 /\ f.reads[q] = pool.pics[k].frame
      /\ \A k \in DOMAIN p.pics : p.pics[k].poc # -1 =>
            \/ p.pics[k].poc = f.poc /\ p.pics[k].frame = f.cnt
            \/ /\ k \in DOMAIN pool.pics /\ p.pics[k].poc = pool.pics[k].poc
               /\ p.pics[k].poc \in f.rps /\ p.pics[k].frame = pool.pics[k].frame
  <2>. DEFINE idr == IsIdr(o)
              poc == JobPoc(o)
  <2>1. /\ f = FrameOf(pool, o.enc, idr, poc) /\ p = Started(pool, f, o.enc)
        /\ idr \in BOOLEAN /\ poc \in Nat
    BY <1>2
  <2>. HIDE DEF f, p, idr, poc
  <2>2. StartedFrom(pool, f, p)
    BY <2>1, <1>2, <1>3, StartedOk
  <2>. QED  BY <2>2, <1>3 DEF StartedFrom
<1>. HIDE DEF f, p
<1>5. p.flight # <<>> /\ Head(p.flight) = f /\ Tail(p.flight) = <<>>
  BY <1>3, <1>4
<1>6. pool' = Finished(p) /\ DeliverIf(TRUE, f)
  BY <1>1, <1>5 DEF StartAndWait, f, p, Streams, Alone
<1>7. /\ pool'.flight = <<>> /\ DOMAIN pool'.pics = DOMAIN p.pics
      /\ \A k \in DOMAIN p.pics : /\ pool'.pics[k].poc = p.pics[k].poc
                                  /\ pool'.pics[k].frame = p.pics[k].frame
  <2>. DEFINE s == Finished(p)
  <2>1. s = Finished(p) /\ pool' = s
    BY <1>6
  <2>. HIDE DEF s
  <2>2. FinishedFrom(p, s)
    BY <2>1, <1>4, <1>5, FinishedOk
  <2>. QED  BY <2>1, <2>2, <1>5 DEF FinishedFrom
<1>8. /\ dpb' = [q \in DOMAIN kept \cup {f.poc} |-> IF q = f.poc THEN f.cnt ELSE kept[q]]
      /\ delivered' = [reads |-> f.reads,
                       seen |-> Restrict(kept, DOMAIN kept \cap DOMAIN f.reads)]
  BY <1>6 DEF DeliverIf, Deliver
<1>9. \A q \in f.rps : q \in DOMAIN dpb => q \in DOMAIN kept /\ kept[q] = dpb[q]
  BY <1>4 DEF Restrict
<1>. HIDE DEF kept
<1>10. InStep'
  <2>. SUFFICES ASSUME NEW k \in DOMAIN p.pics, p.pics[k].poc # -1
                PROVE  p.pics[k].poc \in DOMAIN dpb' /\ dpb'[p.pics[k].poc] = p.pics[k].frame
    BY <1>7 DEF InStep
  <2>1. CASE p.pics[k].poc = f.poc /\ p.pics[k].frame = f.cnt
    BY <2>1, <1>8
  <2>2. CASE /\ k \in DOMAIN pool.pics /\ p.pics[k].poc = pool.pics[k].poc
             /\ p.pics[k].poc \in f.rps /\ p.pics[k].frame = pool.pics[k].frame
    <3>1. p.pics[k].poc \in DOMAIN dpb /\ dpb[p.pics[k].poc] = p.pics[k].frame
      BY <2>2, <1>3 DEF InStep
    <3>2. p.pics[k].poc \in DOMAIN kept /\ kept[p.pics[k].poc] = p.pics[k].frame
      BY <2>2, <3>1, <1>9
    <3>. QED  BY <2>2, <3>2, <1>4, <1>8
  <2>. QED  BY <2>1, <2>2, <1>4
<1>11. SameReferences'
  <2>1. \A q \in DOMAIN f.reads : q \in DOMAIN kept /\ kept[q] = f.reads[q]
    <3>. TAKE q \in DOMAIN f.reads
    <3>1. q \in DOMAIN dpb /\ dpb[q] = f.reads[q]
      BY <1>3, <1>4 DEF InStep
    <3>. QED  BY <3>1, <1>4, <1>9
  <2>2. f.reads = [q \in DOMAIN f.reads |-> f.reads[q]]
    BY <1>4 DEF Frame
  <2>3. DOMAIN kept \cap DOMAIN f.reads = DOMAIN f.reads
    BY <2>1
  <2>4. Restrict(kept, DOMAIN f.reads) = f.reads
    BY <2>1, <2>2 DEF Restrict
  <2>. QED  BY <2>3, <2>4, <1>8 DEF SameReferences
<1>. QED  BY <1>7, <1>10, <1>11

\* So does every call.
LEMMA OneCoreNext == IInv /\ OneCore /\ [Next]_vars => OneCore'
<1>. SUFFICES ASSUME IInv, OneCore, [Next]_vars PROVE OneCore'
  OBVIOUS
<1>1. setup \in Setups /\ OrderOk(order) /\ PoolOk(pool)
  BY DEF IInv
<1>2. setup' = setup
  BY DEF Next, VCEncStrmEncode, VCEncFlush, vars
<1>3. ASSUME pool' = pool, dpb' = dpb, delivered' = delivered
      PROVE  OneCore'
  BY <1>2, <1>3 DEF OneCore, Alone, InStep, SameReferences
<1>4. ASSUME Alone, NEW o, MidOk(o), Encode(o) PROVE OneCore'
  BY <1>2, <1>4, OneCoreEncodes DEF OneCore
<1>5. CASE ~Alone
  BY <1>2, <1>5 DEF OneCore, Alone
<1>6. CASE Alone /\ VCEncStrmEncode
  <2>1. PICK idr \in BOOLEAN : Encode(Given(order, idr)) \/ Wait(Given(order, idr))
    BY <1>6 DEF VCEncStrmEncode
  <2>2. MidOk(Given(order, idr))
    BY <1>1, GivenOk
  <2>3. CASE Encode(Given(order, idr))
    BY <2>2, <2>3, <1>4, <1>6
  <2>4. CASE Wait(Given(order, idr))
    BY <2>4, <1>3 DEF Wait
  <2>. QED  BY <2>1, <2>3, <2>4
<1>7. CASE Alone /\ VCEncFlush
  <2>1. CASE Encode(Flushed(order))
    <3>1. order.submitted > 0
      BY <1>1, <1>7, FlushFollows DEF VCEncFlush
    <3>2. MidOk(Flushed(order))
      BY <3>1, <1>1, FlushedOk
    <3>. QED  BY <2>1, <3>2, <1>4, <1>7
  <2>2. CASE MultiCoreFlush(Flushed(order))
    BY <2>2, <1>7 DEF MultiCoreFlush, OneCore
  <2>3. CASE Wait(Flushed(order))
    BY <2>3, <1>3 DEF Wait
  <2>. QED  BY <1>7, <2>1, <2>2, <2>3 DEF VCEncFlush
<1>8. CASE UNCHANGED vars
  BY <1>8, <1>3 DEF vars
<1>. QED  BY <1>5, <1>6, <1>7, <1>8 DEF Next

\* With one core, and every frame sent, each frame is predicted from the pictures the decoder
\* has under the same POC, however the groups are cut by IDRs and by the end of the stream.
THEOREM OneCoreInStep == Spec => [](setup.cores = 1 /\ setup.lost = {} => SameReferences)
<1>1. Init => OneCore
  BY DEF Init, OneCore, InStep, SameReferences
<1>2. OneCore => (setup.cores = 1 /\ setup.lost = {} => SameReferences)
  BY DEF OneCore, Alone
<1>. QED  BY <1>1, <1>2, InitOk, NextStepOk, OneCoreNext, PTL DEF Spec

-----------------------------------------------------------------------------
(* Every picture in its turn *)

\* The tables of groups name each picture of the group once, the last one first.
Permuted ==
    \A size \in DOMAIN Gop :
        /\ Gop[size][1].poc = size
        /\ \A i, k \in 1 .. size : Gop[size][i].poc = Gop[size][k].poc => i = k
        /\ \A p \in 1 .. size : \E i \in 1 .. size : Gop[size][i].poc = p

\* The group of a picture comes after its base; what is coded once the picture is.
Place(e) == Gop[e.size][e.idx + 1].poc
Base(e) == IF e.idr THEN e.cnt ELSE e.cnt - Place(e)
GroupEnd(e) == IF e.idr THEN e.cnt ELSE Base(e) + e.size
Coded(e) == IF e.idr THEN 0 .. e.cnt
            ELSE (0 .. Base(e)) \cup {Base(e) + Gop[e.size][k].poc : k \in 1 .. e.idx + 1}

\* The next IDR is not due before a picture is through, or is the picture.
Past(e) == 0 <= e.lastIdr /\ e.lastIdr <= Base(e)
Passed(e, n) == Past(e) /\ (n < 0 \/ n > GroupEnd(e))
Due(e, n) == Past(e) /\ IF e.idr THEN e.cnt = n ELSE n < 0 \/ n > GroupEnd(e)

\* A picture comes after another: in its group, or with the group after it, which is cut at the
\* end of the stream.
InGroup(l, e) == ~e.idr /\ e.cnt <= GroupEnd(l) /\ GroupEnd(e) = GroupEnd(l)
NewGroup(l, e, lastPic) ==
    /\ Coded(l) = 0 .. GroupEnd(l) /\ GroupEnd(e) = e.cnt
    /\ e.cnt <= lastPic \/ e.cnt = GroupEnd(l) + 1
Follows(l, e, n, lastPic) ==
    /\ EncOk(e) /\ e.cnt \notin Coded(l) /\ Coded(e) = Coded(l) \cup {e.cnt}
    /\ Due(e, n)
    /\ InGroup(l, e) \/ NewGroup(l, e, lastPic)

\* The numbers of a picture.
LEMMA PlaceOk ==
    ASSUME NEW e, EncOk(e)
    PROVE  /\ e.cnt \in Int /\ e.lastIdr \in Int /\ e.idr \in BOOLEAN
           /\ e.size \in DOMAIN Gop /\ e.size \in Nat \ {0} /\ e.idx \in Nat /\ e.idx < e.size
           /\ Place(e) \in 1 .. e.size /\ Base(e) \in Int /\ GroupEnd(e) \in Int
           /\ Base(e) <= e.cnt /\ e.cnt <= GroupEnd(e)
           /\ \A k \in 1 .. e.size : Gop[e.size][k].poc \in 1 .. e.size
<1>1. /\ e.cnt \in Int /\ e.lastIdr \in Int /\ e.idr \in BOOLEAN /\ e.size \in DOMAIN Gop
      /\ e.idx \in Nat /\ e.idx < e.size
  BY DEF EncOk, Enc
<1>2. e.size \in Nat \ {0}
  BY <1>1, GopSizes
<1>3. e.idx + 1 \in 1 .. e.size
  BY <1>1, <1>2
<1>4. Place(e) \in 1 .. e.size
  BY <1>1, <1>3, GopSizes DEF Place
<1>5. \A k \in 1 .. e.size : Gop[e.size][k].poc \in 1 .. e.size
  BY <1>1, GopSizes
<1>. QED  BY <1>1, <1>2, <1>4, <1>5 DEF Base, GroupEnd

\* Where FindNextPic goes: on in the group, or to the last picture of the next one, or to the IDR
\* that is due.
LEMMA NextPlace ==
    ASSUME Permuted, NEW l, EncOk(l), NEW n \in Int, Passed(l, n), NEW size \in DOMAIN Gop,
           NEW lastPic \in Int, NEW e, e = FindNextPic(l, size, n, lastPic)
    PROVE  IF ~l.idr /\ l.idx + 1 < l.size
           THEN /\ ~e.idr /\ e.size = l.size /\ e.idx = l.idx + 1 /\ e.lastIdr = l.lastIdr
                /\ e.cnt = Base(l) + Gop[l.size][l.idx + 2].poc
           ELSE /\ e.idx = 0 /\ (e.cnt <= lastPic \/ e.cnt = GroupEnd(l) + 1)
                /\ IF e.idr THEN e.cnt = GroupEnd(l) + 1 /\ e.cnt = n /\ e.lastIdr = e.cnt
                   ELSE /\ e.cnt = GroupEnd(l) + e.size /\ (n < 0 \/ n > e.cnt)
                        /\ e.lastIdr = l.lastIdr
<1>. DEFINE interval == IF n >= 0 THEN n - l.lastIdr ELSE 0
            idx == IF l.idr THEN 0 ELSE (l.idx + 1) % l.size
            place == Gop[l.size][l.idx + 1].poc
            cur == IF l.idr THEN 0 ELSE IF idx = 0 THEN place - l.size ELSE place
            step == Gop[size][1].poc - cur
            end == l.cnt + step
            byIdr == IF interval = 0 THEN 0 ELSE CutByIdr(end, l.lastIdr + interval)
            byTail == Min({size - 1, Max({0, end - lastPic})})
            short == IF idx = 0 /\ step > 1 THEN Max({byIdr, byTail}) ELSE 0
            newSize == IF idx # 0 THEN l.size
                       ELSE IF 0 < short /\ short < size THEN Min({size - short, MaxReducedSize})
                       ELSE size
            cnt == l.cnt + IF short >= size THEN 1 - cur ELSE Gop[newSize][idx + 1].poc - cur
            idr == interval # 0 /\ cnt - l.lastIdr >= interval
            b == GroupEnd(l)
<1>1. /\ l.cnt \in Int /\ l.lastIdr \in Int /\ l.idr \in BOOLEAN
      /\ l.size \in DOMAIN Gop /\ l.size \in Nat \ {0} /\ l.idx \in Nat /\ l.idx < l.size
      /\ place \in 1 .. l.size /\ Base(l) \in Int /\ GroupEnd(l) \in Int
      /\ Base(l) <= l.cnt /\ l.cnt <= GroupEnd(l)
  BY PlaceOk DEF Place
<1>2. size \in Nat \ {0} /\ Gop[size][1].poc = size
  BY GopSizes DEF Permuted
<1>3. /\ ~l.idr /\ l.idx + 1 < l.size => idx = l.idx + 1
      /\ ~(~l.idr /\ l.idx + 1 < l.size) => idx = 0
  <2>. DEFINE s == l.size
              i == l.idx + 1
  <2>1. s \in Nat \ {0} /\ i \in 1 .. s
    BY <1>1
  <2>2. i % s = IF i = s THEN 0 ELSE i
    <3>. HIDE DEF s, i
    <3>. QED  BY <2>1
  <2>. QED  BY <2>1, <2>2, <1>1
<1>4. n < 0 => interval = 0
  OBVIOUS
<1>5. n >= 0 => interval = n - l.lastIdr /\ interval > 0 /\ n > b
  BY <1>1 DEF Passed, Past, Base, GroupEnd
<1>6. interval \in Int
  BY <1>1
<1>7. e = [cnt |-> cnt, idr |-> idr, poc |-> IF idr THEN 0 ELSE l.poc + cnt - l.cnt,
           size |-> newSize, idx |-> idx, lastIdr |-> IF idr THEN cnt ELSE l.lastIdr]
  BY DEF FindNextPic, newSize, short, byIdr, byTail, end, step, cur, place, interval, idx
<1>8. /\ e.cnt = cnt /\ e.idr = idr /\ e.size = newSize /\ e.idx = idx
      /\ e.lastIdr = IF idr THEN cnt ELSE l.lastIdr
  <2>. HIDE DEF cnt, idr, newSize, idx
  <2>. QED  BY <1>7
<1>. HIDE DEF interval, idx
<1>9. CASE ~l.idr /\ l.idx + 1 < l.size
  <2>1. idx = l.idx + 1 /\ idx # 0 /\ cur = place /\ short = 0 /\ newSize = l.size
    BY <1>1, <1>3, <1>9
  <2>2. cnt = l.cnt + Gop[l.size][l.idx + 2].poc - place
    <3>1. ~(short >= size)
      BY <2>1, <1>2
    <3>2. idx + 1 = l.idx + 2 /\ l.idx + 2 \in 1 .. l.size
      BY <2>1, <1>1, <1>9
    <3>3. Gop[l.size][l.idx + 2].poc \in Int
      BY <3>2, <1>1, GopSizes
    <3>. HIDE DEF place, short, newSize, cur
    <3>. QED  BY <2>1, <3>1, <3>2, <3>3, <1>1
  <2>3. Gop[l.size][l.idx + 2].poc \in 1 .. l.size
    <3>1. l.idx + 2 \in 1 .. l.size
      BY <1>1, <1>9
    <3>. QED  BY <3>1, <1>1, GopSizes
  <2>4. Base(l) = l.cnt - place /\ b = Base(l) + l.size
    BY <1>9 DEF Base, Place, GroupEnd
  <2>. HIDE DEF place, cur, short, newSize, b, cnt
  <2>5. cnt = Base(l) + Gop[l.size][l.idx + 2].poc /\ cnt <= b
    BY <2>2, <2>3, <2>4, <1>1
  <2>6. ~idr
    BY <2>5, <2>3, <2>4, <1>1, <1>4, <1>5, <1>6
  <2>. QED  BY <2>1, <2>5, <2>6, <1>8, <1>9
<1>10. CASE ~(~l.idr /\ l.idx + 1 < l.size)
  <2>1. idx = 0
    BY <1>3, <1>10
  <2>2. cur \in Int /\ cur <= 0 /\ b = l.cnt - cur
    BY <2>1, <1>1 DEF GroupEnd, Base, Place
  <2>3. step = size - cur /\ end = b + size
    BY <1>1, <1>2, <2>2
  <2>4. byIdr = IF n >= 0 /\ b + size >= n THEN 1 + b + size - n ELSE 0
    <3>. HIDE DEF b, end
    <3>. QED  BY <2>3, <1>4, <1>5, <1>6, <1>1, <1>2, <2>2 DEF CutByIdr
  <2>. DEFINE m == IF 0 >= b + size - lastPic THEN 0 ELSE b + size - lastPic
  <2>5. byTail = IF size - 1 <= m THEN size - 1 ELSE m
    <3>1. end - lastPic = b + size - lastPic /\ b + size - lastPic \in Int
      BY <2>3, <1>1, <1>2
    <3>. HIDE DEF end, b
    <3>2. Max({0, end - lastPic}) = m
      BY <3>1, MinMaxPair
    <3>3. m \in Int /\ size - 1 \in Int
      BY <3>1, <1>2
    <3>. HIDE DEF m
    <3>. QED  BY <3>2, <3>3, MinMaxPair
  <2>6. byIdr \in Nat /\ byTail \in Nat /\ byTail < size
    <3>1. b \in Int
      BY <1>1
    <3>. HIDE DEF byIdr, byTail, b
    <3>. QED  BY <3>1, <2>4, <2>5, <1>2
  <2>7. short = IF size - cur > 1 THEN (IF byIdr >= byTail THEN byIdr ELSE byTail) ELSE 0
    <3>. HIDE DEF byIdr, byTail, step
    <3>1. Max({byIdr, byTail}) = IF byIdr >= byTail THEN byIdr ELSE byTail
      BY <2>6, MinMaxPair
    <3>. QED  BY <3>1, <2>1, <2>3
  <2>8. short \in Nat
    <3>. HIDE DEF byIdr, byTail, short
    <3>. QED  BY <2>6, <2>7
  <2>9. newSize = IF 0 < short /\ short < size
                  THEN (IF size - short <= MaxReducedSize THEN size - short ELSE MaxReducedSize)
                  ELSE size
    <3>1. size - short \in Int
      BY <2>8, <1>2
    <3>. HIDE DEF short
    <3>2. Min({size - short, MaxReducedSize}) 
           = IF size - short <= MaxReducedSize THEN size - short ELSE MaxReducedSize
      BY <3>1, ReducedSize, MinMaxPair
    <3>. QED  BY <3>2, <2>1
  <2>10. newSize \in 1 .. size /\ (short >= size => newSize = size)
    <3>. HIDE DEF short, newSize
    <3>. QED  BY <2>8, <2>9, <1>2, ReducedSize
  <2>11. Gop[newSize][1].poc = newSize
    <3>. HIDE DEF newSize
    <3>. QED  BY <2>10, GopSizes DEF Permuted
  <2>12. cnt = IF short >= size THEN b + 1 ELSE b + newSize
    <3>1. idx + 1 = 1
      BY <2>1
    <3>. HIDE DEF newSize, short, cur, b
    <3>. QED  BY <3>1, <2>2, <2>10, <2>11, <1>1
  <2>13. cnt \in Int /\ b \in Int
    <3>. HIDE DEF newSize, short, cur, cnt
    <3>. QED  BY <2>10, <2>12, <1>1
  <2>14. idr <=> (n >= 0 /\ cnt >= n)
    <3>. HIDE DEF cnt
    <3>. QED  BY <2>13, <1>1, <1>4, <1>5, <1>6
  <2>. HIDE DEF place, cur, step, end, byIdr, byTail, short, newSize, cnt, idr, b
  <2>15. n >= 0 => n > b
    BY <1>5
  <2>16. IF n >= 0 /\ cnt >= n THEN cnt = b + 1 /\ cnt = n ELSE cnt = b + newSize
    <3>1. CASE short >= size
      <4>1. short = byIdr /\ byIdr # 0
        BY <3>1, <2>6, <2>7, <1>2
      <4>2. n >= 0 /\ 1 + b + size - n >= size
        BY <4>1, <3>1, <2>4
      <4>. QED  BY <4>2, <3>1, <2>12, <2>13, <2>15, <1>2
    <3>2. CASE 0 < short /\ short < size
      <4>1. newSize <= size - short /\ short >= byIdr
        BY <3>2, <2>6, <2>7, <2>8, <2>9, <1>2, ReducedSize
      <4>2. n >= 0 => n > b + newSize
        BY <4>1, <2>4, <2>6, <2>8, <2>10, <2>13, <1>2, <3>2
      <4>3. cnt = b + newSize
        BY <3>2, <2>8, <2>12, <1>2
      <4>. QED  BY <4>2, <4>3, <2>10, <2>13
    <3>3. CASE short = 0
      <4>1. newSize = size /\ cnt = b + size
        BY <3>3, <2>9, <2>12, <1>2
      <4>2. CASE byIdr = 0
        BY <4>1, <4>2, <2>4, <2>13, <1>2
      <4>3. CASE byIdr # 0
        <5>1. size <= 1
          BY <4>3, <3>3, <2>2, <2>6, <2>7, <1>2
        <5>. QED  BY <5>1, <4>1, <2>13, <2>15, <1>2
      <4>. QED  BY <4>2, <4>3
    <3>. QED  BY <3>1, <3>2, <3>3, <2>8, <1>2
  <2>17. cnt <= lastPic \/ cnt = b + 1
    <3>1. CASE short >= size
      BY <3>1, <2>12
    <3>2. CASE 0 < short /\ short < size
      <4>1. newSize <= size - short /\ short >= byTail /\ cnt = b + newSize
        BY <3>2, <2>6, <2>7, <2>8, <2>9, <2>12, <1>2
      <4>2. CASE byTail = size - 1
        BY <4>1, <4>2, <2>8, <2>10, <2>13, <1>2
      <4>3. CASE byTail # size - 1
        <5>1. byTail >= b + size - lastPic
          BY <4>3, <2>5, <2>13, <1>2
        <5>. QED  BY <5>1, <4>1, <2>6, <2>8, <2>10, <2>13, <1>2
      <4>. QED  BY <4>2, <4>3
    <3>3. CASE short = 0
      <4>1. newSize = size /\ cnt = b + size
        BY <3>3, <2>9, <2>12, <1>2
      <4>2. CASE byTail = 0
        <5>1. size = 1 \/ 0 >= b + size - lastPic
          BY <4>2, <2>5, <2>13, <1>2
        <5>. QED  BY <5>1, <4>1, <2>13, <1>2
      <4>3. CASE byTail # 0
        <5>1. size <= 1
          BY <4>3, <3>3, <2>2, <2>6, <2>7, <1>2
        <5>. QED  BY <5>1, <4>1, <2>13, <1>2
      <4>. QED  BY <4>2, <4>3
    <3>. QED  BY <3>1, <3>2, <3>3, <2>8, <1>2
  <2>18. b = GroupEnd(l)
    BY DEF b
  <2>. QED  BY <2>1, <2>13, <2>14, <2>16, <2>17, <2>18, <1>8, <1>10
<1>. QED  BY <1>9, <1>10

\* What is coded with a picture: itself, the last picture of its group, and all of a group that
\* ends with it.
LEMMA CodedOk ==
    ASSUME Permuted, NEW e, EncOk(e), Past(e)
    PROVE  /\ e.cnt \in Coded(e) /\ GroupEnd(e) \in Coded(e) /\ Coded(e) \subseteq Int
           /\ e.cnt \in Nat
           /\ e.idr \/ e.idx + 1 = e.size => Coded(e) = 0 .. GroupEnd(e)
<1>1. /\ e.cnt \in Int /\ e.lastIdr \in Int /\ e.idr \in BOOLEAN
      /\ e.size \in DOMAIN Gop /\ e.size \in Nat \ {0} /\ e.idx \in Nat /\ e.idx < e.size
      /\ Place(e) \in 1 .. e.size /\ Base(e) \in Int /\ Base(e) <= e.cnt
      /\ \A k \in 1 .. e.size : Gop[e.size][k].poc \in 1 .. e.size
  BY PlaceOk
<1>2. Base(e) >= 0
  BY <1>1 DEF Past
<1>3. CASE e.idr
  BY <1>1, <1>2, <1>3 DEF Coded, GroupEnd, Base
<1>4. CASE ~e.idr
  <2>. DEFINE b == Base(e)
              place(k) == Gop[e.size][k].poc
  <2>1. /\ Coded(e) = (0 .. b) \cup {b + place(k) : k \in 1 .. e.idx + 1}
        /\ GroupEnd(e) = b + e.size /\ e.cnt = b + place(e.idx + 1)
    BY <1>1, <1>4 DEF Coded, GroupEnd, Base, Place
  <2>2. \A k \in 1 .. e.size : place(k) \in 1 .. e.size
    BY <1>1
  <2>3. /\ place(1) = e.size /\ \A p \in 1 .. e.size : \E k \in 1 .. e.size : place(k) = p
    BY <1>1 DEF Permuted
  <2>4. b \in Nat
    BY <1>1, <1>2
  <2>5. 1 \in 1 .. e.idx + 1 /\ e.idx + 1 \in 1 .. e.idx + 1 /\ 1 .. e.idx + 1 \subseteq 1 .. e.size
    BY <1>1
  <2>. HIDE DEF b, place
  <2>6. e.cnt \in Coded(e) /\ GroupEnd(e) \in Coded(e)
    BY <2>1, <2>3, <2>5
  <2>7. Coded(e) \subseteq Int /\ e.cnt \in Nat
    BY <2>1, <2>2, <2>4, <2>5
  <2>8. ASSUME e.idx + 1 = e.size PROVE Coded(e) = 0 .. GroupEnd(e)
    <3>1. ASSUME NEW x \in Coded(e) PROVE x \in 0 .. GroupEnd(e)
      <4>1. CASE x \in 0 .. b
        BY <4>1, <2>1, <2>4, <1>1
      <4>2. CASE x \notin 0 .. b
        <5>1. PICK k \in 1 .. e.idx + 1 : x = b + place(k)
          BY <4>2, <2>1, <3>1
        <5>2. place(k) \in 1 .. e.size
          BY <2>2, <2>5
        <5>. QED  BY <5>1, <5>2, <2>1, <2>4, <1>1
      <4>. QED  BY <4>1, <4>2
    <3>2. ASSUME NEW x \in 0 .. GroupEnd(e), x \notin 0 .. b PROVE x \in Coded(e)
      <4>1. x - b \in 1 .. e.size
        BY <3>2, <2>1, <2>4, <1>1
      <4>2. PICK k \in 1 .. e.size : place(k) = x - b
        BY <4>1, <2>3
      <4>3. x = b + place(k)
        BY <4>1, <4>2, <3>2, <2>4
      <4>. QED  BY <4>3, <2>1, <2>8
    <3>3. \A x \in 0 .. b : x \in Coded(e)
      BY <2>1
    <3>. QED  BY <3>1, <3>2, <3>3
  <2>. QED  BY <2>6, <2>7, <2>8, <1>4
<1>. QED  BY <1>3, <1>4

\* FindNextPic passes no picture over and takes none twice.
LEMMA NextFollows ==
    ASSUME Permuted, NEW l, EncOk(l), NEW n \in Int, Passed(l, n), NEW size \in DOMAIN Gop,
           NEW lastPic \in Int
    PROVE  Follows(l, FindNextPic(l, size, n, lastPic), n, lastPic)
<1>. DEFINE e == FindNextPic(l, size, n, lastPic)
<1>1. EncOk(e)
  BY NextOk
<1>2. IF ~l.idr /\ l.idx + 1 < l.size
      THEN /\ ~e.idr /\ e.size = l.size /\ e.idx = l.idx + 1 /\ e.lastIdr = l.lastIdr
           /\ e.cnt = Base(l) + Gop[l.size][l.idx + 2].poc
      ELSE /\ e.idx = 0 /\ (e.cnt <= lastPic \/ e.cnt = GroupEnd(l) + 1)
           /\ IF e.idr THEN e.cnt = GroupEnd(l) + 1 /\ e.cnt = n /\ e.lastIdr = e.cnt
              ELSE /\ e.cnt = GroupEnd(l) + e.size /\ (n < 0 \/ n > e.cnt)
                   /\ e.lastIdr = l.lastIdr
  BY NextPlace
<1>. HIDE DEF e
<1>3. /\ l.cnt \in Int /\ l.lastIdr \in Int /\ l.idr \in BOOLEAN
      /\ l.size \in DOMAIN Gop /\ l.size \in Nat \ {0} /\ l.idx \in Nat /\ l.idx < l.size
      /\ Base(l) \in Int /\ GroupEnd(l) \in Int /\ Base(l) <= GroupEnd(l)
      /\ \A k \in 1 .. l.size : Gop[l.size][k].poc \in 1 .. l.size
  BY PlaceOk
<1>4. /\ e.cnt \in Int /\ e.lastIdr \in Int /\ e.idr \in BOOLEAN
      /\ e.size \in DOMAIN Gop /\ e.size \in Nat \ {0}
  BY <1>1, PlaceOk
<1>5. Past(l) /\ (n < 0 \/ n > GroupEnd(l))
  BY DEF Passed
<1>6. 0 <= l.lastIdr /\ l.lastIdr <= Base(l)
  BY <1>5 DEF Past
<1>7. CASE ~l.idr /\ l.idx + 1 < l.size
  <2>. DEFINE b == Base(l)
              place(k) == Gop[l.size][k].poc
  <2>1. /\ ~e.idr /\ e.size = l.size /\ e.idx = l.idx + 1 /\ e.lastIdr = l.lastIdr
        /\ e.cnt = b + place(l.idx + 2)
    BY <1>2, <1>7
  <2>2. l.idx + 2 \in 1 .. l.size /\ e.idx + 1 = l.idx + 2
        /\ 1 .. l.idx + 2 = 1 .. (l.idx + 1) \cup {l.idx + 2} /\ 1 .. l.idx + 1 \subseteq 1 .. l.size
    BY <2>1, <1>3, <1>7
  <2>3. /\ \A k \in 1 .. l.size : place(k) \in 1 .. l.size
        /\ \A i, k \in 1 .. l.size : place(i) = place(k) => i = k
    BY <1>3 DEF Permuted
  <2>4. Base(e) = b /\ GroupEnd(e) = GroupEnd(l) /\ GroupEnd(e) = b + l.size
    <3>1. Place(e) = place(l.idx + 2)
      BY <2>1, <2>2 DEF Place
    <3>2. place(l.idx + 2) \in Int
      BY <2>2, <2>3
    <3>3. b \in Int
      BY <1>3
    <3>4. Base(e) = e.cnt - Place(e) /\ GroupEnd(e) = Base(e) + l.size
      BY <2>1 DEF Base, GroupEnd
    <3>5. GroupEnd(l) = b + l.size
      BY <1>7 DEF GroupEnd
    <3>. HIDE DEF b, place
    <3>. QED  BY <3>1, <3>2, <3>3, <3>4, <3>5, <2>1
  <2>5. Coded(l) = (0 .. b) \cup {b + place(k) : k \in 1 .. l.idx + 1}
    BY <1>7 DEF Coded
  <2>6. Coded(e) = (0 .. b) \cup {b + place(k) : k \in 1 .. l.idx + 2}
    BY <2>1, <2>2, <2>4 DEF Coded
  <2>7. b \in Int
    BY <1>3
  <2>. HIDE DEF b, place
  <2>8. Coded(e) = Coded(l) \cup {e.cnt}
    BY <2>1, <2>2, <2>5, <2>6
  <2>9. e.cnt \notin Coded(l)
    <3>1. e.cnt \notin 0 .. b
      <4>1. place(l.idx + 2) \in 1 .. l.size
        BY <2>2, <2>3
      <4>. QED  BY <4>1, <2>1, <2>7
    <3>2. ASSUME NEW k \in 1 .. l.idx + 1, e.cnt = b + place(k) PROVE FALSE
      <4>1. k \in 1 .. l.size /\ k # l.idx + 2
        BY <1>3, <2>2
      <4>2. place(k) \in 1 .. l.size /\ place(l.idx + 2) \in 1 .. l.size
        BY <4>1, <2>2, <2>3
      <4>3. place(k) = place(l.idx + 2)
        BY <4>2, <3>2, <2>1, <2>7, <1>3
      <4>. QED  BY <4>1, <4>3, <2>2, <2>3
    <3>. QED  BY <3>1, <3>2, <2>5
  <2>10. e.cnt <= GroupEnd(l)
    <3>1. place(l.idx + 2) \in 1 .. l.size
      BY <2>2, <2>3
    <3>. QED  BY <3>1, <2>1, <2>4, <2>7, <1>3
  <2>11. Due(e, n)
    BY <2>1, <2>4, <1>5, <1>6 DEF Due, Past, b
  <2>. QED  BY <2>1, <2>4, <2>8, <2>9, <2>10, <2>11, <1>1 DEF Follows, InGroup, e
<1>8. CASE ~(~l.idr /\ l.idx + 1 < l.size)
  <2>. DEFINE b == GroupEnd(l)
  <2>1. Coded(l) = 0 .. b
    <3>1. l.idr \/ l.idx + 1 = l.size
      BY <1>3, <1>8
    <3>. QED  BY <3>1, <1>5, CodedOk
  <2>2. /\ e.idx = 0 /\ (e.cnt <= lastPic \/ e.cnt = b + 1)
        /\ IF e.idr THEN e.cnt = b + 1 /\ e.cnt = n /\ e.lastIdr = e.cnt
           ELSE e.cnt = b + e.size /\ (n < 0 \/ n > e.cnt) /\ e.lastIdr = l.lastIdr
    BY <1>2, <1>8
  <2>3. b \in Nat /\ Base(l) <= b
    BY <1>3, <1>6
  <2>. HIDE DEF b
  <2>4. CASE e.idr
    <3>1. Base(e) = e.cnt /\ GroupEnd(e) = e.cnt /\ Coded(e) = 0 .. e.cnt
      BY <2>4 DEF Base, GroupEnd, Coded
    <3>2. Coded(e) = Coded(l) \cup {e.cnt} /\ e.cnt \notin Coded(l)
      BY <3>1, <2>1, <2>2, <2>3, <2>4
    <3>3. Due(e, n)
      BY <3>1, <2>2, <2>3, <2>4 DEF Due, Past
    <3>. QED  BY <3>1, <3>2, <3>3, <2>1, <2>2, <1>1 DEF Follows, NewGroup, e, b
  <2>5. CASE ~e.idr
    <3>1. Place(e) = e.size
      BY <1>4, <2>2 DEF Place, Permuted
    <3>2. Base(e) = b /\ GroupEnd(e) = e.cnt
      BY <3>1, <2>2, <2>3, <2>5, <1>4 DEF Base, GroupEnd
    <3>3. Coded(e) = (0 .. b) \cup {e.cnt}
      <4>1. Gop[e.size][1].poc = e.size
        BY <1>4 DEF Permuted
      <4>2. 1 .. e.idx + 1 = {1}
        BY <2>2
      <4>3. {b + Gop[e.size][k].poc : k \in {1}} = {b + e.size}
        BY <4>1
      <4>. QED  BY <4>2, <4>3, <3>2, <2>2, <2>5 DEF Coded
    <3>4. e.cnt \notin Coded(l)
      BY <2>1, <2>2, <2>3, <2>5, <1>4
    <3>5. Due(e, n)
      BY <3>2, <2>2, <2>3, <2>5, <1>3, <1>6 DEF Due, Past
    <3>. QED  BY <3>2, <3>3, <3>4, <3>5, <2>1, <2>2, <1>1 DEF Follows, NewGroup, e, b
  <2>. QED  BY <2>4, <2>5, <1>4
<1>. QED  BY <1>7, <1>8

\* The queue has the pictures submitted that are not coded, and the next IDR is no later than the
\* first one forced.
Queued(o, coded) ==
    /\ coded \subseteq 0 .. o.submitted - 1
    /\ Waiting(o) = (0 .. o.submitted - 1) \ coded
    /\ \A j, k \in o.jobs : j.cnt = k.cnt => j = k
    /\ \A j \in o.jobs : j.idr => 0 <= o.nextIdr /\ o.nextIdr <= j.cnt
\* The picture that comes next is the next in turn, after the last one.
InTurn(o) == Queued(o, Coded(o.enc) \ {o.enc.cnt}) /\ Due(o.enc, o.nextIdr)
Linked(o) ==
    /\ EncOk(o.last) /\ Passed(o.last, o.nextIdr)
    /\ Follows(o.last, o.enc, o.nextIdr, o.lastPic)
    /\ o.flushing => o.lastPic < o.submitted
First(o) == o.submitted = 0 /\ o.enc.cnt = 0 /\ o.nextIdr = 0 /\ ~o.flushing
Turn(o) == OrderOk(o) /\ InTurn(o) /\ (Linked(o) \/ First(o))
MidTurn(o) == MidOk(o) /\ InTurn(o) /\ (Linked(o) \/ (HasJob(o) /\ ~o.flushing))

\* The first picture starts the order.
LEMMA InitTurn ==
    ASSUME Init
    PROVE  Turn(order)
<1>1. OrderOk(order)
  BY InitOk DEF IInv
<1>2. PICK size : order = [enc |-> FirstPicture(size), last |-> NoPicture, size |-> size,
                           nextIdr |-> 0, jobs |-> {}, submitted |-> 0,
                           lastPic |-> setup.lastPic, flushing |-> FALSE, astray |-> FALSE]
  BY DEF Init, OrderInit
<1>3. /\ order.enc.cnt = 0 /\ order.enc.idr /\ order.enc.lastIdr = 0
      /\ order.nextIdr = 0 /\ order.jobs = {} /\ order.submitted = 0 /\ ~order.flushing
  BY <1>2 DEF FirstPicture
<1>4. Coded(order.enc) = {0} /\ Base(order.enc) = 0
  BY <1>3 DEF Coded, Base
<1>5. Queued(order, {})
  BY <1>3 DEF Queued, Waiting
<1>6. Due(order.enc, order.nextIdr)
  BY <1>3, <1>4 DEF Due, Past
<1>. QED  BY <1>1, <1>3, <1>4, <1>5, <1>6 DEF Turn, First, InTurn

\* A picture that is found again from the last one is in turn as well.
LEMMA RefoundTurn ==
    ASSUME Permuted, NEW o, o \in Order, EncOk(o.last), Passed(o.last, o.nextIdr),
           Queued(o, Coded(o.last)), o.flushing => o.lastPic < o.submitted,
           NEW r, r = [o EXCEPT !.enc = FindNext(o, o.last)] \/ r = Refound(o)
    PROVE  InTurn(r) /\ Linked(r)
<1>. DEFINE e == FindNextPic(o.last, o.size, o.nextIdr, o.lastPic)
<1>1. /\ o.size \in DOMAIN Gop /\ o.nextIdr \in Int /\ o.lastPic \in Int
  BY DEF Order
<1>2. Follows(o.last, e, o.nextIdr, o.lastPic)
  BY <1>1, NextFollows
<1>3. /\ r.enc = e /\ r.last = o.last /\ r.nextIdr = o.nextIdr /\ r.jobs = o.jobs
      /\ r.submitted = o.submitted /\ r.lastPic = o.lastPic /\ r.flushing = o.flushing
  <2>1. CASE r = Refound(o)
    BY <2>1, RefoundIs DEF FindNext
  <2>2. CASE r = [o EXCEPT !.enc = FindNext(o, o.last)]
    BY <2>2 DEF Order, FindNext
  <2>. QED  BY <2>1, <2>2
<1>. HIDE DEF e
<1>4. Coded(e) \ {e.cnt} = Coded(o.last) /\ Due(e, o.nextIdr)
  BY <1>2 DEF Follows
<1>5. Queued(r, Coded(o.last))
  BY <1>3 DEF Queued, Waiting
<1>. QED  BY <1>2, <1>3, <1>4, <1>5 DEF InTurn, Linked

\* What is coded before the picture that comes next is what was with the last one.
LEMMA CodedBefore ==
    ASSUME NEW o, Linked(o)
    PROVE  Coded(o.enc) \ {o.enc.cnt} = Coded(o.last)
BY DEF Linked, Follows

\* A picture given keeps the order.
LEMMA GivenTurn ==
    ASSUME Permuted, NEW o, Turn(o), ~o.flushing, NEW idr \in BOOLEAN
    PROVE  MidTurn(Given(o, idr))
<1>. DEFINE s == o.submitted
            n == IF idr /\ (o.nextIdr > s \/ o.nextIdr < 0) THEN s ELSE o.nextIdr
            job == [cnt |-> s, idr |-> idr]
            q == Enqueued(o, idr)
            coded == Coded(o.enc) \ {o.enc.cnt}
<1>1. /\ OrderOk(o) /\ InTurn(o) /\ (Linked(o) \/ s = 0) /\ MidOk(Given(o, idr))
      /\ s \in Nat /\ o.nextIdr \in Int /\ o \in Order /\ EncOk(o.enc)
      /\ o.jobs \in SUBSET [cnt : Nat, idr : BOOLEAN]
  BY GivenOk DEF Turn, First, OrderOk, Order
<1>2. /\ q.jobs = o.jobs \cup {job} /\ q.submitted = s + 1 /\ q.nextIdr = n
      /\ q.enc = o.enc /\ q.last = o.last /\ q.lastPic = o.lastPic /\ q.flushing = FALSE
      /\ q \in Order
  <2>1. q = [o EXCEPT !.jobs = o.jobs \cup {job}, !.submitted = s + 1, !.nextIdr = n]
    BY <1>1 DEF Enqueued, Order
  <2>2. n \in Int /\ s + 1 \in Nat /\ o.jobs \cup {job} \in SUBSET [cnt : Nat, idr : BOOLEAN]
    BY <1>1
  <2>. HIDE DEF q, n, job, s
  <2>. QED  BY <2>1, <2>2, <1>1 DEF Order
<1>3. n \in Int /\ (n = o.nextIdr \/ (n = s /\ (o.nextIdr > s \/ o.nextIdr < 0)))
      /\ (idr => 0 <= n /\ n <= s) /\ (0 <= o.nextIdr => 0 <= n /\ n <= o.nextIdr)
  BY <1>1
<1>4. Given(o, idr) = IF n > 0 /\ n <= o.enc.cnt THEN Refound(q)
                      ELSE q
  BY <1>2 DEF Given, RefoundAtIdr
<1>. HIDE DEF q, n
<1>5. Queued(q, coded)
  <2>1. Queued(o, coded)
    BY <1>1 DEF InTurn
  <2>. HIDE DEF coded
  <2>2. coded \subseteq 0 .. s /\ s \notin coded
    <3>1. \A x \in coded : x \in 0 .. s - 1
      BY <2>1 DEF Queued
    <3>2. s \in Nat
      BY <1>1
    <3>. HIDE DEF s
    <3>3. \A x \in coded : x \in 0 .. s /\ x # s
      BY <3>1, <3>2
    <3>. QED  BY <3>3
  <2>3. Waiting(q) = Waiting(o) \cup {s}
    <3>1. q.jobs = o.jobs \cup {job} /\ job.cnt = s
      BY <1>2
    <3>. HIDE DEF job, s
    <3>. QED  BY <3>1 DEF Waiting
  <2>4. Waiting(q) = (0 .. s) \ coded
    BY <2>1, <2>2, <2>3, <1>1 DEF Queued
  <2>5. s \notin Waiting(o)
    BY <2>1, <1>1 DEF Queued
  <2>6. \A j \in o.jobs : j.cnt # s
    BY <2>5 DEF Waiting
  <2>7. \A j, k \in q.jobs : j.cnt = k.cnt => j = k
    BY <2>1, <2>6, <1>2 DEF Queued
  <2>8. ASSUME NEW j \in q.jobs, j.idr PROVE 0 <= n /\ n <= j.cnt
    <3>1. CASE j = job
      BY <3>1, <2>8, <1>3
    <3>2. CASE j \in o.jobs
      <4>1. 0 <= o.nextIdr /\ o.nextIdr <= j.cnt /\ j.cnt \in Nat
        BY <3>2, <2>1, <2>8, <1>1 DEF Queued
      <4>. QED  BY <4>1, <1>1, <1>3
    <3>. QED  BY <3>1, <3>2, <2>8, <1>2
  <2>9. q.submitted - 1 = s
    BY <1>1, <1>2
  <2>. QED  BY <2>2, <2>4, <2>7, <2>8, <2>9, <1>2 DEF Queued
<1>6. CASE Linked(o)
  <2>1. coded = Coded(o.last)
    BY <1>6, CodedBefore
  <2>2. EncOk(o.last) /\ Passed(o.last, o.nextIdr) /\ Follows(o.last, o.enc, o.nextIdr, o.lastPic)
    BY <1>6 DEF Linked
  <2>3. Past(o.last) /\ GroupEnd(o.last) \in Coded(o.last) /\ GroupEnd(o.last) \in Int
    BY <2>2, CodedOk, PlaceOk DEF Passed
  <2>4. GroupEnd(o.last) < s
    BY <2>1, <2>3, <1>1 DEF InTurn, Queued
  <2>5. Passed(o.last, n)
    BY <2>2, <2>3, <2>4, <1>1, <1>3 DEF Passed
  <2>6. CASE n > 0 /\ n <= o.enc.cnt
    <3>. DEFINE r == Refound(q)
    <3>1. InTurn(r) /\ Linked(r)
      BY <2>1, <2>2, <2>5, <1>2, <1>5, RefoundTurn
    <3>. QED  BY <3>1, <2>6, <1>1, <1>4 DEF MidTurn
  <2>7. CASE ~(n > 0 /\ n <= o.enc.cnt)
    <3>. DEFINE e == o.enc
    <3>1. Due(e, o.nextIdr) /\ (InGroup(o.last, e) \/ NewGroup(o.last, e, o.lastPic))
      BY <2>2 DEF Follows
    <3>2. e.cnt \in Int /\ GroupEnd(e) \in Int /\ e.idr \in BOOLEAN /\ Past(e)
      BY <3>1, <1>1, PlaceOk DEF Due
    <3>3. GroupEnd(e) < s \/ GroupEnd(e) = e.cnt
      BY <3>1, <2>4 DEF InGroup, NewGroup
    <3>4. e.cnt \in Nat /\ GroupEnd(o.last) \in Nat
      <4>1. e.cnt \in Nat
        BY <3>2, <1>1, CodedOk
      <4>2. GroupEnd(o.last) \in 0 .. s - 1
        BY <2>1, <2>3, <1>1 DEF InTurn, Queued
      <4>. QED  BY <4>1, <4>2
    <3>5. Due(e, n)
      <4>1. CASE n = o.nextIdr
        BY <4>1, <3>1
      <4>2. CASE n # o.nextIdr
        <5>1. n = s /\ n > e.cnt /\ (o.nextIdr > s \/ o.nextIdr < 0)
          BY <4>2, <3>2, <3>4, <2>4, <2>7, <1>1, <1>3
        <5>2. ~e.idr
          BY <5>1, <3>1, <3>2, <3>4, <1>1 DEF Due
        <5>3. n > GroupEnd(e)
          BY <5>1, <3>3, <3>2
        <5>. QED  BY <5>2, <5>3, <3>2 DEF Due
      <4>. QED  BY <4>1, <4>2
    <3>6. Follows(o.last, e, n, o.lastPic)
      BY <3>5, <2>2 DEF Follows
    <3>7. Given(o, idr) = q
      BY <2>7, <1>4
    <3>8. InTurn(q) /\ Linked(q)
      BY <3>5, <3>6, <2>2, <2>5, <1>2, <1>5 DEF InTurn, Linked
    <3>. QED  BY <3>7, <3>8, <1>1 DEF MidTurn
  <2>. QED  BY <2>6, <2>7
<1>7. CASE ~Linked(o)
  <2>1. s = 0 /\ o.enc.cnt = 0 /\ o.nextIdr = 0
    BY <1>7 DEF Turn, First
  <2>2. n = 0
    BY <2>1, <1>3
  <2>3. Given(o, idr) = q
    BY <2>2, <1>4
  <2>4. InTurn(q)
    BY <2>1, <2>2, <1>1, <1>2, <1>5 DEF InTurn
  <2>5. job \in q.jobs /\ job.cnt = q.enc.cnt
    BY <2>1, <1>2
  <2>6. HasJob(q)
    BY <2>5 DEF HasJob, Waiting
  <2>. QED  BY <2>3, <2>4, <2>6, <1>1, <1>2 DEF MidTurn
<1>. QED  BY <1>6, <1>7

\* So does a flush.
LEMMA FlushedTurn ==
    ASSUME Permuted, NEW o, Turn(o), o.submitted > 0
    PROVE  MidTurn(Flushed(o))
<1>. DEFINE q == [o EXCEPT !.flushing = TRUE]
            ended == [q EXCEPT !.lastPic = q.submitted - 1]
            e == o.enc
<1>1. /\ MidOk(Flushed(o)) /\ o \in Order /\ InTurn(o) /\ Linked(o) /\ EncOk(e)
      /\ o.submitted \in Nat /\ o.lastPic \in Int
  BY FlushedOk DEF Turn, First, OrderOk, Order
<1>2. /\ q.enc = e /\ q.last = o.last /\ q.lastPic = o.lastPic /\ q.submitted = o.submitted
      /\ q.jobs = o.jobs /\ q.nextIdr = o.nextIdr /\ q \in Order
  BY <1>1 DEF Order
<1>3. /\ Flushed(o) = IF o.lastPic + 1 <= o.submitted THEN q
                      ELSE Refound(ended)
      /\ ended.last = o.last /\ ended.lastPic = o.submitted - 1 /\ ended.submitted = o.submitted
      /\ ended.jobs = o.jobs /\ ended.nextIdr = o.nextIdr /\ ended \in Order
  <2>1. /\ ended.last = o.last /\ ended.lastPic = o.submitted - 1
        /\ ended.submitted = o.submitted /\ ended.jobs = o.jobs /\ ended.nextIdr = o.nextIdr
        /\ ended \in Order
    <3>1. q.submitted - 1 \in Int
      BY <1>1, <1>2
    <3>. HIDE DEF q
    <3>. QED  BY <3>1, <1>2 DEF Order
  <2>. QED  BY <2>1, <1>2 DEF Flushed, RefoundAtEnd
<1>4. /\ EncOk(o.last) /\ Passed(o.last, o.nextIdr)
      /\ Follows(o.last, e, o.nextIdr, o.lastPic)
      /\ Queued(o, Coded(o.last))
  BY <1>1, CodedBefore DEF Linked, InTurn
<1>5. CASE o.lastPic + 1 <= o.submitted
  <2>1. InTurn(q)
    BY <1>1, <1>2 DEF InTurn, Queued, Waiting
  <2>2. q.lastPic < q.submitted
    BY <1>1, <1>2, <1>5
  <2>3. Linked(q)
    BY <2>2, <1>2, <1>4 DEF Linked
  <2>. QED  BY <2>1, <2>3, <1>1, <1>3, <1>5 DEF MidTurn
<1>6. CASE ~(o.lastPic + 1 <= o.submitted)
  <2>1. Queued(ended, Coded(ended.last))
    BY <1>3, <1>4 DEF Queued, Waiting
  <2>2. ended.lastPic < ended.submitted
    BY <1>1, <1>3
  <2>. DEFINE r == Refound(ended)
  <2>. HIDE DEF ended
  <2>3. InTurn(r) /\ Linked(r)
    BY <2>1, <2>2, <1>3, <1>4, RefoundTurn
  <2>. QED  BY <2>3, <1>1, <1>3, <1>6 DEF MidTurn
<1>. QED  BY <1>5, <1>6

\* A picture that comes next is coded as an IDR exactly when one is due.
LEMMA IdrIsDue ==
    ASSUME NEW o, MidTurn(o), HasJob(o)
    PROVE  /\ NextJob(o) \in o.jobs /\ NextJob(o).cnt = o.enc.cnt
           /\ IsIdr(o) <=> o.enc.idr
<1>1. o.enc.cnt \in Waiting(o) /\ Due(o.enc, o.nextIdr) /\ EncOk(o.enc) /\ o \in Order
      /\ \A j \in o.jobs : j.idr => 0 <= o.nextIdr /\ o.nextIdr <= j.cnt
  BY DEF MidTurn, MidOk, InTurn, Queued, HasJob
<1>2. NextJob(o) \in o.jobs /\ NextJob(o).cnt = o.enc.cnt
  BY <1>1 DEF NextJob, Waiting
<1>3. /\ o.enc.cnt \in Int /\ GroupEnd(o.enc) \in Int /\ o.enc.cnt <= GroupEnd(o.enc)
      /\ o.nextIdr \in Int /\ o.enc.idr \in BOOLEAN
  BY <1>1, PlaceOk DEF Order
<1>4. NextJob(o).idr => o.enc.idr
  BY <1>1, <1>2, <1>3 DEF Due
<1>5. NextJob(o).idr \in BOOLEAN
  BY <1>1, <1>2 DEF Order
<1>. QED  BY <1>2, <1>3, <1>4, <1>5 DEF IsIdr

\* Taking the job of the picture leaves the others, and the next IDR is behind it.
LEMMA TakenTurn ==
    ASSUME Permuted, setup \in Setups, NEW o, MidTurn(o), HasJob(o)
    PROVE  LET t == Taken(o) IN
           /\ t \in Order /\ t.enc = o.enc /\ Passed(o.enc, t.nextIdr)
           /\ Queued(t, Coded(o.enc)) /\ t.submitted = o.submitted
           /\ t.lastPic = o.lastPic /\ t.flushing = o.flushing
<1>. DEFINE e == o.enc
            rest == o.jobs \ {NextJob(o)}
            forced == {j.cnt : j \in {k \in rest : k.idr}}
            usual == IF setup.idrInterval > 0 THEN o.nextIdr + setup.idrInterval ELSE -1
            next == IF forced = {} THEN -1 ELSE Min(forced)
            found == IF next > o.nextIdr /\ (usual < 0 \/ next < usual) THEN next ELSE usual
            n == IF IsIdr(o) /\ o.nextIdr <= e.cnt THEN found ELSE o.nextIdr
            t == Taken(o)
<1>1. /\ t \in Order /\ t.enc = e /\ o \in Order /\ EncOk(e)
      /\ o.nextIdr \in Int /\ o.submitted \in Nat
      /\ o.jobs \in SUBSET [cnt : Nat, idr : BOOLEAN]
  BY TakenOk DEF MidTurn, MidOk, Order
<1>2. /\ Queued(o, Coded(e) \ {e.cnt}) /\ Due(e, o.nextIdr)
  BY DEF MidTurn, InTurn
<1>3. /\ NextJob(o) \in o.jobs /\ NextJob(o).cnt = e.cnt
      /\ IsIdr(o) <=> e.idr
  BY IdrIsDue
<1>4. t = [o EXCEPT !.jobs = rest, !.nextIdr = n]
  BY DEF Taken
<1>5. /\ t.jobs = rest /\ t.nextIdr = n /\ t.submitted = o.submitted /\ t.last = o.last
      /\ t.lastPic = o.lastPic /\ t.flushing = o.flushing
  <2>. HIDE DEF rest, n, t
  <2>. QED  BY <1>1, <1>4 DEF Order
<1>6. /\ e.cnt \in Int /\ GroupEnd(e) \in Int /\ e.idr \in BOOLEAN /\ e.cnt \in Coded(e)
      /\ e.cnt \in Nat
  BY <1>1, <1>2, PlaceOk, CodedOk DEF Due
<1>7. \A j \in rest : j \in o.jobs /\ j.cnt \in Nat /\ j.cnt # e.cnt
  BY <1>1, <1>2, <1>3 DEF Queued
<1>. HIDE DEF rest, t
<1>8. /\ forced \subseteq Nat
      /\ \A j \in rest : j.idr => j.cnt \in forced
      /\ \A c \in forced : 0 <= o.nextIdr /\ o.nextIdr <= c /\ c # e.cnt
  BY <1>2, <1>7 DEF Queued
<1>. HIDE DEF forced
<1>9. /\ forced # {} => next \in forced /\ next \in Nat /\ \A c \in forced : next <= c
      /\ forced = {} => next = -1
      /\ next \in Int
  <2>1. ASSUME forced # {}
        PROVE  Min(forced) \in forced /\ \A c \in forced : Min(forced) <= c
    BY <2>1, <1>8, MinNat
  <2>2. forced # {} => next = Min(forced)
    OBVIOUS
  <2>3. forced = {} => next = -1
    OBVIOUS
  <2>. HIDE DEF next
  <2>4. CASE forced = {}
    BY <2>3, <2>4
  <2>5. CASE forced # {}
    <3>1. next \in forced /\ \A c \in forced : next <= c
      BY <2>1, <2>2, <2>5
    <3>2. next \in Nat
      BY <3>1, <1>8
    <3>. QED  BY <3>1, <3>2, <2>5
  <2>. QED  BY <2>4, <2>5
<1>10. usual \in Int /\ (usual = -1 \/ usual > o.nextIdr)
  BY <1>1, SetupsAssumption
<1>. HIDE DEF next, usual
<1>11. Passed(e, n) /\ \A c \in forced : 0 <= n /\ n <= c
  <2>1. CASE ~e.idr
    <3>1. n = o.nextIdr
      BY <2>1, <1>3
    <3>. HIDE DEF n
    <3>. QED  BY <2>1, <3>1, <1>2, <1>8 DEF Due, Passed
  <2>2. CASE e.idr
    <3>1. o.nextIdr = e.cnt /\ GroupEnd(e) = e.cnt /\ Past(e)
      BY <2>2, <1>2 DEF Due, GroupEnd
    <3>2. n = found
      BY <2>2, <3>1, <1>3, <1>6
    <3>3. found \in Int /\ (found = -1 \/ found > e.cnt)
      BY <3>1, <1>9, <1>10, <1>1
    <3>4. ASSUME NEW c \in forced PROVE 0 <= found /\ found <= c
      <4>1. next > e.cnt /\ next <= c
        BY <3>1, <1>6, <1>8, <1>9
      <4>2. c \in Nat
        BY <1>8
      <4>. QED  BY <4>1, <4>2, <3>1, <1>6, <1>9, <1>10
    <3>. HIDE DEF n, found
    <3>5. n < 0 \/ n > GroupEnd(e)
      BY <3>1, <3>2, <3>3
    <3>. QED  BY <3>1, <3>2, <3>4, <3>5 DEF Passed
  <2>. QED  BY <2>1, <2>2, <1>6
<1>. HIDE DEF n
<1>12. Queued(t, Coded(e))
  <2>1. Coded(e) \subseteq 0 .. o.submitted - 1
    <3>1. e.cnt \in 0 .. o.submitted - 1
      <4>1. e.cnt \in Waiting(o)
        BY DEF HasJob
      <4>. QED  BY <4>1, <1>2 DEF Queued
    <3>. QED  BY <3>1, <1>2 DEF Queued
  <2>2. Waiting(t) = Waiting(o) \ {e.cnt}
    <3>1. \A j \in o.jobs : j \in rest \/ j.cnt = e.cnt
      BY <1>3 DEF rest
    <3>. QED  BY <3>1, <1>5, <1>7 DEF Waiting
  <2>3. Waiting(t) = (0 .. o.submitted - 1) \ Coded(e)
    BY <2>2, <1>2, <1>6 DEF Queued
  <2>4. \A j, k \in rest : j.cnt = k.cnt => j = k
    BY <1>2, <1>7 DEF Queued
  <2>5. \A j \in rest : j.idr => 0 <= n /\ n <= j.cnt
    BY <1>8, <1>11
  <2>. QED  BY <2>1, <2>3, <2>4, <2>5, <1>5 DEF Queued
<1>. QED  BY <1>1, <1>11, <1>12, <1>5 DEF t

\* The picture is coded and the encoder goes on to the one that follows it.
LEMMA AdvancedTurn ==
    ASSUME Permuted, setup \in Setups, NEW o, MidTurn(o), HasJob(o),
           NEW size \in DOMAIN Gop
    PROVE  Turn(Advanced(Taken(o), size))
<1>. DEFINE t == Taken(o)
            sized == [t EXCEPT !.size = size, !.last = t.enc]
            a == Advanced(t, size)
<1>1. /\ t \in Order /\ t.enc = o.enc /\ EncOk(o.enc) /\ Passed(o.enc, t.nextIdr)
      /\ Queued(t, Coded(o.enc)) /\ (t.flushing => t.lastPic < t.submitted)
  BY TakenTurn DEF MidTurn, MidOk, Linked
<1>. HIDE DEF t
<1>2. OrderOk(a)
  BY <1>1, AdvancedOk
<1>3. /\ sized \in Order /\ sized.last = o.enc /\ sized.nextIdr = t.nextIdr
      /\ sized.jobs = t.jobs /\ sized.submitted = t.submitted
      /\ sized.flushing = t.flushing /\ sized.lastPic = t.lastPic
  <2>1. o.enc \in Enc /\ o.enc.size \in Int
    BY <1>1, PlaceOk DEF EncOk
  <2>. QED  BY <2>1, <1>1 DEF Order, Enc
<1>4. a = [sized EXCEPT !.enc = FindNext(sized, sized.last)]
  BY <1>1, <1>3 DEF Advanced
<1>. HIDE DEF sized, a
<1>5. Queued(sized, Coded(sized.last))
  BY <1>1, <1>3 DEF Queued, Waiting
<1>6. InTurn(a) /\ Linked(a)
  <2>1. EncOk(sized.last) /\ Passed(sized.last, sized.nextIdr)
    BY <1>1, <1>3
  <2>. QED  BY <2>1, <1>1, <1>3, <1>4, <1>5, RefoundTurn
<1>. QED  BY <1>2, <1>6 DEF Turn, a, t

\* With no frame lost, a call leaves the order in turn.
LEMMA EncodeTurn ==
    ASSUME Permuted, setup \in Setups, setup.lost = {}, NEW o, MidTurn(o),
           Encode(o) \/ (~HasJob(o) /\ order' = o)
    PROVE  Turn(order')
<1>1. CASE ~HasJob(o) /\ order' = o
  <2>1. MidOk(o) /\ InTurn(o) /\ Linked(o)
    BY <1>1 DEF MidTurn
  <2>. QED  BY <2>1, <1>1, WaitOk DEF Turn
<1>2. CASE Encode(o)
  <2>1. HasJob(o) /\ ~Skip(o)
    BY <1>2 DEF Encode, Skip, MaySkip, Start, StartAndWait
  <2>2. Streams = {TRUE}
    BY DEF Streams
  <2>3. PICK size \in NextSizes(o) : order' = Advanced(Taken(o), size)
    BY <1>2, <2>1, <2>2 DEF Encode, Start, StartAndWait
  <2>4. size \in DOMAIN Gop
    <3>1. o.size \in DOMAIN Gop
      BY DEF MidTurn, MidOk, Order
    <3>. QED  BY <3>1, SetupsAssumption DEF NextSizes
  <2>. QED  BY <2>1, <2>3, <2>4, AdvancedTurn
<1>. QED  BY <1>1, <1>2

\* Every call keeps the order in turn.
LEMMA NextTurn ==
    ASSUME Permuted, IInv, setup.lost = {} => Turn(order), [Next]_vars
    PROVE  (setup.lost = {} => Turn(order))'
<1>. SUFFICES ASSUME setup'.lost = {} PROVE Turn(order')
  BY DEF Turn, OrderOk, First, InTurn, Linked
<1>1. setup' = setup
  BY DEF Next, VCEncStrmEncode, VCEncFlush, vars
<1>2. Turn(order) /\ setup \in Setups /\ setup.lost = {}
  BY <1>1 DEF IInv
<1>3. CASE VCEncStrmEncode
  <2>1. PICK idr \in BOOLEAN : Encode(Given(order, idr)) \/ Wait(Given(order, idr))
    BY <1>3 DEF VCEncStrmEncode
  <2>2. MidTurn(Given(order, idr))
    BY <1>2, <1>3, GivenTurn DEF VCEncStrmEncode, MayGive
  <2>. QED  BY <2>1, <2>2, <1>2, EncodeTurn DEF Wait
<1>4. CASE VCEncFlush
  <2>1. order.submitted > 0
    BY <1>2, <1>4, FlushFollows DEF VCEncFlush, Turn
  <2>2. MidTurn(Flushed(order))
    BY <1>2, <2>1, FlushedTurn
  <2>3. \/ Encode(Flushed(order))
        \/ ~HasJob(Flushed(order)) /\ order' = Flushed(order)
    BY <1>4 DEF VCEncFlush, MultiCoreFlush, Wait
  <2>. QED  BY <2>2, <2>3, <1>2, EncodeTurn
<1>5. CASE UNCHANGED vars
  BY <1>2, <1>5 DEF vars
<1>. QED  BY <1>3, <1>4, <1>5 DEF Next

\* An order in turn passes nothing over.
LEMMA TurnIsComplete ==
    ASSUME Permuted, Turn(order)
    PROVE  NextIsToCome /\ IdrCutsTheOrder
<1>. DEFINE o == order
            e == o.enc
            s == o.submitted
<1>1. /\ o \in Order /\ EncOk(e) /\ s \in Nat /\ o.lastPic \in Int
      /\ Queued(o, Coded(e) \ {e.cnt}) /\ Due(e, o.nextIdr) /\ (Linked(o) \/ First(o))
      /\ o.jobs \in SUBSET [cnt : Nat, idr : BOOLEAN]
  BY DEF Turn, OrderOk, InTurn, Order
<1>2. e.cnt \in Nat /\ e.idr \in BOOLEAN
  BY <1>1, PlaceOk, CodedOk DEF Due
<1>3. IdrCutsTheOrder
  <2>. SUFFICES ASSUME e.idr, NEW j \in o.jobs PROVE j.cnt >= e.cnt
    BY DEF IdrCutsTheOrder
  <2>1. Coded(e) = 0 .. e.cnt
    BY DEF Coded
  <2>2. j.cnt \in Waiting(o) /\ j.cnt \in Nat
    BY <1>1 DEF Waiting
  <2>3. j.cnt \notin 0 .. e.cnt \/ j.cnt = e.cnt
    BY <2>1, <2>2, <1>1 DEF Queued
  <2>. QED  BY <2>2, <2>3, <1>2
<1>4. NextIsToCome
  <2>. SUFFICES ASSUME ~HasJob(o)
                PROVE  e.cnt >= s /\ (o.flushing => o.jobs = {})
    BY DEF NextIsToCome
  <2>1. e.cnt >= s
    <3>1. e.cnt \notin Waiting(o)
      BY DEF HasJob
    <3>2. e.cnt \notin 0 .. s - 1
      BY <3>1, <1>1 DEF Queued
    <3>. QED  BY <3>2, <1>1, <1>2
  <2>2. ASSUME o.flushing PROVE o.jobs = {}
    <3>. DEFINE l == o.last
                b == GroupEnd(l)
    <3>1. /\ EncOk(l) /\ Past(l) /\ o.lastPic < s /\ Coded(e) \ {e.cnt} = Coded(l)
          /\ InGroup(l, e) \/ NewGroup(l, e, o.lastPic)
      BY <2>2, <1>1, CodedBefore DEF Linked, First, Passed, Follows
    <3>2. b \in Coded(l) /\ b \in Int
      BY <3>1, CodedOk, PlaceOk
    <3>3. b < s
      BY <3>1, <3>2, <1>1 DEF Queued
    <3>4. NewGroup(l, e, o.lastPic)
      BY <3>1, <3>2, <3>3, <2>1, <1>1, <1>2 DEF InGroup
    <3>5. Coded(l) = 0 .. b /\ b = s - 1
      BY <3>1, <3>2, <3>3, <3>4, <2>1, <1>1, <1>2 DEF NewGroup
    <3>6. Waiting(o) = {}
      BY <3>1, <3>5, <1>1 DEF Queued
    <3>. QED  BY <3>6 DEF Waiting
  <2>. QED  BY <2>1, <2>2
<1>. QED  BY <1>3, <1>4

\* So the order is always in turn.
LEMMA AlwaysInTurn ==
    ASSUME Permuted
    PROVE  Spec => [](setup.lost = {} => Turn(order))
<1>. DEFINE TurnInv == setup.lost = {} => Turn(order)
<1>1. Init => TurnInv
  BY InitTurn
<1>2. IInv /\ TurnInv /\ [Next]_vars => TurnInv'
  BY NextTurn
<1>. HIDE DEF TurnInv
<1>3. Spec => []TurnInv
  BY <1>1, <1>2, InitOk, NextStepOk, PTL DEF Spec
<1>. QED  BY <1>3 DEF TurnInv

\* Where the tables of groups name each picture once and no frame is lost, the picture that comes
\* next is in the queue or still to come, and a flush leaves none (FindNextPic,
\* SinglePassEnqueueJob and SinglePassGetNextJob), for every size of the groups, every interval
\* and every place where an IDR is forced.
THEOREM NothingPassedOver ==
    ASSUME Permuted
    PROVE  Spec => [](setup.lost = {} => NextIsToCome)
<1>1. (setup.lost = {} => Turn(order)) => (setup.lost = {} => NextIsToCome)
  BY TurnIsComplete
<1>. QED  BY <1>1, AlwaysInTurn, PTL

\* Then, too, an IDR picture comes after all pictures before it: a group that one falls into ends
\* before it (the cut of FindNextPic).
THEOREM IdrsCutTheOrder ==
    ASSUME Permuted
    PROVE  Spec => [](setup.lost = {} => IdrCutsTheOrder)
<1>1. (setup.lost = {} => Turn(order)) => (setup.lost = {} => IdrCutsTheOrder)
  BY TurnIsComplete
<1>. QED  BY <1>1, AlwaysInTurn, PTL

-----------------------------------------------------------------------------
(* Counting *)

\* A function has no more values than arguments.
LEMMA ValuesCounted ==
    ASSUME NEW S, IsFiniteSet(S), NEW g, DOMAIN g = S, NEW T, T = {g[x] : x \in S}
    PROVE  IsFiniteSet(T) /\ Cardinality(T) <= Cardinality(S)
<1>1. \A x \in S : g[x] \in T
  OBVIOUS
<1>. DEFINE h == [x \in S |-> g[x]]
<1>2. h \in [S -> T]
  BY <1>1
<1>3. \A t \in T : \E x \in S : h[x] = t
  OBVIOUS
<1>4. h \in Surjection(S, T)
  BY <1>2, <1>3 DEF Surjection
<1>. HIDE DEF h
<1>. QED  BY <1>4, FS_Surjection

\* Two sets together have no more members than each has.
LEMMA TwoCounted ==
    ASSUME NEW S, IsFiniteSet(S), NEW T, IsFiniteSet(T)
    PROVE  /\ IsFiniteSet(S \cup T) /\ Cardinality(S \cup T) \in Nat
           /\ Cardinality(S) \in Nat /\ Cardinality(T) \in Nat
           /\ Cardinality(S \cup T) <= Cardinality(S) + Cardinality(T)
           /\ S \cap T = {} => Cardinality(S \cup T) = Cardinality(S) + Cardinality(T)
<1>1. /\ IsFiniteSet(S \cup T)
      /\ Cardinality(S \cup T) = Cardinality(S) + Cardinality(T) - Cardinality(S \cap T)
  BY FS_Union
<1>2. IsFiniteSet(S \cap T)
  <2>1. S \cap T \in SUBSET S
    OBVIOUS
  <2>. QED  BY <2>1, FS_Subset
<1>3. /\ Cardinality(S) \in Nat /\ Cardinality(T) \in Nat /\ Cardinality(S \cap T) \in Nat
      /\ Cardinality(S \cup T) \in Nat
  BY <1>1, <1>2, FS_CardinalityType
<1>4. S \cap T = {} => Cardinality(S \cap T) = 0
  BY FS_EmptySet
<1>. HIDE DEF Cardinality
<1>. QED  BY <1>1, <1>3, <1>4

\* On one side of a POC no more than n candidates have fewer than n that are closer.
LEMMA ClosestCounted ==
    ASSUME NEW poc \in Int, NEW C, IsFiniteSet(C), C \subseteq Int, NEW n \in Nat,
           (\A q \in C : q < poc) \/ (\A q \in C : q > poc), NEW S, S = Closest(poc, C, n)
    PROVE  IsFiniteSet(S) /\ Cardinality(S) <= n
<1>. DEFINE far(q) == Max({q - poc, poc - q})
            nearer(q) == {x \in C : far(x) < far(q)}
            rank == [q \in S |-> Cardinality(nearer(q))]
<1>1. \A q \in C : q \in Int /\ far(q) = IF q < poc THEN poc - q ELSE q - poc
  <2>. TAKE q \in C
  <2>1. q \in Int /\ q - poc \in Int /\ poc - q \in Int
    OBVIOUS
  <2>2. far(q) = IF q - poc >= poc - q THEN q - poc ELSE poc - q
    BY <2>1, MinMaxPair
  <2>. QED  BY <2>1, <2>2
<1>2. S \subseteq C /\ \A q \in S : Cardinality(nearer(q)) < n
  BY DEF Closest
<1>. HIDE DEF far
<1>3. \A q, x \in C : far(q) \in Int /\ (q # x => far(q) < far(x) \/ far(x) < far(q))
  BY <1>1
<1>4. \A q \in C : /\ IsFiniteSet(nearer(q)) /\ Cardinality(nearer(q)) \in Nat
  <2>. TAKE q \in C
  <2>1. nearer(q) \in SUBSET C
    OBVIOUS
  <2>2. IsFiniteSet(nearer(q))
    BY <2>1, FS_Subset
  <2>. QED  BY <2>2, FS_CardinalityType
<1>5. \A q, x \in C : far(q) < far(x) => Cardinality(nearer(q)) < Cardinality(nearer(x))
  <2>. SUFFICES ASSUME NEW q \in C, NEW x \in C, far(q) < far(x)
                PROVE  Cardinality(nearer(q)) < Cardinality(nearer(x))
    OBVIOUS
  <2>1. nearer(q) \in SUBSET nearer(x)
    <3>. SUFFICES ASSUME NEW y \in C, far(y) < far(q) PROVE far(y) < far(x)
      OBVIOUS
    <3>1. far(y) \in Int /\ far(q) \in Int /\ far(x) \in Int
      BY <1>3
    <3>. QED  BY <3>1
  <2>2. q \in nearer(x) /\ q \notin nearer(q)
    BY <1>3
  <2>3. nearer(q) # nearer(x)
    BY <2>2
  <2>. HIDE DEF nearer
  <2>4. Cardinality(nearer(q)) <= Cardinality(nearer(x)) /\ Cardinality(nearer(q)) # Cardinality(nearer(x))
    BY <2>1, <2>3, <1>4, FS_Subset
  <2>. QED  BY <2>4, <1>4
<1>. HIDE DEF nearer
<1>6. \A q \in S : rank[q] \in 0 .. n - 1
  BY <1>2, <1>4
<1>7. \A q, x \in S : q # x => rank[q] # rank[x]
  <2>. SUFFICES ASSUME NEW q \in S, NEW x \in S, q # x PROVE rank[q] # rank[x]
    OBVIOUS
  <2>1. \/ Cardinality(nearer(q)) < Cardinality(nearer(x))
        \/ Cardinality(nearer(x)) < Cardinality(nearer(q))
    BY <1>2, <1>3, <1>5
  <2>2. Cardinality(nearer(q)) \in Nat /\ Cardinality(nearer(x)) \in Nat
    BY <1>2, <1>4
  <2>. QED  BY <2>1, <2>2
<1>8. rank \in Injection(S, 0 .. n - 1)
  BY <1>6, <1>7 DEF Injection, IsInjective
<1>9. IsFiniteSet(0 .. n - 1) /\ Cardinality(0 .. n - 1) = n
  <2>1. 0 \in Int /\ n - 1 \in Int
    OBVIOUS
  <2>2. Cardinality(0 .. n - 1) = IF 0 > n - 1 THEN 0 ELSE n - 1 - 0 + 1
    BY <2>1, FS_Interval
  <2>. QED  BY <2>1, <2>2, FS_Interval
<1>. HIDE DEF rank
<1>. QED  BY <1>8, <1>9, FS_Injection

-----------------------------------------------------------------------------
(* The pictures of the store *)

\* The POCs of the references are finitely many.
LEMMA HeldFinite ==
    ASSUME NEW p, PoolOk(p)
    PROVE  IsFiniteSet(Held(p)) /\ HeldFirst(p) \subseteq Held(p)
<1>1. p.pics \in Seq(Picture)
  BY DEF PoolOk, Pool
<1>2. DOMAIN p.pics = 1 .. Len(p.pics) /\ Len(p.pics) \in Nat
  BY <1>1
<1>3. IsFiniteSet(1 .. Len(p.pics))
  BY <1>2, FS_Interval
<1>4. References(p) \in SUBSET (1 .. Len(p.pics))
  BY <1>2 DEF References
<1>5. IsFiniteSet(References(p))
  BY <1>3, <1>4, FS_Subset
<1>. DEFINE g == [k \in References(p) |-> p.pics[k].poc]
<1>6. DOMAIN g = References(p) /\ Held(p) = {g[k] : k \in References(p)}
  BY DEF Held
<1>. HIDE DEF g
<1>7. IsFiniteSet(Held(p))
  BY <1>5, <1>6, ValuesCounted
<1>. QED  BY <1>7 DEF HeldFirst, Held

\* A frame keeps no more pictures than its place in the group names: each reference that is
\* missing is replaced at most once.
LEMMA RpsCounted ==
    ASSUME NEW p, PoolOk(p), NEW e, EncOk(e), NEW idr \in BOOLEAN, NEW poc \in Nat,
           NEW A, A = Gop[e.size][e.idx + 1].refs, IsFiniteSet(A), NEW R, R = Rps(p, e, idr, poc)
    PROVE  IsFiniteSet(R) /\ Cardinality(R) <= Cardinality(A)
<1>. DEFINE cfg == Gop[e.size][e.idx + 1]
            F == Found(p, cfg, poc)
            missing == UsedOf(cfg.refs \ F)
            N == {r \in missing : r.delta < 0}
            Q == {r \in missing : r.delta > 0}
            D == HeldFirst(p) \ PocsOf(UsedOf(F), poc)
            below == {q \in D : q < poc}
            above == {q \in D : q > poc}
            B == Closest(poc, below, Cardinality(N))
            C == Closest(poc, above, Cardinality(Q))
            V == PocsOf(F, poc)
<1>1. \A r \in cfg.refs : r.delta \in Int \ {0}
  <2>1. e.size \in DOMAIN Gop /\ e.idx \in Nat /\ e.idx < e.size
    BY DEF EncOk, Enc
  <2>2. e.idx + 1 \in 1 .. e.size
    BY <2>1, GopSizes
  <2>. QED  BY <2>1, <2>2, GopAssumption
<1>2. R \subseteq V \cup (B \cup C)
  <2>1. Recovered(p, cfg, poc) = B \cup C
    BY Zenon DEF Recovered
  <2>2. R = IF idr THEN {} ELSE V \cup IF e.idx = 0 THEN Recovered(p, cfg, poc) ELSE {}
    BY Zenon DEF Rps
  <2>. HIDE DEF B, C, V, cfg
  <2>. QED  BY <2>1, <2>2
<1>3. F \subseteq A /\ N \subseteq A /\ Q \subseteq A /\ F \cap N = {} /\ (F \cup N) \cap Q = {}
  <2>1. F \subseteq cfg.refs
    BY DEF Found
  <2>2. missing \subseteq cfg.refs \ F
    BY Zenon DEF UsedOf
  <2>3. \A r \in missing : r.delta \in Int
    BY <2>2, <1>1
  <2>. HIDE DEF F, missing
  <2>4. N \cap Q = {}
    BY <2>3
  <2>5. N \subseteq missing /\ Q \subseteq missing
    OBVIOUS
  <2>. HIDE DEF N, Q
  <2>. QED  BY <2>1, <2>2, <2>4, <2>5
<1>4. D \subseteq Held(p) /\ below \subseteq Held(p) /\ above \subseteq Held(p)
  BY HeldFinite
<1>5. Held(p) \subseteq Int /\ IsFiniteSet(Held(p))
  BY RpsOk, HeldFinite
<1>6. IsFiniteSet(below) /\ IsFiniteSet(above) /\ below \subseteq Int /\ above \subseteq Int
  <2>. HIDE DEF below, above
  <2>. QED  BY <1>4, <1>5, FS_Subset
<1>7. (\A q \in below : q < poc) /\ (\A q \in above : q > poc)
  OBVIOUS
<1>8. V = {[r \in F |-> poc + r.delta][x] : x \in F}
  BY DEF PocsOf
<1>. HIDE DEF cfg, F, N, Q, D, below, above, V
<1>9. IsFiniteSet(F) /\ IsFiniteSet(N) /\ IsFiniteSet(Q)
  BY <1>3, FS_Subset
<1>10. Cardinality(F) \in Nat /\ Cardinality(N) \in Nat /\ Cardinality(Q) \in Nat
  BY <1>9, FS_CardinalityType
<1>11. IsFiniteSet(V) /\ Cardinality(V) <= Cardinality(F)
  <2>. DEFINE g == [r \in F |-> poc + r.delta]
  <2>1. DOMAIN g = F /\ V = {g[x] : x \in F}
    BY <1>8
  <2>. HIDE DEF g
  <2>. QED  BY <2>1, <1>9, ValuesCounted
<1>12. IsFiniteSet(B) /\ Cardinality(B) <= Cardinality(N)
  <2>1. B = Closest(poc, below, Cardinality(N)) /\ poc \in Int
    OBVIOUS
  <2>2. (\A q \in below : q < poc) \/ (\A q \in below : q > poc)
    BY <1>7
  <2>3. IsFiniteSet(below) /\ below \subseteq Int /\ Cardinality(N) \in Nat
    BY <1>6, <1>10
  <2>. HIDE DEF B
  <2>. QED  BY <2>1, <2>2, <2>3, ClosestCounted
<1>13. IsFiniteSet(C) /\ Cardinality(C) <= Cardinality(Q)
  <2>1. C = Closest(poc, above, Cardinality(Q)) /\ poc \in Int
    OBVIOUS
  <2>2. (\A q \in above : q < poc) \/ (\A q \in above : q > poc)
    BY <1>7
  <2>3. IsFiniteSet(above) /\ above \subseteq Int /\ Cardinality(Q) \in Nat
    BY <1>6, <1>10
  <2>. HIDE DEF C
  <2>. QED  BY <2>1, <2>2, <2>3, ClosestCounted
<1>. HIDE DEF B, C
<1>14. /\ IsFiniteSet(B \cup C) /\ Cardinality(B) \in Nat /\ Cardinality(C) \in Nat
       /\ Cardinality(B \cup C) \in Nat /\ Cardinality(B \cup C) <= Cardinality(B) + Cardinality(C)
  BY <1>12, <1>13, TwoCounted
<1>15. /\ IsFiniteSet(V \cup (B \cup C)) /\ Cardinality(V) \in Nat
       /\ Cardinality(V \cup (B \cup C)) \in Nat
       /\ Cardinality(V \cup (B \cup C)) <= Cardinality(V) + Cardinality(B \cup C)
  BY <1>11, <1>14, TwoCounted
<1>16. IsFiniteSet(R) /\ Cardinality(R) <= Cardinality(V \cup (B \cup C)) /\ Cardinality(R) \in Nat
  <2>1. IsFiniteSet(R) /\ Cardinality(R) <= Cardinality(V \cup (B \cup C))
    BY <1>2, <1>15, FS_Subset
  <2>. QED  BY <2>1, FS_CardinalityType
<1>17. /\ IsFiniteSet(F \cup N) /\ Cardinality(F \cup N) \in Nat
       /\ Cardinality(F \cup N) = Cardinality(F) + Cardinality(N)
  BY <1>3, <1>9, TwoCounted
<1>18. /\ IsFiniteSet((F \cup N) \cup Q) /\ Cardinality((F \cup N) \cup Q) \in Nat
       /\ Cardinality((F \cup N) \cup Q) = Cardinality(F \cup N) + Cardinality(Q)
  BY <1>3, <1>9, <1>17, TwoCounted
<1>19. Cardinality((F \cup N) \cup Q) <= Cardinality(A) /\ Cardinality(A) \in Nat
  <2>1. (F \cup N) \cup Q \in SUBSET A
    BY <1>3
  <2>. QED  BY <2>1, FS_Subset, FS_CardinalityType
<1>20. Cardinality(R) <= Cardinality(A)
  <2>. DEFINE r == Cardinality(R)
              v == Cardinality(V)
              b == Cardinality(B)
              c == Cardinality(C)
              bc == Cardinality(B \cup C)
              vbc == Cardinality(V \cup (B \cup C))
              f == Cardinality(F)
              n == Cardinality(N)
              q == Cardinality(Q)
              fn == Cardinality(F \cup N)
              fnq == Cardinality((F \cup N) \cup Q)
              a == Cardinality(A)
  <2>1. /\ r \in Nat /\ v \in Nat /\ b \in Nat /\ c \in Nat /\ bc \in Nat /\ vbc \in Nat
        /\ f \in Nat /\ n \in Nat /\ q \in Nat /\ fn \in Nat /\ fnq \in Nat /\ a \in Nat
    BY <1>10, <1>14, <1>15, <1>16, <1>17, <1>18, <1>19
  <2>2. r <= vbc /\ vbc <= v + bc /\ bc <= b + c
    BY <1>14, <1>15, <1>16
  <2>3. v <= f /\ b <= n /\ c <= q
    BY <1>11, <1>12, <1>13
  <2>4. fn = f + n /\ fnq = fn + q /\ fnq <= a
    BY <1>17, <1>18, <1>19
  <2>. HIDE DEF r, v, b, c, bc, vbc, f, n, q, fn, fnq, a
  <2>5. r <= a
    BY <2>1, <2>2, <2>3, <2>4
  <2>. QED  BY <2>5 DEF r, a
<1>. QED  BY <1>16, <1>20

\* The pictures the frames from the i-th in flight write, and those they read.
WrittenFrom(p, i) == {p.flight[j].pic : j \in i .. Len(p.flight)}
ReadFrom(p, i) == {k \in DOMAIN p.pics :
                     \E j \in i .. Len(p.flight) : k \in Range(p.flight[j].refs)}
\* What was a reference when the i-th frame was started and is needed still.
Needed(p, i) == (References(p) \cup ReadFrom(p, i)) \ WrittenFrom(p, i)
CoveredBy(p, amount) == \A i \in DOMAIN p.flight : Cardinality(Needed(p, i)) <= amount
\* While frames are in flight, the POC of a reference finds a reference.
FindsHeld(p) == p.flight # <<>> => \A q \in Held(p) : GetPicture(p, q) \in References(p)

\* What frames in flight and the later ones need is finite.
LEMMA NeededFinite ==
    ASSUME NEW p, PoolOk(p), NEW i
    PROVE  IsFiniteSet(Needed(p, i)) /\ Needed(p, i) \subseteq DOMAIN p.pics
           /\ IsFiniteSet(DOMAIN p.pics) /\ Cardinality(DOMAIN p.pics) = Len(p.pics)
           /\ Len(p.pics) \in Nat /\ DOMAIN p.pics = 1 .. Len(p.pics)
<1>1. p.pics \in Seq(Picture)
  BY DEF PoolOk, Pool
<1>2. DOMAIN p.pics = 1 .. Len(p.pics) /\ Len(p.pics) \in Nat
  BY <1>1
<1>3. IsFiniteSet(1 .. Len(p.pics)) /\ Cardinality(1 .. Len(p.pics)) = Len(p.pics)
  <2>. DEFINE n == Len(p.pics)
  <2>1. n \in Nat
    BY <1>2
  <2>. HIDE DEF n
  <2>2. Cardinality(1 .. n) = IF 1 > n THEN 0 ELSE n - 1 + 1
    BY <2>1, FS_Interval
  <2>3. IsFiniteSet(1 .. n)
    BY <2>1, FS_Interval
  <2>4. Cardinality(1 .. n) = n
    BY <2>1, <2>2
  <2>. QED  BY <2>3, <2>4 DEF n
<1>4. Needed(p, i) \in SUBSET DOMAIN p.pics
  BY DEF Needed, References, ReadFrom
<1>5. IsFiniteSet(Needed(p, i))
  BY <1>2, <1>3, <1>4, FS_Subset
<1>. QED  BY <1>2, <1>3, <1>4, <1>5

\* Marking makes references of the pictures the frame keeps, and of no others.
LEMMA MarkedReferences ==
    ASSUME NEW p, PoolOk(p), NEW rps, rps \subseteq Held(p), NEW m, m = Marked(p, rps)
    PROVE  /\ References(m) \subseteq {GetPicture(p, q) : q \in rps}
           /\ p.flight # <<>> /\ FindsHeld(p) => References(m) \subseteq References(p)
<1>1. DOMAIN m.pics = DOMAIN p.pics
  BY MarkedOk
<1>2. \A k \in DOMAIN p.pics : m.pics[k].reference => \E q \in rps : k = GetPicture(p, q)
  <2>. TAKE k \in DOMAIN p.pics
  <2>1. p.pics[k] \in Picture /\ p \in Pool
    BY DEF PoolOk, Pool
  <2>2. m.pics[k] = [p.pics[k] EXCEPT !.reference = IsKept(p, rps, k),
                                      !.poc = PocAfter(p.pics[k], IsKept(p, rps, k))]
    BY <2>1 DEF Marked, Pool
  <2>3. m.pics[k].reference = IsKept(p, rps, k)
    BY <2>1, <2>2 DEF Picture
  <2>. QED  BY <2>3 DEF IsKept
<1>3. References(m) \subseteq {GetPicture(p, q) : q \in rps}
  BY <1>1, <1>2 DEF References
<1>. QED  BY <1>3 DEF FindsHeld

\* What a frame keeps is found under as many POCs.
LEMMA KeptCounted ==
    ASSUME NEW p, NEW rps, IsFiniteSet(rps), NEW S, S \subseteq {GetPicture(p, q) : q \in rps}
    PROVE  IsFiniteSet(S) /\ Cardinality(S) <= Cardinality(rps)
<1>. DEFINE g == [q \in rps |-> GetPicture(p, q)]
            T == {g[q] : q \in rps}
<1>1. DOMAIN g = rps /\ S \in SUBSET T
  OBVIOUS
<1>. HIDE DEF g
<1>2. IsFiniteSet(T) /\ Cardinality(T) <= Cardinality(rps)
  BY <1>1, ValuesCounted
<1>. HIDE DEF T
<1>3. IsFiniteSet(S) /\ Cardinality(S) <= Cardinality(T)
  BY <1>1, <1>2, FS_Subset
<1>4. Cardinality(S) \in Nat /\ Cardinality(T) \in Nat /\ Cardinality(rps) \in Nat
  BY <1>2, <1>3, FS_CardinalityType
<1>. QED  BY <1>2, <1>3, <1>4

\* Where a frame finds no free picture, the store has no more than are kept and in flight.
LEMMA AllInUse ==
    ASSUME NEW p, PoolOk(p), NEW rps, rps \subseteq Held(p), IsFiniteSet(rps),
           NEW amount \in Nat, Cardinality(rps) <= amount, CoveredBy(p, amount), FindsHeld(p),
           Unused(Marked(p, rps)) = {}
    PROVE  Len(p.pics) <= amount + Len(p.flight)
<1>. DEFINE m == Marked(p, rps)
            W == WrittenFrom(p, 1)
<1>1. /\ PoolOk(m) /\ m.flight = p.flight /\ DOMAIN m.pics = DOMAIN p.pics
      /\ References(m) \subseteq {GetPicture(p, q) : q \in rps}
      /\ p.flight # <<>> => References(m) \subseteq References(p)
  BY MarkedOk, MarkedReferences
<1>2. Unused(m) = {}
  OBVIOUS
<1>. HIDE DEF m
<1>3. p.flight \in Seq(Frame) /\ Len(p.flight) \in Nat /\ DOMAIN p.flight = 1 .. Len(p.flight)
  BY DEF PoolOk, Pool
<1>4. \A k \in DOMAIN p.pics : k \in References(m) \/ \E i \in 1 .. Len(p.flight) : Holds(p.flight[i], k)
  <2>. SUFFICES ASSUME NEW k \in DOMAIN p.pics, k \notin References(m)
                PROVE  \E i \in 1 .. Len(p.flight) : Holds(p.flight[i], k)
    OBVIOUS
  <2>1. m.pics[k].refCnt # 0
    BY <1>1, <1>2 DEF Unused, References
  <2>2. m.pics[k].refCnt = Cardinality(Holders(p.flight, k))
    BY <1>1 DEF PoolOk, CountsExact
  <2>3. Holders(p.flight, k) # {}
    BY <2>1, <2>2, FS_EmptySet
  <2>. QED  BY <2>3, <1>3 DEF Holders
<1>5. /\ IsFiniteSet(DOMAIN p.pics) /\ Cardinality(DOMAIN p.pics) = Len(p.pics)
      /\ Len(p.pics) \in Nat
  BY NeededFinite
<1>6. CASE p.flight = <<>>
  <2>1. DOMAIN p.pics \subseteq {GetPicture(p, q) : q \in rps}
    BY <1>1, <1>4, <1>6
  <2>2. Cardinality(DOMAIN p.pics) <= Cardinality(rps)
    BY <2>1, KeptCounted
  <2>3. Cardinality(rps) \in Nat
    BY FS_CardinalityType
  <2>. QED  BY <2>2, <2>3, <1>3, <1>5
<1>7. CASE p.flight # <<>>
  <2>1. 1 \in DOMAIN p.flight
    BY <1>3, <1>7
  <2>2. Cardinality(Needed(p, 1)) <= amount
    BY <2>1 DEF CoveredBy
  <2>3. DOMAIN p.pics \subseteq Needed(p, 1) \cup W
    BY <1>1, <1>4, <1>7 DEF Needed, ReadFrom, WrittenFrom, Holds
  <2>4. IsFiniteSet(W) /\ Cardinality(W) <= Len(p.flight)
    <3>. DEFINE n == Len(p.flight)
                g == [j \in 1 .. n |-> p.flight[j].pic]
    <3>1. n \in Nat
      BY <1>3
    <3>2. DOMAIN g = 1 .. n /\ W = {g[j] : j \in 1 .. n}
      BY DEF WrittenFrom
    <3>. HIDE DEF n, g, W
    <3>3. IsFiniteSet(1 .. n) /\ Cardinality(1 .. n) = IF 1 > n THEN 0 ELSE n - 1 + 1
      BY <3>1, FS_Interval
    <3>4. Cardinality(1 .. n) = n
      BY <3>1, <3>3
    <3>5. IsFiniteSet(W) /\ Cardinality(W) <= n
      BY <3>2, <3>3, <3>4, ValuesCounted
    <3>. QED  BY <3>5 DEF n
  <2>. HIDE DEF W
  <2>5. IsFiniteSet(Needed(p, 1))
    BY NeededFinite
  <2>6. /\ IsFiniteSet(Needed(p, 1) \cup W) /\ Cardinality(Needed(p, 1) \cup W) \in Nat
        /\ Cardinality(Needed(p, 1)) \in Nat /\ Cardinality(W) \in Nat
        /\ Cardinality(Needed(p, 1) \cup W) <= Cardinality(Needed(p, 1)) + Cardinality(W)
    BY <2>4, <2>5, TwoCounted
  <2>7. Len(p.pics) <= Cardinality(Needed(p, 1) \cup W)
    BY <2>3, <2>6, <1>5, FS_Subset
  <2>. QED  BY <2>2, <2>4, <2>6, <2>7, <1>3, <1>5
<1>. QED  BY <1>6, <1>7

\* A frame that is started reads what was kept for the frames before it, or what it was given.
LEMMA StartedCovers ==
    ASSUME NEW p, PoolOk(p), NEW f, NEW s, StartedFrom(p, f, s), IsFiniteSet(f.rps),
           NEW amount \in Nat, Cardinality(f.rps) <= amount, CoveredBy(p, amount), FindsHeld(p)
    PROVE  CoveredBy(s, amount)
<1>. DEFINE m == Marked(p, f.rps)
            n == Len(p.flight)
<1>1. /\ PoolOk(s) /\ f \in Frame /\ s.flight = Append(p.flight, f) /\ f.rps \subseteq Held(p)
      /\ \A q \in DOMAIN f.refs : q \in f.rps /\ f.refs[q] = GetPicture(p, q)
      /\ DOMAIN s.pics = DOMAIN p.pics \cup {f.pic}
      /\ \A k \in DOMAIN p.pics \ {f.pic} : s.pics[k].reference = m.pics[k].reference
  BY DEF StartedFrom
<1>2. /\ References(m) \subseteq {GetPicture(p, q) : q \in f.rps}
      /\ p.flight # <<>> => References(m) \subseteq References(p)
      /\ DOMAIN m.pics = DOMAIN p.pics
  BY <1>1, MarkedOk, MarkedReferences
<1>. HIDE DEF m
<1>3. References(s) \subseteq References(m) \cup {f.pic}
  BY <1>1, <1>2 DEF References
<1>4. Range(f.refs) \subseteq {GetPicture(p, q) : q \in f.rps}
  BY <1>1 DEF Range
<1>5. /\ p.flight \in Seq(Frame) /\ n \in Nat /\ DOMAIN p.flight = 1 .. n
      /\ Len(s.flight) = n + 1 /\ DOMAIN s.flight = 1 .. n + 1
      /\ \A i \in 1 .. n : s.flight[i] = p.flight[i]
      /\ s.flight[n + 1] = f
  BY <1>1 DEF PoolOk, Pool
<1>. HIDE DEF n
<1>6. ASSUME NEW i \in 1 .. n PROVE Cardinality(Needed(s, i)) <= amount
  <2>1. p.flight # <<>> /\ References(m) \subseteq References(p)
    BY <1>2, <1>5, <1>6
  <2>2. i .. n + 1 = (i .. n) \cup {n + 1}
    BY <1>5
  <2>3. \A j \in i .. n : s.flight[j] = p.flight[j]
    BY <1>5
  <2>4. WrittenFrom(p, i) \cup {f.pic} \subseteq WrittenFrom(s, i)
    <3>1. \A j \in i .. n : p.flight[j].pic \in WrittenFrom(s, i)
      BY <1>5, <2>2, <2>3 DEF WrittenFrom
    <3>2. s.flight[n + 1].pic \in WrittenFrom(s, i)
      BY <1>5, <2>2 DEF WrittenFrom
    <3>. QED  BY <3>1, <3>2, <1>5 DEF WrittenFrom, n
  <2>5. ReadFrom(s, i) \subseteq ReadFrom(p, i) \cup Range(f.refs) \cup {f.pic}
    <3>. SUFFICES ASSUME NEW k \in DOMAIN s.pics, NEW j \in i .. n + 1, k \in Range(s.flight[j].refs),
                         k # f.pic
                  PROVE  k \in ReadFrom(p, i) \cup Range(f.refs)
      BY <1>5 DEF ReadFrom
    <3>1. k \in DOMAIN p.pics
      BY <1>1
    <3>2. CASE j = n + 1
      BY <3>2, <1>5
    <3>3. CASE j \in i .. n
      BY <3>1, <3>3, <2>3 DEF ReadFrom, n
    <3>. QED  BY <3>2, <3>3, <2>2
  <2>6. Range(f.refs) \subseteq References(p)
    BY <1>1, <1>4, <2>1 DEF FindsHeld
  <2>7. Needed(s, i) \in SUBSET Needed(p, i)
    BY <1>3, <2>1, <2>4, <2>5, <2>6 DEF Needed
  <2>8. IsFiniteSet(Needed(p, i))
    BY NeededFinite
  <2>9. /\ Cardinality(Needed(s, i)) <= Cardinality(Needed(p, i))
        /\ Cardinality(Needed(s, i)) \in Nat /\ Cardinality(Needed(p, i)) \in Nat
    BY <2>7, <2>8, FS_Subset, FS_CardinalityType
  <2>10. Cardinality(Needed(p, i)) <= amount
    BY <1>5, <1>6 DEF CoveredBy
  <2>. QED  BY <2>9, <2>10
<1>7. Cardinality(Needed(s, n + 1)) <= amount
  <2>1. WrittenFrom(s, n + 1) = {f.pic} /\ ReadFrom(s, n + 1) \subseteq Range(f.refs)
    <3>1. (n + 1) .. (n + 1) = {n + 1}
      BY <1>5
    <3>. QED  BY <3>1, <1>5 DEF WrittenFrom, ReadFrom
  <2>2. Needed(s, n + 1) \subseteq {GetPicture(p, q) : q \in f.rps}
    BY <2>1, <1>2, <1>3, <1>4 DEF Needed
  <2>3. /\ Cardinality(Needed(s, n + 1)) <= Cardinality(f.rps) /\ IsFiniteSet(Needed(s, n + 1))
    BY <2>2, KeptCounted
  <2>4. Cardinality(Needed(s, n + 1)) \in Nat /\ Cardinality(f.rps) \in Nat
    BY <2>3, FS_CardinalityType
  <2>. QED  BY <2>3, <2>4
<1>8. \A i \in 1 .. n + 1 : i \in 1 .. n \/ i = n + 1
  BY <1>5
<1>. QED  BY <1>5, <1>6, <1>7, <1>8 DEF CoveredBy

\* The frames that stay in flight need no more.
LEMMA FinishedCovers ==
    ASSUME NEW p, PoolOk(p), p.flight # <<>>, NEW s, FinishedFrom(p, s), NEW amount \in Nat,
           CoveredBy(p, amount)
    PROVE  CoveredBy(s, amount)
<1>. DEFINE n == Len(p.flight)
<1>1. /\ s.flight = Tail(p.flight) /\ DOMAIN s.pics = DOMAIN p.pics
      /\ \A k \in DOMAIN p.pics : s.pics[k].reference = p.pics[k].reference
  BY DEF FinishedFrom
<1>2. /\ p.flight \in Seq(Frame) /\ n \in Nat /\ n > 0 /\ DOMAIN p.flight = 1 .. n
      /\ Len(s.flight) = n - 1 /\ DOMAIN s.flight = 1 .. n - 1
      /\ \A i \in 1 .. n - 1 : s.flight[i] = p.flight[i + 1]
  BY <1>1 DEF PoolOk, Pool
<1>3. References(s) = References(p)
  BY <1>1 DEF References
<1>. SUFFICES ASSUME NEW i \in 1 .. n - 1 PROVE Cardinality(Needed(s, i)) <= amount
  BY <1>2 DEF CoveredBy
<1>4. i + 1 \in 1 .. n /\ Cardinality(Needed(p, i + 1)) <= amount
  <2>1. i + 1 \in 1 .. n
    BY <1>2
  <2>. HIDE DEF n
  <2>. QED  BY <2>1, <1>2 DEF CoveredBy
<1>. HIDE DEF n
<1>5. \A j \in i .. n - 1 : j + 1 \in i + 1 .. n /\ s.flight[j] = p.flight[j + 1]
  <2>. TAKE j \in i .. n - 1
  <2>0. n \in Nat /\ i \in Nat /\ i >= 1
    BY <1>2
  <2>1. j \in Int /\ j \in 1 .. n - 1 /\ j + 1 \in i + 1 .. n
    BY <2>0
  <2>2. s.flight[j] = p.flight[j + 1]
    BY <2>1, <1>2
  <2>. QED  BY <2>1, <2>2
<1>6. \A j \in i + 1 .. n : j - 1 \in i .. n - 1 /\ s.flight[j - 1] = p.flight[j]
  <2>. TAKE j \in i + 1 .. n
  <2>0. n \in Nat /\ i \in Nat /\ i >= 1
    BY <1>2
  <2>1. j \in Int /\ j - 1 \in 1 .. n - 1 /\ j - 1 \in i .. n - 1 /\ (j - 1) + 1 = j
    BY <2>0
  <2>2. s.flight[j - 1] = p.flight[(j - 1) + 1]
    BY <2>1, <1>2
  <2>. QED  BY <2>1, <2>2
<1>7. WrittenFrom(p, i + 1) \subseteq WrittenFrom(s, i)
  <2>. SUFFICES ASSUME NEW j \in i + 1 .. n PROVE p.flight[j].pic \in WrittenFrom(s, i)
    BY DEF WrittenFrom, n
  <2>. QED  BY <1>2, <1>6 DEF WrittenFrom
<1>8. ReadFrom(s, i) \subseteq ReadFrom(p, i + 1)
  <2>. SUFFICES ASSUME NEW k \in DOMAIN p.pics, NEW j \in i .. n - 1, k \in Range(s.flight[j].refs)
                PROVE  k \in ReadFrom(p, i + 1)
    BY <1>1, <1>2 DEF ReadFrom
  <2>. QED  BY <1>5 DEF ReadFrom, n
<1>9. Needed(s, i) \in SUBSET Needed(p, i + 1)
  BY <1>3, <1>7, <1>8 DEF Needed
<1>10. IsFiniteSet(Needed(p, i + 1))
  BY NeededFinite
<1>11. /\ Cardinality(Needed(s, i)) <= Cardinality(Needed(p, i + 1))
       /\ Cardinality(Needed(s, i)) \in Nat /\ Cardinality(Needed(p, i + 1)) \in Nat
  BY <1>9, <1>10, FS_Subset, FS_CardinalityType
<1>. QED  BY <1>4, <1>11

-----------------------------------------------------------------------------
(* The pictures are enough *)

\* The groups an encoder may come to use: those it was given, and shorter ones.
Usable(s) == {n \in DOMAIN Gop : \E z \in s.sizes : n <= z}
\* The application asked for as many reference pictures as any picture of these groups names
\* (test_bench.c:2033-2053).
AmountAssumed ==
    \A s \in Setups : \A n \in Usable(s) : \A i \in 1 .. n :
        IsFiniteSet(Gop[n][i].refs) /\ Cardinality(Gop[n][i].refs) <= s.refFrameAmount

SizesIn(o) == o.enc.size \in Usable(setup) /\ o.size \in Usable(setup) /\ o.last.size \in Usable(setup)

\* FindNextPic makes no group longer.
LEMMA NextSize ==
    ASSUME setup \in Setups, NEW e, EncOk(e), e.size \in Usable(setup), NEW size \in Usable(setup),
           NEW nextIdr \in Int, NEW lastPic \in Int
    PROVE  FindNextPic(e, size, nextIdr, lastPic).size \in Usable(setup)
<1>. DEFINE interval == IF nextIdr >= 0 THEN nextIdr - e.lastIdr ELSE 0
            idx == IF e.idr THEN 0 ELSE (e.idx + 1) % e.size
            place == Gop[e.size][e.idx + 1].poc
            cur == IF e.idr THEN 0 ELSE IF idx = 0 THEN place - e.size ELSE place
            step == Gop[size][1].poc - cur
            end == e.cnt + step
            byIdr == IF interval = 0 THEN 0 ELSE CutByIdr(end, e.lastIdr + interval)
            byTail == Min({size - 1, Max({0, end - lastPic})})
            short == IF idx = 0 /\ step > 1 THEN Max({byIdr, byTail}) ELSE 0
            newSize == IF idx # 0 THEN e.size
                       ELSE IF 0 < short /\ short < size THEN Min({size - short, MaxReducedSize})
                       ELSE size
            cnt == e.cnt + IF short >= size THEN 1 - cur ELSE Gop[newSize][idx + 1].poc - cur
            idr == interval # 0 /\ cnt - e.lastIdr >= interval
            poc == IF idr THEN 0 ELSE e.poc + cnt - e.cnt
            next == FindNextPic(e, size, nextIdr, lastPic)
<1>0. next = [cnt |-> cnt, idr |-> idr, poc |-> poc, size |-> newSize, idx |-> idx,
              lastIdr |-> IF idr THEN cnt ELSE e.lastIdr]
  BY DEF FindNextPic, newSize, short, byIdr, byTail, end, step, cur, place, interval, idx
<1>. HIDE DEF next, cnt, idr, poc
<1>1. /\ e.cnt \in Int /\ e.idr \in BOOLEAN /\ e.size \in DOMAIN Gop
      /\ e.idx \in Nat /\ e.lastIdr \in Int /\ e.idx < e.size /\ size \in DOMAIN Gop
  BY DEF EncOk, Enc, Usable
<1>2. e.size \in Nat \ {0} /\ size \in Nat \ {0}
  BY <1>1, GopSizes
<1>3. place \in 1 .. e.size
  <2>1. e.idx + 1 \in 1 .. e.size
    BY <1>1, <1>2
  <2>. QED  BY <2>1, <1>1, GopSizes
<1>. HIDE DEF place, idx
<1>4. cur \in Int /\ Gop[size][1].poc \in 1 .. size
  <2>1. 1 \in 1 .. size
    BY <1>2
  <2>. QED  BY <2>1, <1>1, <1>2, <1>3, GopSizes
<1>. HIDE DEF cur
<1>5. step \in Int /\ end \in Int /\ interval \in Int
  BY <1>1, <1>4
<1>. HIDE DEF step, interval
<1>6. byIdr \in Int
  BY <1>1, <1>5 DEF CutByIdr
<1>7. byTail \in Int
  <2>. DEFINE d == end - lastPic
  <2>0. size - 1 \in Int
    BY <1>2
  <2>1. d \in Int
    BY <1>5
  <2>. HIDE DEF d
  <2>2. Max({0, d}) = IF 0 >= d THEN 0 ELSE d
    BY <2>1, MinMaxPair
  <2>3. Max({0, d}) \in Int
    BY <2>1, <2>2
  <2>. DEFINE m == Max({0, d})
  <2>4. m \in Int
    BY <2>3
  <2>. HIDE DEF m
  <2>5. Min({size - 1, m}) = IF size - 1 <= m THEN size - 1 ELSE m
    BY <2>0, <2>4, MinMaxPair
  <2>6. Min({size - 1, m}) \in Int
    BY <2>0, <2>4, <2>5
  <2>. QED  BY <2>6 DEF m, d
<1>. HIDE DEF byIdr, byTail, end
<1>8. short \in Int
  <2>1. Max({byIdr, byTail}) = IF byIdr >= byTail THEN byIdr ELSE byTail
    BY <1>6, <1>7, MinMaxPair
  <2>2. Max({byIdr, byTail}) \in Int
    BY <2>1, <1>6, <1>7
  <2>. QED  BY <2>2 DEF short
<1>. HIDE DEF short
<1>9. ASSUME 0 < short, short < size, idx = 0
      PROVE  newSize \in Usable(setup)
  <2>1. size - short \in Int
    BY <1>2, <1>8
  <2>2. Min({size - short, MaxReducedSize}) 
           = IF size - short <= MaxReducedSize THEN size - short ELSE MaxReducedSize
    BY <2>1, ReducedSize, MinMaxPair
  <2>3. newSize \in 1 .. size
    BY <2>1, <2>2, <1>2, <1>8, <1>9, ReducedSize
  <2>4. newSize \in DOMAIN Gop /\ newSize \in Nat
    BY <2>3, <1>1, <1>2, GopSizes
  <2>5. PICK z \in setup.sizes : size <= z
    BY DEF Usable
  <2>6. z \in Nat
    BY <2>5, GopSizes, SetupsAssumption
  <2>7. newSize <= z
    <3>. HIDE DEF newSize
    <3>. QED  BY <2>3, <2>5, <2>6, <1>2
  <2>. HIDE DEF newSize
  <2>. QED  BY <2>4, <2>5, <2>7 DEF Usable
<1>10. ASSUME ~(0 < short /\ short < size /\ idx = 0)
       PROVE  newSize \in Usable(setup)
  <2>1. newSize = e.size \/ newSize = size
    BY <1>2, <1>8, <1>10
  <2>. HIDE DEF newSize
  <2>. QED  BY <2>1
<1>11. newSize \in Usable(setup)
  <2>. HIDE DEF newSize
  <2>. QED  BY <1>9, <1>10
<1>12. next.size = newSize
  <2>. HIDE DEF newSize
  <2>. QED  BY <1>0
<1>. HIDE DEF newSize
<1>13. next.size \in Usable(setup)
  BY <1>11, <1>12
<1>. QED  BY <1>13 DEF next

\* So the groups of every picture are usable ones, all through a call.
LEMMA GivenSizes ==
    ASSUME setup \in Setups, NEW o, OrderOk(o), SizesIn(o), NEW idr \in BOOLEAN
    PROVE  SizesIn(Given(o, idr))
<1>. DEFINE q == Enqueued(o, idr)
            n == IF idr /\ (o.nextIdr > o.submitted \/ o.nextIdr < 0) THEN o.submitted ELSE o.nextIdr
<1>1. /\ o \in Order /\ o.submitted \in Nat /\ o.nextIdr \in Int /\ o.lastPic \in Int
  BY DEF OrderOk, Order
<1>2. /\ q = [o EXCEPT !.jobs = q.jobs, !.submitted = o.submitted + 1, !.nextIdr = n]
      /\ q.enc = o.enc /\ q.last = o.last /\ q.size = o.size /\ q.lastPic = o.lastPic
      /\ q.nextIdr = n
  BY <1>1 DEF Enqueued, Order
<1>3. n \in Int /\ (o.nextIdr = 0 => n = 0)
  BY <1>1
<1>4. q \in Order
  BY <1>1, EnqueuedOk
<1>. HIDE DEF q, n
<1>5. CASE q.nextIdr > 0 /\ q.nextIdr <= q.enc.cnt
  <2>1. EncOk(o.last)
    BY <1>2, <1>3, <1>5 DEF OrderOk
  <2>2. FindNext(q, q.last).size \in Usable(setup)
    <3>1. q.size \in Usable(setup) /\ q.last.size \in Usable(setup) /\ EncOk(q.last)
          /\ q.nextIdr \in Int /\ q.lastPic \in Int
      BY <2>1, <1>1, <1>2, <1>3 DEF SizesIn
    <3>. QED  BY <3>1, NextSize DEF FindNext
  <2>3. Given(o, idr) = Refound(q)
    BY <1>5 DEF Given, RefoundAtIdr, q
  <2>. QED  BY <2>2, <2>3, <1>2, <1>4, RefoundIs DEF SizesIn
<1>6. CASE ~(q.nextIdr > 0 /\ q.nextIdr <= q.enc.cnt)
  <2>1. Given(o, idr) = q
    BY <1>6 DEF Given, RefoundAtIdr, q
  <2>. QED  BY <2>1, <1>2 DEF SizesIn
<1>. QED  BY <1>5, <1>6

\* A flush uses no longer groups.
LEMMA FlushedSizes ==
    ASSUME setup \in Setups, NEW o, OrderOk(o), o.submitted > 0, SizesIn(o)
    PROVE  SizesIn(Flushed(o))
<1>. DEFINE q == [o EXCEPT !.flushing = TRUE]
            ended == [q EXCEPT !.lastPic = q.submitted - 1]
<1>1. /\ o \in Order /\ o.submitted \in Nat /\ o.nextIdr \in Int /\ EncOk(o.last)
  BY DEF OrderOk, Order
<1>2. q \in Order /\ q.enc = o.enc /\ q.last = o.last /\ q.size = o.size
  BY <1>1 DEF Order
<1>3. /\ ended \in Order /\ ended.last = o.last /\ ended.size = o.size
      /\ ended.nextIdr \in Int /\ ended.lastPic \in Int
  <2>1. q.submitted = o.submitted
    BY <1>1 DEF Order
  <2>. HIDE DEF q
  <2>. QED  BY <1>1, <1>2, <2>1 DEF Order
<1>4. Flushed(o) = IF q.lastPic + 1 <= q.submitted THEN q
                   ELSE Refound(ended)
  BY DEF Flushed, RefoundAtEnd
<1>. HIDE DEF q, ended
<1>5. FindNext(ended, q.last).size \in Usable(setup)
  <2>1. /\ ended.size \in Usable(setup) /\ q.last.size \in Usable(setup) /\ EncOk(q.last)
    BY <1>1, <1>2, <1>3 DEF SizesIn
  <2>. QED  BY <2>1, <1>3, NextSize DEF FindNext
<1>. QED  BY <1>2, <1>3, <1>4, <1>5, RefoundIs DEF SizesIn

\* Nor does a coded picture.
LEMMA EncodedSizes ==
    ASSUME setup \in Setups, NEW o, MidOk(o), HasJob(o), SizesIn(o)
    PROVE  /\ \A size \in NextSizes(o) : SizesIn(Advanced(Taken(o), size))
           /\ SizesIn(PutOff(Taken(o)))
<1>. DEFINE t == Taken(o)
<1>1. o \in Order /\ EncOk(o.enc) /\ o.enc \in Enc
  BY DEF MidOk, Order
<1>2. t \in Order /\ t.enc = o.enc
  BY TakenOk
<1>3. t.size = o.size /\ t.last = o.last
  BY <1>1 DEF Taken, Order
<1>. HIDE DEF t
<1>4. SizesIn(t)
  BY <1>2, <1>3 DEF SizesIn
<1>5. ASSUME NEW size \in NextSizes(o) PROVE SizesIn(Advanced(t, size))
  <2>. DEFINE sized == [t EXCEPT !.size = size, !.last = t.enc]
  <2>1. size \in Usable(setup)
    <3>1. CASE size = o.size
      BY <3>1 DEF SizesIn
    <3>2. CASE size \in setup.sizes
      <4>1. size \in DOMAIN Gop /\ size \in Nat
        BY <3>2, SetupsAssumption, GopSizes
      <4>. QED  BY <3>2, <4>1 DEF Usable
    <3>. QED  BY <3>1, <3>2, <1>5 DEF NextSizes
  <2>2. /\ sized.size = size /\ sized.nextIdr \in Int /\ sized.lastPic \in Int /\ sized.last = t.enc
        /\ "enc" \in DOMAIN sized /\ "size" \in DOMAIN sized /\ "last" \in DOMAIN sized
    BY <1>2 DEF Order
  <2>3. Advanced(t, size) = [sized EXCEPT !.enc = FindNext(sized, t.enc)]
    BY DEF Advanced
  <2>. HIDE DEF sized
  <2>4. FindNext(sized, t.enc).size \in Usable(setup)
    <3>1. EncOk(t.enc) /\ t.enc.size \in Usable(setup)
      BY <1>1, <1>2, <1>4 DEF SizesIn
    <3>. QED  BY <3>1, <2>1, <2>2, NextSize DEF FindNext
  <2>. QED  BY <2>1, <2>2, <2>3, <2>4, <1>4 DEF SizesIn
<1>6. SizesIn(PutOff(t))
  <2>. DEFINE e == [t.enc EXCEPT !.cnt = @ + 1]
              n == IF t.nextIdr > 0 THEN t.nextIdr + 1 ELSE t.nextIdr
  <2>1. PutOff(t) = [t EXCEPT !.last = t.enc, !.enc = e, !.nextIdr = n]
    BY <1>2 DEF PutOff, Order
  <2>2. e.size = t.enc.size
    BY <1>1, <1>2 DEF Enc
  <2>. HIDE DEF e, n
  <2>3. PutOff(t).last = t.enc /\ PutOff(t).enc = e /\ PutOff(t).size = t.size
    BY <2>1, <1>2 DEF Order
  <2>. QED  BY <2>2, <2>3, <1>4 DEF SizesIn
<1>. QED  BY <1>5, <1>6 DEF t

\* What the next frame may need: the usable groups, the pictures kept for the frames in flight.
StoreInv ==
    /\ SizesIn(order)
    /\ CoveredBy(pool, setup.refFrameAmount)
    /\ Len(pool.flight) <= setup.cores - 1
    /\ BuffersSuffice
\* While frames are in flight, a POC the encoder may refer to finds a reference, and none that was
\* dropped while a core still used it.
FoundHeld == FindsHeld(pool)

\* An empty store is within it.
LEMMA StoreInit == Init => StoreInv
<1>. SUFFICES ASSUME Init PROVE StoreInv
  OBVIOUS
<1>1. setup \in Setups
  BY DEF Init, OrderInit
<1>2. /\ setup.sizes # {} /\ setup.sizes \subseteq DOMAIN Gop /\ setup.cores \in Nat \ {0}
      /\ setup.refFrameAmount \in Nat
  BY <1>1, SetupsAssumption
<1>3. /\ \A z \in setup.sizes : z \in Usable(setup)
      /\ 1 \in Usable(setup)
  <2>1. \A z \in setup.sizes : z \in DOMAIN Gop /\ z \in Nat \ {0}
    BY <1>2, GopSizes
  <2>2. PICK z \in setup.sizes : TRUE
    BY <1>2
  <2>3. 1 \in 1 .. z /\ 1 <= z
    BY <2>1, <2>2
  <2>4. 1 \in DOMAIN Gop
    BY <2>1, <2>3, GopSizes
  <2>. QED  BY <2>1, <2>3, <2>4 DEF Usable
<1>4. SizesIn(order)
  <2>. DEFINE size == IF Cardinality(setup.sizes) = 1 THEN CHOOSE n \in setup.sizes : TRUE ELSE 1
  <2>1. size \in Usable(setup)
    BY <1>2, <1>3
  <2>2. order = [enc |-> FirstPicture(size), last |-> NoPicture, size |-> size,
                 nextIdr |-> 0, jobs |-> {}, submitted |-> 0,
                 lastPic |-> setup.lastPic, flushing |-> FALSE, astray |-> FALSE]
    BY DEF Init, OrderInit
  <2>. HIDE DEF size
  <2>3. FirstPicture(size).size = size /\ NoPicture.size = 1
    BY DEF FirstPicture, NoPicture
  <2>. QED  BY <2>1, <2>2, <2>3, <1>3 DEF SizesIn
<1>5. pool = [pics |-> <<>>, store |-> <<>>, flight |-> <<>>]
  BY DEF Init
<1>6. Len(pool.flight) = 0 /\ Len(pool.pics) = 0 /\ DOMAIN pool.flight = {}
  BY <1>5
<1>. QED  BY <1>2, <1>4, <1>6 DEF StoreInv, CoveredBy, BuffersSuffice

\* A frame keeps no more pictures than the application asked for.
LEMMA KeepsAmount ==
    ASSUME AmountAssumed, setup \in Setups, PoolOk(pool), NEW e, EncOk(e), e.size \in Usable(setup),
           NEW idr \in BOOLEAN, NEW poc \in Nat, NEW rps, rps = Rps(pool, e, idr, poc)
    PROVE  /\ IsFiniteSet(rps) /\ Cardinality(rps) <= setup.refFrameAmount
           /\ rps \subseteq Held(pool)
<1>. DEFINE A == Gop[e.size][e.idx + 1].refs
            amount == setup.refFrameAmount
<1>1. e.size \in Usable(setup) /\ e.idx + 1 \in 1 .. e.size
  <2>1. e.size \in DOMAIN Gop /\ e.idx \in Nat /\ e.idx < e.size
    BY DEF EncOk, Enc
  <2>. QED  BY <2>1, GopSizes
<1>2. IsFiniteSet(A) /\ Cardinality(A) <= amount /\ amount \in Nat
  BY <1>1, SetupsAssumption DEF AmountAssumed
<1>. HIDE DEF A
<1>3. IsFiniteSet(rps) /\ Cardinality(rps) <= Cardinality(A)
  BY <1>2, RpsCounted DEF A
<1>4. Cardinality(rps) \in Nat /\ Cardinality(A) \in Nat
  BY <1>2, <1>3, FS_CardinalityType
<1>5. Cardinality(rps) <= amount
  <2>. HIDE DEF amount
  <2>. QED  BY <1>2, <1>3, <1>4
<1>. QED  BY <1>3, <1>5, RpsOk

\* The store that a frame is prepared in has room for it.
LEMMA PreparedFits ==
    ASSUME setup \in Setups, PoolOk(pool), StoreInv, FoundHeld, NEW rps, rps \subseteq Held(pool),
           IsFiniteSet(rps), Cardinality(rps) <= setup.refFrameAmount,
           NEW pics \in Seq(Picture), DOMAIN pics = DOMAIN pool.pics \cup {FreePicture(Marked(pool, rps))}
    PROVE  Len(pics) <= setup.refFrameAmount + setup.cores
<1>. DEFINE m == Marked(pool, rps)
            amount == setup.refFrameAmount
            cores == setup.cores
            n == Len(pool.pics)
            l == Len(pool.flight)
<1>1. amount \in Nat /\ cores \in Nat \ {0}
  BY SetupsAssumption
<1>2. /\ n \in Nat /\ DOMAIN pool.pics = 1 .. n /\ l \in Nat /\ l <= cores - 1 /\ n <= amount + cores
  <2>1. pool.pics \in Seq(Picture) /\ pool.flight \in Seq(Frame)
    BY DEF PoolOk, Pool
  <2>. QED  BY <2>1 DEF StoreInv, BuffersSuffice
<1>3. PoolOk(m) /\ DOMAIN m.pics = 1 .. n
  BY <1>2, MarkedOk
<1>4. Len(m.pics) = n
  <2>1. m.pics \in Seq(Picture)
    BY <1>3 DEF PoolOk, Pool
  <2>. HIDE DEF m, n
  <2>. QED  BY <2>1, <1>2, <1>3
<1>5. CASE Unused(m) # {}
  <2>1. FreePicture(m) \in DOMAIN m.pics
    <3>. DEFINE k == FreePicture(m)
                g == WithFree(m)
    <3>1. k \in DOMAIN g.pics /\ g = m
      <4>1. g = m
        BY <1>5 DEF WithFree
      <4>2. k = FreePicture(m) /\ g = WithFree(m)
        OBVIOUS
      <4>. HIDE DEF k, g, m
      <4>. QED  BY <4>1, <4>2, <1>3, FreeOk
    <3>. QED  BY <3>1
  <2>2. DOMAIN pics = 1 .. n
    BY <2>1, <1>2, <1>3
  <2>. HIDE DEF n, amount, cores
  <2>3. Len(pics) = n
    BY <2>2, <1>2
  <2>4. Len(pics) <= amount + cores
    BY <2>3, <1>2
  <2>. QED  BY <2>4 DEF amount, cores
<1>6. CASE Unused(m) = {}
  <2>1. n <= amount + l
    BY <1>1, <1>6, AllInUse DEF StoreInv, FoundHeld
  <2>2. FreePicture(m) = n + 1
    BY <1>4, <1>6 DEF FreePicture
  <2>3. DOMAIN pics = 1 .. n + 1
    <3>1. (1 .. n) \cup {n + 1} = 1 .. n + 1
      <4>. HIDE DEF n
      <4>. QED  BY <1>2
    <3>. QED  BY <2>2, <3>1, <1>2
  <2>. HIDE DEF n, amount, cores, l
  <2>4. Len(pics) = n + 1
    BY <2>3, <1>2
  <2>5. Len(pics) <= amount + cores
    BY <2>1, <2>4, <1>1, <1>2
  <2>. QED  BY <2>5 DEF amount, cores
<1>. QED  BY <1>5, <1>6

\* A frame that is skipped leaves no reference that was none.
LEMMA SkippedCovers ==
    ASSUME setup \in Setups, PoolOk(pool), StoreInv, FoundHeld, NEW rps, rps \subseteq Held(pool),
           IsFiniteSet(rps), Cardinality(rps) <= setup.refFrameAmount, NEW poc \in Nat,
           NEW first \in BOOLEAN, NEW s, s = SkippedIn(pool, rps, poc, first)
    PROVE  /\ CoveredBy(s, setup.refFrameAmount) /\ Len(s.flight) <= setup.cores - 1
           /\ Len(s.pics) <= setup.refFrameAmount + setup.cores
<1>. DEFINE m == Marked(pool, rps)
            k == FreePicture(m)
            g == Prepared(pool, rps, poc, first)
            amount == setup.refFrameAmount
<1>1. s = [g EXCEPT !.store = MovedLast(g.store, k)]
  <2>1. \A q : [q EXCEPT !.store = MovedLast(@, k)] = [q EXCEPT !.store = MovedLast(q.store, k)]
    OBVIOUS
  <2>. HIDE DEF g
  <2>2. s = [g EXCEPT !.store = MovedLast(@, k)]
    BY DEF SkippedIn, g
  <2>. QED  BY <2>1, <2>2
<1>2. /\ PoolOk(g) /\ g.flight = pool.flight /\ DOMAIN g.pics = DOMAIN pool.pics \cup {k}
      /\ ~g.pics[k].reference
      /\ \A r \in DOMAIN pool.pics \ {k} : g.pics[r] = m.pics[r]
  <2>1. m = Marked(pool, rps) /\ k = FreePicture(m) /\ g = Prepared(pool, rps, poc, first)
    OBVIOUS
  <2>. HIDE DEF m, k, g
  <2>. QED  BY <2>1, PreparedOk
<1>3. /\ References(m) \subseteq {GetPicture(pool, q) : q \in rps}
      /\ pool.flight # <<>> => References(m) \subseteq References(pool)
      /\ DOMAIN m.pics = DOMAIN pool.pics
  BY MarkedOk, MarkedReferences DEF FoundHeld
<1>4. s.pics = g.pics /\ s.flight = g.flight
  <2>1. g \in Pool
    BY <1>2 DEF PoolOk
  <2>. HIDE DEF g, k
  <2>. QED  BY <2>1, <1>1 DEF Pool
<1>5. References(s) \subseteq References(m)
  <2>. HIDE DEF m, k, g
  <2>. QED  BY <1>2, <1>3, <1>4 DEF References
<1>6. Len(s.pics) <= setup.refFrameAmount + setup.cores
  <2>1. g.pics \in Seq(Picture)
    BY <1>2 DEF PoolOk, Pool
  <2>2. DOMAIN g.pics = DOMAIN pool.pics \cup {FreePicture(Marked(pool, rps))}
    BY <1>2
  <2>. HIDE DEF g
  <2>. QED  BY <2>1, <2>2, <1>4, PreparedFits
<1>. HIDE DEF m, k, g
<1>7. CoveredBy(s, amount)
  <2>. SUFFICES ASSUME NEW i \in DOMAIN pool.flight PROVE Cardinality(Needed(s, i)) <= amount
    BY <1>2, <1>4 DEF CoveredBy
  <2>1. pool.flight # <<>>
    OBVIOUS
  <2>2. References(s) \subseteq References(pool)
    BY <2>1, <1>3, <1>5
  <2>3. WrittenFrom(s, i) = WrittenFrom(pool, i)
    BY <1>2, <1>4 DEF WrittenFrom
  <2>4. ReadFrom(s, i) \subseteq ReadFrom(pool, i)
    <3>1. \A j \in i .. Len(pool.flight) : Range(pool.flight[j].refs) \subseteq DOMAIN pool.pics
      <4>1. pool.flight \in Seq(Frame)
        BY DEF PoolOk, Pool
      <4>2. \A j \in i .. Len(pool.flight) : j \in DOMAIN pool.flight
        BY <4>1
      <4>. QED  BY <4>2 DEF PoolOk, FrameIntact, Range
    <3>. QED  BY <3>1, <1>2, <1>4 DEF ReadFrom
  <2>5. Needed(s, i) \in SUBSET Needed(pool, i)
    BY <2>2, <2>3, <2>4 DEF Needed
  <2>6. IsFiniteSet(Needed(pool, i))
    BY NeededFinite
  <2>7. /\ Cardinality(Needed(s, i)) <= Cardinality(Needed(pool, i))
        /\ Cardinality(Needed(s, i)) \in Nat /\ Cardinality(Needed(pool, i)) \in Nat
    BY <2>5, <2>6, FS_Subset, FS_CardinalityType
  <2>8. Cardinality(Needed(pool, i)) <= amount /\ amount \in Nat
    BY SetupsAssumption DEF StoreInv, CoveredBy
  <2>. HIDE DEF amount
  <2>. QED  BY <2>7, <2>8
<1>. QED  BY <1>2, <1>4, <1>6, <1>7 DEF StoreInv

\* What a call that codes a picture makes of the store.
LEMMA EncodeStore ==
    ASSUME AmountAssumed, setup \in Setups, setup' = setup, PoolOk(pool), StoreInv, FoundHeld,
           NEW o, MidOk(o), SizesIn(o), Encode(o)
    PROVE  StoreInv'
<1>. DEFINE idr == IsIdr(o)
            poc == JobPoc(o)
            rps == Rps(pool, o.enc, idr, poc)
            f == FrameOf(pool, o.enc, idr, poc)
            p == Started(pool, f, o.enc)
            amount == setup.refFrameAmount
            first == o.enc.idx = 0
<1>1. HasJob(o)
  BY DEF Encode, Skip, Start, StartAndWait
<1>2. /\ o.enc \in Enc /\ EncOk(o.enc) /\ idr \in BOOLEAN /\ poc \in Nat
      /\ first \in BOOLEAN /\ o.enc.size \in Usable(setup)
  BY <1>1, JobOk DEF MidOk, Order, SizesIn
<1>3. /\ \A size \in NextSizes(o) : SizesIn(Advanced(Taken(o), size))
      /\ SizesIn(PutOff(Taken(o)))
  BY <1>1, EncodedSizes
<1>4. amount \in Nat /\ setup.cores \in Nat \ {0}
  BY SetupsAssumption
<1>5. Usable(setup)' = Usable(setup)
  BY DEF Usable
<1>6. \A x : SizesIn(x)' <=> SizesIn(x)
  BY <1>5 DEF SizesIn
<1>. HIDE DEF idr, poc, first
<1>7. IsFiniteSet(rps) /\ Cardinality(rps) <= amount /\ rps \subseteq Held(pool)
  <2>1. rps = Rps(pool, o.enc, idr, poc)
    OBVIOUS
  <2>. HIDE DEF rps
  <2>. QED  BY <2>1, <1>2, KeepsAmount
<1>8. f.rps = rps
  BY DEF FrameOf
<1>. HIDE DEF rps
<1>9. StartedFrom(pool, f, p)
  <2>1. f = FrameOf(pool, o.enc, idr, poc) /\ p = Started(pool, f, o.enc)
    OBVIOUS
  <2>. HIDE DEF f, p
  <2>. QED  BY <2>1, <1>2, StartedOk
<1>. HIDE DEF f, p, amount
<1>10. /\ PoolOk(p) /\ p.flight = Append(pool.flight, f) /\ f \in Frame
       /\ pool.flight \in Seq(Frame) /\ p.pics \in Seq(Picture)
       /\ DOMAIN p.pics = DOMAIN pool.pics \cup {FreePicture(Marked(pool, rps))}
  <2>1. PoolOk(p) /\ p.flight = Append(pool.flight, f) /\ f \in Frame
    BY <1>9 DEF StartedFrom
  <2>2. DOMAIN p.pics = DOMAIN pool.pics \cup {FreePicture(Marked(pool, rps))}
    BY <1>8, <1>9 DEF StartedFrom
  <2>. QED  BY <2>1, <2>2 DEF PoolOk, Pool
<1>11. Len(p.pics) <= amount + setup.cores
  BY <1>7, <1>10, PreparedFits DEF amount
<1>12. CoveredBy(p, amount)
  BY <1>4, <1>7, <1>8, <1>9, StartedCovers DEF StoreInv, FoundHeld, amount
<1>13. Len(p.flight) = Len(pool.flight) + 1 /\ Len(pool.flight) \in Nat /\ p.flight # <<>>
  BY <1>10
<1>14. ASSUME SizesIn(order'), CoveredBy(pool', amount), Len(pool'.flight) <= setup.cores - 1,
              Len(pool'.pics) <= amount + setup.cores
       PROVE  StoreInv'
  BY <1>6, <1>14
    DEF StoreInv, BuffersSuffice, CoveredBy, Needed, References, ReadFrom, WrittenFrom, amount
<1>15. CASE Skip(o)
  <2>1. pool' = SkippedIn(pool, rps, poc, first) /\ order' = PutOff(Taken(o))
    BY <1>15 DEF Skip, rps, idr, poc, first
  <2>2. /\ CoveredBy(pool', amount) /\ Len(pool'.flight) <= setup.cores - 1
        /\ Len(pool'.pics) <= amount + setup.cores
    BY <2>1, <1>2, <1>7, SkippedCovers DEF amount
  <2>. QED  BY <2>1, <2>2, <1>3, <1>14
<1>16. CASE Start(o)
  <2>1. pool' = p /\ Len(pool.flight) < setup.cores - 1
    BY <1>16 DEF Start, p, f, idr, poc
  <2>2. SizesIn(order')
    BY <1>3, <1>16 DEF Start
  <2>3. Len(pool'.flight) <= setup.cores - 1
    BY <2>1, <1>4, <1>13
  <2>. QED  BY <2>1, <2>2, <2>3, <1>11, <1>12, <1>14
<1>17. CASE StartAndWait(o)
  <2>. DEFINE s == Finished(p)
  <2>1. pool' = s
    BY <1>17 DEF StartAndWait, p, f, idr, poc
  <2>2. SizesIn(order')
    BY <1>3, <1>17 DEF StartAndWait
  <2>3. FinishedFrom(p, s)
    <3>1. s = Finished(p)
      OBVIOUS
    <3>. HIDE DEF s
    <3>. QED  BY <3>1, <1>10, <1>13, FinishedOk
  <2>. HIDE DEF s
  <2>4. CoveredBy(s, amount)
    BY <2>3, <1>4, <1>10, <1>12, <1>13, FinishedCovers DEF amount
  <2>5. /\ s.flight = Tail(p.flight) /\ DOMAIN s.pics = DOMAIN p.pics /\ PoolOk(s)
    BY <2>3 DEF FinishedFrom
  <2>6. Len(s.pics) = Len(p.pics)
    <3>1. s.pics \in Seq(Picture)
      BY <2>5 DEF PoolOk, Pool
    <3>. QED  BY <3>1, <2>5, <1>10
  <2>7. Len(s.flight) = Len(pool.flight)
    <3>1. p.flight \in Seq(Frame)
      BY <1>10 DEF PoolOk, Pool
    <3>. QED  BY <3>1, <2>5, <1>13
  <2>8. Len(s.flight) <= setup.cores - 1
    BY <2>7 DEF StoreInv
  <2>. QED  BY <2>1, <2>2, <2>4, <2>6, <2>8, <1>11, <1>14
<1>. QED  BY <1>15, <1>16, <1>17 DEF Encode

\* Every step keeps the store within what was allocated.
LEMMA StoreNext == AmountAssumed => (IInv /\ StoreInv /\ FoundHeld /\ [Next]_vars => StoreInv')
<1>. SUFFICES ASSUME AmountAssumed, IInv, StoreInv, FoundHeld, [Next]_vars PROVE StoreInv'
  OBVIOUS
<1>1. setup \in Setups /\ OrderOk(order) /\ PoolOk(pool)
  BY DEF IInv
<1>2. setup' = setup
  BY DEF Next, VCEncStrmEncode, VCEncFlush, vars
<1>3. Usable(setup)' = Usable(setup) /\ \A x : SizesIn(x)' <=> SizesIn(x)
  <2>1. Usable(setup)' = Usable(setup)
    BY <1>2 DEF Usable
  <2>. QED  BY <2>1 DEF SizesIn
<1>4. SizesIn(order)
  BY DEF StoreInv
<1>. DEFINE amount == setup.refFrameAmount
            cores == setup.cores
<1>5. /\ CoveredBy(pool, amount) /\ Len(pool.flight) <= cores - 1
      /\ Len(pool.pics) <= amount + cores
      /\ amount' = amount /\ cores' = cores
  BY <1>2 DEF StoreInv, BuffersSuffice
<1>6. StoreInv' <=> /\ SizesIn(order)' /\ CoveredBy(pool, amount)' /\ Len(pool'.flight) <= cores' - 1
                     /\ Len(pool'.pics) <= amount' + cores'
  BY DEF StoreInv, BuffersSuffice
<1>. HIDE DEF amount, cores
<1>7. ASSUME SizesIn(order'), CoveredBy(pool', amount), Len(pool'.flight) <= cores - 1,
              Len(pool'.pics) <= amount + cores
       PROVE  StoreInv'
  <2>1. SizesIn(order)'
    BY <1>3, <1>7
  <2>2. CoveredBy(pool, amount)'
    BY <1>5, <1>7 DEF CoveredBy, Needed, References, ReadFrom, WrittenFrom
  <2>. QED  BY <2>1, <2>2, <1>5, <1>6, <1>7
<1>8. ASSUME pool' = pool, SizesIn(order') PROVE StoreInv'
  BY <1>8, <1>5, <1>7
<1>9. CASE VCEncStrmEncode
  <2>1. PICK idr \in BOOLEAN : Encode(Given(order, idr)) \/ Wait(Given(order, idr))
    BY <1>9 DEF VCEncStrmEncode
  <2>2. MidOk(Given(order, idr)) /\ SizesIn(Given(order, idr))
    BY <1>1, <1>4, GivenOk, GivenSizes
  <2>3. CASE Encode(Given(order, idr))
    BY <2>2, <2>3, <1>1, <1>2, EncodeStore
  <2>4. CASE Wait(Given(order, idr))
    BY <2>2, <2>4, <1>8 DEF Wait
  <2>. QED  BY <2>1, <2>3, <2>4
<1>10. CASE VCEncFlush
  <2>1. order.submitted > 0
    BY <1>1, <1>10, FlushFollows DEF VCEncFlush
  <2>2. MidOk(Flushed(order)) /\ SizesIn(Flushed(order))
    BY <2>1, <1>1, <1>4, FlushedOk, FlushedSizes
  <2>3. CASE Encode(Flushed(order))
    BY <2>2, <2>3, <1>1, <1>2, EncodeStore
  <2>4. CASE MultiCoreFlush(Flushed(order))
    <3>. DEFINE s == Finished(pool)
    <3>1. pool' = s /\ pool.flight # <<>> /\ order' = Flushed(order)
      BY <2>4 DEF MultiCoreFlush
    <3>2. FinishedFrom(pool, s)
      <4>1. s = Finished(pool)
        OBVIOUS
      <4>. HIDE DEF s
      <4>. QED  BY <4>1, <3>1, <1>1, FinishedOk
    <3>. HIDE DEF s
    <3>3. setup.refFrameAmount \in Nat /\ setup.cores \in Nat
      BY <1>1, SetupsAssumption
    <3>4. CoveredBy(s, setup.refFrameAmount)
      BY <3>1, <3>2, <3>3, <1>1, FinishedCovers DEF StoreInv
    <3>5. s.flight = Tail(pool.flight) /\ DOMAIN s.pics = DOMAIN pool.pics /\ PoolOk(s)
      BY <3>2 DEF FinishedFrom
    <3>6. Len(s.pics) = Len(pool.pics)
      <4>1. s.pics \in Seq(Picture) /\ pool.pics \in Seq(Picture)
        BY <3>5, <1>1 DEF PoolOk, Pool
      <4>. QED  BY <4>1, <3>5
    <3>7. Len(s.flight) <= setup.cores - 1
      <4>1. pool.flight \in Seq(Frame)
        BY <1>1 DEF PoolOk, Pool
      <4>2. Len(s.flight) = Len(pool.flight) - 1 /\ Len(pool.flight) \in Nat
        BY <4>1, <3>1, <3>5
      <4>3. Len(pool.flight) <= setup.cores - 1
        BY DEF StoreInv
      <4>. QED  BY <4>2, <4>3, <3>3
    <3>8. Len(s.pics) <= setup.refFrameAmount + setup.cores
      BY <3>6 DEF StoreInv, BuffersSuffice
    <3>9. CoveredBy(s, amount) /\ Len(s.flight) <= cores - 1 /\ Len(s.pics) <= amount + cores
      BY <3>4, <3>7, <3>8 DEF amount, cores
    <3>. QED  BY <3>1, <3>9, <2>2, <1>7
  <2>5. CASE Wait(Flushed(order))
    BY <2>2, <2>5, <1>8 DEF Wait
  <2>. QED  BY <1>10, <2>3, <2>4, <2>5 DEF VCEncFlush
<1>11. CASE UNCHANGED vars
  BY <1>4, <1>8, <1>11 DEF vars
<1>. QED  BY <1>9, <1>10, <1>11 DEF Next

\* As long as a POC finds the reference that was meant, the picture memory that VCEncInit
\* allocates is enough (hevcencapi.c:655, encasiccontroller_v2.c:213): for every table of groups,
\* number of cores and way of losing frames.
THEOREM EnoughBuffers ==
    ASSUME AmountAssumed
    PROVE  Spec /\ []FoundHeld => []BuffersSuffice
<1>1. IInv /\ StoreInv /\ FoundHeld /\ [Next]_vars => StoreInv'
  BY StoreNext
<1>2. StoreInv => BuffersSuffice
  BY DEF StoreInv
<1>. QED  BY <1>1, <1>2, InitOk, StoreInit, NextStepOk, PTL DEF Spec

-----------------------------------------------------------------------------
(* Several cores and the decoder *)

\* What a decoder that keeps dec will hold for POC q when the i-th frame in flight comes to it:
\* frame c, which it has or a frame before writes, and every frame after that one keeps.
Will(flight, dec, i, q, c) ==
    \E j \in 0 .. i - 1 :
        /\ IF j = 0 THEN q \in DOMAIN dec /\ dec[q] = c ELSE flight[j].poc = q /\ flight[j].cnt = c
        /\ \A l \in j + 1 .. i - 1 : q \in flight[l].rps /\ flight[l].poc # q
\* The decoder will have what each frame in flight reads, and every reference of the encoder.
ReadsKept(f) == (f.idr => f.rps = {}) /\ DOMAIN f.reads \subseteq f.rps
Ahead(p, dec) ==
    /\ \A i \in DOMAIN p.flight :
          LET f == p.flight[i]
          IN  ReadsKept(f) /\ \A q \in DOMAIN f.reads : Will(p.flight, dec, i, q, f.reads[q])
    /\ \A k \in References(p) :
          Will(p.flight, dec, Len(p.flight) + 1, p.pics[k].poc, p.pics[k].frame)
\* The POC of a reference finds one, and no picture that was dropped.
AllFound(p) == \A q \in Held(p) : GetPicture(p, q) \in References(p)
ReferencesFound == AllFound(pool)

\* A frame that is started keeps what it names, and comes last.
LEMMA WillStart ==
    ASSUME NEW flight \in Seq(Frame), NEW f \in Frame, NEW dec, NEW q, NEW c,
           NEW next, next = Append(flight, f), NEW n, n = Len(flight) + 1
    PROVE  /\ \A i \in 1 .. n : Will(flight, dec, i, q, c) => Will(next, dec, i, q, c)
           /\ Will(flight, dec, n, q, c) /\ q \in f.rps /\ f.poc # q
                 => Will(next, dec, n + 1, q, c)
           /\ Will(next, dec, n + 1, f.poc, f.cnt)
<1>1. n \in Nat \ {0} /\ next[n] = f /\ \A j \in 1 .. n - 1 : next[j] = flight[j]
  OBVIOUS
<1>2. ASSUME NEW i \in 1 .. n, Will(flight, dec, i, q, c) PROVE Will(next, dec, i, q, c)
  <2>1. PICK j \in 0 .. i - 1 :
           /\ IF j = 0 THEN q \in DOMAIN dec /\ dec[q] = c ELSE flight[j].poc = q /\ flight[j].cnt = c
           /\ \A l \in j + 1 .. i - 1 : q \in flight[l].rps /\ flight[l].poc # q
    BY <1>2 DEF Will
  <2>2. j # 0 => next[j] = flight[j]
    BY <1>1
  <2>3. \A l \in j + 1 .. i - 1 : next[l] = flight[l]
    BY <1>1
  <2>. QED  BY <2>1, <2>2, <2>3 DEF Will
<1>3. ASSUME Will(flight, dec, n, q, c), q \in f.rps, f.poc # q PROVE Will(next, dec, n + 1, q, c)
  <2>1. PICK j \in 0 .. n - 1 :
           /\ IF j = 0 THEN q \in DOMAIN dec /\ dec[q] = c ELSE flight[j].poc = q /\ flight[j].cnt = c
           /\ \A l \in j + 1 .. n - 1 : q \in flight[l].rps /\ flight[l].poc # q
    BY <1>3 DEF Will
  <2>2. j # 0 => next[j] = flight[j]
    BY <1>1
  <2>3. \A l \in j + 1 .. n : q \in next[l].rps /\ next[l].poc # q
    <3>. TAKE l \in j + 1 .. n
    <3>1. l = n \/ l \in j + 1 .. n - 1
      BY <1>1
    <3>. QED  BY <3>1, <2>1, <1>1, <1>3
  <2>4. j \in 0 .. (n + 1) - 1 /\ (n + 1) - 1 = n
    BY <1>1
  <2>. HIDE DEF Frame
  <2>. QED  BY <2>1, <2>2, <2>3, <2>4 DEF Will
<1>4. Will(next, dec, n + 1, f.poc, f.cnt)
  <2>1. n \in 0 .. (n + 1) - 1 /\ n # 0 /\ (n + 1 .. (n + 1) - 1) = {}
    BY <1>1
  <2>. QED  BY <2>1, <1>1 DEF Will
<1>. QED  BY <1>2, <1>3, <1>4

\* When the oldest frame comes to the decoder, the ones after it find the same.
LEMMA WillDeliver ==
    ASSUME NEW flight \in Seq(Frame), flight # <<>>, NEW dec, NEW f, f = Head(flight),
           NEW new, f.poc \in DOMAIN new, new[f.poc] = f.cnt,
           \A q \in DOMAIN dec \cap f.rps : q # f.poc => q \in DOMAIN new /\ new[q] = dec[q],
           NEW i \in 2 .. Len(flight) + 1, NEW q, NEW c, Will(flight, dec, i, q, c)
    PROVE  Will(Tail(flight), new, i - 1, q, c)
<1>. DEFINE rest == Tail(flight)
<1>1. /\ Len(flight) \in Nat \ {0} /\ f = flight[1]
      /\ \A j \in 1 .. Len(flight) - 1 : rest[j] = flight[j + 1]
  OBVIOUS
<1>2. PICK j \in 0 .. i - 1 :
         /\ IF j = 0 THEN q \in DOMAIN dec /\ dec[q] = c ELSE flight[j].poc = q /\ flight[j].cnt = c
         /\ \A l \in j + 1 .. i - 1 : q \in flight[l].rps /\ flight[l].poc # q
  BY DEF Will
<1>. HIDE DEF rest
<1>3. /\ i \in Int /\ 2 <= i /\ i <= Len(flight) + 1 /\ Len(flight) \in Int
      /\ j \in Int /\ 0 <= j /\ j <= i - 1
  BY <1>1
<1>4. CASE j = 0
  <2>1. 1 \in j + 1 .. i - 1
    BY <1>3, <1>4
  <2>2. q \in f.rps /\ f.poc # q /\ q \in DOMAIN dec /\ dec[q] = c
    BY <2>1, <1>1, <1>2, <1>4
  <2>3. q \in DOMAIN new /\ new[q] = c
    BY <2>2
  <2>4. \A l \in 0 + 1 .. (i - 1) - 1 : q \in rest[l].rps /\ rest[l].poc # q
    <3>. TAKE l \in 0 + 1 .. (i - 1) - 1
    <3>1. l + 1 \in j + 1 .. i - 1 /\ l \in 1 .. Len(flight) - 1
      BY <1>1, <1>3, <1>4
    <3>. QED  BY <3>1, <1>1, <1>2
  <2>5. 0 \in 0 .. (i - 1) - 1
    BY <1>3
  <2>. QED  BY <2>3, <2>4, <2>5 DEF Will, rest
<1>5. CASE j = 1
  <2>1. f.poc = q /\ f.cnt = c
    BY <1>1, <1>2, <1>5
  <2>2. q \in DOMAIN new /\ new[q] = c
    BY <2>1
  <2>3. \A l \in 0 + 1 .. (i - 1) - 1 : q \in rest[l].rps /\ rest[l].poc # q
    <3>. TAKE l \in 0 + 1 .. (i - 1) - 1
    <3>1. l + 1 \in j + 1 .. i - 1 /\ l \in 1 .. Len(flight) - 1
      BY <1>1, <1>3, <1>5
    <3>. QED  BY <3>1, <1>1, <1>2
  <2>4. 0 \in 0 .. (i - 1) - 1
    BY <1>3
  <2>. QED  BY <2>2, <2>3, <2>4 DEF Will, rest
<1>6. CASE j \notin {0, 1}
  <2>1. j - 1 \in 1 .. Len(flight) - 1 /\ j - 1 \in 0 .. (i - 1) - 1 /\ j - 1 # 0 /\ (j - 1) + 1 = j
    BY <1>1, <1>3, <1>6
  <2>2. rest[j - 1] = flight[j]
    BY <2>1, <1>1
  <2>3. \A l \in (j - 1) + 1 .. (i - 1) - 1 : q \in rest[l].rps /\ rest[l].poc # q
    <3>. TAKE l \in (j - 1) + 1 .. (i - 1) - 1
    <3>1. l + 1 \in j + 1 .. i - 1 /\ l \in 1 .. Len(flight) - 1
      <4>1. l \in Int /\ j <= l /\ l <= i - 2 /\ 1 <= j
        BY <1>3, <1>6
      <4>. QED  BY <4>1, <1>3
    <3>. QED  BY <3>1, <1>1, <1>2
  <2>4. flight[j].poc = q /\ flight[j].cnt = c
    BY <1>2, <1>6
  <2>. QED  BY <2>1, <2>2, <2>3, <2>4 DEF Will, rest
<1>. QED  BY <1>4, <1>5, <1>6

\* A frame that is started reads what the decoder will have, where every POC finds a reference.
LEMMA StartedAhead ==
    ASSUME NEW p, PoolOk(p), AllFound(p), NEW dec, Ahead(p, dec), NEW e, NEW idr, NEW poc,
           NEW f, f = FrameOf(p, e, idr, poc), NEW s, StartedFrom(p, f, s)
    PROVE  Ahead(s, dec)
<1>. DEFINE n == Len(p.flight) + 1
<1>1. p.flight \in Seq(Frame) /\ f \in Frame /\ s.flight = Append(p.flight, f) /\ n \in Nat
  <2>1. p.flight \in Seq(Frame) /\ f \in Frame /\ s.flight = Append(p.flight, f)
    BY DEF StartedFrom, PoolOk, Pool
  <2>. QED  BY <2>1
<1>2. /\ DOMAIN s.flight = DOMAIN p.flight \cup {n} /\ Len(s.flight) = n
      /\ DOMAIN p.flight = 1 .. n - 1 /\ s.flight[n] = f
      /\ \A i \in DOMAIN p.flight : s.flight[i] = p.flight[i]
  BY <1>1
<1>3. /\ f.poc \notin f.rps /\ ReadsKept(f) /\ f.rps \subseteq Held(p)
      /\ f.pic = FreePicture(Marked(p, f.rps))
  BY DEF StartedFrom, ReadsKept
<1>4. \A q \in f.rps : /\ GetPicture(p, q) \in References(p) /\ p.pics[GetPicture(p, q)].poc = q
  BY <1>3, MarkedOk DEF AllFound
<1>5. \A q \in f.rps : Will(p.flight, dec, n, q, p.pics[GetPicture(p, q)].frame)
  BY <1>4 DEF Ahead
<1>6. \A q \in DOMAIN f.reads : f.reads[q] = p.pics[GetPicture(p, q)].frame
  <2>1. DOMAIN f.reads = DOMAIN f.refs /\ \A q \in DOMAIN f.refs : f.reads[q] = p.pics[f.refs[q]].frame
    BY DEF FrameOf
  <2>2. \A q \in DOMAIN f.refs : f.refs[q] = GetPicture(p, q)
    BY DEF StartedFrom
  <2>. QED  BY <2>1, <2>2
<1>. HIDE DEF n
<1>7. /\ \A j \in 1 .. n : \A q, c : Will(p.flight, dec, j, q, c) => Will(s.flight, dec, j, q, c)
      /\ \A q, c : Will(p.flight, dec, n, q, c) /\ q \in f.rps /\ f.poc # q
                      => Will(s.flight, dec, n + 1, q, c)
      /\ Will(s.flight, dec, n + 1, f.poc, f.cnt)
  <2>1. /\ n = Len(p.flight) + 1 /\ p.flight \in Seq(Frame) /\ f \in Frame
        /\ s.flight = Append(p.flight, f)
    BY <1>1 DEF n
  <2>. DEFINE flight == p.flight
              next == s.flight
  <2>2. n = Len(flight) + 1 /\ flight \in Seq(Frame) /\ next = Append(flight, f)
    BY <2>1
  <2>. HIDE DEF flight, next
  <2>3. ASSUME NEW q, NEW c
        PROVE  /\ \A j \in 1 .. n : Will(flight, dec, j, q, c) => Will(next, dec, j, q, c)
               /\ Will(flight, dec, n, q, c) /\ q \in f.rps /\ f.poc # q
                     => Will(next, dec, n + 1, q, c)
               /\ Will(next, dec, n + 1, f.poc, f.cnt)
    BY <2>1, <2>2, WillStart
  <2>. QED  BY <2>3 DEF flight, next
<1>8. ASSUME NEW i \in DOMAIN s.flight, NEW h, h = s.flight[i]
      PROVE  ReadsKept(h) /\ \A q \in DOMAIN h.reads : Will(s.flight, dec, i, q, h.reads[q])
  <2>1. CASE i = n
    <3>1. h = f /\ i \in 1 .. n
      BY <1>1, <1>2, <1>8, <2>1 DEF n
    <3>2. \A q \in DOMAIN f.reads : Will(s.flight, dec, n, q, f.reads[q])
      BY <1>3, <1>5, <1>6, <1>7, <2>1, <3>1 DEF ReadsKept
    <3>. QED  BY <3>1, <3>2, <1>3, <2>1
  <2>2. CASE i # n
    <3>1. i \in DOMAIN p.flight /\ h = p.flight[i] /\ i \in 1 .. n
      BY <1>1, <1>2, <1>8, <2>2
    <3>2. ReadsKept(h) /\ \A q \in DOMAIN h.reads : Will(p.flight, dec, i, q, h.reads[q])
      BY <3>1 DEF Ahead
    <3>. QED  BY <3>1, <3>2, <1>7
  <2>. QED  BY <2>1, <2>2
<1>9. ASSUME NEW k \in References(s) PROVE Will(s.flight, dec, n + 1, s.pics[k].poc, s.pics[k].frame)
  <2>. DEFINE m == Marked(p, f.rps)
  <2>1. CASE k = f.pic
    <3>1. s.pics[k].poc = f.poc /\ s.pics[k].frame = f.cnt
      BY <2>1 DEF StartedFrom
    <3>. QED  BY <3>1, <1>7
  <2>2. CASE k # f.pic
    <3>1. k \in DOMAIN p.pics \ {f.pic} /\ s.pics[k].reference
      BY <2>2 DEF StartedFrom, References
    <3>2. /\ m.pics[k].reference /\ s.pics[k].poc = m.pics[k].poc /\ s.pics[k].frame = m.pics[k].frame
      BY <3>1 DEF StartedFrom
    <3>3. PoolOk(m) /\ DOMAIN m.pics = DOMAIN p.pics
      BY <1>3, MarkedOk
    <3>4. k \in References(m)
      BY <3>1, <3>2, <3>3 DEF References
    <3>5. PICK q \in f.rps : k = GetPicture(p, q)
      BY <3>4, <1>3, MarkedReferences
    <3>6. m.pics[k].frame = p.pics[k].frame /\ m.pics[k].poc \in {-1, p.pics[k].poc}
      BY <3>1, <1>3, MarkedOk
    <3>7. m.pics[k].poc # -1
      BY <3>1, <3>2, <3>3 DEF PoolOk, ReferencesNamed
    <3>8. s.pics[k].poc = q /\ s.pics[k].frame = p.pics[GetPicture(p, q)].frame
      BY <3>2, <3>5, <3>6, <3>7, <1>4
    <3>9. Will(p.flight, dec, n, q, s.pics[k].frame) /\ f.poc # q
      BY <3>5, <3>8, <1>3, <1>5
    <3>. QED  BY <3>5, <3>8, <3>9, <1>7
  <2>. QED  BY <2>1, <2>2
<1>. QED  BY <1>2, <1>8, <1>9 DEF Ahead

\* When the oldest frame is done and goes into the stream, the decoder sees what it reads.
LEMMA FinishedAhead ==
    ASSUME NEW p, PoolOk(p), p.flight # <<>>, Ahead(p, dpb), NEW s, FinishedFrom(p, s),
           Deliver(Head(p.flight))
    PROVE  Ahead(s, dpb') /\ SameReferences'
<1>. DEFINE f == Head(p.flight)
            kept == IF f.idr THEN <<>> ELSE Restrict(dpb, DOMAIN dpb \cap f.rps)
            n == Len(p.flight)
<1>1. /\ p.flight \in Seq(Frame) /\ n \in Nat \ {0} /\ f = p.flight[1]
      /\ DOMAIN p.flight = 1 .. n
  <2>1. p.flight \in Seq(Frame)
    BY DEF PoolOk, Pool
  <2>. QED  BY <2>1
<1>2. /\ dpb' = [q \in DOMAIN kept \cup {f.poc} |-> IF q = f.poc THEN f.cnt ELSE kept[q]]
      /\ delivered' = [reads |-> f.reads, seen |-> Restrict(kept, DOMAIN kept \cap DOMAIN f.reads)]
  BY DEF Deliver
<1>3. ReadsKept(f) /\ \A q \in DOMAIN f.reads : Will(p.flight, dpb, 1, q, f.reads[q])
  BY <1>1 DEF Ahead
<1>. HIDE DEF f, n
<1>4. \A q \in DOMAIN f.reads : q \in DOMAIN kept /\ kept[q] = f.reads[q]
  <2>. TAKE q \in DOMAIN f.reads
  <2>1. q \in f.rps /\ ~f.idr
    BY <1>3 DEF ReadsKept
  <2>2. Will(p.flight, dpb, 1, q, f.reads[q])
    BY <1>3
  <2>3. \A j \in 0 .. 1 - 1 : j = 0
    OBVIOUS
  <2>4. q \in DOMAIN dpb /\ dpb[q] = f.reads[q]
    BY <2>2, <2>3 DEF Will
  <2>. QED  BY <2>1, <2>4 DEF Restrict
<1>5. f \in Frame
  BY <1>1
<1>6. SameReferences'
  <2>1. DOMAIN kept \cap DOMAIN f.reads = DOMAIN f.reads
    BY <1>4
  <2>2. f.reads = [q \in DOMAIN f.reads |-> f.reads[q]]
    BY <1>5 DEF Frame
  <2>. DEFINE seen == Restrict(kept, DOMAIN kept \cap DOMAIN f.reads)
  <2>3. seen = [q \in DOMAIN f.reads |-> kept[q]]
    BY <2>1 DEF Restrict
  <2>. HIDE DEF kept
  <2>4. [q \in DOMAIN f.reads |-> kept[q]] = [q \in DOMAIN f.reads |-> f.reads[q]]
    BY <1>4
  <2>5. seen = f.reads
    BY <2>2, <2>3, <2>4
  <2>6. delivered'.reads = f.reads /\ delivered'.seen = seen
    BY <1>2
  <2>. QED  BY <2>5, <2>6 DEF SameReferences
<1>7. \A i \in 2 .. n + 1 : \A q, c : Will(p.flight, dpb, i, q, c) => Will(Tail(p.flight), dpb', i - 1, q, c)
  <2>. SUFFICES ASSUME NEW i \in 2 .. n + 1, NEW q, NEW c, Will(p.flight, dpb, i, q, c)
                PROVE  Will(Tail(p.flight), dpb', i - 1, q, c)
    OBVIOUS
  <2>1. f = Head(p.flight) /\ n = Len(p.flight)
    BY DEF f, n
  <2>2. \A x \in DOMAIN dpb \cap f.rps : x \in DOMAIN kept /\ kept[x] = dpb[x]
    BY <1>3 DEF ReadsKept, Restrict
  <2>. HIDE DEF kept
  <2>3. /\ f.poc \in DOMAIN dpb' /\ dpb'[f.poc] = f.cnt
        /\ \A x \in DOMAIN dpb \cap f.rps : x # f.poc => x \in DOMAIN dpb' /\ dpb'[x] = dpb[x]
    BY <2>2, <1>2
  <2>. QED  BY <2>1, <2>3, <1>1, WillDeliver
<1>8. /\ s.flight = Tail(p.flight) /\ DOMAIN s.pics = DOMAIN p.pics
      /\ \A k \in DOMAIN p.pics : /\ s.pics[k].poc = p.pics[k].poc
                                  /\ s.pics[k].frame = p.pics[k].frame
                                  /\ s.pics[k].reference = p.pics[k].reference
  BY DEF FinishedFrom
<1>9. /\ Len(s.flight) = n - 1 /\ DOMAIN s.flight = 1 .. n - 1
      /\ \A i \in DOMAIN s.flight : s.flight[i] = p.flight[i + 1]
  BY <1>1, <1>8 DEF n
<1>10. ASSUME NEW i \in DOMAIN s.flight, NEW h, h = s.flight[i]
       PROVE  ReadsKept(h) /\ \A q \in DOMAIN h.reads : Will(s.flight, dpb', i, q, h.reads[q])
  <2>1. i + 1 \in 2 .. n + 1 /\ i + 1 \in DOMAIN p.flight /\ (i + 1) - 1 = i
    BY <1>1, <1>9
  <2>2. h = p.flight[i + 1]
    BY <1>9, <1>10
  <2>3. ReadsKept(h) /\ \A q \in DOMAIN h.reads : Will(p.flight, dpb, i + 1, q, h.reads[q])
    BY <2>1, <2>2 DEF Ahead
  <2>. QED  BY <2>1, <2>3, <1>7, <1>8
<1>11. ASSUME NEW k \in References(s)
       PROVE  Will(s.flight, dpb', (n - 1) + 1, s.pics[k].poc, s.pics[k].frame)
  <2>1. k \in References(p)
    BY <1>8 DEF References
  <2>2. Will(p.flight, dpb, n + 1, p.pics[k].poc, p.pics[k].frame)
    BY <2>1 DEF Ahead, n
  <2>3. n + 1 \in 2 .. n + 1 /\ (n + 1) - 1 = (n - 1) + 1
    <3>1. n \in Nat \ {0}
      BY <1>1
    <3>. QED  BY ONLY <3>1
  <2>4. k \in DOMAIN p.pics
    BY <2>1 DEF References
  <2>. QED  BY <2>2, <2>3, <2>4, <1>7, <1>8
<1>. QED  BY <1>6, <1>9, <1>10, <1>11 DEF Ahead

AheadInv == setup.lost = {} => Ahead(pool, dpb) /\ SameReferences

\* A call that codes a picture keeps the decoder in step.
LEMMA EncodeAhead ==
    ASSUME setup \in Setups, setup.lost = {}, PoolOk(pool), Ahead(pool, dpb), SameReferences,
           ReferencesFound, NEW o, MidOk(o), Encode(o)
    PROVE  Ahead(pool', dpb') /\ SameReferences'
<1>. DEFINE idr == IsIdr(o)
            poc == JobPoc(o)
            f == FrameOf(pool, o.enc, idr, poc)
            p == Started(pool, f, o.enc)
<1>1. HasJob(o) /\ ~Skip(o)
  BY DEF Encode, Skip, MaySkip, Start, StartAndWait
<1>2. EncOk(o.enc) /\ idr \in BOOLEAN /\ poc \in Nat
  BY <1>1, JobOk DEF MidOk
<1>3. StartedFrom(pool, f, p)
  <2>1. f = FrameOf(pool, o.enc, idr, poc) /\ p = Started(pool, f, o.enc)
    OBVIOUS
  <2>. HIDE DEF idr, poc, f, p
  <2>. QED  BY <2>1, <1>2, StartedOk
<1>4. Ahead(p, dpb)
  <2>1. f = FrameOf(pool, o.enc, idr, poc)
    OBVIOUS
  <2>. HIDE DEF idr, poc, f, p
  <2>. QED  BY <2>1, <1>3, StartedAhead DEF ReferencesFound
<1>5. CASE Start(o)
  <2>1. pool' = p /\ dpb' = dpb /\ delivered' = delivered
    BY <1>5 DEF Start
  <2>2. SameReferences'
    BY <2>1 DEF SameReferences
  <2>. HIDE DEF p
  <2>. QED  BY <2>1, <2>2, <1>4
<1>6. CASE StartAndWait(o)
  <2>. DEFINE s == Finished(p)
  <2>1. pool' = s /\ \E sent \in Streams : DeliverIf(sent, Head(p.flight))
    BY <1>6 DEF StartAndWait
  <2>. HIDE DEF f, p
  <2>2. PoolOk(p) /\ p.flight # <<>>
    <3>1. PoolOk(p) /\ p.flight = Append(pool.flight, f) /\ f \in Frame /\ pool.flight \in Seq(Frame)
      BY <1>3 DEF StartedFrom, PoolOk, Pool
    <3>. QED  BY <3>1
  <2>3. FinishedFrom(p, s)
    <3>1. s = Finished(p)
      OBVIOUS
    <3>. HIDE DEF s
    <3>. QED  BY <3>1, <2>2, FinishedOk
  <2>4. Deliver(Head(p.flight))
    BY <2>1 DEF Streams, DeliverIf
  <2>. HIDE DEF s
  <2>. QED  BY <2>1, <2>2, <2>3, <2>4, <1>4, FinishedAhead
<1>. QED  BY <1>1, <1>5, <1>6 DEF Encode

\* So does every call.
LEMMA AheadNext == IInv /\ AheadInv /\ ReferencesFound /\ [Next]_vars => AheadInv'
<1>. SUFFICES ASSUME IInv, AheadInv, ReferencesFound, [Next]_vars, setup'.lost = {}
              PROVE  Ahead(pool', dpb') /\ SameReferences'
  BY DEF AheadInv
<1>1. setup \in Setups /\ OrderOk(order) /\ PoolOk(pool)
  BY DEF IInv
<1>2. setup' = setup
  BY DEF Next, VCEncStrmEncode, VCEncFlush, vars
<1>3. setup.lost = {} /\ Ahead(pool, dpb) /\ SameReferences
  BY <1>2 DEF AheadInv
<1>4. ASSUME UNCHANGED <<pool, dpb, delivered>> PROVE Ahead(pool', dpb') /\ SameReferences'
  BY <1>3, <1>4 DEF SameReferences
<1>5. CASE VCEncStrmEncode
  <2>1. PICK idr \in BOOLEAN : Encode(Given(order, idr)) \/ Wait(Given(order, idr))
    BY <1>5 DEF VCEncStrmEncode
  <2>2. MidOk(Given(order, idr))
    BY <1>1, GivenOk
  <2>3. CASE Encode(Given(order, idr))
    BY <2>2, <2>3, <1>1, <1>3, EncodeAhead
  <2>4. CASE Wait(Given(order, idr))
    BY <2>4, <1>4 DEF Wait
  <2>. QED  BY <2>1, <2>3, <2>4
<1>6. CASE VCEncFlush
  <2>1. MidOk(Flushed(order))
    <3>1. order.submitted > 0
      BY <1>1, <1>6, FlushFollows DEF VCEncFlush
    <3>. QED  BY <3>1, <1>1, FlushedOk
  <2>2. CASE Encode(Flushed(order))
    BY <2>1, <2>2, <1>1, <1>3, EncodeAhead
  <2>3. CASE MultiCoreFlush(Flushed(order))
    <3>. DEFINE s == Finished(pool)
    <3>1. pool' = s /\ pool.flight # <<>> /\ Deliver(Head(pool.flight))
      BY <2>3, <1>3 DEF MultiCoreFlush, Streams, DeliverIf
    <3>2. FinishedFrom(pool, s)
      <4>1. s = Finished(pool)
        OBVIOUS
      <4>. HIDE DEF s
      <4>. QED  BY <4>1, <3>1, <1>1, FinishedOk
    <3>. HIDE DEF s
    <3>. QED  BY <3>1, <3>2, <1>1, <1>3, FinishedAhead
  <2>4. CASE Wait(Flushed(order))
    BY <2>4, <1>4 DEF Wait
  <2>. QED  BY <1>6, <2>2, <2>3, <2>4 DEF VCEncFlush
<1>7. CASE UNCHANGED vars
  BY <1>4, <1>7 DEF vars
<1>. QED  BY <1>5, <1>6, <1>7 DEF Next

\* An empty stream is in step.
LEMMA AheadInit == Init => AheadInv
<1>. SUFFICES ASSUME Init PROVE Ahead(pool, dpb) /\ SameReferences
  BY DEF AheadInv
<1>1. /\ pool = [pics |-> <<>>, store |-> <<>>, flight |-> <<>>]
      /\ delivered = [reads |-> <<>>, seen |-> <<>>]
  BY DEF Init
<1>2. DOMAIN pool.flight = {} /\ DOMAIN pool.pics = {}
  BY <1>1
<1>3. delivered.reads = <<>> /\ delivered.seen = <<>>
  BY <1>1
<1>. QED  BY <1>2, <1>3 DEF Ahead, References, SameReferences

\* For every number of cores, table of groups and interval of IDRs, the decoder has the pictures
\* each frame was predicted from, as long as nothing is discarded and a POC that get_picture
\* looks up finds a reference (sw_picture.c:43, sw_parameter_set.c:1529-1531).
THEOREM InStepWhereFound ==
    Spec /\ []ReferencesFound => [](setup.lost = {} => SameReferences)
<1>1. AheadInv => (setup.lost = {} => SameReferences)
  BY DEF AheadInv
<1>. QED  BY <1>1, AheadInit, AheadNext, InitOk, NextStepOk, PTL DEF Spec

\* The setups that code one IDR, the first picture: none is forced and none falls due.
OneIdr(s) == s.idrInterval = 0 /\ PicMax <= s.idrGap /\ s.lost = {}
\* Then a picture's POC is its count,
Numbered(e) == e.lastIdr = 0 /\ e.poc = e.cnt /\ (e.idr => e.cnt = 0)
Plain(o) ==
    /\ o.nextIdr \in {0, -1}
    /\ \A j \in o.jobs : ~j.idr /\ j.cnt < o.submitted
    /\ Numbered(o.enc) /\ (EncOk(o.last) => Numbered(o.last))
\* and no two pictures of the store, nor one that is to come, have the same.
Distinct(p, o) ==
    /\ \A k \in DOMAIN p.pics : p.pics[k].poc # -1 =>
          p.pics[k].poc < o.submitted /\ p.pics[k].poc \notin Waiting(o)
    /\ \A k, l \in DOMAIN p.pics : p.pics[k].poc = p.pics[l].poc /\ p.pics[k].poc # -1 => k = l

\* FindNextPic counts on.
LEMMA NextNumbered ==
    ASSUME NEW e, EncOk(e), Numbered(e), NEW size \in DOMAIN Gop, NEW nextIdr \in {0, -1},
           NEW lastPic \in Int, NEW r, r = FindNextPic(e, size, nextIdr, lastPic)
    PROVE  EncOk(r) /\ Numbered(r)
<1>1. EncOk(r)
  BY NextOk
<1>2. (IF nextIdr >= 0 THEN nextIdr - e.lastIdr ELSE 0) = 0
  BY DEF Numbered
<1>3. /\ ~r.idr /\ r.lastIdr = e.lastIdr
      /\ r.poc = e.poc + r.cnt - e.cnt
  BY <1>2 DEF FindNextPic
<1>4. r.cnt \in Int /\ e.cnt \in Int /\ e.poc \in Int
  BY <1>1 DEF EncOk, Enc
<1>. QED  BY <1>1, <1>3, <1>4 DEF Numbered

\* The application may force no IDR.
LEMMA NoneForced ==
    ASSUME PicMax \in Nat, setup \in Setups, OneIdr(setup), OrderOk(order), Plain(order), MayGive
    PROVE  ~MayForceIdr
<1>1. {order.enc.lastIdr} \cup {j.cnt : j \in {k \in order.jobs : k.idr}}
         \cup ({order.nextIdr} \cap 0 .. order.submitted) = {0}
  BY DEF Plain, Numbered
<1>2. Max({0}) = 0
  <2>1. Max({0, 0}) = 0
    BY MinMaxPair
  <2>2. {0, 0} = {0}
    OBVIOUS
  <2>. QED  BY <2>1, <2>2
<1>3. order.submitted \in Nat /\ order.submitted < PicMax /\ setup.idrGap \in Nat
  BY SetupsAssumption DEF MayGive, OrderOk, Order
<1>4. PicMax <= setup.idrGap
  BY DEF OneIdr
<1>5. MayForceIdr <=> order.submitted - 0 >= setup.idrGap
  BY <1>1, <1>2 DEF MayForceIdr
<1>. QED  BY <1>3, <1>4, <1>5

\* The picture that is given is a new one.
LEMMA GivenPlain ==
    ASSUME NEW o, OrderOk(o), Plain(o), NEW p, PoolOk(p), Distinct(p, o)
    PROVE  Plain(Given(o, FALSE)) /\ Distinct(p, Given(o, FALSE))
<1>. DEFINE job == [cnt |-> o.submitted, idr |-> FALSE]
            jobs == o.jobs \cup {job}
            q == [o EXCEPT !.jobs = jobs, !.submitted = o.submitted + 1]
<1>1. o \in Order /\ o.submitted \in Nat /\ \A j \in o.jobs : j.cnt \in Nat
  BY DEF OrderOk, Order
<1>2. Given(o, FALSE) = q
  <2>1. Enqueued(o, FALSE) = q
    BY <1>1 DEF Enqueued, Order
  <2>2. q.nextIdr = o.nextIdr
    BY <1>1 DEF Order
  <2>3. ~(q.nextIdr > 0)
    BY <2>2 DEF Plain
  <2>. HIDE DEF q
  <2>. QED  BY <2>1, <2>3 DEF Given, RefoundAtIdr
<1>3. /\ q.nextIdr = o.nextIdr /\ q.jobs = jobs /\ q.submitted = o.submitted + 1
      /\ q.enc = o.enc /\ q.last = o.last
  BY <1>1 DEF Order
<1>. HIDE DEF q
<1>4. \A j \in jobs : ~j.idr /\ j.cnt < o.submitted + 1
  <2>. TAKE j \in jobs
  <2>1. CASE j \in o.jobs
    <3>1. ~j.idr /\ j.cnt < o.submitted /\ j.cnt \in Nat
      BY <2>1, <1>1 DEF Plain
    <3>. QED  BY <3>1, <1>1
  <2>2. CASE j = job
    BY <2>2, <1>1
  <2>. QED  BY <2>1, <2>2
<1>5. Waiting(q) = Waiting(o) \cup {o.submitted}
  <2>1. job.cnt = o.submitted
    OBVIOUS
  <2>. HIDE DEF job
  <2>2. {j.cnt : j \in o.jobs \cup {job}} = {j.cnt : j \in o.jobs} \cup {job.cnt}
    OBVIOUS
  <2>. QED  BY <2>1, <2>2, <1>3 DEF Waiting
<1>6. \A k \in DOMAIN p.pics : p.pics[k].poc # -1 =>
         p.pics[k].poc < o.submitted + 1 /\ p.pics[k].poc \notin Waiting(q)
  <2>. SUFFICES ASSUME NEW k \in DOMAIN p.pics, NEW poc, poc = p.pics[k].poc, poc # -1
                PROVE  poc < o.submitted + 1 /\ poc \notin Waiting(q)
    OBVIOUS
  <2>1. poc \in Int
    <3>1. p.pics \in Seq(Picture)
      BY DEF PoolOk, Pool
    <3>2. p.pics[k] \in Picture
      BY <3>1
    <3>. QED  BY <3>2 DEF Picture
  <2>2. poc < o.submitted /\ poc \notin Waiting(o)
    BY DEF Distinct
  <2>3. poc < o.submitted + 1 /\ poc # o.submitted
    BY <2>1, <2>2, <1>1
  <2>. QED  BY <2>2, <2>3, <1>5
<1>. QED  BY <1>2, <1>3, <1>4, <1>6 DEF Plain, Distinct

\* A flush gives none.
LEMMA FlushedPlain ==
    ASSUME NEW o, OrderOk(o), o.submitted > 0, Plain(o), NEW p, Distinct(p, o)
    PROVE  Plain(Flushed(o)) /\ Distinct(p, Flushed(o))
<1>. DEFINE q == [o EXCEPT !.flushing = TRUE]
            ended == [q EXCEPT !.lastPic = q.submitted - 1]
            r == FindNext(ended, q.last)
<1>1. o \in Order /\ EncOk(o.enc) /\ EncOk(o.last) /\ o.submitted \in Nat
  BY DEF OrderOk, Order
<1>2. /\ q \in Order /\ q.enc = o.enc /\ q.last = o.last /\ q.jobs = o.jobs
      /\ q.submitted = o.submitted /\ q.nextIdr = o.nextIdr
  BY <1>1 DEF Order
<1>3. /\ ended \in Order /\ ended.jobs = o.jobs /\ ended.last = o.last
      /\ ended.submitted = o.submitted /\ ended.nextIdr = o.nextIdr
      /\ ended.size \in DOMAIN Gop /\ ended.lastPic \in Int
  <2>. HIDE DEF q
  <2>. QED  BY <1>1, <1>2 DEF Order
<1>4. Flushed(o) = IF q.lastPic + 1 <= q.submitted THEN q ELSE Refound(ended)
  BY DEF Flushed, RefoundAtEnd
<1>. HIDE DEF q, ended
<1>5. EncOk(r) /\ Numbered(r)
  <2>1. Numbered(q.last) /\ EncOk(q.last) /\ ended.nextIdr \in {0, -1}
    BY <1>1, <1>2, <1>3 DEF Plain
  <2>2. r = FindNextPic(q.last, ended.size, ended.nextIdr, ended.lastPic)
    BY DEF FindNext
  <2>. HIDE DEF r
  <2>. QED  BY <2>1, <2>2, <1>3, NextNumbered
<1>. HIDE DEF r
<1>6. /\ Flushed(o).jobs = o.jobs /\ Flushed(o).submitted = o.submitted
      /\ Flushed(o).nextIdr = o.nextIdr /\ Flushed(o).last = o.last
      /\ Flushed(o).enc \in {o.enc, r}
  BY <1>2, <1>3, <1>4, RefoundIs DEF r
<1>7. Numbered(Flushed(o).enc)
  BY <1>5, <1>6 DEF Plain
<1>8. Waiting(Flushed(o)) = Waiting(o)
  BY <1>6 DEF Waiting
<1>. QED  BY <1>6, <1>7, <1>8 DEF Plain, Distinct

\* The job that is taken waits no longer, and the picture after it is numbered on.
LEMMA TakenPlain ==
    ASSUME setup \in Setups, OneIdr(setup), NEW o, MidOk(o), Plain(o), HasJob(o),
           NEW size \in NextSizes(o), NEW n, n = Advanced(Taken(o), size)
    PROVE  /\ Plain(n) /\ n.submitted = o.submitted /\ Waiting(n) = Waiting(o) \ {o.enc.cnt}
           /\ JobPoc(o) = o.enc.cnt /\ o.enc.cnt \in Waiting(o) /\ o.enc.cnt < o.submitted
           /\ o.enc.cnt \in Nat
<1>. DEFINE t == Taken(o)
            rest == o.jobs \ {NextJob(o)}
<1>1. /\ o \in Order /\ EncOk(o.enc) /\ o.jobs \in SUBSET [cnt : Nat, idr : BOOLEAN]
      /\ o.submitted \in Nat /\ size \in DOMAIN Gop
  <2>1. o \in Order /\ EncOk(o.enc) /\ o.size \in DOMAIN Gop
    BY DEF MidOk, Order
  <2>2. size \in DOMAIN Gop
    BY <2>1, SetupsAssumption DEF NextSizes
  <2>. QED  BY <2>1, <2>2 DEF Order
<1>2. NextJob(o) \in o.jobs /\ NextJob(o).cnt = o.enc.cnt
  BY DEF HasJob, Waiting, NextJob
<1>3. \A j \in o.jobs : j.cnt = o.enc.cnt => j = NextJob(o)
  <2>. SUFFICES ASSUME NEW j \in o.jobs, j.cnt = o.enc.cnt PROVE j = NextJob(o)
    OBVIOUS
  <2>1. j \in [cnt : Nat, idr : BOOLEAN] /\ NextJob(o) \in [cnt : Nat, idr : BOOLEAN]
    BY <1>1, <1>2
  <2>2. ~j.idr /\ ~NextJob(o).idr
    BY <1>2 DEF Plain
  <2>. QED  BY <2>1, <2>2, <1>2
<1>4. o.enc.cnt \in Waiting(o) /\ o.enc.cnt < o.submitted /\ o.enc.cnt \in Nat
  BY <1>1, <1>2 DEF HasJob, Plain
<1>5. JobPoc(o) = o.enc.cnt
  <2>1. ~NextJob(o).idr
    BY <1>2 DEF Plain
  <2>. QED  BY <2>1 DEF JobPoc, IsIdr, Plain, Numbered
<1>6. /\ t \in Order /\ t.enc = o.enc /\ t.jobs = rest /\ t.submitted = o.submitted
      /\ t.nextIdr \in {0, -1}
  <2>1. t \in Order /\ t.enc = o.enc
    BY TakenOk
  <2>. DEFINE forced == {j.cnt : j \in {k \in rest : k.idr}}
              usual == IF setup.idrInterval > 0 THEN o.nextIdr + setup.idrInterval ELSE -1
              next == IF forced = {} THEN -1 ELSE Min(forced)
              found == IF next > o.nextIdr /\ (usual < 0 \/ next < usual) THEN next ELSE usual
              idr == IF IsIdr(o) /\ o.nextIdr <= o.enc.cnt THEN found ELSE o.nextIdr
  <2>2. t = [o EXCEPT !.jobs = rest, !.nextIdr = idr]
    BY DEF Taken
  <2>3. forced = {}
    BY DEF Plain
  <2>4. usual = -1
    BY DEF OneIdr
  <2>. HIDE DEF forced, usual
  <2>5. found \in {-1}
    BY <2>3, <2>4
  <2>. HIDE DEF found
  <2>6. idr \in {0, -1}
    BY <2>5 DEF Plain
  <2>. HIDE DEF idr, rest, t
  <2>. QED  BY <2>1, <2>2, <2>6, <1>1 DEF Order
<1>7. \A j \in rest : ~j.idr /\ j.cnt < o.submitted
  BY DEF Plain
<1>8. {j.cnt : j \in rest} = Waiting(o) \ {o.enc.cnt}
  BY <1>2, <1>3 DEF Waiting
<1>. HIDE DEF t, rest
<1>. DEFINE sized == [t EXCEPT !.size = size, !.last = t.enc]
            r == FindNext(sized, t.enc)
<1>9. /\ sized.size = size /\ sized.last = o.enc /\ sized.jobs = rest
      /\ sized.submitted = o.submitted /\ sized.nextIdr = t.nextIdr /\ sized.lastPic \in Int
      /\ DOMAIN sized = DOMAIN t /\ "enc" \in DOMAIN t
  BY <1>6 DEF Order
<1>10. n = [sized EXCEPT !.enc = r]
  BY DEF Advanced, t
<1>. HIDE DEF sized
<1>11. EncOk(r) /\ Numbered(r)
  <2>1. r = FindNextPic(o.enc, sized.size, sized.nextIdr, sized.lastPic)
    BY <1>6 DEF FindNext
  <2>2. Numbered(o.enc)
    BY DEF Plain
  <2>. HIDE DEF r
  <2>. QED  BY <2>1, <2>2, <1>1, <1>6, <1>9, NextNumbered
<1>. HIDE DEF r
<1>12. /\ n.enc = r /\ n.last = o.enc /\ n.jobs = rest /\ n.submitted = o.submitted
       /\ n.nextIdr \in {0, -1}
  BY <1>6, <1>9, <1>10 DEF Order
<1>13. Waiting(n) = Waiting(o) \ {o.enc.cnt}
  BY <1>8, <1>12 DEF Waiting
<1>14. Plain(n)
  BY <1>7, <1>11, <1>12 DEF Plain
<1>. QED  BY <1>4, <1>5, <1>12, <1>13, <1>14

\* A frame that is started brings no POC that was there.
LEMMA StartedDistinct ==
    ASSUME NEW p, PoolOk(p), NEW f, NEW s, StartedFrom(p, f, s), NEW o, Distinct(p, o),
           NEW n, Waiting(n) = Waiting(o) \ {f.poc}, n.submitted = o.submitted,
           f.poc \in Waiting(o), f.poc < o.submitted
    PROVE  Distinct(s, n)
<1>. DEFINE m == Marked(p, f.rps)
<1>1. /\ f.rps \subseteq Held(p) /\ DOMAIN s.pics = DOMAIN p.pics \cup {f.pic}
      /\ s.pics[f.pic].poc = f.poc
      /\ \A k \in DOMAIN p.pics \ {f.pic} : s.pics[k].poc = m.pics[k].poc
  BY DEF StartedFrom
<1>2. \A k \in DOMAIN p.pics : m.pics[k].poc \in {-1, p.pics[k].poc}
  BY <1>1, MarkedOk
<1>3. \A k \in DOMAIN s.pics \ {f.pic} :
         k \in DOMAIN p.pics /\ s.pics[k].poc \in {-1, p.pics[k].poc}
  BY <1>1, <1>2
<1>. HIDE DEF m
<1>4. ASSUME NEW k \in DOMAIN s.pics, s.pics[k].poc # -1
      PROVE  s.pics[k].poc < n.submitted /\ s.pics[k].poc \notin Waiting(n)
  <2>1. CASE k = f.pic
    BY <2>1, <1>1
  <2>2. CASE k # f.pic
    BY <2>2, <1>3, <1>4 DEF Distinct
  <2>. QED  BY <2>1, <2>2
<1>5. ASSUME NEW k \in DOMAIN s.pics, NEW l \in DOMAIN s.pics,
             s.pics[k].poc = s.pics[l].poc, s.pics[k].poc # -1
      PROVE  k = l
  <2>1. \A r \in DOMAIN s.pics \ {f.pic} : s.pics[r].poc # -1 => s.pics[r].poc # f.poc
    BY <1>3 DEF Distinct
  <2>2. CASE k = f.pic \/ l = f.pic
    BY <2>1, <2>2, <1>1, <1>5
  <2>3. CASE k # f.pic /\ l # f.pic
    BY <2>3, <1>3, <1>5 DEF Distinct
  <2>. QED  BY <2>2, <2>3
<1>. QED  BY <1>4, <1>5 DEF Distinct

\* Nor does one that is done.
LEMMA FinishedDistinct ==
    ASSUME NEW p, NEW s, FinishedFrom(p, s), NEW o, Distinct(p, o)
    PROVE  Distinct(s, o)
BY DEF FinishedFrom, Distinct

\* So the POC of a reference finds that reference.
LEMMA DistinctFound ==
    ASSUME NEW p, PoolOk(p), NEW o, Distinct(p, o)
    PROVE  AllFound(p)
<1>. SUFFICES ASSUME NEW k \in References(p) PROVE GetPicture(p, p.pics[k].poc) \in References(p)
  BY DEF AllFound, Held
<1>1. k \in DOMAIN p.pics /\ p.pics[k].poc # -1
  BY DEF References, PoolOk, ReferencesNamed
<1>. DEFINE r == GetPicture(p, p.pics[k].poc)
<1>2. r \in DOMAIN p.pics /\ p.pics[r].poc = p.pics[k].poc
  <2>1. r \in WithPoc(p, p.pics[k].poc)
    BY <1>1, GetPictureOk DEF PoolOk
  <2>. QED  BY <2>1 DEF WithPoc
<1>. HIDE DEF r
<1>3. r = k
  BY <1>1, <1>2 DEF Distinct
<1>. QED  BY <1>3 DEF r

OneIdrInv == OneIdr(setup) => Plain(order) /\ Distinct(pool, order)

\* A call that codes a picture keeps the POCs apart.
LEMMA EncodeDistinct ==
    ASSUME setup \in Setups, OneIdr(setup), PoolOk(pool), NEW o, MidOk(o), Plain(o),
           Distinct(pool, o), Encode(o)
    PROVE  Plain(order') /\ Distinct(pool', order')
<1>. DEFINE idr == IsIdr(o)
            poc == JobPoc(o)
            f == FrameOf(pool, o.enc, idr, poc)
            p == Started(pool, f, o.enc)
<1>1. HasJob(o) /\ ~Skip(o)
  BY DEF Encode, Skip, MaySkip, Start, StartAndWait, OneIdr
<1>2. EncOk(o.enc) /\ idr \in BOOLEAN /\ poc \in Nat
  BY <1>1, JobOk DEF MidOk
<1>3. StartedFrom(pool, f, p) /\ f.poc = poc
  <2>1. f = FrameOf(pool, o.enc, idr, poc) /\ p = Started(pool, f, o.enc)
    OBVIOUS
  <2>2. f.poc = poc
    BY DEF FrameOf
  <2>. HIDE DEF idr, poc, f, p
  <2>. QED  BY <2>1, <2>2, <1>2, StartedOk
<1>4. PICK size \in NextSizes(o) : order' = Advanced(Taken(o), size)
  BY <1>1 DEF Encode, Start, StartAndWait, Streams, OneIdr
<1>5. /\ Plain(order') /\ order'.submitted = o.submitted /\ Waiting(order') = Waiting(o) \ {o.enc.cnt}
      /\ poc = o.enc.cnt /\ o.enc.cnt \in Waiting(o) /\ o.enc.cnt < o.submitted
  <2>. HIDE DEF idr, f, p
  <2>. QED  BY <1>1, <1>4, TakenPlain
<1>6. Distinct(p, order')
  <2>. HIDE DEF idr, poc, f, p
  <2>. QED  BY <1>3, <1>5, StartedDistinct
<1>7. CASE Start(o)
  <2>1. pool' = p
    BY <1>7 DEF Start
  <2>. HIDE DEF p
  <2>. QED  BY <2>1, <1>5, <1>6
<1>8. CASE StartAndWait(o)
  <2>. DEFINE s == Finished(p)
  <2>1. pool' = s
    BY <1>8 DEF StartAndWait
  <2>. HIDE DEF f, p
  <2>2. PoolOk(p) /\ p.flight # <<>>
    <3>1. PoolOk(p) /\ p.flight = Append(pool.flight, f) /\ f \in Frame /\ pool.flight \in Seq(Frame)
      BY <1>3 DEF StartedFrom, PoolOk, Pool
    <3>. QED  BY <3>1
  <2>3. FinishedFrom(p, s)
    <3>1. s = Finished(p)
      OBVIOUS
    <3>. HIDE DEF s
    <3>. QED  BY <3>1, <2>2, FinishedOk
  <2>. HIDE DEF s
  <2>. QED  BY <2>1, <2>3, <1>5, <1>6, FinishedDistinct
<1>. QED  BY <1>1, <1>7, <1>8 DEF Encode

\* So does every call.
LEMMA OneIdrNext == PicMax \in Nat => (IInv /\ OneIdrInv /\ [Next]_vars => OneIdrInv')
<1>. SUFFICES ASSUME PicMax \in Nat, IInv, OneIdrInv, [Next]_vars, OneIdr(setup')
              PROVE  Plain(order') /\ Distinct(pool', order')
  BY DEF OneIdrInv
<1>1. setup \in Setups /\ OrderOk(order) /\ PoolOk(pool)
  BY DEF IInv
<1>2. setup' = setup
  BY DEF Next, VCEncStrmEncode, VCEncFlush, vars
<1>3. OneIdr(setup) /\ Plain(order) /\ Distinct(pool, order)
  BY <1>2 DEF OneIdrInv
<1>4. CASE VCEncStrmEncode
  <2>1. Encode(Given(order, FALSE)) \/ Wait(Given(order, FALSE))
    BY <1>1, <1>3, <1>4, NoneForced DEF VCEncStrmEncode
  <2>2. MidOk(Given(order, FALSE)) /\ Plain(Given(order, FALSE)) /\ Distinct(pool, Given(order, FALSE))
    BY <1>1, <1>3, GivenOk, GivenPlain
  <2>3. CASE Encode(Given(order, FALSE))
    BY <2>2, <2>3, <1>1, <1>3, EncodeDistinct
  <2>4. CASE Wait(Given(order, FALSE))
    BY <2>2, <2>4 DEF Wait
  <2>. QED  BY <2>1, <2>3, <2>4
<1>5. CASE VCEncFlush
  <2>1. order.submitted > 0
    BY <1>1, <1>5, FlushFollows DEF VCEncFlush
  <2>2. MidOk(Flushed(order)) /\ Plain(Flushed(order)) /\ Distinct(pool, Flushed(order))
    BY <2>1, <1>1, <1>3, FlushedOk, FlushedPlain
  <2>3. CASE Encode(Flushed(order))
    BY <2>2, <2>3, <1>1, <1>3, EncodeDistinct
  <2>4. CASE MultiCoreFlush(Flushed(order))
    <3>. DEFINE s == Finished(pool)
    <3>1. pool' = s /\ pool.flight # <<>> /\ order' = Flushed(order)
      BY <2>4 DEF MultiCoreFlush
    <3>2. FinishedFrom(pool, s)
      <4>1. s = Finished(pool)
        OBVIOUS
      <4>. HIDE DEF s
      <4>. QED  BY <4>1, <3>1, <1>1, FinishedOk
    <3>. HIDE DEF s
    <3>. QED  BY <3>1, <3>2, <2>2, FinishedDistinct
  <2>5. CASE Wait(Flushed(order))
    BY <2>2, <2>5 DEF Wait
  <2>. QED  BY <1>5, <2>3, <2>4, <2>5 DEF VCEncFlush
<1>6. CASE UNCHANGED vars
  BY <1>3, <1>6 DEF vars
<1>. QED  BY <1>4, <1>5, <1>6 DEF Next

\* At the start there are none.
LEMMA OneIdrInit == Init => OneIdrInv
<1>. SUFFICES ASSUME Init PROVE Plain(order) /\ Distinct(pool, order)
  BY DEF OneIdrInv
<1>. DEFINE size == IF Cardinality(setup.sizes) = 1 THEN CHOOSE n \in setup.sizes : TRUE ELSE 1
<1>1. order = [enc |-> FirstPicture(size), last |-> NoPicture, size |-> size,
               nextIdr |-> 0, jobs |-> {}, submitted |-> 0,
               lastPic |-> setup.lastPic, flushing |-> FALSE, astray |-> FALSE]
  BY DEF Init, OrderInit
<1>. HIDE DEF size
<1>2. /\ FirstPicture(size).lastIdr = 0 /\ FirstPicture(size).poc = 0 /\ FirstPicture(size).cnt = 0
      /\ NoPicture.poc = -1 /\ NoPicture.idr
  BY DEF FirstPicture, NoPicture
<1>3. ~EncOk(NoPicture)
  BY <1>2 DEF EncOk
<1>4. DOMAIN pool.pics = {}
  BY DEF Init
<1>. QED  BY <1>1, <1>2, <1>3, <1>4 DEF Plain, Numbered, Distinct

\* So with one IDR every POC finds its reference.
LEMMA OneIdrFound == IInv /\ OneIdrInv => (OneIdr(setup) => ReferencesFound)
BY DistinctFound DEF IInv, OneIdrInv, ReferencesFound

\* Where the stream has one IDR and nothing is discarded, the decoder has what each frame was
\* predicted from, with any number of cores and any table of groups.
THEOREM OneIdrInStep ==
    ASSUME PicMax \in Nat
    PROVE  Spec => [](OneIdr(setup) => SameReferences)
<1>. DEFINE Inv == OneIdr(setup) => Ahead(pool, dpb) /\ SameReferences
<1>1. Init => Inv
  BY AheadInit DEF AheadInv, OneIdr
<1>2. IInv /\ OneIdrInv /\ Inv /\ [Next]_vars => Inv'
  <2>. SUFFICES ASSUME IInv, OneIdrInv, Inv, [Next]_vars, OneIdr(setup)'
                PROVE  Ahead(pool', dpb') /\ SameReferences'
    OBVIOUS
  <2>1. setup' = setup
    BY DEF Next, VCEncStrmEncode, VCEncFlush, vars
  <2>2. OneIdr(setup) /\ setup'.lost = {}
    BY <2>1 DEF OneIdr
  <2>3. AheadInv /\ ReferencesFound
    BY <2>2, OneIdrFound DEF AheadInv
  <2>4. AheadInv'
    BY <2>3, AheadNext
  <2>. QED  BY <2>2, <2>4 DEF AheadInv
<1>3. Inv => (OneIdr(setup) => SameReferences)
  OBVIOUS
<1>4. IInv /\ OneIdrInv /\ [Next]_vars => OneIdrInv'
  BY OneIdrNext
<1>. HIDE DEF Inv
<1>. QED  BY <1>1, <1>2, <1>3, <1>4, OneIdrInit, InitOk, NextStepOk, PTL DEF Spec

\* And the picture memory is enough.
THEOREM EnoughForOneIdr ==
    ASSUME AmountAssumed, PicMax \in Nat
    PROVE  Spec => [](OneIdr(setup) => BuffersSuffice)
<1>. DEFINE Inv == OneIdr(setup) => StoreInv
<1>1. Init => Inv
  BY StoreInit
<1>2. IInv /\ OneIdrInv /\ Inv /\ [Next]_vars => Inv'
  <2>. SUFFICES ASSUME IInv, OneIdrInv, Inv, [Next]_vars, OneIdr(setup)'
                PROVE  StoreInv'
    OBVIOUS
  <2>1. setup' = setup
    BY DEF Next, VCEncStrmEncode, VCEncFlush, vars
  <2>2. OneIdr(setup)
    BY <2>1 DEF OneIdr
  <2>3. StoreInv /\ FoundHeld
    BY <2>2, OneIdrFound DEF ReferencesFound, FoundHeld, FindsHeld, AllFound
  <2>. QED  BY <2>3, StoreNext
<1>3. Inv => (OneIdr(setup) => BuffersSuffice)
  BY DEF StoreInv
<1>4. IInv /\ OneIdrInv /\ [Next]_vars => OneIdrInv'
  BY OneIdrNext
<1>. HIDE DEF Inv
<1>. QED  BY <1>1, <1>2, <1>3, <1>4, OneIdrInit, InitOk, NextStepOk, PTL DEF Spec

\* With one core nothing else is needed.
THEOREM EnoughForOneCore ==
    ASSUME AmountAssumed
    PROVE  Spec => [](setup.cores = 1 => BuffersSuffice)
<1>. DEFINE Inv == setup.cores = 1 => StoreInv
<1>1. Init => Inv
  BY StoreInit
<1>2. IInv /\ Inv /\ [Next]_vars => Inv'
  <2>. SUFFICES ASSUME IInv, Inv, [Next]_vars, setup'.cores = 1
                PROVE  StoreInv'
    OBVIOUS
  <2>1. setup' = setup
    BY DEF Next, VCEncStrmEncode, VCEncFlush, vars
  <2>2. setup.cores = 1 /\ StoreInv /\ pool.flight \in Seq(Frame)
    BY <2>1 DEF IInv, PoolOk, Pool
  <2>3. Len(pool.flight) \in Nat /\ Len(pool.flight) <= 0
    BY <2>2 DEF StoreInv
  <2>4. pool.flight = <<>>
    BY <2>2, <2>3
  <2>5. FoundHeld
    BY <2>4 DEF FoundHeld, FindsHeld
  <2>. QED  BY <2>2, <2>5, StoreNext
<1>3. Inv => (setup.cores = 1 => BuffersSuffice)
  BY DEF StoreInv
<1>. HIDE DEF Inv
<1>. QED  BY <1>1, <1>2, <1>3, InitOk, NextStepOk, PTL DEF Spec
=============================================================================
