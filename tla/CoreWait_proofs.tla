---------------------------- MODULE CoreWait_proofs ----------------------------
(********************************************************************************)
(* Every core serves its own frame, is reset only after its frame ended, and    *)
(* every frame in flight is accounted for and answered by its own core, for any *)
(* number of cores, instances and frames in flight; a caller with at most two   *)
(* frames in flight waits for the oldest.  The invariant lasts until VCEncClear *)
(* takes the report of a slice for the last one of its frame, which only an     *)
(* instance with slices and several frames in flight can meet.                  *)
(********************************************************************************)
EXTENDS CoreWait, FiniteSetTheorems, SequenceTheorems, TLAPS

Lent(i) == pc[i] = "lent"
Holding(i) == pc[i] \in {"reserved", "started"}
Submitting(i) == Lent(i) \/ Holding(i)
Open(i) == pc[i] \notin {"none", "released", "closed"}
Walking == at \in {"visit", "finish", "give", "move"}

\* A core in use belongs to a job the thread waits for or to the frame being submitted, and a
\* job that waits has the core it was left with until that is given back.
WorkersUsed ==
    \A i \in Inst : \A n \in DOMAIN workers[i] :
        \/ \E j \in jobs : j.inst = i /\ j.core = workers[i][n] /\ owner[j.core] = j.id
        \/ Holding(i) /\ n = Len(workers[i])
JobsHaveCores ==
    \A j \in jobs :
        \/ at \in {"give", "move"} /\ j = job
        \/ /\ owner[j.core] = j.id
           /\ \E n \in DOMAIN workers[j.inst] : workers[j.inst][n] = j.core
CoreInv == CoresAccounted /\ OwnCore /\ WorkersUsed /\ JobsHaveCores

\* The walk of the thread over its jobs.
WalkInv ==
    /\ Walking \/ todo = {}
    /\ at \in {"finish", "give", "move"} => job \in jobs \ todo
    /\ at \in {"finish", "give"} => owner[job.core] = job.id
    /\ at = "move" => \A c \in Core : owner[c] # job.id
    /\ \A j, k \in jobs : j.id = k.id => j = k
    /\ at = "finish" => waitError \/ waitOut[job.id] # "none"
    /\ at \in {"give", "move"} => Answer \in Final

\* Job numbers are given once.
IdInv ==
    /\ \A c \in Core : owner[c] < nextJob
    /\ \A c, d \in Core : owner[c] = owner[d] /\ owner[c] # NoJob => c = d
    /\ \A i \in Inst : /\ cur[i] < nextJob
                       /\ \A id \in flight[i] : id < nextJob
                       /\ Submitting(i) => cur[i] # NoJob
    /\ \A i, k \in Inst : /\ Submitting(i) => cur[i] \notin flight[k]
                          /\ Submitting(i) /\ Submitting(k) /\ i # k => cur[i] # cur[k]
                          /\ i # k => flight[i] \cap flight[k] = {}
    /\ \A id \in JobId : id >= nextJob => pending[id] = "none" /\ waitOut[id] = "none"

\* Where the frames in flight are, and what the ring of an instance can name.
JobsWaiting == \A j \in jobs : /\ j.id \in flight[j.inst]
                               /\ \A k \in DOMAIN out[j.id] : out[j.id][k] \notin Final
FlightPlaced == \A i \in Inst : \A id \in flight[i] :
                   \/ \E j \in jobs : j.id = id
                   \/ out[id] # <<>> /\ Last(out[id]) \in Final
AnswersAsked == \A id \in JobId : out[id] # <<>> => \E i \in Inst : id \in flight[i]
RingInv == \A i, k \in Inst : \A n \in 0 .. ParallelCoreNum[i] - 1 :
              /\ i # k => waitJobid[i][n] \notin flight[k]
              /\ Submitting(k) => waitJobid[i][n] # cur[k]
              /\ waitJobid[i][n] < nextJob
FrameInv == JobsWaiting /\ FlightPlaced /\ AnswersAsked /\ RingInv

\* The last report is the last.
LastInv == \A id \in JobId : \A k \in DOMAIN out[id] : out[id][k] \in Final => k = Len(out[id])

\* How many frames are in flight, and who may have any.
CountInv ==
    /\ \A i \in Inst : /\ IsFiniteSet(flight[i]) /\ Cardinality(flight[i]) = reservedCore[i]
                       /\ pc[i] \notin {"search", "asleep"} => reservedCore[i] < ParallelCoreNum[i]
                       /\ pc[i] \in {"none", "cleared", "released", "closed"} => reservedCore[i] = 0
                       /\ call[i] = "clear" => ParallelCoreNum[i] > 1
    /\ referCounter = Cardinality({i \in Inst : Open(i)})
    /\ bFlush => \A i \in Inst : ~Open(i)
    /\ at = "ended" => bFlush

\* Slices are told to those who asked for them.
Uses(i, id) == id \in flight[i] \/ (Submitting(i) /\ cur[i] = id)
SliceInv ==
    \A i \in Inst : \A id \in JobId :
        /\ Uses(i, id) /\ (pending[id] = "slice" \/ waitOut[id] = "slice") => i \in Sliced
        /\ id \in flight[i] /\ (\E k \in DOMAIN out[id] : out[id][k] = "slice") => i \in Sliced

\* The instances VCEncClear may give up too early: told of slices, with several frames in flight.
CutBySlices == \E i \in Sliced : ParallelCoreNum[i] > 1

\* All of this, until VCEncClear takes the report of a slice for the last one of its frame.
IInv == /\ ~cutShort /\ TypeInv /\ CoreInv /\ WalkInv /\ IdInv /\ FrameInv /\ LastInv
        /\ CountInv /\ SliceInv

-----------------------------------------------------------------------------
(* Types, variable by variable *)

TypeQueues == /\ referCounter \in Nat /\ bFlush \in BOOLEAN
              /\ jobs \subseteq Job /\ todo \subseteq jobs
              /\ out \in [JobId -> Seq(Final \cup {"slice"})]
TypeThread ==
    /\ at \in {"none", "dequeue", "asleep", "lock", "visit", "finish", "give", "move", "ended"}
    /\ job \in Job \cup {NoOne} /\ (at \in {"finish", "give", "move"} <=> job # NoOne)
    /\ waitError \in BOOLEAN /\ hasOutput \in BOOLEAN
TypeTold == /\ waitOut \in [JobId -> Status] /\ pending \in [JobId -> Status]
            /\ verdict \in [JobId -> Status]
TypeCaller ==
    /\ pc \in [Inst -> {"none", "idle", "reserving", "lent", "reserved", "started", "search",
                        "asleep", "cleared", "released", "closed"}]
    /\ call \in [Inst -> {"none", "encode", "flush", "clear"}]
    /\ cur \in [Inst -> JobId \cup {NoJob}]
TypeRing ==
    /\ DOMAIN waitJobid = Inst /\ flight \in [Inst -> SUBSET JobId]
    /\ jobCnt \in [Inst -> Nat] /\ reservedCore \in [Inst -> Nat]
    /\ \A i \in Inst : /\ waitJobid[i] \in [0 .. ParallelCoreNum[i] - 1 -> JobId \cup {NoJob}]
                       /\ jobCnt[i] < ParallelCoreNum[i] /\ reservedCore[i] <= ParallelCoreNum[i]
TypeCores == /\ workers \in [Inst -> Seq(Core)] /\ owner \in [Core -> JobId \cup {NoJob}]
             /\ running \subseteq Core /\ nextJob \in 1 .. JobMax + 1
             /\ reg \in [Inst -> Core \cup {NoCore}]
             /\ cutShort \in BOOLEAN /\ gone \in BOOLEAN

LEMMA TypeParts ==
    TypeInv <=> /\ TypeQueues /\ TypeThread /\ TypeTold
                /\ TypeCaller /\ TypeRing /\ TypeCores
BY DEF TypeInv, TypeQueues, TypeThread, TypeTold, TypeCaller, TypeRing, TypeCores

LEMMA TypePartsNext ==
    TypeQueues' /\ TypeThread' /\ TypeTold' /\ TypeCaller' /\ TypeRing' /\ TypeCores' => TypeInv'
BY DEF TypeInv, TypeQueues, TypeThread, TypeTold, TypeCaller, TypeRing, TypeCores

\* The three parts of CoresAccounted: no core is used twice, what is lent is used or on its way,
\* and what the registers say of a core just lent.
Used(c) == \E i \in Inst : \E n \in DOMAIN workers[i] : workers[i][n] = c
CoresOnce == \A i, k \in Inst : \A m \in DOMAIN workers[i], n \in DOMAIN workers[k] :
                workers[i][m] = workers[k][n] => i = k /\ m = n
CoresUsed == \A c \in Core : /\ owner[c] # NoJob <=> Used(c) \/ OnItsWayBack(c) \/ OnItsWayOut(c)
                             /\ ~(Used(c) /\ OnItsWayBack(c))
                             /\ ~(Used(c) /\ OnItsWayOut(c))
                             /\ ~(OnItsWayBack(c) /\ OnItsWayOut(c))
CoresNoted == \A i \in Inst : Lent(i) => \/ reg[i] \in Core /\ owner[reg[i]] = cur[i]
                                         \/ reg[i] = NoCore /\ ParallelCoreNum[i] > 1

LEMMA CoresParts == ~cutShort => (CoresAccounted <=> CoresOnce /\ CoresUsed /\ CoresNoted)
BY DEF CoresAccounted, CoresOnce, CoresUsed, CoresNoted, Used, Lent

LEMMA CoresPartsNext ==
    ~cutShort' /\ CoresOnce' /\ CoresUsed' /\ CoresNoted' => CoresAccounted'
BY DEF CoresAccounted, CoresOnce, CoresUsed, CoresNoted, Used, Lent

\* The two parts of OwnCore: the end of the list the caller uses, and the one the thread uses.
OwnLast == \A i \in Inst : Holding(i) => workers[i] # <<>> /\ owner[LAST_CORE(i)] = cur[i]
OwnFirst == at = "finish" => /\ workers[job.inst] # <<>> /\ FIRST_CORE(job.inst) = job.core
                             /\ owner[job.core] = job.id

LEMMA OwnParts == ~cutShort => (OwnCore <=> OwnLast /\ OwnFirst)
BY DEF OwnCore, OwnLast, OwnFirst, Holding

LEMMA OwnPartsNext == ~cutShort' /\ OwnLast' /\ OwnFirst' => OwnCore'
BY DEF OwnCore, OwnLast, OwnFirst, Holding

LEMMA Sizes == JobMax \in Nat \ {0} /\ \A i \in Inst : ParallelCoreNum[i] \in Nat \ {0}
BY BoundsAssumption

\* The next index of a ring is one of its indices.
LEMMA NextIndexType ==
    ASSUME TypeRing, NEW i \in Inst PROVE NextIndex(i) \in 0 .. ParallelCoreNum[i] - 1
<1>1. ParallelCoreNum[i] \in Nat \ {0} /\ jobCnt[i] \in Nat
  BY Sizes DEF TypeRing
<1> QED
  BY <1>1 DEF NextIndex

\* Which instances are open is what referCounter counts.
LEMMA OpenCounted ==
    ASSUME CountInv
    PROVE  /\ referCounter \in Nat
           /\ referCounter = 0 <=> \A i \in Inst : ~Open(i)
           /\ \A i \in Inst : referCounter = 1 /\ Open(i) => \A k \in Inst \ {i} : ~Open(k)
<1> DEFINE S == {i \in Inst : Open(i)}
<1>1. IsFiniteSet(S) /\ referCounter = Cardinality(S)
  BY BoundsAssumption, FS_Subset DEF CountInv
<1> HIDE DEF S
<1>2. referCounter \in Nat /\ (referCounter = 0 <=> S = {})
  BY <1>1, FS_CardinalityType, FS_EmptySet
<1>3. ASSUME NEW i \in Inst, referCounter = 1, Open(i) PROVE \A k \in Inst \ {i} : ~Open(k)
  <2>1. i \in S
    BY <1>3 DEF S
  <2>2. IsFiniteSet(S \ {i}) /\ Cardinality(S \ {i}) = Cardinality(S) - 1
    BY <1>1, <2>1, FS_RemoveElement
  <2>3. Cardinality(S \ {i}) = 0
    BY <1>1, <1>3, <2>2
  <2>4. S \ {i} = {}
    BY <2>2, <2>3, FS_EmptySet
  <2> QED
    BY <2>4 DEF S
<1> QED
  BY <1>2, <1>3 DEF S

-----------------------------------------------------------------------------
(* Facts about a state *)

\* A frame in flight is in one place of its own instance; without frames in flight an
\* instance has no jobs, no answers and no cores.
LEMMA NothingLeft ==
    ASSUME IInv, NEW i \in Inst, reservedCore[i] = 0
    PROVE  /\ flight[i] = {} /\ (\A j \in jobs : j.inst # i)
           /\ ~Submitting(i) => workers[i] = <<>>
<1>1. flight[i] = {}
  BY FS_EmptySet DEF IInv, CountInv
<1>2. \A j \in jobs : j.inst # i
  BY <1>1 DEF IInv, FrameInv, JobsWaiting
<1>3. ASSUME ~Submitting(i) PROVE workers[i] = <<>>
  <2>1. workers[i] \in Seq(Core)
    BY TypeParts DEF IInv, TypeCores
  <2>2. \A n \in DOMAIN workers[i] : FALSE
    BY <1>2, <1>3 DEF IInv, CoreInv, WorkersUsed, Submitting
  <2>3. ASSUME workers[i] # <<>> PROVE 1 \in DOMAIN workers[i]
    <3>1. Len(workers[i]) \in Nat \ {0} /\ DOMAIN workers[i] = 1 .. Len(workers[i])
      BY <2>1, <2>3, EmptySeq, LenProperties
    <3> QED
      BY <3>1
  <2> QED
    BY <2>2, <2>3
<1> QED
  BY <1>1, <1>2, <1>3

\* With no instance open there are neither jobs nor answers.
LEMMA NothingAtAll ==
    ASSUME IInv, \A i \in Inst : ~Open(i)
    PROVE  jobs = {} /\ todo = {} /\ out = [id \in JobId |-> <<>>]
<1>1. \A i \in Inst : reservedCore[i] = 0
  <2>1. \A i \in Inst : pc[i] \in {"none", "released", "closed"}
    BY DEF Open
  <2> QED
    BY <2>1 DEF IInv, CountInv
<1>2. \A i \in Inst : flight[i] = {} /\ \A j \in jobs : j.inst # i
  BY <1>1, NothingLeft
<1>3. TypeQueues
  BY TypeParts DEF IInv
<1>4. jobs = {} /\ todo = {}
  BY <1>2, <1>3 DEF TypeQueues, Job
<1>5. \A id \in JobId : out[id] = <<>>
  BY <1>2 DEF IInv, FrameInv, AnswersAsked
<1>6. out = [id \in JobId |-> out[id]]
  BY <1>3 DEF TypeQueues
<1> QED
  BY <1>4, <1>5, <1>6

\* The core of a worker works for a frame of the instance it is a worker of.
LEMMA UserOfCore ==
    ASSUME IInv, NEW i \in Inst, NEW n \in DOMAIN workers[i]
    PROVE  Uses(i, owner[workers[i][n]])
<1> DEFINE c == workers[i][n]
<1>1. TypeQueues /\ TypeCores /\ TypeCaller
  BY TypeParts DEF IInv
<1>2. workers[i] \in Seq(Core) /\ c \in Core
  BY <1>1 DEF TypeCores
<1>3. CASE \E j \in jobs : j.inst = i /\ j.core = c /\ owner[j.core] = j.id
  BY <1>3 DEF IInv, FrameInv, JobsWaiting, Uses
<1>4. CASE Holding(i) /\ n = Len(workers[i])
  BY <1>4 DEF IInv, CoreInv, OwnCore, LAST_CORE, Last, Uses, Submitting, Holding
<1> QED
  BY <1>3, <1>4 DEF IInv, CoreInv, WorkersUsed

\* A job is used by one instance.
LEMMA UsesOnce ==
    ASSUME IInv, NEW i \in Inst, NEW k \in Inst, NEW id, Uses(i, id), Uses(k, id)
    PROVE  i = k
BY DEF IInv, IdInv, Uses

\* ToTail permutes the workers, with the core first; the last worker stays the last one
\* unless it is the core.
LEMMA ToTailShape ==
    ASSUME NEW i \in Inst, NEW core \in Core, workers[i] \in Seq(Core),
           \E n \in DOMAIN workers[i] : workers[i][n] = core
    PROVE  LET w == workers[i]
               t == ToTail(i, core)
           IN /\ t \in Seq(Core) /\ Len(t) = Len(w) /\ DOMAIN t = DOMAIN w /\ t # <<>>
              /\ Head(t) = core
              /\ \A n \in DOMAIN t : \E m \in DOMAIN w : t[n] = w[m]
              /\ \A n \in DOMAIN w : \E m \in DOMAIN t : w[n] = t[m]
              /\ (\A m, n \in DOMAIN w : w[m] = w[n] => m = n)
                     => \A m, n \in DOMAIN t : t[m] = t[n] => m = n
              /\ Last(w) # core => Last(t) = Last(w)
<1> DEFINE w == workers[i]
           place == CHOOSE n \in DOMAIN w : w[n] = core
           t == ToTail(i, core)
<1>1. Len(w) \in Nat /\ DOMAIN w = 1 .. Len(w) /\ \A n \in 1 .. Len(w) : w[n] \in Core
  BY LenProperties
<1>2. place \in 1 .. Len(w) /\ w[place] = core
  BY <1>1
<1>3. t = [n \in 1 .. Len(w) |-> IF n = 1 THEN core ELSE IF n <= place THEN w[n - 1] ELSE w[n]]
  BY <1>1 DEF ToTail
<1> HIDE DEF w, place, t
<1>4. Len(w) \in Nat \ {0} /\ 1 \in 1 .. Len(w)
  BY <1>1, <1>2
<1>5. \A n \in 1 .. Len(w) : t[n] = IF n = 1 THEN core ELSE IF n <= place THEN w[n - 1] ELSE w[n]
  BY <1>3
<1>6. t \in [1 .. Len(w) -> Core]
  BY <1>1, <1>2, <1>3
<1>7. t \in Seq(Core) /\ Len(t) = Len(w)
  BY <1>4, <1>6
<1>8. \A n \in 1 .. Len(w) : \E m \in 1 .. Len(w) : t[n] = w[m]
  <2> TAKE n \in 1 .. Len(w)
  <2>1. CASE n = 1
    BY <1>2, <1>5, <2>1
  <2>2. CASE n # 1 /\ n <= place
    BY <1>2, <1>5, <2>2
  <2>3. CASE n # 1 /\ ~(n <= place)
    BY <1>5, <2>3
  <2> QED
    BY <2>1, <2>2, <2>3
<1>9. \A n \in 1 .. Len(w) : \E m \in 1 .. Len(w) : w[n] = t[m]
  <2> TAKE n \in 1 .. Len(w)
  <2>1. CASE n = place
    BY <1>2, <1>4, <1>5, <2>1
  <2>2. CASE n < place
    <3>1. n + 1 \in 1 .. Len(w) /\ n + 1 # 1 /\ n + 1 <= place /\ (n + 1) - 1 = n
      BY <1>1, <1>2, <2>2
    <3> QED
      BY <1>5, <3>1
  <2>3. CASE n > place
    <3>1. n # 1 /\ ~(n <= place)
      BY <1>2, <2>3
    <3> QED
      BY <1>5, <3>1
  <2> QED
    BY <1>2, <2>1, <2>2, <2>3
<1>10. ASSUME \A m, n \in 1 .. Len(w) : w[m] = w[n] => m = n
       PROVE  \A m, n \in 1 .. Len(w) : t[m] = t[n] => m = n
  <2> DEFINE from(n) == IF n = 1 THEN place ELSE IF n <= place THEN n - 1 ELSE n
  <2>1. \A n \in 1 .. Len(w) : from(n) \in 1 .. Len(w) /\ t[n] = w[from(n)]
    BY <1>1, <1>2, <1>5
  <2>2. \A m, n \in 1 .. Len(w) : from(m) = from(n) => m = n
    BY <1>1, <1>2
  <2> HIDE DEF from
  <2> TAKE m, n \in 1 .. Len(w)
  <2> HAVE t[m] = t[n]
  <2>3. from(m) \in 1 .. Len(w) /\ from(n) \in 1 .. Len(w) /\ w[from(m)] = w[from(n)]
    BY <2>1
  <2>4. from(m) = from(n)
    BY <1>10, <2>3
  <2> QED
    BY <2>2, <2>4
<1>11. ASSUME w[Len(w)] # core PROVE t[Len(w)] = w[Len(w)]
  <2>1. Len(w) # place
    BY <1>2, <1>11
  <2>2. ~(Len(w) <= place) /\ Len(w) # 1
    <3>1. place \in Int /\ Len(w) \in Int /\ 1 <= place /\ place <= Len(w)
      BY <1>1, <1>2
    <3>2. \A a, b \in Int : 1 <= b /\ b <= a /\ a # b => ~(a <= b) /\ a # 1
      OBVIOUS
    <3> QED
      BY <2>1, <3>1, <3>2
  <2> QED
    BY <1>2, <1>4, <1>5, <2>2
<1>12. DOMAIN t = 1 .. Len(w) /\ t # <<>> /\ Head(t) = core
  BY <1>4, <1>5, <1>6, <1>7, EmptySeq
<1> QED
  BY <1>1, <1>7, <1>8, <1>9, <1>10, <1>11, <1>12 DEF w, t, Last

\* What is left of workers that differ when the first one is taken.
LEMMA TailShape ==
    ASSUME NEW S, NEW w \in Seq(S), w # <<>>, \A m, n \in DOMAIN w : w[m] = w[n] => m = n
    PROVE  LET t == Tail(w)
           IN /\ t \in Seq(S)
              /\ \A n \in DOMAIN t : t[n] # Head(w) /\ \E m \in DOMAIN w : t[n] = w[m]
              /\ \A n \in DOMAIN w : w[n] # Head(w) => \E m \in DOMAIN t : w[n] = t[m]
              /\ \A m, n \in DOMAIN t : t[m] = t[n] => m = n
              /\ Last(w) # Head(w) => t # <<>> /\ Last(t) = Last(w)
<1> DEFINE t == Tail(w)
           L == Len(w)
<1>1. /\ L \in Nat \ {0} /\ DOMAIN w = 1 .. L /\ Head(w) = w[1]
      /\ t \in Seq(S) /\ Len(t) = L - 1 /\ \A n \in 1 .. L - 1 : t[n] = w[n + 1]
  BY EmptySeq, LenProperties, HeadTailProperties
<1>2. DOMAIN t = 1 .. L - 1
  BY <1>1, LenProperties
<1> HIDE DEF t, L
<1>3. \A n \in 1 .. L - 1 : n + 1 \in 1 .. L /\ n + 1 # 1
  BY <1>1
<1>4. \A n \in DOMAIN t : t[n] # Head(w) /\ \E m \in DOMAIN w : t[n] = w[m]
  <2> TAKE n \in DOMAIN t
  <2>1. t[n] = w[n + 1] /\ n + 1 \in DOMAIN w /\ n + 1 # 1 /\ 1 \in DOMAIN w
    BY <1>1, <1>2, <1>3
  <2> QED
    BY <1>1, <2>1
<1>5. \A n \in DOMAIN w : w[n] # Head(w) => \E m \in DOMAIN t : w[n] = t[m]
  <2> TAKE n \in DOMAIN w
  <2> HAVE w[n] # Head(w)
  <2>1. n \in 1 .. L /\ n # 1
    BY <1>1
  <2>2. n - 1 \in 1 .. L - 1 /\ (n - 1) + 1 = n
    BY <1>1, <2>1
  <2> QED
    BY <1>1, <1>2, <2>2
<1>6. \A m, n \in DOMAIN t : t[m] = t[n] => m = n
  <2> TAKE m, n \in DOMAIN t
  <2> HAVE t[m] = t[n]
  <2>1. /\ w[m + 1] = w[n + 1] /\ m + 1 \in DOMAIN w /\ n + 1 \in DOMAIN w
        /\ m \in Int /\ n \in Int
    BY <1>1, <1>2, <1>3
  <2>2. m + 1 = n + 1
    BY <2>1
  <2> QED
    BY <2>1, <2>2
<1>7. ASSUME Last(w) # Head(w) PROVE t # <<>> /\ Last(t) = Last(w)
  <2>1. L # 1
    BY <1>1, <1>7 DEF Last, L
  <2>2. L - 1 \in 1 .. L - 1 /\ (L - 1) + 1 = L
    BY <1>1, <2>1
  <2>3. t # <<>>
    BY <1>1, <2>2, EmptySeq
  <2> QED
    BY <1>1, <2>2, <2>3 DEF Last, L
<1> QED
  BY <1>1, <1>4, <1>5, <1>6, <1>7 DEF t

-----------------------------------------------------------------------------
(* The actions *)

\* The first instance finds empty queues; no job is left of instances that are gone.
LEMMA EWLInit_Keeps ==
    ASSUME IInv, NEW i \in Inst, EWLInit(i)
    PROVE  IInv'
<1>0. TypeQueues /\ TypeThread /\ TypeTold /\ TypeCaller /\ TypeRing /\ TypeCores
  BY TypeParts DEF IInv
<1>n. UNCHANGED <<jobs, out>>
  <2>1. CASE referCounter = 0
    <3>1. \A k \in Inst : ~Open(k)
      BY <2>1, OpenCounted DEF IInv
    <3>2. jobs = {} /\ out = [id \in JobId |-> <<>>]
      BY <3>1, NothingAtAll
    <3> QED
      BY <2>1, <3>2 DEF EWLInit
  <2>2. CASE referCounter # 0
    BY <2>2 DEF EWLInit
  <2> QED
    BY <2>1, <2>2
<1>a. at' = at \/ (at = "none" /\ at' = "dequeue")
  BY <1>0 DEF EWLInit, TypeQueues
<1>u. UNCHANGED <<bFlush, workers, reg, todo, job, waitOut, hasOutput, call, cur, ring, kernel, history>>
  BY DEF EWLInit, cwl
<1>r. referCounter' = referCounter + 1 /\ waitError' \in BOOLEAN /\ (at # "none" => waitError' = waitError)
  <2>1. /\ referCounter > 0 \/ at = "none"
        /\ (referCounter = 0 /\ waitError' = FALSE) \/ (referCounter # 0 /\ waitError' = waitError)
        /\ referCounter \in Nat /\ referCounter' = referCounter + 1 /\ waitError \in BOOLEAN
    BY <1>0 DEF EWLInit, TypeThread, TypeQueues
  <2>2. referCounter = 0 => at = "none"
    BY <2>1
  <2> QED
    BY <2>1, <2>2, Zenon
<1>1. TypeQueues'
  BY <1>0, <1>n, <1>u, <1>r DEF TypeQueues, Job, Final
<1>2. TypeThread'
  BY <1>0, <1>a, <1>u, <1>r DEF TypeThread
<1>3. TypeTold'
  BY <1>0, BoundsAssumption, NextIndexType
    DEF EWLInit, TypeTold, Status, Quiet, ewl, told, thread, ring, caller, kernel, history,
        outcome, cwl
<1>4. TypeCaller'
  BY <1>0, BoundsAssumption, NextIndexType
    DEF EWLInit, TypeCaller, ewl, told, thread, ring, caller, kernel, history, outcome, cwl
<1>5. TypeRing'
  BY <1>0, BoundsAssumption, NextIndexType
    DEF EWLInit, TypeRing, ewl, told, thread, ring, caller, kernel, history, outcome, cwl
<1>6. TypeCores'
  BY <1>0, BoundsAssumption, NextIndexType
    DEF EWLInit, TypeCores, ewl, told, thread, ring, caller, kernel, history, outcome, cwl
<1>s. \A k \in Inst : /\ Submitting(k)' <=> Submitting(k)
                      /\ Lent(k)' <=> Lent(k)
                      /\ Holding(k)' <=> Holding(k)
  BY <1>0
    DEF EWLInit, TypeCaller, Submitting, ewl, told, thread, ring, caller, kernel, history,
        outcome, cwl, Lent, Holding
<1>7. CoresAccounted'
  BY <1>a, <1>s, <1>u DEF IInv, CoreInv, CoresAccounted, OnItsWayBack, kernel, OnItsWayOut, Lent
<1>8. OwnCore'
  BY <1>0, <1>a, <1>u, <1>s
    DEF IInv, CoreInv, OwnCore, Submitting, kernel, FIRST_CORE, LAST_CORE, Holding, Lent
<1>9. WorkersUsed'
  BY <1>n, <1>s, <1>u DEF IInv, CoreInv, WorkersUsed, kernel
<1>10. JobsHaveCores'
  BY <1>n, <1>a, <1>u DEF IInv, CoreInv, JobsHaveCores, kernel
<1>11. WalkInv'
  <2>1. waitOut' = waitOut /\ job' = job /\ todo' = todo /\ owner' = owner
    BY <1>u DEF kernel
  <2>2. at' \in {"finish", "give", "move"} => at' = at /\ waitError' = waitError
    BY <1>a, <1>r
  <2> QED
    BY <1>n, <1>a, <2>1, <2>2 DEF IInv, WalkInv, Walking, Answer
<1>12. IdInv'
  BY <1>0, <1>s
    DEF TypeTold, EWLInit, IInv, IdInv, Quiet, Status, ewl, told, thread, ring, caller, kernel,
        history, outcome, cwl
<1>13. JobsWaiting'
  BY <1>0
    DEF EWLInit, IInv, FrameInv, JobsWaiting, ewl, told, thread, ring, caller, kernel, history,
        outcome, cwl
<1>14. FlightPlaced'
  BY <1>n, <1>u DEF IInv, FrameInv, FlightPlaced, history, outcome, cwl
<1>15. AnswersAsked'
  BY <1>0
    DEF EWLInit, IInv, FrameInv, AnswersAsked, ewl, told, thread, ring, caller, kernel, history,
        outcome, cwl
<1>16. RingInv'
  BY <1>0, <1>s
    DEF EWLInit, IInv, FrameInv, RingInv, ewl, told, thread, ring, caller, kernel, history,
        outcome, cwl
<1>17. LastInv'
  BY <1>0 DEF EWLInit, IInv, LastInv, ewl, told, thread, ring, caller, kernel, history, outcome, cwl
<1>18. CountInv'
  <2> DEFINE S == {k \in Inst : Open(k)}
  <2>1. ~Open(i) /\ \A k \in Inst : Open(k)' <=> Open(k) \/ k = i
    BY <1>0 DEF EWLInit, Open, TypeCaller
  <2>2. S' = S \cup {i} /\ i \notin S
    BY <2>1
  <2>3. IsFiniteSet(S) /\ referCounter = Cardinality(S)
    BY BoundsAssumption, FS_Subset DEF IInv, CountInv
  <2>4. referCounter' = Cardinality(S')
    BY <1>r, <2>2, <2>3, FS_AddElement
  <2>5. ~bFlush /\ at' # "ended"
    BY <1>a DEF EWLInit, IInv, CountInv
  <2>6. \A k \in Inst : pc'[k] = pc[k] \/ (pc[k] = "none" /\ pc'[k] = "idle")
    <3>1. pc[i] = "none" /\ pc' = [pc EXCEPT ![i] = "idle"] /\ DOMAIN pc = Inst
      BY <1>0 DEF EWLInit, TypeCaller
    <3> QED
      BY <3>1
  <2> QED
    BY <1>u, <2>4, <2>5, <2>6 DEF IInv, CountInv, history, ring, outcome, cwl
<1>19. SliceInv'
  BY <1>0, <1>s
    DEF EWLInit, IInv, SliceInv, Uses, Quiet, ewl, told, thread, ring, caller, kernel, history,
        outcome, cwl
<1>20. ~cutShort'
  BY DEF IInv, EWLInit, history, outcome
<1> QED
  BY <1>1, <1>2, <1>3, <1>4, <1>5, <1>6, <1>7, <1>8, <1>9, <1>10, <1>11, <1>12, <1>13, <1>14,
     <1>15, <1>16, <1>17, <1>18, <1>19, <1>20, TypePartsNext DEF IInv, CoreInv, FrameInv

\* An instance is released with nothing in flight, so that none of its cores is lost.
LEMMA EWLRelease_Keeps ==
    ASSUME IInv, NEW i \in Inst, EWLRelease(i)
    PROVE  IInv'
<1>0. TypeQueues /\ TypeThread /\ TypeTold /\ TypeCaller /\ TypeRing /\ TypeCores
  BY TypeParts DEF IInv
<1>z. reservedCore[i] = 0 /\ Open(i)
  BY DEF EWLRelease, IInv, CountInv, Open
<1>n. /\ flight[i] = {} /\ workers[i] = <<>> /\ \A j \in jobs : j.inst # i
  BY <1>z, NothingLeft DEF EWLRelease, Submitting, Lent, Holding
<1>w. workers' = workers /\ reg' = reg /\ flight' = flight
  BY <1>0, <1>n DEF EWLRelease, TypeCores, TypeRing
<1>a. at' = at \/ (at = "asleep" /\ at' = "dequeue")
  BY DEF EWLRelease, Signalled
<1>u. UNCHANGED <<jobs, out, todo, job, told, call, kernel, verdict>>
  BY DEF EWLRelease
<1>v. UNCHANGED <<waitOut, waitError, hasOutput, owner, running, pending, nextJob, cutShort, gone>>
  BY DEF EWLRelease, told, kernel, outcome
<1>c. ASSUME NEW k \in Inst
      PROVE  cur'[k] = (IF k = i THEN NoJob ELSE cur[k])
  BY <1>0 DEF EWLRelease, TypeCaller
<1>b. \A k \in Inst : Submitting(k) => k # i
  BY DEF EWLRelease, Submitting, Lent, Holding
<1>d. referCounter' = referCounter - 1 /\ referCounter' \in Nat /\ bFlush' \in BOOLEAN
  <2>1. referCounter \in Nat /\ referCounter # 0
    BY <1>z, OpenCounted DEF IInv
  <2>2. bFlush' \in BOOLEAN
    BY <1>0 DEF EWLRelease, TypeQueues
  <2>3. referCounter' = referCounter - 1
    BY DEF EWLRelease
  <2> QED
    BY <2>1, <2>2, <2>3
<1>1. TypeQueues'
  BY <1>0, <1>u, <1>d DEF TypeQueues, Job, Final
<1>2. TypeThread'
  BY <1>0, <1>a, <1>u, <1>v DEF TypeThread, NoOne, Job, JobMutexFree, Signalled
<1>3. TypeTold'
  BY <1>0, BoundsAssumption, NextIndexType
    DEF EWLRelease, JobMutexFree, Signalled, TypeTold, Status, Quiet, ewl, told, thread, ring,
        caller, kernel, history, outcome, cwl
<1>4. TypeCaller'
  BY <1>0, BoundsAssumption, NextIndexType
    DEF EWLRelease, JobMutexFree, Signalled, TypeCaller, ewl, told, thread, ring, caller,
        kernel, history, outcome, cwl
<1>5. TypeRing'
  BY <1>0, BoundsAssumption, NextIndexType
    DEF EWLRelease, JobMutexFree, Signalled, TypeRing, ewl, told, thread, ring, caller, kernel,
        history, outcome, cwl
<1>6. TypeCores'
  BY <1>0, <1>w, <1>v DEF TypeCores
<1>s. \A k \in Inst : /\ Submitting(k)' <=> Submitting(k)
                      /\ Lent(k)' <=> Lent(k)
                      /\ Holding(k)' <=> Holding(k)
  BY <1>0
    DEF EWLRelease, JobMutexFree, Signalled, TypeCaller, Submitting, ewl, told, thread, ring,
        caller, kernel, history, outcome, cwl, Lent, Holding
<1>7. CoresAccounted'
  <2>0. ~cutShort /\ CoresOnce /\ CoresUsed /\ CoresNoted
    BY CoresParts DEF IInv, CoreInv
  <2>1. \A k \in Inst : /\ Lent(k)' <=> Lent(k)
                        /\ Lent(k) => cur'[k] = cur[k]
    BY <1>s, <1>b, <1>c DEF Submitting
  <2>2. \A c \in Core : /\ OnItsWayOut(c)' <=> OnItsWayOut(c)
                        /\ OnItsWayBack(c)' <=> OnItsWayBack(c)
                        /\ Used(c)' <=> Used(c)
    BY <2>1, <1>a, <1>u, <1>v, <1>w DEF OnItsWayOut, OnItsWayBack, Lent, Used
  <2>3. CoresOnce'
    BY <2>0, <1>w DEF CoresOnce
  <2>4. CoresUsed'
    BY <2>0, <2>2, <1>v DEF CoresUsed
  <2>5. CoresNoted'
    BY <2>0, <2>1, <1>v, <1>w DEF CoresNoted
  <2> QED
    BY <2>0, <2>3, <2>4, <2>5, <1>v, CoresPartsNext
<1>8. OwnCore'
  <2>0. ~cutShort /\ OwnLast /\ OwnFirst
    BY OwnParts DEF IInv, CoreInv
  <2>1. \A k \in Inst : Holding(k)' => Holding(k) /\ cur'[k] = cur[k]
    BY <1>s, <1>b, <1>c DEF Submitting
  <2>2. OwnLast'
    BY <2>0, <2>1, <1>w, <1>v DEF OwnLast, LAST_CORE
  <2>3. OwnFirst'
    BY <2>0, <1>a, <1>w, <1>u, <1>v DEF OwnFirst, FIRST_CORE
  <2> QED
    BY <2>0, <2>2, <2>3, <1>v, OwnPartsNext
<1>9. WorkersUsed'
  BY <1>s, <1>w, <1>u, <1>v DEF IInv, CoreInv, WorkersUsed
<1>10. JobsHaveCores'
  BY <1>w, <1>a, <1>u, <1>v DEF IInv, CoreInv, JobsHaveCores
<1>11. WalkInv'
  BY <1>a, <1>u, <1>v DEF IInv, WalkInv, Walking, Answer
<1>12. IdInv'
  <2>1. \A k \in Inst : Submitting(k)' => Submitting(k) /\ cur'[k] = cur[k]
    BY <1>s, <1>b, <1>c
  <2>2. NoJob < nextJob
    BY <1>0, BoundsAssumption DEF TypeCores, NoJob
  <2>3. \A k \in Inst : cur'[k] < nextJob
    BY <1>c, <2>2 DEF IInv, IdInv
  <2> QED
    BY <2>1, <2>3, <1>w, <1>v DEF IInv, IdInv
<1>13. JobsWaiting'
  BY <1>w, <1>u DEF IInv, FrameInv, JobsWaiting
<1>14. FlightPlaced'
  BY <1>w, <1>u DEF IInv, FrameInv, FlightPlaced
<1>15. AnswersAsked'
  BY <1>w, <1>u DEF IInv, FrameInv, AnswersAsked
<1>16. RingInv'
  <2>1. \A k \in Inst : Submitting(k)' => Submitting(k) /\ cur'[k] = cur[k] /\ cur[k] # NoJob
    BY <1>s, <1>b, <1>c DEF IInv, IdInv
  <2>2. \A k \in Inst : \A n \in 0 .. ParallelCoreNum[k] - 1 :
           waitJobid'[k][n] = IF k = i THEN NoJob ELSE waitJobid[k][n]
    BY <1>0 DEF EWLRelease, TypeRing
  <2>3. \A k \in Inst : NoJob \notin flight[k]
    BY <1>0, BoundsAssumption DEF TypeRing, JobId, NoJob
  <2>4. NoJob < nextJob
    BY <1>0, BoundsAssumption DEF TypeCores, NoJob
  <2> QED
    BY <2>1, <2>2, <2>3, <2>4, <1>w, <1>v DEF IInv, FrameInv, RingInv
<1>17. LastInv'
  BY <1>u DEF IInv, LastInv
<1>18. CountInv'
  <2> DEFINE S == {k \in Inst : Open(k)}
  <2>1. Open(i) /\ \A k \in Inst : Open(k)' <=> (Open(k) /\ k # i)
    BY <1>0, <1>z DEF EWLRelease, Open, TypeCaller
  <2>2. S' = S \ {i} /\ i \in S
    BY <2>1
  <2>3. IsFiniteSet(S) /\ referCounter = Cardinality(S)
    BY BoundsAssumption, FS_Subset DEF IInv, CountInv
  <2>4. referCounter' = Cardinality(S')
    BY <1>d, <2>2, <2>3, FS_RemoveElement
  <2>5. bFlush' => \A k \in Inst : ~Open(k)'
    <3>1. CASE referCounter = 1
      BY <2>1, <3>1, OpenCounted DEF IInv
    <3>2. CASE referCounter # 1
      BY <2>1, <3>2 DEF EWLRelease, IInv, CountInv
    <3> QED
      BY <3>1, <3>2
  <2>6. at' = "ended" => bFlush'
    BY <1>a DEF EWLRelease, IInv, CountInv
  <2>7. \A k \in Inst : /\ pc'[k] = IF k = i THEN "released" ELSE pc[k]
                        /\ reservedCore'[k] = IF k = i THEN 0 ELSE reservedCore[k]
    BY <1>0 DEF EWLRelease, TypeCaller, TypeRing
  <2>8. reservedCore' = reservedCore
    BY <1>0, <1>z DEF EWLRelease, TypeRing
  <2>9. ASSUME NEW k \in Inst
        PROVE  /\ pc'[k] \notin {"search", "asleep"} => reservedCore[k] < ParallelCoreNum[k]
               /\ pc'[k] \in {"none", "cleared", "released", "closed"} => reservedCore[k] = 0
    BY <1>z, <2>7, Sizes DEF IInv, CountInv
  <2> QED
    BY <1>w, <1>u, <2>4, <2>5, <2>6, <2>8, <2>9 DEF IInv, CountInv
<1>19. SliceInv'
  <2>1. \A k \in Inst : Submitting(k)' => Submitting(k) /\ cur'[k] = cur[k]
    BY <1>s, <1>b, <1>c
  <2> QED
    BY <2>1, <1>w, <1>u, <1>v DEF IInv, SliceInv, Uses
<1>20. ~cutShort'
  BY DEF IInv, EWLRelease, history, outcome
<1> QED
  BY <1>1, <1>2, <1>3, <1>4, <1>5, <1>6, <1>7, <1>8, <1>9, <1>10, <1>11, <1>12, <1>13, <1>14,
     <1>15, <1>16, <1>17, <1>18, <1>19, <1>20, TypePartsNext DEF IInv, CoreInv, FrameInv

\* The last one empties queues that are empty.
LEMMA EwlReleaseCoreWait_Keeps ==
    ASSUME IInv, NEW i \in Inst, EwlReleaseCoreWait(i)
    PROVE  IInv'
<1>0. TypeQueues /\ TypeThread /\ TypeTold /\ TypeCaller /\ TypeRing /\ TypeCores
  BY TypeParts DEF IInv
<1>n. UNCHANGED <<jobs, out>>
  <2>1. CASE referCounter = 0 /\ at = "ended" /\ jobs' = {} /\ out' = [id \in JobId |-> <<>>]
    <3>1. \A k \in Inst : ~Open(k)
      BY <2>1, OpenCounted DEF IInv
    <3>2. jobs = {} /\ out = [id \in JobId |-> <<>>]
      BY <3>1, NothingAtAll
    <3> QED
      BY <2>1, <3>2
  <2>2. CASE UNCHANGED <<at, jobs, out>>
    BY <2>2
  <2> QED
    BY <2>1, <2>2 DEF EwlReleaseCoreWait
<1>u. UNCHANGED <<referCounter, bFlush, workers, reg, todo, job, told, call, cur, ring, kernel, history>>
  BY DEF EwlReleaseCoreWait, cwl
<1>1. TypeQueues'
  BY <1>0, <1>n, <1>u DEF TypeQueues, Job, Final
<1>2. TypeThread'
  BY <1>0, BoundsAssumption, NextIndexType
    DEF EwlReleaseCoreWait, TypeThread, NoOne, Job, JobMutexFree, Signalled, ewl, told, thread,
        ring, caller, kernel, history, outcome, cwl
<1>3. TypeTold'
  BY <1>0, BoundsAssumption, NextIndexType
    DEF EwlReleaseCoreWait, TypeTold, Status, Quiet, ewl, told, thread, ring, caller, kernel,
        history, outcome, cwl
<1>4. TypeCaller'
  BY <1>0, BoundsAssumption, NextIndexType
    DEF EwlReleaseCoreWait, TypeCaller, ewl, told, thread, ring, caller, kernel, history,
        outcome, cwl
<1>5. TypeRing'
  BY <1>0, BoundsAssumption, NextIndexType
    DEF EwlReleaseCoreWait, TypeRing, ewl, told, thread, ring, caller, kernel, history, outcome,
        cwl
<1>6. TypeCores'
  BY <1>0, BoundsAssumption, NextIndexType
    DEF EwlReleaseCoreWait, TypeCores, ewl, told, thread, ring, caller, kernel, history,
        outcome, cwl
<1>s. \A k \in Inst : /\ Submitting(k)' <=> Submitting(k)
                      /\ Lent(k)' <=> Lent(k)
                      /\ Holding(k)' <=> Holding(k)
  BY <1>0
    DEF EwlReleaseCoreWait, TypeCaller, Submitting, ewl, told, thread, ring, caller, kernel,
        history, outcome, cwl, Lent, Holding
<1>o. \A k \in Inst : Open(k)' <=> Open(k)
  BY <1>0
    DEF EwlReleaseCoreWait, TypeCaller, Open, ewl, told, thread, ring, caller, kernel, history,
        outcome, cwl
<1>7. CoresAccounted'
  BY <1>0, <1>s
    DEF EwlReleaseCoreWait, IInv, CoreInv, CoresAccounted, OnItsWayBack, ewl, told, thread,
        ring, caller, kernel, history, outcome, cwl, OnItsWayOut, Lent
<1>8. OwnCore'
  BY <1>0, <1>s
    DEF TypeThread, EwlReleaseCoreWait, IInv, CoreInv, OwnCore, FIRST_CORE, LAST_CORE, ewl,
        told, thread, ring, caller, kernel, history, outcome, cwl, Holding
<1>9. WorkersUsed'
  BY <1>n, <1>s, <1>u DEF IInv, CoreInv, WorkersUsed, kernel
<1>10. JobsHaveCores'
  BY <1>0
    DEF EwlReleaseCoreWait, IInv, CoreInv, JobsHaveCores, ewl, told, thread, ring, caller,
        kernel, history, outcome, cwl
<1>11. WalkInv'
  BY <1>0
    DEF TypeThread, EwlReleaseCoreWait, IInv, WalkInv, Walking, Answer, Final, Status, Quiet,
        NoOne, ewl, told, thread, ring, caller, kernel, history, outcome, cwl
<1>12. IdInv'
  BY <1>0, <1>s
    DEF TypeTold, EwlReleaseCoreWait, IInv, IdInv, Quiet, Status, ewl, told, thread, ring,
        caller, kernel, history, outcome, cwl
<1>13. JobsWaiting'
  BY <1>0
    DEF EwlReleaseCoreWait, IInv, FrameInv, JobsWaiting, ewl, told, thread, ring, caller,
        kernel, history, outcome, cwl
<1>14. FlightPlaced'
  BY <1>n, <1>u DEF IInv, FrameInv, FlightPlaced, history, outcome, cwl
<1>15. AnswersAsked'
  BY <1>0
    DEF EwlReleaseCoreWait, IInv, FrameInv, AnswersAsked, ewl, told, thread, ring, caller,
        kernel, history, outcome, cwl
<1>16. RingInv'
  BY <1>0, <1>s
    DEF EwlReleaseCoreWait, IInv, FrameInv, RingInv, ewl, told, thread, ring, caller, kernel,
        history, outcome, cwl
<1>17. LastInv'
  BY <1>0
    DEF EwlReleaseCoreWait, IInv, LastInv, ewl, told, thread, ring, caller, kernel, history,
        outcome, cwl
<1>18. CountInv'
  BY <1>0, <1>o
    DEF TypeRing, TypeCaller, EwlReleaseCoreWait, IInv, CountInv, ewl, told, thread, ring,
        caller, kernel, history, outcome, cwl
<1>19. SliceInv'
  BY <1>0, <1>s
    DEF EwlReleaseCoreWait, IInv, SliceInv, Uses, Quiet, ewl, told, thread, ring, caller,
        kernel, history, outcome, cwl
<1>20. ~cutShort'
  BY DEF IInv, EwlReleaseCoreWait, history, outcome
<1> QED
  BY <1>1, <1>2, <1>3, <1>4, <1>5, <1>6, <1>7, <1>8, <1>9, <1>10, <1>11, <1>12, <1>13, <1>14,
     <1>15, <1>16, <1>17, <1>18, <1>19, <1>20, TypePartsNext DEF IInv, CoreInv, FrameInv

\* A call that has not got its core yet.
LEMMA Encode_Keeps ==
    ASSUME IInv, NEW i \in Inst, Encode(i)
    PROVE  IInv'
<1>0. TypeQueues /\ TypeThread /\ TypeTold /\ TypeCaller /\ TypeRing /\ TypeCores
  BY TypeParts DEF IInv
<1>1. TypeQueues'
  BY <1>0, BoundsAssumption, NextIndexType
    DEF Encode, TypeQueues, Job, Final, ewl, told, thread, ring, caller, kernel, history,
        outcome, cwl
<1>2. TypeThread'
  BY <1>0, BoundsAssumption, NextIndexType
    DEF Encode, TypeThread, NoOne, Job, JobMutexFree, Signalled, ewl, told, thread, ring,
        caller, kernel, history, outcome, cwl
<1>3. TypeTold'
  BY <1>0, BoundsAssumption, NextIndexType
    DEF Encode, TypeTold, Status, Quiet, ewl, told, thread, ring, caller, kernel, history,
        outcome, cwl
<1>4. TypeCaller'
  BY <1>0, BoundsAssumption, NextIndexType
    DEF Encode, TypeCaller, ewl, told, thread, ring, caller, kernel, history, outcome, cwl
<1>5. TypeRing'
  BY <1>0, BoundsAssumption, NextIndexType
    DEF Encode, TypeRing, ewl, told, thread, ring, caller, kernel, history, outcome, cwl
<1>6. TypeCores'
  BY <1>0, BoundsAssumption, NextIndexType
    DEF Encode, TypeCores, ewl, told, thread, ring, caller, kernel, history, outcome, cwl
<1>s. \A k \in Inst : /\ Submitting(k)' <=> Submitting(k)
                      /\ Lent(k)' <=> Lent(k)
                      /\ Holding(k)' <=> Holding(k)
  BY <1>0
    DEF Encode, TypeCaller, Submitting, ewl, told, thread, ring, caller, kernel, history,
        outcome, cwl, Lent, Holding
<1>o. \A k \in Inst : Open(k)' <=> Open(k)
  BY <1>0
    DEF Encode, TypeCaller, Open, ewl, told, thread, ring, caller, kernel, history, outcome, cwl
<1>7. CoresAccounted'
  BY <1>0, <1>s
    DEF Encode, IInv, CoreInv, CoresAccounted, OnItsWayBack, ewl, told, thread, ring, caller,
        kernel, history, outcome, cwl, OnItsWayOut, Lent
<1>8. OwnCore'
  BY <1>0, <1>s
    DEF TypeThread, Encode, IInv, CoreInv, OwnCore, FIRST_CORE, LAST_CORE, ewl, told, thread,
        ring, caller, kernel, history, outcome, cwl, Holding
<1>9. WorkersUsed'
  BY <1>0, <1>s
    DEF Encode, IInv, CoreInv, WorkersUsed, ewl, told, thread, ring, caller, kernel, history,
        outcome, cwl
<1>10. JobsHaveCores'
  BY <1>0
    DEF Encode, IInv, CoreInv, JobsHaveCores, ewl, told, thread, ring, caller, kernel, history,
        outcome, cwl
<1>11. WalkInv'
  BY <1>0
    DEF TypeThread, Encode, IInv, WalkInv, Walking, Answer, Final, Status, Quiet, NoOne, ewl,
        told, thread, ring, caller, kernel, history, outcome, cwl
<1>12. IdInv'
  BY <1>0, <1>s
    DEF TypeTold, Encode, IInv, IdInv, Quiet, Status, ewl, told, thread, ring, caller, kernel,
        history, outcome, cwl
<1>13. JobsWaiting'
  BY <1>0
    DEF Encode, IInv, FrameInv, JobsWaiting, ewl, told, thread, ring, caller, kernel, history,
        outcome, cwl
<1>14. FlightPlaced'
  BY <1>0
    DEF Encode, IInv, FrameInv, FlightPlaced, ewl, told, thread, ring, caller, kernel, history,
        outcome, cwl
<1>15. AnswersAsked'
  BY <1>0
    DEF Encode, IInv, FrameInv, AnswersAsked, ewl, told, thread, ring, caller, kernel, history,
        outcome, cwl
<1>16. RingInv'
  BY <1>0, <1>s
    DEF Encode, IInv, FrameInv, RingInv, ewl, told, thread, ring, caller, kernel, history,
        outcome, cwl
<1>17. LastInv'
  BY <1>0 DEF Encode, IInv, LastInv, ewl, told, thread, ring, caller, kernel, history, outcome, cwl
<1>18. CountInv'
  BY <1>0, <1>o
    DEF TypeRing, TypeCaller, Encode, IInv, CountInv, ewl, told, thread, ring, caller, kernel,
        history, outcome, cwl
<1>19. SliceInv'
  BY <1>0, <1>s
    DEF Encode, IInv, SliceInv, Uses, Quiet, ewl, told, thread, ring, caller, kernel, history,
        outcome, cwl
<1>20. ~cutShort'
  BY DEF IInv, Encode, history, outcome
<1> QED
  BY <1>1, <1>2, <1>3, <1>4, <1>5, <1>6, <1>7, <1>8, <1>9, <1>10, <1>11, <1>12, <1>13, <1>14,
     <1>15, <1>16, <1>17, <1>18, <1>19, <1>20, TypePartsNext DEF IInv, CoreInv, FrameInv

\* The core lent is of no other instance, and its job is new.
LEMMA EWLReserveHw_Keeps ==
    ASSUME IInv, NEW i \in Inst, EWLReserveHw(i)
    PROVE  IInv'
<1>0. TypeQueues /\ TypeThread /\ TypeTold /\ TypeCaller /\ TypeRing /\ TypeCores
  BY TypeParts DEF IInv
<1>k. PICK core \in Core : /\ owner[core] = NoJob
                           /\ owner' = [owner EXCEPT ![core] = nextJob]
                           /\ reg' = [reg EXCEPT ![i] = core]
  BY DEF EWLReserveHw
<1>a. /\ pc[i] = "reserving" /\ core \in Core /\ owner[core] = NoJob
      /\ owner' = [owner EXCEPT ![core] = nextJob] /\ reg' = [reg EXCEPT ![i] = core]
      /\ cur' = [cur EXCEPT ![i] = nextJob] /\ nextJob' = nextJob + 1
      /\ pc' = [pc EXCEPT ![i] = "lent"]
      /\ UNCHANGED <<referCounter, bFlush, jobs, out, at, todo, job, waitOut, waitError, hasOutput>>
      /\ UNCHANGED <<workers, call, waitJobid, jobCnt, reservedCore, running, pending, flight, verdict>>
      /\ UNCHANGED <<cutShort, gone>>
  BY <1>k DEF EWLReserveHw, ewl, thread, told, ring, history, outcome
<1>j. nextJob \in JobId /\ nextJob # NoJob /\ nextJob \in Int
  <2>1. nextJob <= JobMax
    BY DEF EWLReserveHw
  <2> QED
    BY <1>0, <2>1, Sizes DEF TypeCores, JobId, NoJob
<1>p. ~cutShort /\ CoresOnce /\ CoresUsed /\ CoresNoted /\ OwnLast /\ OwnFirst
  BY CoresParts, OwnParts DEF IInv, CoreInv
<1>b. ~Used(core) /\ ~OnItsWayBack(core)
  BY <1>a, <1>p DEF CoresUsed
<1>d. \A k \in Inst : k # i => reg'[k] = reg[k] /\ cur'[k] = cur[k] /\ pc'[k] = pc[k]
  BY <1>0, <1>a DEF TypeCores, TypeCaller
<1>e. owner'[core] = nextJob /\ (\A c \in Core : c # core => owner'[c] = owner[c])
      /\ reg'[i] = core /\ cur'[i] = nextJob /\ pc'[i] = "lent"
  BY <1>0, <1>a DEF TypeCores, TypeCaller
<1>s. /\ ~Submitting(i) /\ Lent(i)' /\ ~Holding(i)' /\ Submitting(i)'
      /\ \A k \in Inst : k # i => /\ Submitting(k)' <=> Submitting(k)
                                  /\ Lent(k)' <=> Lent(k)
                                  /\ Holding(k)' <=> Holding(k)
  BY <1>a, <1>d, <1>e DEF Submitting, Lent, Holding
<1>o. \A k \in Inst : Open(k)' <=> Open(k)
  BY <1>a, <1>d, <1>e DEF Open
<1>u. \A c \in Core : owner[c] # NoJob => c # core /\ owner'[c] = owner[c]
  BY <1>a, <1>e
<1>y. \A j \in jobs : /\ j.core \in Core /\ j.id # NoJob /\ j.id # nextJob
                      /\ owner[j.core] = j.id => owner'[j.core] = j.id
  <2> TAKE j \in jobs
  <2>1. j.core \in Core /\ j.id \in JobId /\ j.id # NoJob /\ j.inst \in Inst
    BY <1>0 DEF TypeQueues, Job, JobId, NoJob
  <2>2. j.id < nextJob
    BY <2>1 DEF IInv, FrameInv, JobsWaiting, IdInv
  <2>3. j.id # nextJob
    BY <1>j, <2>2
  <2> QED
    BY <1>u, <2>1, <2>3
<1>1. TypeQueues'
  BY <1>0, <1>a DEF TypeQueues
<1>2. TypeThread'
  BY <1>0, <1>a DEF TypeThread
<1>3. TypeTold'
  BY <1>0, <1>a DEF TypeTold
<1>4. TypeCaller'
  BY <1>0, <1>a, <1>j DEF TypeCaller
<1>5. TypeRing'
  BY <1>0, <1>a DEF TypeRing
<1>6. TypeCores'
  <2>1. owner' \in [Core -> JobId \cup {NoJob}] /\ reg' \in [Inst -> Core \cup {NoCore}]
    BY <1>0, <1>a, <1>j DEF TypeCores
  <2>2. nextJob' \in 1 .. JobMax + 1
    BY <1>a, <1>j, Sizes DEF JobId
  <2> QED
    BY <1>0, <1>a, <2>1, <2>2 DEF TypeCores
<1>7. CoresAccounted'
  <2>1. \A c \in Core : /\ Used(c)' <=> Used(c)
                        /\ OnItsWayBack(c)' <=> OnItsWayBack(c)
    BY <1>a DEF Used, OnItsWayBack
  <2>2. OnItsWayOut(core)' /\ owner'[core] # NoJob
    BY <1>e, <1>j DEF OnItsWayOut
  <2>3. ASSUME NEW c \in Core, c # core PROVE OnItsWayOut(c)' <=> OnItsWayOut(c)
    <3>1. owner[c] # nextJob
      BY <1>j DEF IInv, IdInv
    <3> QED
      BY <1>a, <1>d, <1>e, <2>3, <3>1 DEF OnItsWayOut
  <2>4. CoresUsed'
    <3> SUFFICES ASSUME NEW c \in Core
                 PROVE  /\ owner'[c] # NoJob <=> Used(c)' \/ OnItsWayBack(c)' \/ OnItsWayOut(c)'
                        /\ ~(Used(c)' /\ OnItsWayBack(c)')
                        /\ ~(Used(c)' /\ OnItsWayOut(c)')
                        /\ ~(OnItsWayBack(c)' /\ OnItsWayOut(c)')
      BY DEF CoresUsed
    <3>1. CASE c = core
      BY <1>b, <2>1, <2>2, <3>1
    <3>2. CASE c # core
      BY <1>e, <1>p, <2>1, <2>3, <3>2 DEF CoresUsed
    <3> QED
      BY <3>1, <3>2
  <2>5. CoresOnce'
    BY <1>a, <1>p DEF CoresOnce
  <2>6. CoresNoted'
    <3> SUFFICES ASSUME NEW k \in Inst, Lent(k)'
                 PROVE  \/ reg'[k] \in Core /\ owner'[reg'[k]] = cur'[k]
                        \/ reg'[k] = NoCore /\ ParallelCoreNum[k] > 1
      BY DEF CoresNoted
    <3>1. CASE k = i
      BY <1>a, <1>e, <3>1
    <3>2. CASE k # i
      <4>1. Lent(k) /\ cur[k] # NoJob
        BY <1>s, <3>2 DEF Submitting, IInv, IdInv
      <4> QED
        BY <1>d, <1>p, <1>u, <3>2, <4>1 DEF CoresNoted
    <3> QED
      BY <3>1, <3>2
  <2> QED
    BY <1>a, <1>p, <2>4, <2>5, <2>6, CoresPartsNext
<1>8. OwnCore'
  <2>1. OwnLast'
    <3> SUFFICES ASSUME NEW k \in Inst, Holding(k)'
                 PROVE  workers[k] # <<>> /\ owner'[Last(workers[k])] = cur'[k]
      BY <1>a DEF OwnLast, LAST_CORE
    <3>1. k # i /\ Holding(k) /\ cur[k] # NoJob /\ cur'[k] = cur[k]
      BY <1>d, <1>s DEF Submitting, IInv, IdInv
    <3>2. workers[k] \in Seq(Core) /\ workers[k] # <<>> /\ owner[Last(workers[k])] = cur[k]
      BY <1>0, <1>p, <3>1 DEF OwnLast, LAST_CORE, TypeCores
    <3>3. Last(workers[k]) \in Core
      <4>1. Len(workers[k]) \in DOMAIN workers[k]
        BY <3>2, EmptySeq, LenProperties
      <4> QED
        BY <3>2, <4>1 DEF Last
    <3> QED
      BY <1>u, <3>1, <3>2, <3>3
  <2>2. OwnFirst'
    <3>1. at = "finish" => job \in jobs
      BY DEF IInv, WalkInv
    <3> QED
      BY <1>a, <1>p, <1>y, <3>1 DEF OwnFirst, FIRST_CORE
  <2> QED
    BY <1>a, <1>p, <2>1, <2>2, OwnPartsNext
<1>9. WorkersUsed'
  <2> SUFFICES ASSUME NEW k \in Inst, NEW n \in DOMAIN workers[k]
               PROVE  \/ \E j \in jobs : j.inst = k /\ j.core = workers[k][n] /\ owner'[j.core] = j.id
                      \/ Holding(k)' /\ n = Len(workers[k])
    BY <1>a DEF WorkersUsed
  <2>1. Holding(k) => Holding(k)'
    BY <1>s DEF Submitting
  <2> QED
    BY <1>y, <2>1 DEF IInv, CoreInv, WorkersUsed
<1>10. JobsHaveCores'
  BY <1>a, <1>y DEF IInv, CoreInv, JobsHaveCores
<1>11. WalkInv'
  <2>1. at \in {"finish", "give"} => owner'[job.core] = job.id
    BY <1>y DEF IInv, WalkInv
  <2>2. at = "move" => \A c \in Core : owner'[c] # job.id
    BY <1>e, <1>y DEF IInv, WalkInv
  <2> QED
    BY <1>a, <2>1, <2>2 DEF IInv, WalkInv, Walking, Answer
<1>12. IdInv'
  <2>1. \A c \in Core : owner'[c] < nextJob'
    <3>1. \A c \in Core : owner[c] \in Int /\ owner[c] < nextJob
      BY <1>0 DEF IInv, IdInv, TypeCores, JobId, NoJob
    <3> QED
      BY <1>a, <1>e, <1>j, <3>1
  <2>2. \A k \in Inst : \A id \in flight[k] : id < nextJob /\ id < nextJob'
    <3>1. \A k \in Inst : \A id \in flight[k] : id < nextJob /\ id \in Int
      BY <1>0 DEF IInv, IdInv, TypeRing, JobId
    <3> QED
      BY <1>a, <1>j, <3>1
  <2>3. \A k \in Inst : cur'[k] < nextJob'
    <3>1. \A k \in Inst : cur[k] < nextJob /\ cur[k] \in Int
      BY <1>0 DEF IInv, IdInv, TypeCaller, JobId, NoJob
    <3> QED
      BY <1>a, <1>d, <1>e, <1>j, <3>1
  <2>4. \A k \in Inst : Submitting(k)' => cur'[k] # NoJob
    BY <1>d, <1>e, <1>j, <1>s DEF IInv, IdInv
  <2>5. ASSUME NEW k \in Inst, NEW l \in Inst, Submitting(k)' PROVE cur'[k] \notin flight[l]
    <3>1. CASE k = i
      BY <1>e, <1>j, <2>2, <3>1
    <3>2. CASE k # i
      BY <1>d, <1>s, <2>5, <3>2 DEF IInv, IdInv
    <3> QED
      BY <3>1, <3>2
  <2>6. ASSUME NEW k \in Inst, NEW l \in Inst, Submitting(k)', Submitting(l)', k # l PROVE cur'[k] # cur'[l]
    <3>1. \A x \in Inst : cur[x] # nextJob
      BY <1>j DEF IInv, IdInv
    <3>2. CASE k = i \/ l = i
      BY <1>d, <1>e, <2>6, <3>1, <3>2
    <3>3. CASE k # i /\ l # i
      BY <1>d, <1>s, <2>6, <3>3 DEF IInv, IdInv
    <3> QED
      BY <3>2, <3>3
  <2>7. \A id \in JobId : id >= nextJob' => pending[id] = "none" /\ waitOut[id] = "none"
    <3>1. \A id \in JobId : id >= nextJob' => id >= nextJob
      BY <1>a, <1>j DEF JobId
    <3> QED
      BY <3>1 DEF IInv, IdInv
  <2>8. \A k, l \in Inst : k # l => flight[k] \cap flight[l] = {}
    BY DEF IInv, IdInv
  <2>9. \A c, d \in Core : owner'[c] = owner'[d] /\ owner'[c] # NoJob => c = d
    <3>1. \A c \in Core : owner[c] # nextJob
      BY <1>j DEF IInv, IdInv
    <3>2. \A c, d \in Core : owner[c] = owner[d] /\ owner[c] # NoJob => c = d
      BY DEF IInv, IdInv
    <3> QED
      BY <1>e, <3>1, <3>2
  <2> QED
    BY <1>a, <2>1, <2>2, <2>3, <2>4, <2>5, <2>6, <2>7, <2>8, <2>9 DEF IdInv
<1>13. JobsWaiting'
  BY <1>a DEF IInv, FrameInv, JobsWaiting
<1>14. FlightPlaced'
  BY <1>a DEF IInv, FrameInv, FlightPlaced
<1>15. AnswersAsked'
  BY <1>a DEF IInv, FrameInv, AnswersAsked
<1>16. RingInv'
  <2> SUFFICES ASSUME NEW k \in Inst, NEW l \in Inst, NEW n \in 0 .. ParallelCoreNum[k] - 1
               PROVE  /\ k # l => waitJobid[k][n] \notin flight[l]
                      /\ Submitting(l)' => waitJobid[k][n] # cur'[l]
                      /\ waitJobid[k][n] < nextJob'
    BY <1>a DEF RingInv
  <2>1. /\ k # l => waitJobid[k][n] \notin flight[l]
        /\ Submitting(l) => waitJobid[k][n] # cur[l]
        /\ waitJobid[k][n] < nextJob
    BY DEF IInv, FrameInv, RingInv
  <2>2. waitJobid[k][n] \in Int
    <3>1. waitJobid[k] \in [0 .. ParallelCoreNum[k] - 1 -> JobId \cup {NoJob}]
      BY <1>0 DEF TypeRing
    <3>2. waitJobid[k][n] \in JobId \cup {NoJob}
      BY <3>1
    <3> QED
      BY <3>2 DEF JobId, NoJob
  <2>3. waitJobid[k][n] # nextJob /\ waitJobid[k][n] < nextJob'
    BY <1>a, <1>j, <2>1, <2>2
  <2> QED
    BY <1>d, <1>e, <1>s, <2>1, <2>3
<1>17. LastInv'
  BY <1>a DEF IInv, LastInv
<1>18. CountInv'
  <2>1. ASSUME NEW k \in Inst
        PROVE  /\ pc'[k] \notin {"search", "asleep"} => reservedCore[k] < ParallelCoreNum[k]
               /\ pc'[k] \in {"none", "cleared", "released", "closed"} => reservedCore[k] = 0
    <3>1. /\ pc[k] \notin {"search", "asleep"} => reservedCore[k] < ParallelCoreNum[k]
          /\ pc[k] \in {"none", "cleared", "released", "closed"} => reservedCore[k] = 0
      BY DEF IInv, CountInv
    <3> QED
      BY <1>a, <1>d, <1>e, <3>1
  <2> QED
    BY <1>a, <1>o, <2>1 DEF IInv, CountInv
<1>19. SliceInv'
  <2>1. \A k \in Inst : \A id \in JobId : Uses(k, id)' => Uses(k, id) \/ id = nextJob
    BY <1>a, <1>d, <1>e, <1>s DEF Uses
  <2>2. pending[nextJob] = "none" /\ waitOut[nextJob] = "none"
    BY <1>j DEF IInv, IdInv
  <2> QED
    BY <1>a, <1>j, <2>1, <2>2 DEF IInv, SliceInv
<1>20. ~cutShort'
  BY DEF IInv, EWLReserveHw, history, outcome
<1> QED
  BY <1>1, <1>2, <1>3, <1>4, <1>5, <1>6, <1>7, <1>8, <1>9, <1>10, <1>11, <1>12, <1>13, <1>14,
     <1>15, <1>16, <1>17, <1>18, <1>19, <1>20, TypePartsNext DEF IInv, CoreInv, FrameInv

\* The core that was noted is on its way to the head of the workers.
LEMMA WorkerFound ==
    ASSUME IInv, NEW i \in Inst, FindWorker(i), NEW core \in Core, core = reg[i]
    PROVE  IInv'
<1>0. TypeQueues /\ TypeThread /\ TypeTold /\ TypeCaller /\ TypeRing /\ TypeCores
  BY TypeParts DEF IInv
<1>a. /\ pc[i] = "lent" /\ workers' = [workers EXCEPT ![i] = Append(@, core)]
      /\ pc' = [pc EXCEPT ![i] = "reserved"]
      /\ UNCHANGED <<referCounter, bFlush, jobs, out, at, todo, job, waitOut, waitError, hasOutput>>
      /\ UNCHANGED <<reg, call, cur, waitJobid, jobCnt, reservedCore, running, pending, flight>>
      /\ UNCHANGED <<owner, nextJob, verdict, cutShort, gone>>
  BY CoresAssumption DEF FindWorker, ewl, thread, told, ring, kernel
<1>p. ~cutShort /\ CoresOnce /\ CoresUsed /\ CoresNoted /\ OwnLast /\ OwnFirst
  BY CoresParts, OwnParts DEF IInv, CoreInv
<1>k. owner[core] = cur[i] /\ cur[i] # NoJob
  <2>1. Lent(i) /\ Submitting(i) /\ reg[i] # NoCore
    BY <1>a, CoresAssumption DEF Lent, Submitting
  <2> QED
    BY <1>p, <2>1 DEF CoresNoted, IInv, IdInv
<1>b. ~Used(core) /\ ~OnItsWayBack(core)
  BY <1>a, <1>k, <1>p DEF CoresUsed, OnItsWayOut
<1>n. \A k \in Inst : \A n \in DOMAIN workers[k] : workers[k][n] # core
  BY <1>b DEF Used
<1>c. /\ workers'[i] \in Seq(Core) /\ workers'[i] # <<>> /\ Last(workers'[i]) = core
      /\ Len(workers[i]) \in Nat /\ DOMAIN workers[i] = 1 .. Len(workers[i])
      /\ Len(workers'[i]) = Len(workers[i]) + 1
      /\ DOMAIN workers'[i] = 1 .. Len(workers[i]) + 1
      /\ \A n \in 1 .. Len(workers[i]) : workers'[i][n] = workers[i][n]
      /\ workers'[i][Len(workers[i]) + 1] = core
  <2>1. workers[i] \in Seq(Core) /\ workers'[i] = Append(workers[i], core)
    BY <1>0, <1>a DEF TypeCores
  <2> DEFINE w == workers[i]
             x == workers'[i]
  <2>2. w \in Seq(Core) /\ x = Append(w, core)
    BY <2>1
  <2> HIDE DEF w, x
  <2>3. /\ x \in Seq(Core) /\ Len(w) \in Nat /\ DOMAIN w = 1 .. Len(w) /\ Len(x) = Len(w) + 1
        /\ (\A n \in 1 .. Len(w) : x[n] = w[n]) /\ x[Len(w) + 1] = core
    BY <1>a, <2>2, AppendProperties, LenProperties
  <2>4. x # <<>> /\ DOMAIN x = 1 .. Len(w) + 1
    BY <2>3, EmptySeq, LenProperties
  <2>5. Last(x) = core
    BY <2>3 DEF Last
  <2> QED
    BY <2>3, <2>4, <2>5 DEF w, x
<1>d. \A k \in Inst : k # i => workers'[k] = workers[k] /\ pc'[k] = pc[k]
  BY <1>0, <1>a DEF TypeCores, TypeCaller
<1>s. /\ Submitting(i) /\ Lent(i) /\ ~Holding(i) /\ ~Lent(i)' /\ Holding(i)' /\ Submitting(i)'
      /\ \A k \in Inst : k # i => /\ Submitting(k)' <=> Submitting(k)
                                  /\ Lent(k)' <=> Lent(k)
                                  /\ Holding(k)' <=> Holding(k)
  BY <1>0, <1>a, <1>d DEF Submitting, Lent, Holding, TypeCaller
<1>o. \A k \in Inst : Open(k)' <=> Open(k)
  BY <1>0, <1>a, <1>d DEF Open, TypeCaller
<1>w. \A k \in Inst : /\ DOMAIN workers[k] \subseteq DOMAIN workers'[k]
                      /\ \A n \in DOMAIN workers[k] : workers'[k][n] = workers[k][n]
  <2> TAKE k \in Inst
  <2>1. CASE k = i
    <3>1. DOMAIN workers[i] \subseteq DOMAIN workers'[i]
      BY <1>c
    <3> QED
      BY <1>c, <2>1, <3>1
  <2>2. CASE k # i
    BY <1>d, <2>2
  <2> QED
    BY <2>1, <2>2
<1>v. \A k \in Inst : \A n \in DOMAIN workers'[k] :
         \/ n \in DOMAIN workers[k] /\ workers'[k][n] = workers[k][n] /\ workers'[k][n] # core
         \/ k = i /\ n = Len(workers[i]) + 1 /\ workers'[k][n] = core
  <2> TAKE k \in Inst
  <2> TAKE n \in DOMAIN workers'[k]
  <2>1. CASE k # i
    BY <1>n, <1>d, <2>1
  <2>2. CASE k = i
    <3>1. n \in 1 .. Len(workers[i]) \/ n = Len(workers[i]) + 1
      BY <1>c, <2>2
    <3>2. CASE n \in 1 .. Len(workers[i])
      <4>1. n \in DOMAIN workers[i] /\ workers'[i][n] = workers[i][n]
        BY <1>c, <3>2
      <4> QED
        BY <1>n, <2>2, <4>1
    <3> QED
      BY <1>c, <2>2, <3>1, <3>2
  <2> QED
    BY <2>1, <2>2
<1>1. TypeQueues'
  BY <1>0, <1>a DEF TypeQueues
<1>2. TypeThread'
  BY <1>0, <1>a DEF TypeThread
<1>3. TypeTold'
  BY <1>0, <1>a DEF TypeTold
<1>4. TypeCaller'
  BY <1>0, <1>a DEF TypeCaller
<1>5. TypeRing'
  BY <1>0, <1>a DEF TypeRing
<1>6. TypeCores'
  <2>1. workers' \in [Inst -> Seq(Core)]
    BY <1>0, <1>a, <1>c, <1>d DEF TypeCores
  <2> QED
    BY <1>0, <1>a, <2>1 DEF TypeCores
<1>7. CoresAccounted'
  <2>1. ASSUME NEW k \in Inst, NEW l \in Inst, NEW m \in DOMAIN workers'[k], NEW n \in DOMAIN workers'[l],
               workers'[k][m] = workers'[l][n]
        PROVE  k = l /\ m = n
    <3>1. CASE /\ m \in DOMAIN workers[k] /\ workers'[k][m] = workers[k][m]
               /\ n \in DOMAIN workers[l] /\ workers'[l][n] = workers[l][n]
      <4>1. \A x \in DOMAIN workers[k], y \in DOMAIN workers[l] :
              workers[k][x] = workers[l][y] => k = l /\ x = y
        BY <1>p DEF CoresOnce
      <4>2. m \in DOMAIN workers[k] /\ n \in DOMAIN workers[l] /\ workers[k][m] = workers[l][n]
        BY <2>1, <3>1
      <4> QED
        BY <4>1, <4>2
    <3> QED
      BY <1>v, <2>1, <3>1
  <2>2. CoresOnce'
    BY <2>1 DEF CoresOnce
  <2>3. Used(core)' /\ ~OnItsWayBack(core)' /\ ~OnItsWayOut(core)'
    <3>1. Used(core)'
      <4>1. Len(workers[i]) + 1 \in DOMAIN workers'[i] /\ workers'[i][Len(workers[i]) + 1] = core
        BY <1>c
      <4> QED
        BY <4>1 DEF Used
    <3>2. ~OnItsWayBack(core)'
      BY <1>a, <1>b DEF OnItsWayBack
    <3>3. ASSUME NEW k \in Inst, Lent(k)' PROVE owner[core] # cur[k]
      <4>1. k # i /\ Submitting(k)
        BY <1>s, <3>3 DEF Submitting
      <4> QED
        BY <1>k, <1>s, <4>1 DEF IInv, IdInv
    <3>4. ~OnItsWayOut(core)'
      BY <1>a, <3>3 DEF OnItsWayOut, Lent
    <3> QED
      BY <3>1, <3>2, <3>4
  <2>4. ASSUME NEW c \in Core, c # core
        PROVE  /\ Used(c)' <=> Used(c)
               /\ OnItsWayBack(c)' <=> OnItsWayBack(c)
               /\ OnItsWayOut(c)' <=> OnItsWayOut(c)
    <3>1. Used(c)' <=> Used(c)
      BY <1>v, <1>w, <2>4 DEF Used
    <3>2. OnItsWayBack(c)' <=> OnItsWayBack(c)
      BY <1>a DEF OnItsWayBack
    <3>3. owner[c] # cur[i]
      BY <1>k, <2>4 DEF IInv, IdInv
    <3>4. OnItsWayOut(c)' <=> OnItsWayOut(c)
      <4>1. OnItsWayOut(c) <=> \E k \in Inst : Lent(k) /\ owner[c] = cur[k]
        BY DEF OnItsWayOut, Lent
      <4>2. OnItsWayOut(c)' <=> \E k \in Inst : Lent(k)' /\ owner[c] = cur[k]
        BY <1>a DEF OnItsWayOut, Lent
      <4> QED
        BY <1>s, <3>3, <4>1, <4>2
    <3> QED
      BY <3>1, <3>2, <3>4
  <2>5. CoresUsed'
    <3> SUFFICES ASSUME NEW c \in Core
                 PROVE  /\ owner[c] # NoJob <=> Used(c)' \/ OnItsWayBack(c)' \/ OnItsWayOut(c)'
                        /\ ~(Used(c)' /\ OnItsWayBack(c)')
                        /\ ~(Used(c)' /\ OnItsWayOut(c)')
                        /\ ~(OnItsWayBack(c)' /\ OnItsWayOut(c)')
      BY <1>a DEF CoresUsed
    <3>1. CASE c = core
      BY <1>k, <2>3, <3>1
    <3>2. CASE c # core
      BY <1>p, <2>4, <3>2 DEF CoresUsed
    <3> QED
      BY <3>1, <3>2
  <2>6. CoresNoted'
    BY <1>a, <1>p, <1>s DEF CoresNoted
  <2> QED
    BY <1>a, <1>p, <2>2, <2>5, <2>6, CoresPartsNext
<1>8. OwnCore'
  <2>1. OwnLast'
    <3> SUFFICES ASSUME NEW k \in Inst, Holding(k)'
                 PROVE  workers'[k] # <<>> /\ owner[Last(workers'[k])] = cur[k]
      BY <1>a DEF OwnLast, LAST_CORE
    <3>1. CASE k = i
      BY <1>c, <1>k, <3>1
    <3>2. CASE k # i
      BY <1>d, <1>p, <1>s, <3>2 DEF OwnLast, LAST_CORE
    <3> QED
      BY <3>1, <3>2
  <2>2. ASSUME at = "finish"
        PROVE  /\ workers'[job.inst] # <<>> /\ Head(workers'[job.inst]) = job.core
               /\ owner[job.core] = job.id
    <3>1. workers[job.inst] # <<>> /\ Head(workers[job.inst]) = job.core /\ owner[job.core] = job.id
      BY <1>p, <2>2 DEF OwnFirst, FIRST_CORE
    <3>2. job.inst \in Inst
      BY <1>0, <2>2 DEF IInv, WalkInv, TypeQueues, Job
    <3>3. CASE job.inst = i
      <4>1. workers[i] \in Seq(Core) /\ workers[i] # <<>>
        BY <1>0, <3>1, <3>3 DEF TypeCores
      <4>2. 1 \in 1 .. Len(workers[i]) /\ Head(workers[i]) = workers[i][1]
        BY <4>1, EmptySeq, LenProperties
      <4>3. Head(workers'[i]) = workers'[i][1]
        BY <1>c
      <4> QED
        BY <1>c, <3>1, <3>2, <3>3, <4>2, <4>3
    <3> QED
      BY <1>d, <3>1, <3>2, <3>3
  <2>3. OwnFirst'
    BY <1>a, <2>2 DEF OwnFirst, FIRST_CORE
  <2> QED
    BY <1>a, <1>p, <2>1, <2>3, OwnPartsNext
<1>9. WorkersUsed'
  <2> SUFFICES ASSUME NEW k \in Inst, NEW n \in DOMAIN workers'[k]
               PROVE  \/ \E j \in jobs : j.inst = k /\ j.core = workers'[k][n] /\ owner[j.core] = j.id
                      \/ Holding(k)' /\ n = Len(workers'[k])
    BY <1>a DEF WorkersUsed
  <2>1. CASE k = i /\ n = Len(workers[i]) + 1
    BY <1>c, <1>s, <2>1
  <2>2. CASE n \in DOMAIN workers[k] /\ workers'[k][n] = workers[k][n]
    <3>1. CASE \E j \in jobs : j.inst = k /\ j.core = workers[k][n] /\ owner[j.core] = j.id
      BY <2>2, <3>1
    <3>2. CASE Holding(k) /\ n = Len(workers[k])
      BY <1>d, <1>s, <3>2
    <3> QED
      BY <2>2, <3>1, <3>2 DEF IInv, CoreInv, WorkersUsed
  <2> QED
    BY <1>v, <2>1, <2>2
<1>10. JobsHaveCores'
  <2> SUFFICES ASSUME NEW j \in jobs, ~(at \in {"give", "move"} /\ j = job)
               PROVE  /\ owner[j.core] = j.id
                      /\ \E n \in DOMAIN workers'[j.inst] : workers'[j.inst][n] = j.core
    BY <1>a DEF JobsHaveCores
  <2>1. owner[j.core] = j.id /\ \E n \in DOMAIN workers[j.inst] : workers[j.inst][n] = j.core
    BY DEF IInv, CoreInv, JobsHaveCores
  <2>2. j.inst \in Inst
    BY <1>0 DEF TypeQueues, Job
  <2> QED
    BY <1>w, <2>1, <2>2
<1>11. WalkInv'
  BY <1>a DEF IInv, WalkInv, Walking, Answer
<1>z. \A k \in Inst : Submitting(k)' <=> Submitting(k)
  BY <1>s
<1>12. IdInv'
  BY <1>a, <1>z DEF IInv, IdInv
<1>13. JobsWaiting'
  BY <1>a DEF IInv, FrameInv, JobsWaiting
<1>14. FlightPlaced'
  BY <1>a DEF IInv, FrameInv, FlightPlaced
<1>15. AnswersAsked'
  BY <1>a DEF IInv, FrameInv, AnswersAsked
<1>16. RingInv'
  BY <1>a, <1>z DEF IInv, FrameInv, RingInv
<1>17. LastInv'
  BY <1>a DEF IInv, LastInv
<1>18. CountInv'
  <2>1. ASSUME NEW k \in Inst
        PROVE  /\ pc'[k] \notin {"search", "asleep"} => reservedCore[k] < ParallelCoreNum[k]
               /\ pc'[k] \in {"none", "cleared", "released", "closed"} => reservedCore[k] = 0
    <3>1. pc'[k] = pc[k] \/ (pc[k] = "lent" /\ pc'[k] = "reserved")
      BY <1>0, <1>a, <1>d DEF TypeCaller
    <3> QED
      BY <3>1 DEF IInv, CountInv
  <2> QED
    BY <1>a, <1>o, <2>1 DEF IInv, CountInv
<1>19. SliceInv'
  BY <1>a, <1>z DEF IInv, SliceInv, Uses
<1>20. ~cutShort'
  BY <1>a, <1>p
<1> QED
  BY <1>1, <1>2, <1>3, <1>4, <1>5, <1>6, <1>7, <1>8, <1>9, <1>10, <1>11, <1>12, <1>13, <1>14,
     <1>15, <1>16, <1>17, <1>18, <1>19, <1>20, TypePartsNext DEF IInv, CoreInv, FrameInv

\* Nothing changes but gone.
LEMMA Same_Keeps ==
    ASSUME IInv, gone' \in BOOLEAN,
           UNCHANGED <<ewl, cwl, thread, caller, kernel, flight, verdict, cutShort>>
    PROVE  IInv'
<1>1. /\ UNCHANGED <<referCounter, bFlush, jobs, out, workers, reg, at, todo, job>>
      /\ UNCHANGED <<waitOut, waitError, hasOutput, pc, call, cur, waitJobid, jobCnt, reservedCore>>
      /\ UNCHANGED <<owner, running, pending, nextJob, flight, verdict, cutShort>>
  BY DEF ewl, thread, told, caller, ring, kernel, cwl
<1>2. TypeInv'
  BY <1>1 DEF IInv, TypeInv
<1>3. CoresAccounted' /\ OwnCore'
  BY <1>1
    DEF IInv, CoreInv, CoresAccounted, OwnCore, OnItsWayBack, OnItsWayOut, LAST_CORE, FIRST_CORE
<1>4. WorkersUsed' /\ JobsHaveCores'
  BY <1>1 DEF IInv, CoreInv, WorkersUsed, JobsHaveCores, Holding
<1>5. WalkInv' /\ IdInv' /\ LastInv'
  BY <1>1 DEF IInv, WalkInv, Walking, Answer, IdInv, Submitting, LastInv, Lent, Holding
<1>6. FrameInv'
  BY <1>1
    DEF IInv, FrameInv, JobsWaiting, FlightPlaced, AnswersAsked, RingInv, Submitting, Lent,
        Holding
<1>7. CountInv' /\ SliceInv'
  BY <1>1 DEF IInv, CountInv, Open, SliceInv, Uses, Submitting, Lent, Holding
<1> QED
  BY <1>1, <1>2, <1>3, <1>4, <1>5, <1>6, <1>7 DEF IInv, CoreInv

\* The core joins the workers at their head, or it is not found.
LEMMA FindWorker_Keeps ==
    ASSUME IInv, NEW i \in Inst, FindWorker(i)
    PROVE  IInv'
<1>0. TypeQueues /\ TypeThread /\ TypeTold /\ TypeCaller /\ TypeRing /\ TypeCores
  BY TypeParts DEF IInv
<1>1. CASE reg[i] = NoCore
  <2>1. UNCHANGED <<ewl, cwl, thread, caller, kernel, flight, verdict, cutShort>> /\ gone' = TRUE
    BY <1>1 DEF FindWorker, caller, cwl
  <2> QED
    BY <2>1, Same_Keeps
<1>2. CASE reg[i] # NoCore
  BY <1>0, <1>2, WorkerFound DEF TypeCores
<1> QED
  BY <1>1, <1>2

\* Enabling a core.
LEMMA EncAsicFrameStart_Keeps ==
    ASSUME IInv, NEW i \in Inst, EncAsicFrameStart(i)
    PROVE  IInv'
<1>0. TypeQueues /\ TypeThread /\ TypeTold /\ TypeCaller /\ TypeRing /\ TypeCores
  BY TypeParts DEF IInv
<1>1. TypeQueues'
  BY <1>0, BoundsAssumption, NextIndexType
    DEF EncAsicFrameStart, TypeQueues, Job, Final, ewl, told, thread, ring, caller, kernel,
        history, outcome, cwl
<1>2. TypeThread'
  BY <1>0, BoundsAssumption, NextIndexType
    DEF EncAsicFrameStart, TypeThread, NoOne, Job, JobMutexFree, Signalled, ewl, told, thread,
        ring, caller, kernel, history, outcome, cwl
<1>3. TypeTold'
  BY <1>0, BoundsAssumption, NextIndexType
    DEF EncAsicFrameStart, TypeTold, Status, Quiet, ewl, told, thread, ring, caller, kernel,
        history, outcome, cwl
<1>4. TypeCaller'
  BY <1>0, BoundsAssumption, NextIndexType
    DEF EncAsicFrameStart, TypeCaller, ewl, told, thread, ring, caller, kernel, history,
        outcome, cwl
<1>5. TypeRing'
  BY <1>0, BoundsAssumption, NextIndexType
    DEF EncAsicFrameStart, TypeRing, ewl, told, thread, ring, caller, kernel, history, outcome,
        cwl
<1>6. TypeCores'
  BY <1>0
    DEF EncAsicFrameStart, TypeCores, ewl, told, thread, ring, caller, kernel, history, IInv,
        CoreInv, OwnCore, LAST_CORE, Last, outcome, cwl, Holding
<1>s. \A k \in Inst : /\ Submitting(k)' <=> Submitting(k)
                      /\ Lent(k)' <=> Lent(k)
                      /\ Holding(k)' <=> Holding(k)
  BY <1>0
    DEF EncAsicFrameStart, TypeCaller, Submitting, ewl, told, thread, ring, caller, kernel,
        history, outcome, cwl, Lent, Holding
<1>o. \A k \in Inst : Open(k)' <=> Open(k)
  BY <1>0
    DEF EncAsicFrameStart, TypeCaller, Open, ewl, told, thread, ring, caller, kernel, history,
        outcome, cwl
<1>7. CoresAccounted'
  BY <1>0, <1>s
    DEF EncAsicFrameStart, IInv, CoreInv, CoresAccounted, OnItsWayBack, ewl, told, thread, ring,
        caller, kernel, history, outcome, cwl, OnItsWayOut, Lent
<1>8. OwnCore'
  BY <1>0, <1>s
    DEF TypeThread, EncAsicFrameStart, IInv, CoreInv, OwnCore, FIRST_CORE, LAST_CORE, ewl, told,
        thread, ring, caller, kernel, history, outcome, cwl, Holding
<1>9. WorkersUsed'
  BY <1>0, <1>s
    DEF EncAsicFrameStart, IInv, CoreInv, WorkersUsed, ewl, told, thread, ring, caller, kernel,
        history, outcome, cwl
<1>10. JobsHaveCores'
  BY <1>0
    DEF EncAsicFrameStart, IInv, CoreInv, JobsHaveCores, ewl, told, thread, ring, caller,
        kernel, history, outcome, cwl
<1>11. WalkInv'
  BY <1>0
    DEF TypeThread, EncAsicFrameStart, IInv, WalkInv, Walking, Answer, Final, Status, Quiet,
        NoOne, ewl, told, thread, ring, caller, kernel, history, outcome, cwl
<1>12. IdInv'
  BY <1>0, <1>s
    DEF TypeTold, EncAsicFrameStart, IInv, IdInv, Quiet, Status, ewl, told, thread, ring,
        caller, kernel, history, outcome, cwl
<1>13. JobsWaiting'
  BY <1>0
    DEF EncAsicFrameStart, IInv, FrameInv, JobsWaiting, ewl, told, thread, ring, caller, kernel,
        history, outcome, cwl
<1>14. FlightPlaced'
  BY <1>0
    DEF EncAsicFrameStart, IInv, FrameInv, FlightPlaced, ewl, told, thread, ring, caller,
        kernel, history, outcome, cwl
<1>15. AnswersAsked'
  BY <1>0
    DEF EncAsicFrameStart, IInv, FrameInv, AnswersAsked, ewl, told, thread, ring, caller,
        kernel, history, outcome, cwl
<1>16. RingInv'
  BY <1>0, <1>s
    DEF EncAsicFrameStart, IInv, FrameInv, RingInv, ewl, told, thread, ring, caller, kernel,
        history, outcome, cwl
<1>17. LastInv'
  BY <1>0
    DEF EncAsicFrameStart, IInv, LastInv, ewl, told, thread, ring, caller, kernel, history,
        outcome, cwl
<1>18. CountInv'
  BY <1>0, <1>o
    DEF TypeRing, TypeCaller, EncAsicFrameStart, IInv, CountInv, ewl, told, thread, ring,
        caller, kernel, history, outcome, cwl
<1>19. SliceInv'
  BY <1>0, <1>s
    DEF EncAsicFrameStart, IInv, SliceInv, Uses, Quiet, ewl, told, thread, ring, caller, kernel,
        history, outcome, cwl
<1>20. ~cutShort'
  BY DEF IInv, EncAsicFrameStart, history, outcome
<1> QED
  BY <1>1, <1>2, <1>3, <1>4, <1>5, <1>6, <1>7, <1>8, <1>9, <1>10, <1>11, <1>12, <1>13, <1>14,
     <1>15, <1>16, <1>17, <1>18, <1>19, <1>20, TypePartsNext DEF IInv, CoreInv, FrameInv

\* The frame being submitted becomes the youngest in flight and keeps its core.
LEMMA EWLEnqueueWaitjob_Keeps ==
    ASSUME IInv, NEW i \in Inst, EWLEnqueueWaitjob(i)
    PROVE  IInv'
<1>0. TypeQueues /\ TypeThread /\ TypeTold /\ TypeCaller /\ TypeRing /\ TypeCores
  BY TypeParts DEF IInv
<1> DEFINE id == cur[i]
           core == LAST_CORE(i)
           new == [id |-> id, core |-> core, inst |-> i]
<1>a. /\ pc[i] = "started" /\ at \notin {"visit", "finish", "give", "move"}
      /\ jobs' = jobs \cup {new} /\ at' = (IF at = "asleep" THEN "dequeue" ELSE at)
      /\ waitJobid' = [waitJobid EXCEPT ![i][jobCnt[i]] = id]
      /\ reservedCore' = [reservedCore EXCEPT ![i] = @ + 1]
      /\ flight' = [flight EXCEPT ![i] = @ \cup {id}]
      /\ cur' = [cur EXCEPT ![i] = NoJob]
      /\ \/ /\ reservedCore[i] + 1 = ParallelCoreNum[i]
            /\ pc' = [pc EXCEPT ![i] = "search"] /\ call' = [call EXCEPT ![i] = "encode"]
            /\ jobCnt' = jobCnt
         \/ /\ reservedCore[i] + 1 # ParallelCoreNum[i]
            /\ pc' = [pc EXCEPT ![i] = "idle"] /\ jobCnt' = [jobCnt EXCEPT ![i] = NextIndex(i)]
            /\ call' = call
      /\ UNCHANGED <<referCounter, bFlush, out, workers, reg, todo, job, waitOut, waitError, hasOutput>>
      /\ UNCHANGED <<owner, running, pending, nextJob, verdict, cutShort, gone>>
  BY
    DEF EWLEnqueueWaitjob, KeepInFlight, AllBusy, JobMutexFree, Signalled, told, kernel, cwl,
        outcome
<1>q. ~cutShort /\ CoresOnce /\ CoresUsed /\ CoresNoted /\ OwnLast /\ OwnFirst
  BY CoresParts, OwnParts DEF IInv, CoreInv
<1>s. Submitting(i) /\ Holding(i) /\ ~Lent(i)
  BY <1>a DEF Submitting, Lent, Holding
<1>b. /\ id \in JobId /\ id # NoJob /\ id < nextJob /\ \A k \in Inst : id \notin flight[k]
      /\ out[id] = <<>> /\ \A j \in jobs : j.id # id
  <2>1. id # NoJob /\ id < nextJob /\ \A k \in Inst : id \notin flight[k]
    BY <1>s DEF IInv, IdInv
  <2>2. id \in JobId
    BY <1>0, <2>1 DEF TypeCaller
  <2>3. out[id] = <<>>
    BY <2>1, <2>2 DEF IInv, FrameInv, AnswersAsked
  <2>4. \A j \in jobs : j.id # id
    BY <1>0, <2>1 DEF IInv, FrameInv, JobsWaiting, TypeQueues, Job
  <2> QED
    BY <2>1, <2>2, <2>3, <2>4
<1>c. /\ core \in Core /\ owner[core] = id /\ workers[i] # <<>>
      /\ Len(workers[i]) \in DOMAIN workers[i] /\ workers[i][Len(workers[i])] = core
  <2>1. workers[i] \in Seq(Core) /\ workers[i] # <<>> /\ owner[core] = id
    BY <1>0, <1>q, <1>s DEF OwnLast, TypeCores
  <2>2. Len(workers[i]) \in DOMAIN workers[i] /\ workers[i][Len(workers[i])] \in Core
    BY <2>1, EmptySeq, LenProperties
  <2> QED
    BY <2>1, <2>2 DEF LAST_CORE, Last
<1> HIDE DEF id, core
<1>n. new \in Job /\ new.id = id /\ new.core = core /\ new.inst = i
  BY <1>b, <1>c DEF Job
<1> HIDE DEF new
<1>d. flight'[i] = flight[i] \cup {id} /\ \A k \in Inst : k # i => flight'[k] = flight[k]
  BY <1>0, <1>a DEF TypeRing
<1>e. \A k \in Inst : \A n \in 0 .. ParallelCoreNum[k] - 1 :
         waitJobid'[k][n] = IF k = i /\ n = jobCnt[i] THEN id ELSE waitJobid[k][n]
  BY <1>0, <1>a DEF TypeRing
<1>f. \A k \in Inst : k # i => pc'[k] = pc[k] /\ cur'[k] = cur[k] /\ call'[k] = call[k]
                               /\ reservedCore'[k] = reservedCore[k]
  BY <1>0, <1>a DEF TypeRing, TypeCaller
<1>g. pc'[i] \in {"search", "idle"} /\ cur'[i] = NoJob /\ reservedCore'[i] = reservedCore[i] + 1
      /\ (call'[i] = call[i] \/ call'[i] = "encode")
      /\ (pc'[i] = "idle" => reservedCore[i] + 1 # ParallelCoreNum[i])
  BY <1>0, <1>a DEF TypeRing, TypeCaller
<1>p. /\ ~Submitting(i)' /\ ~Lent(i)' /\ ~Holding(i)'
      /\ \A k \in Inst : k # i => /\ Submitting(k)' <=> Submitting(k)
                                  /\ Lent(k)' <=> Lent(k)
                                  /\ Holding(k)' <=> Holding(k)
  BY <1>f, <1>g DEF Submitting, Lent, Holding
<1>o. \A k \in Inst : Open(k)' <=> Open(k)
  BY <1>a, <1>f, <1>g DEF Open
<1>t. todo = {} /\ at' \notin {"visit", "finish", "give", "move"} /\ (at' = "ended" => at = "ended")
  BY <1>a DEF IInv, WalkInv, Walking
<1>r. /\ reservedCore[i] \in Nat /\ ParallelCoreNum[i] \in Nat
      /\ reservedCore[i] < ParallelCoreNum[i]
  BY <1>0, <1>a, Sizes DEF IInv, CountInv, TypeRing
<1>1. TypeQueues'
  BY <1>0, <1>a, <1>n, <1>t DEF TypeQueues
<1>2. TypeThread'
  BY <1>0, <1>a DEF TypeThread
<1>3. TypeTold'
  BY <1>0, <1>a DEF TypeTold
<1>4. TypeCaller'
  BY <1>0, <1>a DEF TypeCaller
<1>5. TypeRing'
  <2>1. /\ jobCnt \in [Inst -> Nat] /\ \A k \in Inst : jobCnt[k] < ParallelCoreNum[k]
        /\ reservedCore \in [Inst -> Nat] /\ \A k \in Inst : reservedCore[k] <= ParallelCoreNum[k]
        /\ flight \in [Inst -> SUBSET JobId] /\ DOMAIN waitJobid = Inst
        /\ \A k \in Inst : waitJobid[k] \in [0 .. ParallelCoreNum[k] - 1 -> JobId \cup {NoJob}]
    BY <1>0 DEF TypeRing
  <2>2. NextIndex(i) \in Nat /\ NextIndex(i) < ParallelCoreNum[i]
    BY <1>0, <1>r, NextIndexType
  <2>3. jobCnt' \in [Inst -> Nat] /\ \A k \in Inst : jobCnt'[k] < ParallelCoreNum[k]
    <3>1. jobCnt' = jobCnt \/ jobCnt' = [jobCnt EXCEPT ![i] = NextIndex(i)]
      BY <1>a
    <3> QED
      BY <2>1, <2>2, <3>1
  <2>4. reservedCore' \in [Inst -> Nat] /\ \A k \in Inst : reservedCore'[k] <= ParallelCoreNum[k]
    <3>1. reservedCore' = [reservedCore EXCEPT ![i] = reservedCore[i] + 1]
      BY <1>a
    <3>2. reservedCore[i] + 1 \in Nat /\ reservedCore[i] + 1 <= ParallelCoreNum[i]
      BY <1>r
    <3>3. reservedCore' \in [Inst -> Nat]
      BY <2>1, <3>1, <3>2
    <3> QED
      BY <1>f, <1>g, <2>1, <3>2, <3>3
  <2>5. flight' \in [Inst -> SUBSET JobId]
    <3>1. flight[i] \cup {id} \in SUBSET JobId
      BY <1>b, <2>1
    <3>2. flight' = [flight EXCEPT ![i] = flight[i] \cup {id}]
      BY <1>a
    <3> QED
      BY <2>1, <3>1, <3>2
  <2>6. DOMAIN waitJobid' = Inst /\ \A k \in Inst : k # i => waitJobid'[k] = waitJobid[k]
    BY <1>a, <2>1
  <2>7. waitJobid'[i] = [waitJobid[i] EXCEPT ![jobCnt[i]] = id]
    BY <1>a, <2>1
  <2>8. waitJobid'[i] \in [0 .. ParallelCoreNum[i] - 1 -> JobId \cup {NoJob}]
    <3>1. waitJobid[i] \in [0 .. ParallelCoreNum[i] - 1 -> JobId \cup {NoJob}]
      BY <2>1
    <3> QED
      BY <1>b, <2>7, <3>1
  <2>9. \A k \in Inst : waitJobid'[k] \in [0 .. ParallelCoreNum[k] - 1 -> JobId \cup {NoJob}]
    <3> TAKE k \in Inst
    <3>1. CASE k = i
      BY <2>8, <3>1
    <3>2. CASE k # i
      BY <2>1, <2>6, <3>2
    <3> QED
      BY <3>1, <3>2
  <2> QED
    BY <2>3, <2>4, <2>5, <2>6, <2>9 DEF TypeRing
<1>6. TypeCores'
  BY <1>0, <1>a DEF TypeCores
<1>7. CoresAccounted'
  <2>1. \A c \in Core : ~OnItsWayBack(c) /\ ~OnItsWayBack(c)'
    BY <1>a, <1>t DEF OnItsWayBack
  <2>2. \A k \in Inst : /\ Lent(k)' <=> Lent(k)
                        /\ Lent(k) => cur'[k] = cur[k]
    BY <1>f, <1>p, <1>s
  <2>3. \A c \in Core : OnItsWayOut(c)' <=> OnItsWayOut(c)
    <3> TAKE c \in Core
    <3>1. OnItsWayOut(c) <=> \E k \in Inst : Lent(k) /\ owner[c] = cur[k]
      BY DEF OnItsWayOut, Lent
    <3>2. OnItsWayOut(c)' <=> \E k \in Inst : Lent(k)' /\ owner[c] = cur'[k]
      BY <1>a DEF OnItsWayOut, Lent
    <3> QED
      BY <2>2, <3>1, <3>2
  <2>4. \A c \in Core : Used(c)' <=> Used(c)
    BY <1>a DEF Used
  <2>5. CoresOnce'
    BY <1>a, <1>q DEF CoresOnce
  <2>6. CoresUsed'
    BY <1>a, <1>q, <2>1, <2>3, <2>4 DEF CoresUsed
  <2>7. CoresNoted'
    BY <1>a, <1>q, <2>2 DEF CoresNoted
  <2> QED
    BY <1>a, <1>q, <2>5, <2>6, <2>7, CoresPartsNext
<1>8. OwnCore'
  <2>1. OwnLast'
    BY <1>a, <1>f, <1>p, <1>q DEF OwnLast, LAST_CORE
  <2>2. OwnFirst'
    BY <1>t DEF OwnFirst
  <2> QED
    BY <1>a, <1>q, <2>1, <2>2, OwnPartsNext
<1>9. WorkersUsed'
  <2> SUFFICES ASSUME NEW k \in Inst, NEW n \in DOMAIN workers[k]
               PROVE  \/ \E j \in jobs' : j.inst = k /\ j.core = workers[k][n] /\ owner[j.core] = j.id
                      \/ Holding(k)' /\ n = Len(workers[k])
    BY <1>a DEF WorkersUsed
  <2>1. \/ \E j \in jobs : j.inst = k /\ j.core = workers[k][n] /\ owner[j.core] = j.id
        \/ Holding(k) /\ n = Len(workers[k])
    BY DEF IInv, CoreInv, WorkersUsed
  <2>2. CASE k = i /\ n = Len(workers[k])
    BY <1>a, <1>c, <1>n, <2>2
  <2> QED
    BY <1>a, <1>p, <2>1, <2>2
<1>10. JobsHaveCores'
  <2> SUFFICES ASSUME NEW j \in jobs'
               PROVE  /\ owner[j.core] = j.id
                      /\ \E n \in DOMAIN workers[j.inst] : workers[j.inst][n] = j.core
    BY <1>a DEF JobsHaveCores
  <2>1. CASE j \in jobs
    BY <1>a, <2>1 DEF IInv, CoreInv, JobsHaveCores
  <2>2. CASE j = new
    BY <1>c, <1>n, <2>2
  <2> QED
    BY <1>a, <2>1, <2>2
<1>11. WalkInv'
  <2>1. \A j, k \in jobs' : j.id = k.id => j = k
    <3>1. \A j, k \in jobs : j.id = k.id => j = k
      BY DEF IInv, WalkInv
    <3> QED
      BY <1>a, <1>b, <1>n, <3>1
  <2> QED
    BY <1>a, <1>t, <2>1 DEF WalkInv, Walking
<1>12. IdInv'
  <2>1. ASSUME NEW k \in Inst PROVE cur'[k] < nextJob /\ \A x \in flight'[k] : x < nextJob
    <3>1. cur[k] < nextJob /\ \A x \in flight[k] : x < nextJob
      BY DEF IInv, IdInv
    <3>2. nextJob \in 1 .. JobMax + 1
      BY <1>0 DEF TypeCores
    <3> QED
      BY <1>b, <1>d, <1>f, <1>g, <3>1, <3>2, Sizes DEF NoJob
  <2>2. ASSUME NEW k \in Inst, Submitting(k)'
        PROVE  /\ k # i /\ cur'[k] = cur[k] /\ cur[k] # NoJob
               /\ \A l \in Inst : cur[k] \notin flight'[l] /\ (Submitting(l)' /\ l # k => cur[k] # cur'[l])
    <3>1. k # i /\ Submitting(k) /\ cur'[k] = cur[k]
      BY <1>f, <1>p, <2>2
    <3>2. cur[k] # id
      BY <1>s, <3>1 DEF IInv, IdInv, id
    <3>3. \A l \in Inst : cur[k] \notin flight[l] /\ (Submitting(l) /\ l # k => cur[k] # cur[l])
      BY <3>1 DEF IInv, IdInv
    <3>4. cur[k] # NoJob
      BY <3>1 DEF IInv, IdInv
    <3> QED
      BY <1>d, <1>f, <1>p, <3>1, <3>2, <3>3, <3>4
  <2>3. \A k, l \in Inst : k # l => flight'[k] \cap flight'[l] = {}
    <3>1. \A k, l \in Inst : k # l => flight[k] \cap flight[l] = {}
      BY DEF IInv, IdInv
    <3> QED
      BY <1>b, <1>d, <3>1
  <2>4. /\ \A c \in Core : owner[c] < nextJob
        /\ \A c, d \in Core : owner[c] = owner[d] /\ owner[c] # NoJob => c = d
        /\ \A x \in JobId : x >= nextJob => pending[x] = "none" /\ waitOut[x] = "none"
    BY DEF IInv, IdInv
  <2> QED
    BY <1>a, <2>1, <2>2, <2>3, <2>4 DEF IdInv
<1>13. JobsWaiting'
  <2> SUFFICES ASSUME NEW j \in jobs'
               PROVE  j.id \in flight'[j.inst] /\ \A k \in DOMAIN out[j.id] : out[j.id][k] \notin Final
    BY <1>a DEF JobsWaiting
  <2>1. CASE j \in jobs
    <3>1. j.inst \in Inst /\ j.id \in flight[j.inst] /\ \A k \in DOMAIN out[j.id] : out[j.id][k] \notin Final
      BY <1>0, <2>1 DEF IInv, FrameInv, JobsWaiting, TypeQueues, Job
    <3> QED
      BY <1>d, <3>1
  <2>2. CASE j = new
    <3>1. DOMAIN out[id] = {}
      BY <1>b
    <3> QED
      BY <1>d, <1>n, <2>2, <3>1
  <2> QED
    BY <1>a, <2>1, <2>2
<1>14. FlightPlaced'
  <2> SUFFICES ASSUME NEW k \in Inst, NEW x \in flight'[k]
               PROVE  (\E j \in jobs' : j.id = x) \/ (out[x] # <<>> /\ Last(out[x]) \in Final)
    BY <1>a DEF FlightPlaced
  <2>1. CASE x = id
    BY <1>a, <1>n, <2>1
  <2>2. CASE x # id
    <3>1. x \in flight[k]
      BY <1>d, <2>2
    <3> QED
      BY <1>a, <3>1 DEF IInv, FrameInv, FlightPlaced
  <2> QED
    BY <2>1, <2>2
<1>15. AnswersAsked'
  <2>1. \A x \in JobId : out[x] # <<>> => \E k \in Inst : x \in flight[k]
    BY DEF IInv, FrameInv, AnswersAsked
  <2> QED
    BY <1>a, <1>d, <2>1 DEF AnswersAsked
<1>16. RingInv'
  <2> SUFFICES ASSUME NEW k \in Inst, NEW l \in Inst, NEW n \in 0 .. ParallelCoreNum[k] - 1
               PROVE  /\ k # l => waitJobid'[k][n] \notin flight'[l]
                      /\ Submitting(l)' => waitJobid'[k][n] # cur'[l]
                      /\ waitJobid'[k][n] < nextJob
    BY <1>a DEF RingInv
  <2>1. CASE k = i /\ n = jobCnt[i]
    <3>1. waitJobid'[k][n] = id
      BY <1>e, <2>1
    <3>2. Submitting(l)' => cur'[l] # id
      BY <1>f, <1>p, <1>s DEF IInv, IdInv, id
    <3> QED
      BY <1>b, <1>d, <2>1, <3>1, <3>2
  <2>2. CASE ~(k = i /\ n = jobCnt[i])
    <3>1. waitJobid'[k][n] = waitJobid[k][n]
      BY <1>e, <2>2
    <3>2. /\ k # l => waitJobid[k][n] \notin flight[l]
          /\ Submitting(l) => waitJobid[k][n] # cur[l]
          /\ waitJobid[k][n] < nextJob
      BY DEF IInv, FrameInv, RingInv
    <3>3. waitJobid[k][n] # id
      BY <1>s DEF IInv, FrameInv, RingInv, id
    <3> QED
      BY <1>d, <1>f, <1>p, <3>1, <3>2, <3>3
  <2> QED
    BY <2>1, <2>2
<1>17. LastInv'
  BY <1>a DEF IInv, LastInv
<1>18. CountInv'
  <2>1. ASSUME NEW k \in Inst
        PROVE  /\ IsFiniteSet(flight'[k]) /\ Cardinality(flight'[k]) = reservedCore'[k]
               /\ pc'[k] \notin {"search", "asleep"} => reservedCore'[k] < ParallelCoreNum[k]
               /\ pc'[k] \in {"none", "cleared", "released", "closed"} => reservedCore'[k] = 0
               /\ call'[k] = "clear" => ParallelCoreNum[k] > 1
    <3>1. /\ IsFiniteSet(flight[k]) /\ Cardinality(flight[k]) = reservedCore[k]
          /\ pc[k] \notin {"search", "asleep"} => reservedCore[k] < ParallelCoreNum[k]
          /\ pc[k] \in {"none", "cleared", "released", "closed"} => reservedCore[k] = 0
          /\ call[k] = "clear" => ParallelCoreNum[k] > 1
      BY DEF IInv, CountInv
    <3>2. CASE k # i
      BY <1>d, <1>f, <3>1, <3>2
    <3>3. CASE k = i
      <4>1. IsFiniteSet(flight'[i]) /\ Cardinality(flight'[i]) = reservedCore'[i]
        <5>1. IsFiniteSet(flight[i]) /\ Cardinality(flight[i]) = reservedCore[i] /\ id \notin flight[i]
          BY <1>b, <3>1, <3>3
        <5>2. IsFiniteSet(flight[i] \cup {id}) /\ Cardinality(flight[i] \cup {id}) = reservedCore[i] + 1
          BY <5>1, FS_AddElement
        <5> QED
          BY <1>d, <1>g, <5>2
      <4>2. pc'[i] = "idle" => reservedCore'[i] < ParallelCoreNum[i]
        BY <1>g, <1>r
      <4> QED
        BY <1>g, <3>1, <3>3, <4>1, <4>2
    <3> QED
      BY <3>2, <3>3
  <2> QED
    BY <1>a, <1>o, <1>t, <2>1 DEF IInv, CountInv
<1>19. SliceInv'
  <2>1. \A k \in Inst : \A x \in JobId : Uses(k, x)' => Uses(k, x)
    BY <1>d, <1>f, <1>p, <1>s DEF Uses, id
  <2>2. \A k \in Inst : \A x \in flight'[k] : (\E n \in DOMAIN out[x] : out[x][n] = "slice") => x \in flight[k]
    BY <1>b, <1>d
  <2> QED
    BY <1>a, <2>1, <2>2 DEF IInv, SliceInv
<1>20. ~cutShort'
  BY DEF IInv, EWLEnqueueWaitjob, history, outcome
<1> QED
  BY <1>1, <1>2, <1>3, <1>4, <1>5, <1>6, <1>7, <1>8, <1>9, <1>10, <1>11, <1>12, <1>13, <1>14,
     <1>15, <1>16, <1>17, <1>18, <1>19, <1>20, TypePartsNext DEF IInv, CoreInv, FrameInv

\* A flush begins.
LEMMA VCEncMultiCoreFlush_Keeps ==
    ASSUME IInv, NEW i \in Inst, VCEncMultiCoreFlush(i)
    PROVE  IInv'
<1>0. TypeQueues /\ TypeThread /\ TypeTold /\ TypeCaller /\ TypeRing /\ TypeCores
  BY TypeParts DEF IInv
<1>1. TypeQueues'
  BY <1>0, BoundsAssumption, NextIndexType
    DEF VCEncMultiCoreFlush, TypeQueues, Job, Final, ewl, told, thread, ring, caller, kernel,
        history, outcome, cwl
<1>2. TypeThread'
  BY <1>0, BoundsAssumption, NextIndexType
    DEF VCEncMultiCoreFlush, TypeThread, NoOne, Job, JobMutexFree, Signalled, ewl, told, thread,
        ring, caller, kernel, history, outcome, cwl
<1>3. TypeTold'
  BY <1>0, BoundsAssumption, NextIndexType
    DEF VCEncMultiCoreFlush, TypeTold, Status, Quiet, ewl, told, thread, ring, caller, kernel,
        history, outcome, cwl
<1>4. TypeCaller'
  BY <1>0, BoundsAssumption, NextIndexType
    DEF VCEncMultiCoreFlush, TypeCaller, ewl, told, thread, ring, caller, kernel, history,
        outcome, cwl
<1>5. TypeRing'
  BY <1>0, BoundsAssumption, NextIndexType
    DEF VCEncMultiCoreFlush, TypeRing, ewl, told, thread, ring, caller, kernel, history,
        outcome, cwl
<1>6. TypeCores'
  BY <1>0, BoundsAssumption, NextIndexType
    DEF VCEncMultiCoreFlush, TypeCores, ewl, told, thread, ring, caller, kernel, history,
        outcome, cwl
<1>s. \A k \in Inst : /\ Submitting(k)' <=> Submitting(k)
                      /\ Lent(k)' <=> Lent(k)
                      /\ Holding(k)' <=> Holding(k)
  BY <1>0
    DEF VCEncMultiCoreFlush, TypeCaller, Submitting, ewl, told, thread, ring, caller, kernel,
        history, outcome, cwl, Lent, Holding
<1>o. \A k \in Inst : Open(k)' <=> Open(k)
  BY <1>0
    DEF VCEncMultiCoreFlush, TypeCaller, Open, ewl, told, thread, ring, caller, kernel, history,
        outcome, cwl
<1>7. CoresAccounted'
  BY <1>0, <1>s
    DEF VCEncMultiCoreFlush, IInv, CoreInv, CoresAccounted, OnItsWayBack, ewl, told, thread,
        ring, caller, kernel, history, outcome, cwl, OnItsWayOut, Lent
<1>8. OwnCore'
  BY <1>0, <1>s
    DEF TypeThread, VCEncMultiCoreFlush, IInv, CoreInv, OwnCore, FIRST_CORE, LAST_CORE, ewl,
        told, thread, ring, caller, kernel, history, outcome, cwl, Holding
<1>9. WorkersUsed'
  BY <1>0, <1>s
    DEF VCEncMultiCoreFlush, IInv, CoreInv, WorkersUsed, ewl, told, thread, ring, caller,
        kernel, history, outcome, cwl
<1>10. JobsHaveCores'
  BY <1>0
    DEF VCEncMultiCoreFlush, IInv, CoreInv, JobsHaveCores, ewl, told, thread, ring, caller,
        kernel, history, outcome, cwl
<1>11. WalkInv'
  BY <1>0
    DEF TypeThread, VCEncMultiCoreFlush, IInv, WalkInv, Walking, Answer, Final, Status, Quiet,
        NoOne, ewl, told, thread, ring, caller, kernel, history, outcome, cwl
<1>12. IdInv'
  BY <1>0, <1>s
    DEF TypeTold, VCEncMultiCoreFlush, IInv, IdInv, Quiet, Status, ewl, told, thread, ring,
        caller, kernel, history, outcome, cwl
<1>13. JobsWaiting'
  BY <1>0
    DEF VCEncMultiCoreFlush, IInv, FrameInv, JobsWaiting, ewl, told, thread, ring, caller,
        kernel, history, outcome, cwl
<1>14. FlightPlaced'
  BY <1>0
    DEF VCEncMultiCoreFlush, IInv, FrameInv, FlightPlaced, ewl, told, thread, ring, caller,
        kernel, history, outcome, cwl
<1>15. AnswersAsked'
  BY <1>0
    DEF VCEncMultiCoreFlush, IInv, FrameInv, AnswersAsked, ewl, told, thread, ring, caller,
        kernel, history, outcome, cwl
<1>16. RingInv'
  BY <1>0, <1>s
    DEF VCEncMultiCoreFlush, IInv, FrameInv, RingInv, ewl, told, thread, ring, caller, kernel,
        history, outcome, cwl
<1>17. LastInv'
  BY <1>0
    DEF VCEncMultiCoreFlush, IInv, LastInv, ewl, told, thread, ring, caller, kernel, history,
        outcome, cwl
<1>18. CountInv'
  BY <1>0, <1>o
    DEF TypeRing, TypeCaller, VCEncMultiCoreFlush, IInv, CountInv, ewl, told, thread, ring,
        caller, kernel, history, outcome, cwl
<1>19. SliceInv'
  BY <1>0, <1>s
    DEF VCEncMultiCoreFlush, IInv, SliceInv, Uses, Quiet, ewl, told, thread, ring, caller,
        kernel, history, outcome, cwl
<1>20. ~cutShort'
  BY DEF IInv, VCEncMultiCoreFlush, history, outcome
<1> QED
  BY <1>1, <1>2, <1>3, <1>4, <1>5, <1>6, <1>7, <1>8, <1>9, <1>10, <1>11, <1>12, <1>13, <1>14,
     <1>15, <1>16, <1>17, <1>18, <1>19, <1>20, TypePartsNext DEF IInv, CoreInv, FrameInv

\* An instance without frames in flight is cleared at once.
LEMMA VCEncClear_Keeps ==
    ASSUME IInv, NEW i \in Inst, VCEncClear(i)
    PROVE  IInv'
<1>0. TypeQueues /\ TypeThread /\ TypeTold /\ TypeCaller /\ TypeRing /\ TypeCores
  BY TypeParts DEF IInv
<1>1. TypeQueues'
  BY <1>0, BoundsAssumption, NextIndexType
    DEF VCEncClear, NothingInFlight, TypeQueues, Job, Final, ewl, told, thread, ring, caller,
        kernel, history, outcome, cwl
<1>2. TypeThread'
  BY <1>0, BoundsAssumption, NextIndexType
    DEF VCEncClear, NothingInFlight, TypeThread, NoOne, Job, JobMutexFree, Signalled, ewl, told,
        thread, ring, caller, kernel, history, outcome, cwl
<1>3. TypeTold'
  BY <1>0, BoundsAssumption, NextIndexType
    DEF VCEncClear, NothingInFlight, TypeTold, Status, Quiet, ewl, told, thread, ring, caller,
        kernel, history, outcome, cwl
<1>4. TypeCaller'
  BY <1>0, BoundsAssumption, NextIndexType
    DEF VCEncClear, NothingInFlight, TypeCaller, ewl, told, thread, ring, caller, kernel,
        history, outcome, cwl
<1>5. TypeRing'
  BY <1>0, BoundsAssumption, NextIndexType
    DEF VCEncClear, NothingInFlight, TypeRing, ewl, told, thread, ring, caller, kernel, history,
        outcome, cwl
<1>6. TypeCores'
  BY <1>0, BoundsAssumption, NextIndexType
    DEF VCEncClear, NothingInFlight, TypeCores, ewl, told, thread, ring, caller, kernel,
        history, outcome, cwl
<1>s. \A k \in Inst : /\ Submitting(k)' <=> Submitting(k)
                      /\ Lent(k)' <=> Lent(k)
                      /\ Holding(k)' <=> Holding(k)
  BY <1>0
    DEF VCEncClear, NothingInFlight, TypeCaller, Submitting, ewl, told, thread, ring, caller,
        kernel, history, outcome, cwl, Lent, Holding
<1>o. \A k \in Inst : Open(k)' <=> Open(k)
  BY <1>0
    DEF VCEncClear, NothingInFlight, TypeCaller, Open, ewl, told, thread, ring, caller, kernel,
        history, outcome, cwl
<1>7. CoresAccounted'
  BY <1>0, <1>s
    DEF VCEncClear, NothingInFlight, IInv, CoreInv, CoresAccounted, OnItsWayBack, ewl, told,
        thread, ring, caller, kernel, history, outcome, cwl, OnItsWayOut, Lent
<1>8. OwnCore'
  <2>1. UNCHANGED <<at, workers, owner, cur, job>>
    BY
      DEF VCEncClear, NothingInFlight, ewl, told, thread, ring, caller, kernel, history,
          outcome, cwl
  <2> QED
    BY <1>s, <2>1 DEF IInv, CoreInv, OwnCore, Submitting, FIRST_CORE, LAST_CORE, Holding, Lent
<1>9. WorkersUsed'
  BY <1>0, <1>s
    DEF VCEncClear, NothingInFlight, IInv, CoreInv, WorkersUsed, ewl, told, thread, ring,
        caller, kernel, history, outcome, cwl
<1>10. JobsHaveCores'
  BY <1>0
    DEF VCEncClear, NothingInFlight, IInv, CoreInv, JobsHaveCores, ewl, told, thread, ring,
        caller, kernel, history, outcome, cwl
<1>11. WalkInv'
  BY <1>0
    DEF TypeThread, VCEncClear, NothingInFlight, IInv, WalkInv, Walking, Answer, Final, Status,
        Quiet, NoOne, ewl, told, thread, ring, caller, kernel, history, outcome, cwl
<1>12. IdInv'
  BY <1>0, <1>s
    DEF TypeTold, VCEncClear, NothingInFlight, IInv, IdInv, Quiet, Status, ewl, told, thread,
        ring, caller, kernel, history, outcome, cwl
<1>13. JobsWaiting'
  BY <1>0
    DEF VCEncClear, NothingInFlight, IInv, FrameInv, JobsWaiting, ewl, told, thread, ring,
        caller, kernel, history, outcome, cwl
<1>14. FlightPlaced'
  BY <1>0
    DEF VCEncClear, NothingInFlight, IInv, FrameInv, FlightPlaced, ewl, told, thread, ring,
        caller, kernel, history, outcome, cwl
<1>15. AnswersAsked'
  BY <1>0
    DEF VCEncClear, NothingInFlight, IInv, FrameInv, AnswersAsked, ewl, told, thread, ring,
        caller, kernel, history, outcome, cwl
<1>16. RingInv'
  BY <1>0, <1>s
    DEF VCEncClear, NothingInFlight, IInv, FrameInv, RingInv, ewl, told, thread, ring, caller,
        kernel, history, outcome, cwl
<1>17. LastInv'
  BY <1>0
    DEF VCEncClear, NothingInFlight, IInv, LastInv, ewl, told, thread, ring, caller, kernel,
        history, outcome, cwl
<1>18. CountInv'
  <2>1. UNCHANGED <<flight, referCounter, bFlush, at, reservedCore>>
    BY
      DEF VCEncClear, NothingInFlight, ewl, told, thread, ring, caller, kernel, history,
          outcome, cwl
  <2>2. ASSUME NEW k \in Inst
        PROVE  /\ pc'[k] \notin {"search", "asleep"} => reservedCore[k] < ParallelCoreNum[k]
               /\ pc'[k] \in {"none", "cleared", "released", "closed"} => reservedCore[k] = 0
               /\ call'[k] = "clear" => ParallelCoreNum[k] > 1
    <3>1. CASE k # i
      BY <1>0, <3>1 DEF VCEncClear, NothingInFlight, IInv, CountInv, TypeCaller
    <3>2. CASE k = i
      <4>1. /\ reservedCore[i] \in Nat /\ ParallelCoreNum[i] \in Nat
            /\ reservedCore[i] < ParallelCoreNum[i] /\ (call[i] = "clear" => ParallelCoreNum[i] > 1)
        BY <1>0, Sizes DEF VCEncClear, IInv, CountInv, TypeRing
      <4>2. \/ reservedCore[i] = 0 /\ pc'[i] = "cleared" /\ call'[i] = call[i]
            \/ reservedCore[i] > 0 /\ pc'[i] = "search"
        BY <1>0, <4>1 DEF VCEncClear, NothingInFlight, TypeCaller
      <4> QED
        BY <3>2, <4>1, <4>2
    <3> QED
      BY <3>1, <3>2
  <2> QED
    BY <1>o, <2>1, <2>2 DEF IInv, CountInv
<1>19. SliceInv'
  BY <1>0, <1>s
    DEF VCEncClear, NothingInFlight, IInv, SliceInv, Uses, Quiet, ewl, told, thread, ring,
        caller, kernel, history, outcome, cwl
<1>20. ~cutShort'
  BY DEF IInv, VCEncClear, history, outcome
<1> QED
  BY <1>1, <1>2, <1>3, <1>4, <1>5, <1>6, <1>7, <1>8, <1>9, <1>10, <1>11, <1>12, <1>13, <1>14,
     <1>15, <1>16, <1>17, <1>18, <1>19, <1>20, TypePartsNext DEF IInv, CoreInv, FrameInv

\* VCEncClear takes the report of a slice for the last one in such an instance only.
LEMMA CutShortBySlices ==
    ASSUME IInv, NEW i \in Inst, TakeReport(i), cutShort'
    PROVE  CutBySlices
<1>0. TypeQueues /\ TypeRing
  BY TypeParts DEF IInv
<1> DEFINE id == Awaited(i)
           r == out[id]
<1>1. id \in JobId /\ r # <<>> /\ Head(r) \notin Final /\ call[i] = "clear"
  BY DEF TakeReport, IInv
<1>2. id \in flight[i]
  <2>1. NextIndex(i) \in 0 .. ParallelCoreNum[i] - 1
    BY <1>0, NextIndexType
  <2>2. PICK k \in Inst : id \in flight[k]
    BY <1>1 DEF IInv, FrameInv, AnswersAsked
  <2> QED
    BY <2>1, <2>2 DEF IInv, FrameInv, RingInv, Awaited
<1> HIDE DEF id
<1>3. 1 \in DOMAIN r /\ r[1] = "slice"
  <2>1. r \in Seq(Final \cup {"slice"})
    BY <1>0, <1>1 DEF TypeQueues
  <2> HIDE DEF r
  <2>2. Len(r) \in Nat \ {0} /\ DOMAIN r = 1 .. Len(r) /\ Head(r) = r[1]
    BY <1>1, <2>1, EmptySeq, LenProperties
  <2>3. r[1] \in Final \cup {"slice"}
    BY <2>1, <2>2, LenProperties
  <2> QED
    BY <1>1, <2>2, <2>3
<1>4. i \in Sliced
  BY <1>1, <1>2, <1>3 DEF IInv, SliceInv
<1>5. ParallelCoreNum[i] > 1
  BY <1>1 DEF IInv, CountInv
<1> QED
  BY <1>4, <1>5 DEF CutBySlices

\* The frame awaited is in flight, and the report taken, unless a slice, is its last.
LEMMA TakeReport_Keeps ==
    ASSUME IInv, NEW i \in Inst, TakeReport(i), ~cutShort'
    PROVE  IInv'
<1>0. TypeQueues /\ TypeThread /\ TypeTold /\ TypeCaller /\ TypeRing /\ TypeCores
  BY TypeParts DEF IInv
<1> DEFINE id == Awaited(i)
           r == out[id]
           over == Head(r) \in Final \/ call[i] = "clear"
<1>a. /\ pc[i] = "search" /\ id \in JobId /\ r # <<>>
      /\ out' = [out EXCEPT ![id] = Tail(@)]
      /\ IF over THEN LeaveFlight(i, call[i] = "flush" => Head(r) = "ready")
         ELSE UNCHANGED <<reservedCore, jobCnt, pc, call, flight, verdict>>
      /\ UNCHANGED <<referCounter, bFlush, jobs, workers, reg, at, todo, job, waitOut, waitError>>
      /\ UNCHANGED <<hasOutput, cur, waitJobid, owner, running, pending, nextJob, gone>>
      /\ cutShort' \in BOOLEAN /\ (Head(r) \notin Final => call[i] # "clear")
  BY DEF TakeReport, thread, told, kernel, cwl
<1>b. id \in flight[i]
  <2>1. NextIndex(i) \in 0 .. ParallelCoreNum[i] - 1
    BY <1>0, NextIndexType
  <2>2. PICK k \in Inst : id \in flight[k]
    BY <1>a DEF IInv, FrameInv, AnswersAsked
  <2>3. k = i
    BY <2>1, <2>2 DEF IInv, FrameInv, RingInv, Awaited
  <2> QED
    BY <2>2, <2>3
<1> HIDE DEF id
<1>c. /\ r \in Seq(Final \cup {"slice"}) /\ Len(r) \in Nat \ {0} /\ DOMAIN r = 1 .. Len(r)
      /\ Head(r) = r[1] /\ r[1] \in Final \cup {"slice"} /\ out'[id] = Tail(r)
      /\ out'[id] \in Seq(Final \cup {"slice"}) /\ Len(out'[id]) = Len(r) - 1
      /\ DOMAIN out'[id] = 1 .. Len(r) - 1
      /\ \A k \in 1 .. Len(r) - 1 : out'[id][k] = r[k + 1]
  <2>1. r \in Seq(Final \cup {"slice"}) /\ out'[id] = Tail(r) /\ r # <<>>
    BY <1>0, <1>a DEF TypeQueues
  <2> HIDE DEF r
  <2>2. Len(r) \in Nat \ {0} /\ DOMAIN r = 1 .. Len(r) /\ Head(r) = r[1]
    BY <2>1, EmptySeq, LenProperties
  <2>3. r[1] \in Final \cup {"slice"}
    BY <2>1, <2>2, LenProperties
  <2>4. /\ Tail(r) \in Seq(Final \cup {"slice"}) /\ Len(Tail(r)) = Len(r) - 1
        /\ \A k \in 1 .. Len(r) - 1 : Tail(r)[k] = r[k + 1]
    BY <2>1, HeadTailProperties
  <2> QED
    BY <2>1, <2>2, <2>3, <2>4, LenProperties
<1>e. \A k \in DOMAIN out'[id] : k + 1 \in DOMAIN r /\ out'[id][k] = r[k + 1]
  BY <1>c
<1>z. \A other \in JobId : other # id => out'[other] = out[other]
  BY <1>0, <1>a DEF TypeQueues
<1>f. over => /\ Head(r) \in Final /\ out'[id] = <<>> /\ \A j \in jobs : j.id # id
  <2> SUFFICES ASSUME over PROVE Head(r) \in Final /\ out'[id] = <<>> /\ \A j \in jobs : j.id # id
    OBVIOUS
  <2>1. Head(r) \in Final
    BY <1>a
  <2>0. 1 \in DOMAIN r /\ r[1] \in Final
    BY <1>c, <2>1
  <2>2. Len(r) = 1
    <3>1. \A k \in DOMAIN r : r[k] \in Final => k = Len(r)
      BY <1>a DEF IInv, LastInv
    <3> HIDE DEF r, over
    <3> QED
      BY <2>0, <3>1
  <2>3. out'[id] = <<>>
    BY <1>c, <2>2, EmptySeq
  <2>4. \A j \in jobs : j.id # id
    <3>1. ASSUME NEW j \in jobs, j.id = id PROVE \A k \in DOMAIN r : r[k] \notin Final
      BY <3>1 DEF IInv, FrameInv, JobsWaiting
    <3> HIDE DEF r, over
    <3> QED
      BY <2>0, <3>1
  <2> QED
    BY <2>1, <2>3, <2>4
<1>g. over => /\ flight' = [flight EXCEPT ![i] = @ \ {id}] /\ verdict' = [verdict EXCEPT ![id] = "none"]
              /\ reservedCore' = [reservedCore EXCEPT ![i] = @ - 1]
              /\ jobCnt' \in {jobCnt, [jobCnt EXCEPT ![i] = NextIndex(i)]}
              /\ \/ pc' = [pc EXCEPT ![i] = "idle"] /\ call' = [call EXCEPT ![i] = "none"]
                 \/ /\ reservedCore[i] = 1
                    /\ pc' = [pc EXCEPT ![i] = "cleared"] /\ call' = [call EXCEPT ![i] = "none"]
                 \/ UNCHANGED <<pc, call>>
  BY <1>a DEF LeaveFlight, Return, id
<1>h. ~over => Head(r) = "slice" /\ UNCHANGED <<reservedCore, jobCnt, pc, call, flight, verdict>>
  BY <1>a, <1>c DEF history, outcome, cwl
<1> HIDE DEF r, over
<1>i. \A k \in Inst : flight'[k] = IF k = i /\ over THEN flight[k] \ {id} ELSE flight[k]
  BY <1>0, <1>g, <1>h DEF TypeRing
<1>p. \A k \in Inst : pc'[k] = pc[k] \/ (k = i /\ pc'[k] \in {"idle", "cleared"})
  BY <1>0, <1>g, <1>h DEF TypeCaller
<1>1. TypeQueues'
  <2>1. out' \in [JobId -> Seq(Final \cup {"slice"})]
    BY <1>0, <1>a, <1>c DEF TypeQueues, r
  <2> QED
    BY <1>0, <1>a, <2>1 DEF TypeQueues
<1>2. TypeThread'
  BY <1>0, <1>a DEF TypeThread
<1>3. TypeTold'
  BY <1>0, <1>a, <1>g, <1>h DEF TypeTold, Status
<1>4. TypeCaller'
  <2>1. CASE over
    BY <1>0, <1>a, <1>g, <2>1 DEF TypeCaller
  <2>2. CASE ~over
    BY <1>0, <1>a, <1>h, <2>2 DEF TypeCaller
  <2> QED
    BY <2>1, <2>2
<1>5. TypeRing'
  <2>1. CASE over
    <3>1. reservedCore[i] > 0
      <4>1. IsFiniteSet(flight[i]) /\ Cardinality(flight[i]) = reservedCore[i] /\ reservedCore[i] \in Nat
        BY <1>0 DEF IInv, CountInv, TypeRing
      <4>2. reservedCore[i] # 0
        BY <1>b, <4>1, FS_EmptySet
      <4> QED
        BY <4>1, <4>2
    <3>2. NextIndex(i) \in 0 .. ParallelCoreNum[i] - 1 /\ ParallelCoreNum[i] \in Nat
      BY <1>0, NextIndexType, Sizes
    <3>a. /\ jobCnt \in [Inst -> Nat] /\ \A k \in Inst : jobCnt[k] < ParallelCoreNum[k]
          /\ reservedCore \in [Inst -> Nat] /\ \A k \in Inst : reservedCore[k] <= ParallelCoreNum[k]
          /\ flight \in [Inst -> SUBSET JobId]
      BY <1>0 DEF TypeRing
    <3>b. NextIndex(i) \in Nat /\ NextIndex(i) < ParallelCoreNum[i]
      BY <3>2
    <3> HIDE DEF id
    <3>3. jobCnt' \in [Inst -> Nat] /\ \A k \in Inst : jobCnt'[k] < ParallelCoreNum[k]
      <4>1. jobCnt' = jobCnt \/ jobCnt' = [jobCnt EXCEPT ![i] = NextIndex(i)]
        BY <1>g, <2>1
      <4> QED
        BY <3>a, <3>b, <4>1
    <3>4. reservedCore' \in [Inst -> Nat] /\ \A k \in Inst : reservedCore'[k] <= ParallelCoreNum[k]
      <4>1. reservedCore' = [reservedCore EXCEPT ![i] = reservedCore[i] - 1]
        BY <1>g, <2>1
      <4>2. \A k \in Inst : reservedCore'[k] = IF k = i THEN reservedCore[k] - 1 ELSE reservedCore[k]
        BY <3>a, <4>1
      <4>3. reservedCore[i] - 1 \in Nat /\ reservedCore[i] - 1 <= ParallelCoreNum[i]
        BY <3>1, <3>2, <3>a
      <4>4. reservedCore' \in [Inst -> Nat]
        BY <3>a, <4>1, <4>3
      <4> QED
        BY <3>a, <4>2, <4>3, <4>4
    <3>5. flight' \in [Inst -> SUBSET JobId]
      <4>1. flight' = [flight EXCEPT ![i] = flight[i] \ {id}]
        BY <1>g, <2>1
      <4>2. flight[i] \ {id} \in SUBSET JobId
        BY <3>a
      <4> QED
        BY <3>a, <4>1, <4>2
    <3> QED
      BY <1>0, <1>a, <3>3, <3>4, <3>5 DEF TypeRing
  <2>2. CASE ~over
    BY <1>0, <1>a, <1>h, <2>2 DEF TypeRing
  <2> QED
    BY <2>1, <2>2
<1>6. TypeCores'
  BY <1>0, <1>a DEF TypeCores
<1>s. \A k \in Inst : /\ Submitting(k)' <=> Submitting(k)
                      /\ Lent(k)' <=> Lent(k)
                      /\ Holding(k)' <=> Holding(k)
  BY <1>0, <1>a, <1>p DEF TypeCaller, Submitting, Lent, Holding
<1>o. \A k \in Inst : Open(k)' <=> Open(k)
  BY <1>0, <1>a, <1>p DEF TypeCaller, Open
<1>7. CoresAccounted'
  <2>1. \A c \in Core : /\ OnItsWayBack(c)' <=> OnItsWayBack(c)
                        /\ OnItsWayOut(c)' <=> OnItsWayOut(c)
                        /\ Used(c)' <=> Used(c)
    <3> TAKE c \in Core
    <3>1. OnItsWayOut(c) <=> \E k \in Inst : Lent(k) /\ owner[c] = cur[k]
      BY DEF OnItsWayOut, Lent
    <3>2. OnItsWayOut(c)' <=> \E k \in Inst : Lent(k)' /\ owner[c] = cur[k]
      BY <1>a DEF OnItsWayOut, Lent
    <3> QED
      BY <1>a, <1>s, <3>1, <3>2 DEF OnItsWayBack, Used
  <2>2. ~cutShort /\ CoresOnce /\ CoresUsed /\ CoresNoted
    BY CoresParts DEF IInv, CoreInv
  <2>3. CoresOnce'
    BY <1>a, <2>2 DEF CoresOnce
  <2>4. CoresUsed'
    BY <1>a, <2>1, <2>2 DEF CoresUsed
  <2>5. CoresNoted'
    BY <1>a, <1>s, <2>2 DEF CoresNoted
  <2> QED
    BY <2>3, <2>4, <2>5, CoresPartsNext
<1>8. OwnCore'
  BY <1>a, <1>s DEF IInv, CoreInv, OwnCore, Submitting, LAST_CORE, FIRST_CORE, Holding, Lent
<1>9. WorkersUsed'
  BY <1>a, <1>s DEF IInv, CoreInv, WorkersUsed
<1>10. JobsHaveCores'
  BY <1>a DEF IInv, CoreInv, JobsHaveCores
<1>11. WalkInv'
  BY <1>a DEF IInv, WalkInv, Walking, Answer
<1>12. IdInv'
  <2>1. /\ \A c \in Core : owner'[c] < nextJob'
        /\ \A c, d \in Core : owner'[c] = owner'[d] /\ owner'[c] # NoJob => c = d
        /\ \A n \in JobId : n >= nextJob' => pending'[n] = "none" /\ waitOut'[n] = "none"
    BY <1>a DEF IInv, IdInv
  <2>2. \A k \in Inst : /\ cur'[k] < nextJob'
                        /\ \A n \in flight'[k] : n < nextJob'
                        /\ Submitting(k)' => cur'[k] # NoJob
    BY <1>a, <1>i, <1>s DEF IInv, IdInv
  <2>3. \A k, l \in Inst : /\ Submitting(k)' => cur'[k] \notin flight'[l]
                           /\ Submitting(k)' /\ Submitting(l)' /\ k # l => cur'[k] # cur'[l]
                           /\ k # l => flight'[k] \cap flight'[l] = {}
    BY <1>a, <1>i, <1>s DEF IInv, IdInv
  <2> QED
    BY <2>1, <2>2, <2>3 DEF IdInv
<1>13. JobsWaiting'
  <2> SUFFICES ASSUME NEW j \in jobs
               PROVE  j.id \in flight'[j.inst] /\ \A k \in DOMAIN out'[j.id] : out'[j.id][k] \notin Final
    BY <1>a DEF JobsWaiting
  <2>1. /\ j.id \in JobId /\ j.inst \in Inst /\ j.id \in flight[j.inst]
        /\ \A k \in DOMAIN out[j.id] : out[j.id][k] \notin Final
    BY <1>0 DEF IInv, FrameInv, JobsWaiting, TypeQueues, Job
  <2>2. CASE j.id = id
    BY <1>e, <1>f, <1>i, <2>1, <2>2 DEF r
  <2>3. CASE j.id # id
    BY <1>i, <1>z, <2>1, <2>3
  <2> QED
    BY <2>2, <2>3
<1>14. FlightPlaced'
  <2> SUFFICES ASSUME NEW k \in Inst, NEW other \in flight'[k]
               PROVE  \/ \E j \in jobs : j.id = other
                      \/ out'[other] # <<>> /\ Last(out'[other]) \in Final
    BY <1>a DEF FlightPlaced
  <2>1. other \in flight[k] /\ other \in JobId
    BY <1>0, <1>i DEF TypeRing
  <2>2. CASE other # id
    BY <1>z, <2>1, <2>2 DEF IInv, FrameInv, FlightPlaced
  <2>3. CASE other = id
    <3>1. ~over
      <4>1. flight[i] \cap flight[k] = {} \/ i = k
        BY DEF IInv, IdInv
      <4> QED
        BY <1>b, <1>i, <2>1, <2>3, <4>1
    <3>2. CASE Last(r) \in Final
      <4>1. Len(r) # 1 /\ r[1] = "slice" /\ Last(r) = r[Len(r)]
        BY <1>c, <1>h, <3>1, <3>2 DEF Last, Final
      <4>2. Len(r) - 1 \in 1 .. Len(r) - 1 /\ (Len(r) - 1) + 1 = Len(r)
        BY <1>c, <4>1
      <4>3. out'[id] # <<>> /\ Last(out'[id]) = r[Len(r)]
        <5>1. Len(out'[id]) = Len(r) - 1 /\ Len(out'[id]) # 0 /\ out'[id] \in Seq(Final \cup {"slice"})
          BY <1>c, <4>1
        <5>2. out'[id] # <<>>
          BY <5>1, EmptySeq
        <5>3. out'[id][Len(r) - 1] = r[Len(r)]
          BY <1>c, <4>2
        <5> QED
          BY <5>1, <5>2, <5>3 DEF Last
      <4> QED
        BY <2>3, <3>2, <4>1, <4>3
    <3>3. CASE \E j \in jobs : j.id = other
      BY <3>3
    <3> QED
      BY <2>1, <2>3, <3>2, <3>3 DEF IInv, FrameInv, FlightPlaced, r
  <2> QED
    BY <2>2, <2>3
<1>15. AnswersAsked'
  <2> SUFFICES ASSUME NEW other \in JobId, out'[other] # <<>> PROVE \E k \in Inst : other \in flight'[k]
    BY DEF AnswersAsked
  <2>1. CASE other = id
    BY <1>b, <1>f, <1>i, <2>1
  <2>2. CASE other # id
    <3>1. PICK k \in Inst : other \in flight[k]
      BY <1>z, <2>2 DEF IInv, FrameInv, AnswersAsked
    <3> QED
      BY <1>i, <2>2, <3>1
  <2> QED
    BY <2>1, <2>2
<1>16. RingInv'
  BY <1>a, <1>i, <1>s DEF IInv, FrameInv, RingInv
<1>17. LastInv'
  <2> SUFFICES ASSUME NEW other \in JobId, NEW k \in DOMAIN out'[other], out'[other][k] \in Final
               PROVE  k = Len(out'[other])
    BY DEF LastInv
  <2>1. CASE other = id
    <3>1. k + 1 = Len(r) /\ k \in Int
      BY <1>a, <1>c, <1>e, <2>1 DEF IInv, LastInv, r
    <3> QED
      BY <1>c, <2>1, <3>1
  <2>2. CASE other # id
    BY <1>z, <2>2 DEF IInv, LastInv
  <2> QED
    BY <2>1, <2>2
<1>18. CountInv'
  <2>1. UNCHANGED <<referCounter, bFlush, at>>
    BY <1>a
  <2>2. ASSUME NEW k \in Inst
        PROVE  /\ IsFiniteSet(flight'[k]) /\ Cardinality(flight'[k]) = reservedCore'[k]
               /\ pc'[k] \notin {"search", "asleep"} => reservedCore'[k] < ParallelCoreNum[k]
               /\ pc'[k] \in {"none", "cleared", "released", "closed"} => reservedCore'[k] = 0
               /\ call'[k] = "clear" => ParallelCoreNum[k] > 1
    <3>1. CASE ~over
      BY <1>h, <1>i, <3>1 DEF IInv, CountInv
    <3>2. CASE over /\ k # i
      <4>1. UNCHANGED <<pc[k], call[k], reservedCore[k], flight[k]>>
        BY <1>0, <1>g, <1>i, <3>2 DEF TypeCaller, TypeRing
      <4> QED
        BY <4>1 DEF IInv, CountInv
    <3>3. CASE over /\ k = i
      <4>1. /\ IsFiniteSet(flight[i]) /\ Cardinality(flight[i]) = reservedCore[i]
            /\ call[i] = "clear" => ParallelCoreNum[i] > 1
        BY DEF IInv, CountInv
      <4>2. /\ reservedCore[i] \in Nat /\ ParallelCoreNum[i] \in Nat
            /\ reservedCore[i] <= ParallelCoreNum[i] /\ reservedCore'[i] = reservedCore[i] - 1
        BY <1>0, <1>g, <3>3, Sizes DEF TypeRing
      <4>3. flight'[i] = flight[i] \ {id}
        BY <1>i, <3>3
      <4>4. IsFiniteSet(flight'[i]) /\ Cardinality(flight'[i]) = reservedCore'[i]
        BY <1>b, <4>1, <4>2, <4>3, FS_RemoveElement
      <4>5. \/ pc'[i] = "idle" /\ call'[i] = "none"
            \/ pc'[i] = "cleared" /\ call'[i] = "none" /\ reservedCore[i] = 1
            \/ pc'[i] = "search" /\ call'[i] = call[i]
        BY <1>0, <1>a, <1>g, <3>3 DEF TypeCaller
      <4> QED
        BY <3>3, <4>1, <4>2, <4>4, <4>5
    <3> QED
      BY <3>1, <3>2, <3>3
  <2> QED
    BY <1>o, <2>1, <2>2 DEF IInv, CountInv
<1>19. SliceInv'
  <2>1. \A k \in Inst : \A other \in JobId : Uses(k, other)' => Uses(k, other)
    BY <1>a, <1>i, <1>s DEF Uses
  <2>2. ASSUME NEW other \in JobId, \E k \in DOMAIN out'[other] : out'[other][k] = "slice"
        PROVE  \E k \in DOMAIN out[other] : out[other][k] = "slice"
    BY <1>e, <1>z, <2>2 DEF r
  <2> QED
    BY <1>a, <1>i, <2>1, <2>2 DEF IInv, SliceInv
<1>20. ~cutShort'
  OBVIOUS
<1> QED
  BY <1>1, <1>2, <1>3, <1>4, <1>5, <1>6, <1>7, <1>8, <1>9, <1>10, <1>11, <1>12, <1>13, <1>14,
     <1>15, <1>16, <1>17, <1>18, <1>19, <1>20, TypePartsNext DEF IInv, CoreInv, FrameInv

\* Asleep on out_cond.
LEMMA WaitForOutput_Keeps ==
    ASSUME IInv, NEW i \in Inst, WaitForOutput(i)
    PROVE  IInv'
<1>0. TypeQueues /\ TypeThread /\ TypeTold /\ TypeCaller /\ TypeRing /\ TypeCores
  BY TypeParts DEF IInv
<1>1. TypeQueues'
  BY <1>0, BoundsAssumption, NextIndexType
    DEF WaitForOutput, TypeQueues, Job, Final, ewl, told, thread, ring, caller, kernel, history,
        outcome, cwl
<1>2. TypeThread'
  BY <1>0, BoundsAssumption, NextIndexType
    DEF WaitForOutput, TypeThread, NoOne, Job, JobMutexFree, Signalled, ewl, told, thread, ring,
        caller, kernel, history, outcome, cwl
<1>3. TypeTold'
  BY <1>0, BoundsAssumption, NextIndexType
    DEF WaitForOutput, TypeTold, Status, Quiet, ewl, told, thread, ring, caller, kernel,
        history, outcome, cwl
<1>4. TypeCaller'
  BY <1>0, BoundsAssumption, NextIndexType
    DEF WaitForOutput, TypeCaller, ewl, told, thread, ring, caller, kernel, history, outcome,
        cwl
<1>5. TypeRing'
  BY <1>0, BoundsAssumption, NextIndexType
    DEF WaitForOutput, TypeRing, ewl, told, thread, ring, caller, kernel, history, outcome, cwl
<1>6. TypeCores'
  BY <1>0, BoundsAssumption, NextIndexType
    DEF WaitForOutput, TypeCores, ewl, told, thread, ring, caller, kernel, history, outcome, cwl
<1>s. \A k \in Inst : /\ Submitting(k)' <=> Submitting(k)
                      /\ Lent(k)' <=> Lent(k)
                      /\ Holding(k)' <=> Holding(k)
  BY <1>0
    DEF WaitForOutput, TypeCaller, Submitting, ewl, told, thread, ring, caller, kernel, history,
        outcome, cwl, Lent, Holding
<1>o. \A k \in Inst : Open(k)' <=> Open(k)
  BY <1>0
    DEF WaitForOutput, TypeCaller, Open, ewl, told, thread, ring, caller, kernel, history,
        outcome, cwl
<1>7. CoresAccounted'
  BY <1>0, <1>s
    DEF WaitForOutput, IInv, CoreInv, CoresAccounted, OnItsWayBack, ewl, told, thread, ring,
        caller, kernel, history, outcome, cwl, OnItsWayOut, Lent
<1>8. OwnCore'
  BY <1>0, <1>s
    DEF TypeThread, WaitForOutput, IInv, CoreInv, OwnCore, FIRST_CORE, LAST_CORE, ewl, told,
        thread, ring, caller, kernel, history, outcome, cwl, Holding
<1>9. WorkersUsed'
  BY <1>0, <1>s
    DEF WaitForOutput, IInv, CoreInv, WorkersUsed, ewl, told, thread, ring, caller, kernel,
        history, outcome, cwl
<1>10. JobsHaveCores'
  BY <1>0
    DEF WaitForOutput, IInv, CoreInv, JobsHaveCores, ewl, told, thread, ring, caller, kernel,
        history, outcome, cwl
<1>11. WalkInv'
  BY <1>0
    DEF TypeThread, WaitForOutput, IInv, WalkInv, Walking, Answer, Final, Status, Quiet, NoOne,
        ewl, told, thread, ring, caller, kernel, history, outcome, cwl
<1>12. IdInv'
  BY <1>0, <1>s
    DEF TypeTold, WaitForOutput, IInv, IdInv, Quiet, Status, ewl, told, thread, ring, caller,
        kernel, history, outcome, cwl
<1>13. JobsWaiting'
  BY <1>0
    DEF WaitForOutput, IInv, FrameInv, JobsWaiting, ewl, told, thread, ring, caller, kernel,
        history, outcome, cwl
<1>14. FlightPlaced'
  BY <1>0
    DEF WaitForOutput, IInv, FrameInv, FlightPlaced, ewl, told, thread, ring, caller, kernel,
        history, outcome, cwl
<1>15. AnswersAsked'
  BY <1>0
    DEF WaitForOutput, IInv, FrameInv, AnswersAsked, ewl, told, thread, ring, caller, kernel,
        history, outcome, cwl
<1>16. RingInv'
  BY <1>0, <1>s
    DEF WaitForOutput, IInv, FrameInv, RingInv, ewl, told, thread, ring, caller, kernel,
        history, outcome, cwl
<1>17. LastInv'
  BY <1>0
    DEF WaitForOutput, IInv, LastInv, ewl, told, thread, ring, caller, kernel, history, outcome,
        cwl
<1>18. CountInv'
  BY <1>0, <1>o
    DEF TypeRing, TypeCaller, WaitForOutput, IInv, CountInv, ewl, told, thread, ring, caller,
        kernel, history, outcome, cwl
<1>19. SliceInv'
  BY <1>0, <1>s
    DEF WaitForOutput, IInv, SliceInv, Uses, Quiet, ewl, told, thread, ring, caller, kernel,
        history, outcome, cwl
<1>20. ~cutShort'
  BY DEF IInv, WaitForOutput, history, outcome
<1> QED
  BY <1>1, <1>2, <1>3, <1>4, <1>5, <1>6, <1>7, <1>8, <1>9, <1>10, <1>11, <1>12, <1>13, <1>14,
     <1>15, <1>16, <1>17, <1>18, <1>19, <1>20, TypePartsNext DEF IInv, CoreInv, FrameInv

\* The thread ends only when no instance is open.
LEMMA NoJobs_Keeps ==
    ASSUME IInv, NoJobs
    PROVE  IInv'
<1>0. TypeQueues /\ TypeThread /\ TypeTold /\ TypeCaller /\ TypeRing /\ TypeCores
  BY TypeParts DEF IInv
<1>1. TypeQueues'
  BY <1>0, BoundsAssumption, NextIndexType
    DEF NoJobs, TypeQueues, Job, Final, ewl, told, thread, ring, caller, kernel, history,
        outcome, cwl
<1>2. TypeThread'
  BY <1>0, BoundsAssumption, NextIndexType
    DEF NoJobs, TypeThread, NoOne, Job, JobMutexFree, Signalled, ewl, told, thread, ring,
        caller, kernel, history, outcome, cwl
<1>3. TypeTold'
  BY <1>0, BoundsAssumption, NextIndexType
    DEF NoJobs, TypeTold, Status, Quiet, ewl, told, thread, ring, caller, kernel, history,
        outcome, cwl
<1>4. TypeCaller'
  BY <1>0, BoundsAssumption, NextIndexType
    DEF NoJobs, TypeCaller, ewl, told, thread, ring, caller, kernel, history, outcome, cwl
<1>5. TypeRing'
  BY <1>0, BoundsAssumption, NextIndexType
    DEF NoJobs, TypeRing, ewl, told, thread, ring, caller, kernel, history, outcome, cwl
<1>6. TypeCores'
  BY <1>0, BoundsAssumption, NextIndexType
    DEF NoJobs, TypeCores, ewl, told, thread, ring, caller, kernel, history, outcome, cwl
<1>s. \A k \in Inst : /\ Submitting(k)' <=> Submitting(k)
                      /\ Lent(k)' <=> Lent(k)
                      /\ Holding(k)' <=> Holding(k)
  BY <1>0
    DEF NoJobs, TypeCaller, Submitting, ewl, told, thread, ring, caller, kernel, history,
        outcome, cwl, Lent, Holding
<1>o. \A k \in Inst : Open(k)' <=> Open(k)
  BY <1>0
    DEF NoJobs, TypeCaller, Open, ewl, told, thread, ring, caller, kernel, history, outcome, cwl
<1>7. CoresAccounted'
  BY <1>0, <1>s
    DEF NoJobs, IInv, CoreInv, CoresAccounted, OnItsWayBack, ewl, told, thread, ring, caller,
        kernel, history, outcome, cwl, OnItsWayOut, Lent
<1>8. OwnCore'
  BY <1>0, <1>s
    DEF TypeThread, NoJobs, IInv, CoreInv, OwnCore, FIRST_CORE, LAST_CORE, ewl, told, thread,
        ring, caller, kernel, history, outcome, cwl, Holding
<1>9. WorkersUsed'
  BY <1>0, <1>s
    DEF NoJobs, IInv, CoreInv, WorkersUsed, ewl, told, thread, ring, caller, kernel, history,
        outcome, cwl
<1>10. JobsHaveCores'
  BY <1>0
    DEF NoJobs, IInv, CoreInv, JobsHaveCores, ewl, told, thread, ring, caller, kernel, history,
        outcome, cwl
<1>11. WalkInv'
  BY <1>0
    DEF TypeThread, NoJobs, IInv, WalkInv, Walking, Answer, Final, Status, Quiet, NoOne, ewl,
        told, thread, ring, caller, kernel, history, outcome, cwl
<1>12. IdInv'
  BY <1>0, <1>s
    DEF TypeTold, NoJobs, IInv, IdInv, Quiet, Status, ewl, told, thread, ring, caller, kernel,
        history, outcome, cwl
<1>13. JobsWaiting'
  BY <1>0
    DEF NoJobs, IInv, FrameInv, JobsWaiting, ewl, told, thread, ring, caller, kernel, history,
        outcome, cwl
<1>14. FlightPlaced'
  BY <1>0
    DEF NoJobs, IInv, FrameInv, FlightPlaced, ewl, told, thread, ring, caller, kernel, history,
        outcome, cwl
<1>15. AnswersAsked'
  BY <1>0
    DEF NoJobs, IInv, FrameInv, AnswersAsked, ewl, told, thread, ring, caller, kernel, history,
        outcome, cwl
<1>16. RingInv'
  BY <1>0, <1>s
    DEF NoJobs, IInv, FrameInv, RingInv, ewl, told, thread, ring, caller, kernel, history,
        outcome, cwl
<1>17. LastInv'
  BY <1>0 DEF NoJobs, IInv, LastInv, ewl, told, thread, ring, caller, kernel, history, outcome, cwl
<1>18. CountInv'
  BY <1>0, <1>o
    DEF TypeRing, TypeCaller, NoJobs, IInv, CountInv, ewl, told, thread, ring, caller, kernel,
        history, outcome, cwl
<1>19. SliceInv'
  BY <1>0, <1>s
    DEF NoJobs, IInv, SliceInv, Uses, Quiet, ewl, told, thread, ring, caller, kernel, history,
        outcome, cwl
<1>20. ~cutShort'
  BY DEF IInv, NoJobs, history, outcome
<1> QED
  BY <1>1, <1>2, <1>3, <1>4, <1>5, <1>6, <1>7, <1>8, <1>9, <1>10, <1>11, <1>12, <1>13, <1>14,
     <1>15, <1>16, <1>17, <1>18, <1>19, <1>20, TypePartsNext DEF IInv, CoreInv, FrameInv

\* What the kernel tells is about jobs it has numbered.
LEMMA CoresReport_Keeps ==
    ASSUME IInv, CoresReport
    PROVE  IInv'
<1>0. TypeQueues /\ TypeThread /\ TypeTold /\ TypeCaller /\ TypeRing /\ TypeCores
  BY TypeParts DEF IInv
<1>1. TypeQueues'
  BY <1>0, BoundsAssumption, NextIndexType
    DEF CoresReport, TypeQueues, Job, Final, ewl, told, thread, ring, caller, kernel, history,
        outcome, cwl
<1>2. TypeThread'
  BY <1>0, BoundsAssumption, NextIndexType
    DEF CoresReport, TypeThread, NoOne, Job, JobMutexFree, Signalled, ewl, told, thread, ring,
        caller, kernel, history, outcome, cwl
<1>3. TypeTold'
  BY <1>0, BoundsAssumption, NextIndexType
    DEF CoresReport, TypeTold, Status, Quiet, ewl, told, thread, ring, caller, kernel, history,
        outcome, cwl
<1>4. TypeCaller'
  BY <1>0, BoundsAssumption, NextIndexType
    DEF CoresReport, TypeCaller, ewl, told, thread, ring, caller, kernel, history, outcome, cwl
<1>5. TypeRing'
  BY <1>0, BoundsAssumption, NextIndexType
    DEF CoresReport, TypeRing, ewl, told, thread, ring, caller, kernel, history, outcome, cwl
<1>6. TypeCores'
  BY <1>0, BoundsAssumption, NextIndexType
    DEF CoresReport, TypeCores, ewl, told, thread, ring, caller, kernel, history, outcome, cwl
<1>s. \A k \in Inst : /\ Submitting(k)' <=> Submitting(k)
                      /\ Lent(k)' <=> Lent(k)
                      /\ Holding(k)' <=> Holding(k)
  BY <1>0
    DEF CoresReport, TypeCaller, Submitting, ewl, told, thread, ring, caller, kernel, history,
        outcome, cwl, Lent, Holding
<1>o. \A k \in Inst : Open(k)' <=> Open(k)
  BY <1>0
    DEF CoresReport, TypeCaller, Open, ewl, told, thread, ring, caller, kernel, history,
        outcome, cwl
<1>7. CoresAccounted'
  BY <1>0, <1>s
    DEF CoresReport, IInv, CoreInv, CoresAccounted, OnItsWayBack, ewl, told, thread, ring,
        caller, kernel, history, outcome, cwl, OnItsWayOut, Lent
<1>8. OwnCore'
  BY <1>0, <1>s
    DEF TypeThread, CoresReport, IInv, CoreInv, OwnCore, FIRST_CORE, LAST_CORE, ewl, told,
        thread, ring, caller, kernel, history, outcome, cwl, Holding
<1>9. WorkersUsed'
  BY <1>0, <1>s
    DEF CoresReport, IInv, CoreInv, WorkersUsed, ewl, told, thread, ring, caller, kernel,
        history, outcome, cwl
<1>10. JobsHaveCores'
  BY <1>0
    DEF CoresReport, IInv, CoreInv, JobsHaveCores, ewl, told, thread, ring, caller, kernel,
        history, outcome, cwl
<1>11. WalkInv'
  BY <1>0
    DEF TypeThread, CoresReport, IInv, WalkInv, Walking, Answer, Final, Status, Quiet, NoOne,
        ewl, told, thread, ring, caller, kernel, history, outcome, cwl
<1>12. IdInv'
  BY <1>0, <1>s
    DEF TypeTold, CoresReport, IInv, IdInv, Quiet, Status, ewl, told, thread, ring, caller,
        kernel, history, outcome, cwl
<1>13. JobsWaiting'
  BY <1>0
    DEF CoresReport, IInv, FrameInv, JobsWaiting, ewl, told, thread, ring, caller, kernel,
        history, outcome, cwl
<1>14. FlightPlaced'
  BY <1>0
    DEF CoresReport, IInv, FrameInv, FlightPlaced, ewl, told, thread, ring, caller, kernel,
        history, outcome, cwl
<1>15. AnswersAsked'
  BY <1>0
    DEF CoresReport, IInv, FrameInv, AnswersAsked, ewl, told, thread, ring, caller, kernel,
        history, outcome, cwl
<1>16. RingInv'
  BY <1>0, <1>s
    DEF CoresReport, IInv, FrameInv, RingInv, ewl, told, thread, ring, caller, kernel, history,
        outcome, cwl
<1>17. LastInv'
  BY <1>0
    DEF CoresReport, IInv, LastInv, ewl, told, thread, ring, caller, kernel, history, outcome,
        cwl
<1>18. CountInv'
  BY <1>0, <1>o
    DEF TypeRing, TypeCaller, CoresReport, IInv, CountInv, ewl, told, thread, ring, caller,
        kernel, history, outcome, cwl
<1>19. SliceInv'
  BY <1>0, <1>s
    DEF CoresReport, IInv, SliceInv, Uses, Quiet, ewl, told, thread, ring, caller, kernel,
        history, outcome, cwl
<1>20. ~cutShort'
  BY DEF IInv, CoresReport, history, outcome
<1> QED
  BY <1>1, <1>2, <1>3, <1>4, <1>5, <1>6, <1>7, <1>8, <1>9, <1>10, <1>11, <1>12, <1>13, <1>14,
     <1>15, <1>16, <1>17, <1>18, <1>19, <1>20, TypePartsNext DEF IInv, CoreInv, FrameInv

\* A failed wait stays with the thread.
LEMMA WaitFails_Keeps ==
    ASSUME IInv, WaitFails
    PROVE  IInv'
<1>0. TypeQueues /\ TypeThread /\ TypeTold /\ TypeCaller /\ TypeRing /\ TypeCores
  BY TypeParts DEF IInv
<1>1. TypeQueues'
  BY <1>0, BoundsAssumption, NextIndexType
    DEF WaitFails, TypeQueues, Job, Final, ewl, told, thread, ring, caller, kernel, history,
        outcome, cwl
<1>2. TypeThread'
  BY <1>0, BoundsAssumption, NextIndexType
    DEF WaitFails, TypeThread, NoOne, Job, JobMutexFree, Signalled, ewl, told, thread, ring,
        caller, kernel, history, outcome, cwl
<1>3. TypeTold'
  BY <1>0, BoundsAssumption, NextIndexType
    DEF WaitFails, TypeTold, Status, Quiet, ewl, told, thread, ring, caller, kernel, history,
        outcome, cwl
<1>4. TypeCaller'
  BY <1>0, BoundsAssumption, NextIndexType
    DEF WaitFails, TypeCaller, ewl, told, thread, ring, caller, kernel, history, outcome, cwl
<1>5. TypeRing'
  BY <1>0, BoundsAssumption, NextIndexType
    DEF WaitFails, TypeRing, ewl, told, thread, ring, caller, kernel, history, outcome, cwl
<1>6. TypeCores'
  BY <1>0, BoundsAssumption, NextIndexType
    DEF WaitFails, TypeCores, ewl, told, thread, ring, caller, kernel, history, outcome, cwl
<1>s. \A k \in Inst : /\ Submitting(k)' <=> Submitting(k)
                      /\ Lent(k)' <=> Lent(k)
                      /\ Holding(k)' <=> Holding(k)
  BY <1>0
    DEF WaitFails, TypeCaller, Submitting, ewl, told, thread, ring, caller, kernel, history,
        outcome, cwl, Lent, Holding
<1>o. \A k \in Inst : Open(k)' <=> Open(k)
  BY <1>0
    DEF WaitFails, TypeCaller, Open, ewl, told, thread, ring, caller, kernel, history, outcome,
        cwl
<1>7. CoresAccounted'
  BY <1>0, <1>s
    DEF WaitFails, IInv, CoreInv, CoresAccounted, OnItsWayBack, ewl, told, thread, ring, caller,
        kernel, history, outcome, cwl, OnItsWayOut, Lent
<1>8. OwnCore'
  BY <1>0, <1>s
    DEF TypeThread, WaitFails, IInv, CoreInv, OwnCore, FIRST_CORE, LAST_CORE, ewl, told, thread,
        ring, caller, kernel, history, outcome, cwl, Holding
<1>9. WorkersUsed'
  BY <1>0, <1>s
    DEF WaitFails, IInv, CoreInv, WorkersUsed, ewl, told, thread, ring, caller, kernel, history,
        outcome, cwl
<1>10. JobsHaveCores'
  BY <1>0
    DEF WaitFails, IInv, CoreInv, JobsHaveCores, ewl, told, thread, ring, caller, kernel,
        history, outcome, cwl
<1>11. WalkInv'
  BY <1>0
    DEF TypeThread, WaitFails, IInv, WalkInv, Walking, Answer, Final, Status, Quiet, NoOne, ewl,
        told, thread, ring, caller, kernel, history, outcome, cwl
<1>12. IdInv'
  BY <1>0, <1>s
    DEF TypeTold, WaitFails, IInv, IdInv, Quiet, Status, ewl, told, thread, ring, caller,
        kernel, history, outcome, cwl
<1>13. JobsWaiting'
  BY <1>0
    DEF WaitFails, IInv, FrameInv, JobsWaiting, ewl, told, thread, ring, caller, kernel,
        history, outcome, cwl
<1>14. FlightPlaced'
  BY <1>0
    DEF WaitFails, IInv, FrameInv, FlightPlaced, ewl, told, thread, ring, caller, kernel,
        history, outcome, cwl
<1>15. AnswersAsked'
  BY <1>0
    DEF WaitFails, IInv, FrameInv, AnswersAsked, ewl, told, thread, ring, caller, kernel,
        history, outcome, cwl
<1>16. RingInv'
  BY <1>0, <1>s
    DEF WaitFails, IInv, FrameInv, RingInv, ewl, told, thread, ring, caller, kernel, history,
        outcome, cwl
<1>17. LastInv'
  BY <1>0
    DEF WaitFails, IInv, LastInv, ewl, told, thread, ring, caller, kernel, history, outcome, cwl
<1>18. CountInv'
  BY <1>0, <1>o
    DEF TypeRing, TypeCaller, WaitFails, IInv, CountInv, ewl, told, thread, ring, caller,
        kernel, history, outcome, cwl
<1>19. SliceInv'
  BY <1>0, <1>s
    DEF WaitFails, IInv, SliceInv, Uses, Quiet, ewl, told, thread, ring, caller, kernel,
        history, outcome, cwl
<1>20. ~cutShort'
  BY DEF IInv, WaitFails, history, outcome
<1> QED
  BY <1>1, <1>2, <1>3, <1>4, <1>5, <1>6, <1>7, <1>8, <1>9, <1>10, <1>11, <1>12, <1>13, <1>14,
     <1>15, <1>16, <1>17, <1>18, <1>19, <1>20, TypePartsNext DEF IInv, CoreInv, FrameInv

\* The walk begins with the jobs there are.
LEMMA LockJobs_Keeps ==
    ASSUME IInv, LockJobs
    PROVE  IInv'
<1>0. TypeQueues /\ TypeThread /\ TypeTold /\ TypeCaller /\ TypeRing /\ TypeCores
  BY TypeParts DEF IInv
<1>1. TypeQueues'
  BY <1>0, BoundsAssumption, NextIndexType
    DEF LockJobs, TypeQueues, Job, Final, ewl, told, thread, ring, caller, kernel, history,
        outcome, cwl
<1>2. TypeThread'
  BY <1>0, BoundsAssumption, NextIndexType
    DEF LockJobs, TypeThread, NoOne, Job, JobMutexFree, Signalled, ewl, told, thread, ring,
        caller, kernel, history, outcome, cwl
<1>3. TypeTold'
  BY <1>0, BoundsAssumption, NextIndexType
    DEF LockJobs, TypeTold, Status, Quiet, ewl, told, thread, ring, caller, kernel, history,
        outcome, cwl
<1>4. TypeCaller'
  BY <1>0, BoundsAssumption, NextIndexType
    DEF LockJobs, TypeCaller, ewl, told, thread, ring, caller, kernel, history, outcome, cwl
<1>5. TypeRing'
  BY <1>0, BoundsAssumption, NextIndexType
    DEF LockJobs, TypeRing, ewl, told, thread, ring, caller, kernel, history, outcome, cwl
<1>6. TypeCores'
  BY <1>0, BoundsAssumption, NextIndexType
    DEF LockJobs, TypeCores, ewl, told, thread, ring, caller, kernel, history, outcome, cwl
<1>s. \A k \in Inst : /\ Submitting(k)' <=> Submitting(k)
                      /\ Lent(k)' <=> Lent(k)
                      /\ Holding(k)' <=> Holding(k)
  BY <1>0
    DEF LockJobs, TypeCaller, Submitting, ewl, told, thread, ring, caller, kernel, history,
        outcome, cwl, Lent, Holding
<1>o. \A k \in Inst : Open(k)' <=> Open(k)
  BY <1>0
    DEF LockJobs, TypeCaller, Open, ewl, told, thread, ring, caller, kernel, history, outcome,
        cwl
<1>7. CoresAccounted'
  BY <1>0, <1>s
    DEF LockJobs, IInv, CoreInv, CoresAccounted, OnItsWayBack, ewl, told, thread, ring, caller,
        kernel, history, outcome, cwl, OnItsWayOut, Lent
<1>8. OwnCore'
  BY <1>0, <1>s
    DEF TypeThread, LockJobs, IInv, CoreInv, OwnCore, FIRST_CORE, LAST_CORE, ewl, told, thread,
        ring, caller, kernel, history, outcome, cwl, Holding
<1>9. WorkersUsed'
  BY <1>0, <1>s
    DEF LockJobs, IInv, CoreInv, WorkersUsed, ewl, told, thread, ring, caller, kernel, history,
        outcome, cwl
<1>10. JobsHaveCores'
  BY <1>0
    DEF LockJobs, IInv, CoreInv, JobsHaveCores, ewl, told, thread, ring, caller, kernel,
        history, outcome, cwl
<1>11. WalkInv'
  BY <1>0
    DEF TypeThread, LockJobs, IInv, WalkInv, Walking, Answer, Final, Status, Quiet, NoOne, ewl,
        told, thread, ring, caller, kernel, history, outcome, cwl
<1>12. IdInv'
  BY <1>0, <1>s
    DEF TypeTold, LockJobs, IInv, IdInv, Quiet, Status, ewl, told, thread, ring, caller, kernel,
        history, outcome, cwl
<1>13. JobsWaiting'
  BY <1>0
    DEF LockJobs, IInv, FrameInv, JobsWaiting, ewl, told, thread, ring, caller, kernel, history,
        outcome, cwl
<1>14. FlightPlaced'
  BY <1>0
    DEF LockJobs, IInv, FrameInv, FlightPlaced, ewl, told, thread, ring, caller, kernel,
        history, outcome, cwl
<1>15. AnswersAsked'
  BY <1>0
    DEF LockJobs, IInv, FrameInv, AnswersAsked, ewl, told, thread, ring, caller, kernel,
        history, outcome, cwl
<1>16. RingInv'
  BY <1>0, <1>s
    DEF LockJobs, IInv, FrameInv, RingInv, ewl, told, thread, ring, caller, kernel, history,
        outcome, cwl
<1>17. LastInv'
  BY <1>0
    DEF LockJobs, IInv, LastInv, ewl, told, thread, ring, caller, kernel, history, outcome, cwl
<1>18. CountInv'
  BY <1>0, <1>o
    DEF TypeRing, TypeCaller, LockJobs, IInv, CountInv, ewl, told, thread, ring, caller, kernel,
        history, outcome, cwl
<1>19. SliceInv'
  BY <1>0, <1>s
    DEF LockJobs, IInv, SliceInv, Uses, Quiet, ewl, told, thread, ring, caller, kernel, history,
        outcome, cwl
<1>20. ~cutShort'
  BY DEF IInv, LockJobs, history, outcome
<1> QED
  BY <1>1, <1>2, <1>3, <1>4, <1>5, <1>6, <1>7, <1>8, <1>9, <1>10, <1>11, <1>12, <1>13, <1>14,
     <1>15, <1>16, <1>17, <1>18, <1>19, <1>20, TypePartsNext DEF IInv, CoreInv, FrameInv

\* The core of the job moves to the tail of the workers, and no core is lost by it.
LEMMA Visit_Keeps ==
    ASSUME IInv, Visit
    PROVE  IInv'
<1>0. TypeQueues /\ TypeThread /\ TypeTold /\ TypeCaller /\ TypeRing /\ TypeCores
  BY TypeParts DEF IInv
<1>a. /\ UNCHANGED <<referCounter, bFlush, jobs, out, reg, waitOut, waitError, hasOutput>>
      /\ UNCHANGED <<pc, call, cur, ring, owner, running, pending, nextJob>>
      /\ UNCHANGED <<flight, verdict, cutShort, gone>>
  BY DEF Visit, ewl, told, caller, kernel, history, outcome, cwl
<1>b. PICK j \in todo : /\ at = "visit" /\ todo' = todo \ {j}
                        /\ IF NothingToldOf(j)
                           THEN UNCHANGED <<workers, at, job>>
                           ELSE /\ workers' = [workers EXCEPT ![j.inst] = ToTail(j.inst, j.core)]
                                /\ job' = j /\ at' = "finish"
  BY DEF Visit
<1>q. ~cutShort /\ CoresOnce /\ CoresUsed /\ CoresNoted /\ OwnLast /\ OwnFirst
  BY CoresParts, OwnParts DEF IInv, CoreInv
<1>j. /\ j \in jobs /\ j \in Job /\ j.inst \in Inst /\ j.core \in Core /\ j.id \in JobId
      /\ owner[j.core] = j.id /\ j.id \in flight[j.inst]
      /\ \E n \in DOMAIN workers[j.inst] : workers[j.inst][n] = j.core
  BY <1>0, <1>b DEF IInv, CoreInv, JobsHaveCores, FrameInv, JobsWaiting, TypeQueues, Job
<1>k. \A k \in Inst : /\ workers[k] \in Seq(Core) /\ Len(workers[k]) \in Nat
                      /\ DOMAIN workers[k] = 1 .. Len(workers[k])
  BY <1>0, LenProperties DEF TypeCores
<1>l. \A k \in Inst : Holding(k) => /\ workers[k] # <<>>
                                    /\ Last(workers[k]) = workers[k][Len(workers[k])]
                                    /\ Last(workers[k]) # j.core
  <2> SUFFICES ASSUME NEW k \in Inst, Holding(k)
               PROVE  workers[k] # <<>> /\ owner[Last(workers[k])] # owner[j.core]
    BY DEF Last
  <2>1. workers[k] # <<>> /\ owner[Last(workers[k])] = cur[k]
    BY <1>q DEF OwnLast, LAST_CORE
  <2>2. cur[k] \notin flight[j.inst]
    BY <1>j DEF IInv, IdInv, Submitting
  <2> QED
    BY <1>j, <2>1, <2>2
<1>m. \A k \in Inst : \A m, n \in DOMAIN workers[k] : workers[k][m] = workers[k][n] => m = n
  BY <1>q DEF CoresOnce
<1>w. ASSUME NEW k \in Inst
      PROVE  /\ workers'[k] \in Seq(Core) /\ DOMAIN workers'[k] = DOMAIN workers[k]
             /\ Len(workers'[k]) = Len(workers[k])
             /\ \A n \in DOMAIN workers'[k] : \E m \in DOMAIN workers[k] : workers'[k][n] = workers[k][m]
             /\ \A n \in DOMAIN workers[k] : \E m \in DOMAIN workers'[k] : workers[k][n] = workers'[k][m]
             /\ \A m, n \in DOMAIN workers'[k] : workers'[k][m] = workers'[k][n] => m = n
             /\ Holding(k) => workers'[k] # <<>> /\ Last(workers'[k]) = Last(workers[k])
  <2>1. CASE workers'[k] = workers[k]
    BY <1>k, <1>l, <1>m, <2>1
  <2>2. CASE k = j.inst /\ workers'[k] = ToTail(k, j.core)
    <3>1. workers[k] \in Seq(Core) /\ \E n \in DOMAIN workers[k] : workers[k][n] = j.core
      BY <1>j, <1>k, <2>2
    <3> DEFINE w == workers[k]
               t == ToTail(k, j.core)
    <3>2. /\ t \in Seq(Core) /\ Len(t) = Len(w) /\ DOMAIN t = DOMAIN w /\ t # <<>>
          /\ \A n \in DOMAIN t : \E m \in DOMAIN w : t[n] = w[m]
          /\ \A n \in DOMAIN w : \E m \in DOMAIN t : w[n] = t[m]
          /\ (\A m, n \in DOMAIN w : w[m] = w[n] => m = n)
                 => \A m, n \in DOMAIN t : t[m] = t[n] => m = n
          /\ Last(w) # j.core => Last(t) = Last(w)
      BY <1>j, <3>1, ToTailShape
    <3>3. Holding(k) => Last(t) = Last(w)
      BY <1>l, <3>2
    <3>4. \A m, n \in DOMAIN t : t[m] = t[n] => m = n
      BY <1>m, <3>2
    <3> HIDE DEF w, t
    <3>5. /\ t \in Seq(Core) /\ DOMAIN t = DOMAIN w /\ Len(t) = Len(w)
          /\ \A n \in DOMAIN t : \E m \in DOMAIN w : t[n] = w[m]
          /\ \A n \in DOMAIN w : \E m \in DOMAIN t : w[n] = t[m]
          /\ \A m, n \in DOMAIN t : t[m] = t[n] => m = n
          /\ Holding(k) => t # <<>> /\ Last(t) = Last(w)
      BY <3>2, <3>3, <3>4, Zenon
    <3>6. workers'[k] = t /\ workers[k] = w
      BY <2>2 DEF w, t
    <3> QED
      BY <3>5, <3>6, Zenon
  <2> QED
    BY <1>0, <1>b, <1>j, <2>1, <2>2 DEF TypeCores
<1>e. \A k \in Inst : \A n \in DOMAIN workers'[k] : \E m \in DOMAIN workers[k] : workers'[k][n] = workers[k][m]
  BY <1>w
<1>f. \A k \in Inst : \A n \in DOMAIN workers[k] : \E m \in DOMAIN workers'[k] : workers[k][n] = workers'[k][m]
  BY <1>w
<1>g. \A k \in Inst : \A m, n \in DOMAIN workers'[k] : workers'[k][m] = workers'[k][n] => m = n
  BY <1>w
<1>d. \/ at' = "visit" /\ job' = job
      \/ at' = "finish" /\ job' = j /\ (waitError \/ waitOut[j.id] # "none")
  BY <1>b DEF NothingToldOf
<1>1. TypeQueues'
  BY <1>0, <1>a, <1>b DEF TypeQueues, Job, Final
<1>2. TypeThread'
  BY <1>0, <1>a, <1>b, <1>d, <1>j DEF TypeThread, TypeQueues, NoOne, Job, JobId, NoJob
<1>3. TypeTold'
  BY <1>0, BoundsAssumption, NextIndexType
    DEF Visit, TypeTold, Status, Quiet, ewl, told, thread, ring, caller, kernel, history,
        outcome, cwl
<1>4. TypeCaller'
  BY <1>0, BoundsAssumption, NextIndexType
    DEF Visit, TypeCaller, ewl, told, thread, ring, caller, kernel, history, outcome, cwl
<1>5. TypeRing'
  BY <1>0, BoundsAssumption, NextIndexType
    DEF Visit, TypeRing, ewl, told, thread, ring, caller, kernel, history, outcome, cwl
<1>6. TypeCores'
  <2>1. workers' \in [Inst -> Seq(Core)]
    <3>1. DOMAIN workers' = Inst /\ workers' = [k \in Inst |-> workers'[k]]
      BY <1>0, <1>b DEF TypeCores
    <3> QED
      BY <1>w, <3>1
  <2> QED
    BY <1>0, <1>a, <2>1 DEF TypeCores
<1>s. \A k \in Inst : /\ Submitting(k)' <=> Submitting(k)
                      /\ Lent(k)' <=> Lent(k)
                      /\ Holding(k)' <=> Holding(k)
  BY <1>0
    DEF Visit, TypeCaller, Submitting, ewl, told, thread, ring, caller, kernel, history,
        outcome, cwl, Lent, Holding
<1>o. \A k \in Inst : Open(k)' <=> Open(k)
  BY <1>0
    DEF Visit, TypeCaller, Open, ewl, told, thread, ring, caller, kernel, history, outcome, cwl
<1>7. CoresAccounted'
  <2>1. CoresOnce'
    <3> SUFFICES ASSUME NEW k \in Inst, NEW l \in Inst,
                        NEW m \in DOMAIN workers'[k], NEW n \in DOMAIN workers'[l],
                        workers'[k][m] = workers'[l][n]
                 PROVE  k = l /\ m = n
      BY DEF CoresOnce
    <3>1. PICK p \in DOMAIN workers[k] : workers'[k][m] = workers[k][p]
      BY <1>e
    <3>2. PICK q \in DOMAIN workers[l] : workers'[l][n] = workers[l][q]
      BY <1>e
    <3>3. k = l
      BY <1>q, <3>1, <3>2 DEF CoresOnce
    <3> QED
      BY <1>g, <3>3
  <2>2. CoresUsed'
    <3>1. \A c \in Core : ~OnItsWayBack(c) /\ ~OnItsWayBack(c)'
      BY <1>b, <1>d DEF OnItsWayBack
    <3>2. \A c \in Core : Used(c)' <=> Used(c)
      BY <1>e, <1>f DEF Used
    <3>3. \A c \in Core : OnItsWayOut(c)' <=> OnItsWayOut(c)
      BY <1>a DEF OnItsWayOut
    <3> QED
      BY <1>a, <1>q, <3>1, <3>2, <3>3 DEF CoresUsed
  <2>3. CoresNoted'
    BY <1>a, <1>q, <1>s DEF CoresNoted
  <2> QED
    BY <1>a, <1>q, <2>1, <2>2, <2>3, CoresPartsNext
<1>8. OwnCore'
  <2>1. OwnLast'
    BY <1>a, <1>q, <1>s, <1>w DEF OwnLast, LAST_CORE
  <2>2. ASSUME at' = "finish" PROVE workers'[j.inst] # <<>> /\ Head(workers'[j.inst]) = j.core
    <3>1. workers'[j.inst] = ToTail(j.inst, j.core)
      BY <1>0, <1>b, <1>j, <2>2 DEF TypeCores
    <3>2. workers[j.inst] \in Seq(Core)
      BY <1>j, <1>k
    <3>3. ToTail(j.inst, j.core) # <<>> /\ Head(ToTail(j.inst, j.core)) = j.core
      BY <1>j, <3>2, ToTailShape
    <3> QED
      BY <3>1, <3>3
  <2>3. OwnFirst'
    BY <1>a, <1>d, <1>j, <2>2 DEF OwnFirst, FIRST_CORE
  <2> QED
    BY <1>a, <1>q, <2>1, <2>3, OwnPartsNext
<1>9. WorkersUsed'
  <2> SUFFICES ASSUME NEW k \in Inst, NEW n \in DOMAIN workers'[k]
               PROVE  \/ \E l \in jobs : l.inst = k /\ l.core = workers'[k][n] /\ owner[l.core] = l.id
                      \/ Holding(k) /\ n = Len(workers'[k])
    BY <1>a, <1>s DEF WorkersUsed
  <2>1. PICK m \in DOMAIN workers[k] : workers'[k][n] = workers[k][m]
    BY <1>e
  <2>2. CASE \E l \in jobs : l.inst = k /\ l.core = workers[k][m] /\ owner[l.core] = l.id
    BY <2>1, <2>2
  <2>3. CASE Holding(k) /\ m = Len(workers[k])
    <3>1. /\ workers'[k] # <<>> /\ Last(workers'[k]) = Last(workers[k])
          /\ workers'[k] \in Seq(Core) /\ workers[k] \in Seq(Core)
          /\ \A p, q \in DOMAIN workers'[k] : workers'[k][p] = workers'[k][q] => p = q
      BY <1>k, <1>w, <2>3
    <3>2. Len(workers'[k]) \in DOMAIN workers'[k] /\ workers'[k][Len(workers'[k])] = workers'[k][n]
      BY <1>l, <2>1, <2>3, <3>1, EmptySeq, LenProperties DEF Last
    <3> QED
      BY <2>3, <3>1, <3>2
  <2> QED
    BY <2>2, <2>3 DEF IInv, CoreInv, WorkersUsed
<1>10. JobsHaveCores'
  <2> SUFFICES ASSUME NEW l \in jobs
               PROVE  owner[l.core] = l.id /\ \E n \in DOMAIN workers'[l.inst] : workers'[l.inst][n] = l.core
    BY <1>a DEF JobsHaveCores
  <2>1. l.inst \in Inst
    BY <1>0 DEF TypeQueues, Job
  <2>2. owner[l.core] = l.id /\ \E n \in DOMAIN workers[l.inst] : workers[l.inst][n] = l.core
    BY <1>b DEF IInv, CoreInv, JobsHaveCores
  <2>3. PICK n \in DOMAIN workers[l.inst] : workers[l.inst][n] = l.core
    BY <2>2
  <2>4. \E m \in DOMAIN workers'[l.inst] : workers'[l.inst][m] = l.core
    BY <1>f, <2>1, <2>3
  <2> QED
    BY <2>2, <2>4
<1>11. WalkInv'
  BY <1>a, <1>b, <1>d, <1>j DEF IInv, WalkInv, Walking
<1>12. IdInv'
  BY <1>a, <1>s, <1>o DEF IInv, IdInv, Submitting, Quiet, Status, ring, Lent, Holding
<1>13. JobsWaiting'
  BY <1>a, <1>s, <1>o DEF IInv, FrameInv, JobsWaiting, ring
<1>14. FlightPlaced'
  BY <1>a, <1>s, <1>o DEF IInv, FrameInv, FlightPlaced, ring
<1>15. AnswersAsked'
  BY <1>a, <1>s, <1>o DEF IInv, FrameInv, AnswersAsked, ring
<1>16. RingInv'
  BY <1>a, <1>s, <1>o DEF IInv, FrameInv, RingInv, Submitting, ring, Lent, Holding
<1>17. LastInv'
  BY <1>a, <1>s, <1>o DEF IInv, LastInv, ring
<1>18. CountInv'
  BY <1>a, <1>b, <1>o DEF IInv, CountInv, ring
<1>19. SliceInv'
  BY <1>a, <1>s, <1>o DEF IInv, SliceInv, Uses, Submitting, Quiet, ring, Lent, Holding
<1>20. ~cutShort'
  BY DEF IInv, Visit, history, outcome
<1> QED
  BY <1>1, <1>2, <1>3, <1>4, <1>5, <1>6, <1>7, <1>8, <1>9, <1>10, <1>11, <1>12, <1>13, <1>14,
     <1>15, <1>16, <1>17, <1>18, <1>19, <1>20, TypePartsNext DEF IInv, CoreInv, FrameInv

\* The report of a slice goes to an instance that asked for slices.
LEMMA PassSlice_Keeps ==
    ASSUME IInv, PassSlice
    PROVE  IInv'
<1>0. TypeQueues /\ TypeThread /\ TypeTold /\ TypeCaller /\ TypeRing /\ TypeCores
  BY TypeParts DEF IInv
<1>a. /\ at = "finish" /\ waitOut[job.id] = "slice" /\ hasOutput' = TRUE /\ job' = NoOne
      /\ at' = "visit" /\ UNCHANGED <<referCounter, bFlush, jobs, workers, todo, waitOut, waitError>>
      /\ UNCHANGED <<pc, call, cur, waitJobid, jobCnt, reservedCore>>
      /\ UNCHANGED <<owner, running, pending, nextJob, flight, verdict>>
  BY DEF PassSlice, caller, ring, kernel, history, outcome, cwl
<1>j. job \in jobs /\ job.id \in JobId /\ job.id \in flight[job.inst] /\ job.inst \in Inst
  BY <1>0, <1>a DEF IInv, WalkInv, FrameInv, JobsWaiting, TypeQueues, Job
<1>x. /\ out[job.id] \in Seq(Final \cup {"slice"}) /\ DOMAIN out = JobId
      /\ out' = [out EXCEPT ![job.id] = Append(@, "slice")]
  BY <1>0, <1>j DEF PassSlice, TypeQueues
<1>y. /\ out'[job.id] \in Seq(Final \cup {"slice"}) /\ out'[job.id] # <<>>
      /\ DOMAIN out'[job.id] = 1 .. Len(out[job.id]) + 1
      /\ \A k \in 1 .. Len(out[job.id]) : out'[job.id][k] = out[job.id][k]
      /\ out'[job.id][Len(out[job.id]) + 1] = "slice"
      /\ Len(out[job.id]) \in Nat /\ DOMAIN out[job.id] = 1 .. Len(out[job.id])
  BY <1>x, <1>j, AppendProperties, LenProperties
<1>z. \A id \in JobId : id # job.id => out'[id] = out[id]
  BY <1>x
<1>f. \A k \in DOMAIN out'[job.id] : out'[job.id][k] \notin Final
  <2>1. \A k \in 1 .. Len(out[job.id]) : out'[job.id][k] \notin Final
    BY <1>j, <1>y DEF IInv, FrameInv, JobsWaiting
  <2>2. "slice" \notin Final
    BY DEF Final
  <2>3. \A k \in 1 .. Len(out[job.id]) + 1 : k \in 1 .. Len(out[job.id]) \/ k = Len(out[job.id]) + 1
    BY <1>y
  <2> QED
    BY <1>y, <2>1, <2>2, <2>3
<1>1. TypeQueues'
  <2>1. out' \in [JobId -> Seq(Final \cup {"slice"})]
    BY <1>0, <1>x, <1>y DEF TypeQueues
  <2> QED
    BY <1>0, <1>a, <2>1 DEF TypeQueues
<1>2. TypeThread'
  BY <1>0, BoundsAssumption, NextIndexType
    DEF PassSlice, TypeThread, NoOne, Job, JobMutexFree, Signalled, ewl, told, thread, ring,
        caller, kernel, history, outcome, cwl
<1>3. TypeTold'
  BY <1>0, BoundsAssumption, NextIndexType
    DEF PassSlice, TypeTold, Status, Quiet, ewl, told, thread, ring, caller, kernel, history,
        outcome, cwl
<1>4. TypeCaller'
  BY <1>0, BoundsAssumption, NextIndexType
    DEF PassSlice, TypeCaller, ewl, told, thread, ring, caller, kernel, history, outcome, cwl
<1>5. TypeRing'
  BY <1>0, BoundsAssumption, NextIndexType
    DEF PassSlice, TypeRing, ewl, told, thread, ring, caller, kernel, history, outcome, cwl
<1>6. TypeCores'
  BY <1>0, BoundsAssumption, NextIndexType
    DEF PassSlice, TypeCores, ewl, told, thread, ring, caller, kernel, history, outcome, cwl
<1>s. \A k \in Inst : /\ Submitting(k)' <=> Submitting(k)
                      /\ Lent(k)' <=> Lent(k)
                      /\ Holding(k)' <=> Holding(k)
  BY <1>0
    DEF PassSlice, TypeCaller, Submitting, ewl, told, thread, ring, caller, kernel, history,
        outcome, cwl, Lent, Holding
<1>o. \A k \in Inst : Open(k)' <=> Open(k)
  BY <1>0
    DEF PassSlice, TypeCaller, Open, ewl, told, thread, ring, caller, kernel, history, outcome,
        cwl
<1>7. CoresAccounted'
  BY <1>0, <1>s
    DEF PassSlice, IInv, CoreInv, CoresAccounted, OnItsWayBack, ewl, told, thread, ring, caller,
        kernel, history, outcome, cwl, OnItsWayOut, Lent
<1>8. OwnCore'
  BY <1>0, <1>s
    DEF TypeThread, PassSlice, IInv, CoreInv, OwnCore, FIRST_CORE, LAST_CORE, ewl, told, thread,
        ring, caller, kernel, history, outcome, cwl, Holding
<1>9. WorkersUsed'
  BY <1>0, <1>s
    DEF PassSlice, IInv, CoreInv, WorkersUsed, ewl, told, thread, ring, caller, kernel, history,
        outcome, cwl
<1>10. JobsHaveCores'
  BY <1>0
    DEF PassSlice, IInv, CoreInv, JobsHaveCores, ewl, told, thread, ring, caller, kernel,
        history, outcome, cwl
<1>11. WalkInv'
  BY <1>0
    DEF TypeThread, PassSlice, IInv, WalkInv, Walking, Answer, Final, Status, Quiet, NoOne, ewl,
        told, thread, ring, caller, kernel, history, outcome, cwl
<1>12. IdInv'
  BY <1>0, <1>s
    DEF TypeTold, PassSlice, IInv, IdInv, Quiet, Status, ewl, told, thread, ring, caller,
        kernel, history, outcome, cwl
<1>13. JobsWaiting'
  BY <1>0, <1>a, <1>f, <1>z DEF IInv, FrameInv, JobsWaiting, TypeQueues, Job
<1>14. FlightPlaced'
  BY <1>0, <1>a, <1>j, <1>z DEF IInv, FrameInv, FlightPlaced, TypeRing
<1>15. AnswersAsked'
  BY <1>a, <1>j, <1>z DEF IInv, FrameInv, AnswersAsked
<1>16. RingInv'
  BY <1>0, <1>s
    DEF PassSlice, IInv, FrameInv, RingInv, ewl, told, thread, ring, caller, kernel, history,
        outcome, cwl
<1>17. LastInv'
  BY <1>f, <1>z DEF IInv, LastInv
<1>18. CountInv'
  BY <1>0, <1>o
    DEF TypeRing, TypeCaller, PassSlice, IInv, CountInv, ewl, told, thread, ring, caller,
        kernel, history, outcome, cwl
<1>19. SliceInv'
  <2>1. ASSUME NEW k \in Inst, job.id \in flight[k] PROVE k \in Sliced
    BY <1>a, <1>j, <2>1 DEF IInv, SliceInv, Uses
  <2> QED
    BY <1>a, <1>s, <1>z, <2>1 DEF IInv, SliceInv, Uses
<1>20. ~cutShort'
  BY DEF IInv, PassSlice, history, outcome
<1> QED
  BY <1>1, <1>2, <1>3, <1>4, <1>5, <1>6, <1>7, <1>8, <1>9, <1>10, <1>11, <1>12, <1>13, <1>14,
     <1>15, <1>16, <1>17, <1>18, <1>19, <1>20, TypePartsNext DEF IInv, CoreInv, FrameInv

\* The core taken from the workers is that of the job, and is on its way back.
LEMMA FinishJob_Keeps ==
    ASSUME IInv, FinishJob
    PROVE  IInv'
<1>0. TypeQueues /\ TypeThread /\ TypeTold /\ TypeCaller /\ TypeRing /\ TypeCores
  BY TypeParts DEF IInv
<1>a. /\ at = "finish" /\ at' = "give" /\ waitOut[job.id] # "slice"
      /\ UNCHANGED <<referCounter, bFlush, jobs, out, todo, waitOut, waitError, hasOutput, pc, call, cur,
                    ring, owner, pending, nextJob, flight, verdict, cutShort, gone>>
      /\ reg' = [reg EXCEPT ![job.inst] = NoCore]
      /\ workers' = [workers EXCEPT ![job.inst] = Tail(@)] /\ running' \subseteq running
  BY DEF FinishJob, ewl, told, caller, history, outcome, cwl
<1>q. ~cutShort /\ CoresOnce /\ CoresUsed /\ CoresNoted /\ OwnLast /\ OwnFirst
  BY CoresParts, OwnParts DEF IInv, CoreInv
<1>j. /\ job \in jobs /\ job \notin todo /\ job \in Job /\ job.inst \in Inst /\ job.core \in Core
      /\ job.id \in JobId /\ owner[job.core] = job.id /\ job.id \in flight[job.inst]
      /\ workers[job.inst] # <<>> /\ FIRST_CORE(job.inst) = job.core
  BY <1>0, <1>a, <1>q DEF IInv, OwnFirst, WalkInv, FrameInv, JobsWaiting, TypeQueues, Job
<1>c. job' = job
  BY <1>j DEF FinishJob, Job
<1>k. \A k \in Inst : /\ workers[k] \in Seq(Core) /\ Len(workers[k]) \in Nat
                      /\ DOMAIN workers[k] = 1 .. Len(workers[k])
  BY <1>0, LenProperties DEF TypeCores
<1>l. \A k \in Inst : Holding(k) => /\ workers[k] # <<>>
                                    /\ Last(workers[k]) = workers[k][Len(workers[k])]
                                    /\ Last(workers[k]) # job.core
  <2> SUFFICES ASSUME NEW k \in Inst, Holding(k)
               PROVE  workers[k] # <<>> /\ owner[Last(workers[k])] # owner[job.core]
    BY DEF Last
  <2>1. workers[k] # <<>> /\ owner[Last(workers[k])] = cur[k]
    BY <1>q DEF OwnLast, LAST_CORE
  <2>2. cur[k] \notin flight[job.inst]
    BY <1>j DEF IInv, IdInv, Submitting
  <2> QED
    BY <1>j, <2>1, <2>2
<1>m. \A k, l \in Inst : \A m \in DOMAIN workers[k], n \in DOMAIN workers[l] :
         workers[k][m] = workers[l][n] => k = l /\ m = n
  BY <1>q DEF CoresOnce
<1>t. ASSUME NEW k \in Inst
      PROVE  /\ workers'[k] \in Seq(Core)
             /\ \A n \in DOMAIN workers'[k] : /\ workers'[k][n] # job.core
                                             /\ \E m \in DOMAIN workers[k] : workers'[k][n] = workers[k][m]
             /\ \A n \in DOMAIN workers[k] :
                   workers[k][n] # job.core => \E m \in DOMAIN workers'[k] : workers[k][n] = workers'[k][m]
             /\ \A m, n \in DOMAIN workers'[k] : workers'[k][m] = workers'[k][n] => m = n
             /\ Holding(k) => workers'[k] # <<>> /\ Last(workers'[k]) = Last(workers[k])
  <2>1. Head(workers[job.inst]) = job.core
    BY <1>j DEF FIRST_CORE
  <2>2. CASE k = job.inst
    <3> DEFINE w == workers[k]
               u == workers'[k]
    <3>1. w \in Seq(Core) /\ w # <<>> /\ Head(w) = job.core /\ u = Tail(w)
      BY <1>0, <1>a, <1>j, <2>1, <2>2 DEF TypeCores
    <3>2. \A m, n \in DOMAIN w : w[m] = w[n] => m = n
      BY <1>m
    <3>3. Holding(k) => Last(w) # job.core
      BY <1>l
    <3> HIDE DEF w, u
    <3>4. /\ u \in Seq(Core)
          /\ \A n \in DOMAIN u : u[n] # job.core /\ \E m \in DOMAIN w : u[n] = w[m]
          /\ \A n \in DOMAIN w : w[n] # job.core => \E m \in DOMAIN u : w[n] = u[m]
          /\ \A m, n \in DOMAIN u : u[m] = u[n] => m = n
          /\ Last(w) # job.core => u # <<>> /\ Last(u) = Last(w)
      BY <3>1, <3>2, TailShape
    <3> QED
      BY <3>3, <3>4, Zenon DEF w, u
  <2>3. CASE k # job.inst
    <3>1. workers'[k] = workers[k]
      BY <1>0, <1>a, <2>3 DEF TypeCores
    <3>2. 1 \in DOMAIN workers[job.inst] /\ workers[job.inst][1] = job.core
      BY <1>j, <1>k, <2>1, EmptySeq
    <3>3. \A n \in DOMAIN workers[k] : workers[k][n] # job.core
      BY <1>j, <1>m, <2>3, <3>2
    <3> QED
      BY <1>k, <1>l, <1>m, <3>1, <3>3
  <2> QED
    BY <2>2, <2>3
<1>e. \A k \in Inst : \A n \in DOMAIN workers'[k] :
         workers'[k][n] # job.core /\ \E m \in DOMAIN workers[k] : workers'[k][n] = workers[k][m]
  BY <1>t
<1>f. \A k \in Inst : \A n \in DOMAIN workers[k] :
         workers[k][n] # job.core => \E m \in DOMAIN workers'[k] : workers[k][n] = workers'[k][m]
  BY <1>t
<1>g. \A k \in Inst : \A m, n \in DOMAIN workers'[k] : workers'[k][m] = workers'[k][n] => m = n
  BY <1>t
<1>h. ASSUME NEW k \in Inst, Holding(k)
      PROVE  /\ workers'[k] # <<>> /\ Len(workers'[k]) \in DOMAIN workers'[k]
             /\ Last(workers'[k]) = workers[k][Len(workers[k])]
             /\ Last(workers'[k]) = workers'[k][Len(workers'[k])]
  <2>1. workers'[k] \in Seq(Core) /\ workers'[k] # <<>> /\ Last(workers'[k]) = Last(workers[k])
    BY <1>h, <1>t
  <2> QED
    BY <1>h, <1>l, <2>1, EmptySeq, LenProperties DEF Last
<1>n. Answer' \in Final
  <2>1. waitOut[job.id] \in Status /\ (waitError \/ waitOut[job.id] # "none")
    BY <1>0, <1>a, <1>j DEF TypeTold, IInv, WalkInv
  <2> QED
    BY <1>a, <1>c, <2>1 DEF Answer, Final, Status
<1>1. TypeQueues'
  BY <1>0, BoundsAssumption, NextIndexType
    DEF FinishJob, TypeQueues, Job, Final, ewl, told, thread, ring, caller, kernel, history,
        outcome, cwl
<1>2. TypeThread'
  BY <1>0, <1>a, <1>c, <1>j DEF TypeThread, NoOne, Job, JobId, NoJob
<1>3. TypeTold'
  BY <1>0, BoundsAssumption, NextIndexType
    DEF FinishJob, TypeTold, Status, Quiet, ewl, told, thread, ring, caller, kernel, history,
        outcome, cwl
<1>4. TypeCaller'
  BY <1>0, BoundsAssumption, NextIndexType
    DEF FinishJob, TypeCaller, ewl, told, thread, ring, caller, kernel, history, outcome, cwl
<1>5. TypeRing'
  BY <1>0, BoundsAssumption, NextIndexType
    DEF FinishJob, TypeRing, ewl, told, thread, ring, caller, kernel, history, outcome, cwl
<1>6. TypeCores'
  <2>1. workers' \in [Inst -> Seq(Core)]
    BY <1>0, <1>a, <1>t DEF TypeCores
  <2>2. reg' \in [Inst -> Core \cup {NoCore}]
    BY <1>0, <1>a DEF TypeCores
  <2> QED
    BY <1>0, <1>a, <2>1, <2>2 DEF TypeCores
<1>s. \A k \in Inst : /\ Submitting(k)' <=> Submitting(k)
                      /\ Lent(k)' <=> Lent(k)
                      /\ Holding(k)' <=> Holding(k)
  BY <1>0
    DEF FinishJob, TypeCaller, Submitting, ewl, told, thread, ring, caller, kernel, history,
        outcome, cwl, Lent, Holding
<1>o. \A k \in Inst : Open(k)' <=> Open(k)
  BY <1>0
    DEF FinishJob, TypeCaller, Open, ewl, told, thread, ring, caller, kernel, history, outcome,
        cwl
<1>p. ASSUME NEW k \in Inst, Lent(k) PROVE cur[k] # job.id
  BY <1>j, <1>p DEF IInv, IdInv, Submitting
<1>7. CoresAccounted'
  <2>1. CoresOnce'
    <3> SUFFICES ASSUME NEW k \in Inst, NEW l \in Inst,
                        NEW m \in DOMAIN workers'[k], NEW n \in DOMAIN workers'[l],
                        workers'[k][m] = workers'[l][n]
                 PROVE  k = l /\ m = n
      BY DEF CoresOnce
    <3>1. PICK p \in DOMAIN workers[k] : workers'[k][m] = workers[k][p]
      BY <1>e
    <3>2. PICK q \in DOMAIN workers[l] : workers'[l][n] = workers[l][q]
      BY <1>e
    <3>3. k = l
      BY <1>m, <3>1, <3>2
    <3> QED
      BY <1>g, <3>3
  <2>2. CoresUsed'
    <3>1. \A c \in Core : ~OnItsWayBack(c) /\ (OnItsWayBack(c)' <=> c = job.core)
      BY <1>a, <1>c DEF OnItsWayBack
    <3>2. \A c \in Core : Used(c)' <=> c # job.core /\ Used(c)
      BY <1>e, <1>f DEF Used
    <3>3. \A c \in Core : OnItsWayOut(c)' <=> OnItsWayOut(c)
      BY <1>a DEF OnItsWayOut
    <3>4. owner[job.core] # NoJob
      BY <1>j, BoundsAssumption DEF JobId, NoJob
    <3>5. ~OnItsWayOut(job.core)
      BY <1>j, <1>p DEF OnItsWayOut, Lent
    <3>6. Used(job.core)
      BY <1>j, <1>q, <3>1, <3>4, <3>5 DEF CoresUsed
    <3> QED
      BY <1>a, <1>q, <3>1, <3>2, <3>3, <3>4, <3>5, <3>6 DEF CoresUsed
  <2>3. CoresNoted'
    <3> SUFFICES ASSUME NEW k \in Inst, Lent(k)
                 PROVE  \/ reg'[k] \in Core /\ owner[reg'[k]] = cur[k]
                        \/ reg'[k] = NoCore /\ ParallelCoreNum[k] > 1
      BY <1>a, <1>s DEF CoresNoted
    <3>1. CASE k # job.inst
      <4>1. reg'[k] = reg[k]
        BY <1>0, <1>a, <3>1 DEF TypeCores
      <4> QED
        BY <1>q, <4>1 DEF CoresNoted
    <3>2. CASE k = job.inst
      <4>1. reg'[k] = NoCore
        BY <1>0, <1>a, <3>2 DEF TypeCores
      <4>2. /\ IsFiniteSet(flight[k]) /\ Cardinality(flight[k]) = reservedCore[k]
            /\ flight[k] # {} /\ reservedCore[k] < ParallelCoreNum[k]
        BY <1>j, <3>2 DEF IInv, CountInv, Lent
      <4>3. reservedCore[k] \in Nat /\ reservedCore[k] # 0
        BY <1>0, <4>2, FS_EmptySet DEF TypeRing
      <4>4. ParallelCoreNum[k] \in Nat
        BY Sizes
      <4>5. ParallelCoreNum[k] > 1
        BY <4>2, <4>3, <4>4
      <4> QED
        BY <4>1, <4>5
    <3> QED
      BY <3>1, <3>2
  <2> QED
    BY <1>a, <1>q, <2>1, <2>2, <2>3, CoresPartsNext
<1>8. OwnCore'
  <2>1. ASSUME NEW k \in Inst, Holding(k) PROVE workers'[k] # <<>> /\ owner[Last(workers'[k])] = cur[k]
    BY <1>h, <1>l, <1>q, <2>1 DEF OwnLast, LAST_CORE
  <2>2. OwnLast'
    BY <1>a, <1>s, <2>1 DEF OwnLast, LAST_CORE
  <2>3. OwnFirst'
    BY <1>a DEF OwnFirst
  <2> QED
    BY <1>a, <1>q, <2>2, <2>3, OwnPartsNext
<1>9. WorkersUsed'
  <2> SUFFICES ASSUME NEW k \in Inst, NEW n \in DOMAIN workers'[k]
               PROVE  \/ \E l \in jobs : l.inst = k /\ l.core = workers'[k][n] /\ owner[l.core] = l.id
                      \/ Holding(k) /\ n = Len(workers'[k])
    BY <1>a, <1>s DEF WorkersUsed
  <2>1. PICK m \in DOMAIN workers[k] : workers'[k][n] = workers[k][m]
    BY <1>e
  <2>2. CASE \E l \in jobs : l.inst = k /\ l.core = workers[k][m] /\ owner[l.core] = l.id
    BY <2>1, <2>2
  <2>3. CASE Holding(k) /\ m = Len(workers[k])
    <3>1. Len(workers'[k]) \in DOMAIN workers'[k] /\ workers'[k][Len(workers'[k])] = workers'[k][n]
      BY <1>h, <2>1, <2>3
    <3> QED
      BY <1>g, <2>3, <3>1
  <2> QED
    BY <2>2, <2>3 DEF IInv, CoreInv, WorkersUsed
<1>10. JobsHaveCores'
  <2> SUFFICES ASSUME NEW l \in jobs, l # job
               PROVE  owner[l.core] = l.id /\ \E n \in DOMAIN workers'[l.inst] : workers'[l.inst][n] = l.core
    BY <1>a, <1>c DEF JobsHaveCores
  <2>1. l.inst \in Inst
    BY <1>0 DEF TypeQueues, Job
  <2>2. owner[l.core] = l.id /\ \E n \in DOMAIN workers[l.inst] : workers[l.inst][n] = l.core
    BY <1>a DEF IInv, CoreInv, JobsHaveCores
  <2>3. PICK n \in DOMAIN workers[l.inst] : workers[l.inst][n] = l.core
    BY <2>2
  <2>4. l.core # job.core
    BY <1>j, <2>2 DEF IInv, WalkInv
  <2>5. \E m \in DOMAIN workers'[l.inst] : workers'[l.inst][m] = l.core
    BY <1>f, <2>1, <2>3, <2>4
  <2> QED
    BY <2>2, <2>5
<1>11. WalkInv'
  BY <1>a, <1>c, <1>j, <1>n DEF IInv, WalkInv, Walking
<1>12. IdInv'
  BY <1>0, <1>s
    DEF TypeTold, FinishJob, IInv, IdInv, Quiet, Status, ewl, told, thread, ring, caller,
        kernel, history, outcome, cwl
<1>13. JobsWaiting'
  BY <1>0
    DEF FinishJob, IInv, FrameInv, JobsWaiting, ewl, told, thread, ring, caller, kernel,
        history, outcome, cwl
<1>14. FlightPlaced'
  BY <1>0
    DEF FinishJob, IInv, FrameInv, FlightPlaced, ewl, told, thread, ring, caller, kernel,
        history, outcome, cwl
<1>15. AnswersAsked'
  BY <1>0
    DEF FinishJob, IInv, FrameInv, AnswersAsked, ewl, told, thread, ring, caller, kernel,
        history, outcome, cwl
<1>16. RingInv'
  BY <1>0, <1>s
    DEF FinishJob, IInv, FrameInv, RingInv, ewl, told, thread, ring, caller, kernel, history,
        outcome, cwl
<1>17. LastInv'
  BY <1>0
    DEF FinishJob, IInv, LastInv, ewl, told, thread, ring, caller, kernel, history, outcome, cwl
<1>18. CountInv'
  BY <1>0, <1>o
    DEF TypeRing, TypeCaller, FinishJob, IInv, CountInv, ewl, told, thread, ring, caller,
        kernel, history, outcome, cwl
<1>19. SliceInv'
  BY <1>0, <1>s
    DEF FinishJob, IInv, SliceInv, Uses, Quiet, ewl, told, thread, ring, caller, kernel,
        history, outcome, cwl
<1>20. ~cutShort'
  BY DEF IInv, FinishJob, history, outcome
<1> QED
  BY <1>1, <1>2, <1>3, <1>4, <1>5, <1>6, <1>7, <1>8, <1>9, <1>10, <1>11, <1>12, <1>13, <1>14,
     <1>15, <1>16, <1>17, <1>18, <1>19, <1>20, TypePartsNext DEF IInv, CoreInv, FrameInv

\* The core is free, and nobody reports for the job any more.
LEMMA GiveCoreBack_Keeps ==
    ASSUME IInv, GiveCoreBack
    PROVE  IInv'
<1>0. TypeQueues /\ TypeThread /\ TypeTold /\ TypeCaller /\ TypeRing /\ TypeCores
  BY TypeParts DEF IInv
<1>a. /\ at = "give" /\ at' = "move"
      /\ UNCHANGED <<referCounter, bFlush, jobs, out, workers, reg, todo, job, waitOut, waitError>>
      /\ UNCHANGED <<hasOutput, pc, call, cur, ring, running, nextJob>>
      /\ UNCHANGED <<flight, verdict, cutShort, gone>>
      /\ owner' = [owner EXCEPT ![job.core] = NoJob]
      /\ pending' = [pending EXCEPT ![job.id] = "none"]
  BY DEF GiveCoreBack, ReturnCore, ewl, told, caller, history, outcome, cwl
<1>q. ~cutShort /\ CoresOnce /\ CoresUsed /\ CoresNoted /\ OwnLast
  BY CoresParts, OwnParts DEF IInv, CoreInv
<1>j. /\ job \in jobs /\ job \notin todo /\ job \in Job /\ job.inst \in Inst /\ job.core \in Core
      /\ job.id \in JobId /\ job.id \in flight[job.inst] /\ Answer \in Final
      /\ owner[job.core] = job.id /\ job.id # NoJob
  BY <1>0, <1>a, BoundsAssumption
  DEF IInv, WalkInv, FrameInv, JobsWaiting, TypeQueues, Job, JobId, NoJob
<1>b. /\ \A c \in Core : OnItsWayBack(c) <=> c = job.core
      /\ \A c \in Core : ~OnItsWayBack(c)'
  BY <1>a DEF OnItsWayBack
<1>m. \A k \in Inst : \A n \in DOMAIN workers[k] : workers[k][n] # job.core
  BY <1>b, <1>j, <1>q DEF CoresUsed, Used
<1>c. \A c \in Core : owner'[c] = IF c = job.core THEN NoJob ELSE owner[c]
  BY <1>0, <1>a DEF TypeCores
<1>u. \A c \in Core : owner'[c] # job.id
  BY <1>c, <1>j DEF IInv, IdInv
<1>g. \A id \in JobId : pending'[id] = IF id = job.id THEN "none" ELSE pending[id]
  BY <1>0, <1>a DEF TypeTold
<1>1. TypeQueues'
  BY <1>0, <1>a DEF TypeQueues
<1>2. TypeThread'
  BY <1>0, <1>a DEF TypeThread
<1>3. TypeTold'
  BY <1>0, BoundsAssumption, NextIndexType
    DEF GiveCoreBack, ReturnCore, TypeTold, Status, Quiet, ewl, told, thread, ring, caller,
        kernel, history, outcome, cwl
<1>4. TypeCaller'
  BY <1>0, BoundsAssumption, NextIndexType
    DEF GiveCoreBack, ReturnCore, TypeCaller, ewl, told, thread, ring, caller, kernel, history,
        outcome, cwl
<1>5. TypeRing'
  BY <1>0, BoundsAssumption, NextIndexType
    DEF GiveCoreBack, ReturnCore, TypeRing, ewl, told, thread, ring, caller, kernel, history,
        outcome, cwl
<1>6. TypeCores'
  BY <1>0, <1>a DEF TypeCores
<1>s. \A k \in Inst : /\ Submitting(k)' <=> Submitting(k)
                      /\ Lent(k)' <=> Lent(k)
                      /\ Holding(k)' <=> Holding(k)
  BY <1>0
    DEF GiveCoreBack, ReturnCore, TypeCaller, Submitting, ewl, told, thread, ring, caller,
        kernel, history, outcome, cwl, Lent, Holding
<1>o. \A k \in Inst : Open(k)' <=> Open(k)
  BY <1>0
    DEF GiveCoreBack, ReturnCore, TypeCaller, Open, ewl, told, thread, ring, caller, kernel,
        history, outcome, cwl
<1>p. \A k \in Inst : Lent(k) => cur[k] # job.id /\ cur[k] # NoJob
  BY <1>j DEF IInv, IdInv, Submitting
<1>7. CoresAccounted'
  <2>1. CoresOnce'
    BY <1>a, <1>q DEF CoresOnce
  <2>2. CoresUsed'
    <3>1. \A c \in Core : Used(c)' <=> Used(c)
      BY <1>a DEF Used
    <3>2. \A c \in Core : OnItsWayOut(c) <=> \E k \in Inst : Lent(k) /\ owner[c] = cur[k]
      BY DEF OnItsWayOut, Lent
    <3>3. \A c \in Core : OnItsWayOut(c)' <=> \E k \in Inst : Lent(k) /\ owner'[c] = cur[k]
      BY <1>a DEF OnItsWayOut, Lent
    <3>4. \A c \in Core : OnItsWayOut(c)' <=> OnItsWayOut(c)
      BY <1>c, <1>j, <1>p, <3>2, <3>3
    <3>5. ~Used(job.core) /\ ~OnItsWayOut(job.core)
      BY <1>b, <1>j, <1>q DEF CoresUsed
    <3> QED
      BY <1>b, <1>c, <1>q, <3>1, <3>4, <3>5 DEF CoresUsed
  <2>3. CoresNoted'
    <3>1. \A c \in Core : \A k \in Inst : Lent(k) /\ owner[c] = cur[k] => owner'[c] = cur[k]
      BY <1>c, <1>j, <1>p
    <3> QED
      BY <1>a, <1>q, <1>s, <3>1 DEF CoresNoted
  <2> QED
    BY <1>a, <1>q, <2>1, <2>2, <2>3, CoresPartsNext
<1>8. OwnCore'
  <2>1. ASSUME NEW k \in Inst, Holding(k) PROVE workers[k] # <<>> /\ owner'[LAST_CORE(k)] = cur[k]
    <3>1. workers[k] # <<>> /\ owner[LAST_CORE(k)] = cur[k] /\ workers[k] \in Seq(Core)
      BY <1>0, <1>q, <2>1 DEF OwnLast, TypeCores
    <3>2. LAST_CORE(k) \in Core /\ LAST_CORE(k) # job.core
      BY <1>m, <3>1, EmptySeq, LenProperties DEF LAST_CORE, Last
    <3> QED
      BY <1>c, <3>1, <3>2
  <2>2. \A k \in Inst : LAST_CORE(k)' = LAST_CORE(k)
    BY <1>a DEF LAST_CORE
  <2>3. OwnLast'
    BY <1>a, <1>s, <2>1, <2>2 DEF OwnLast
  <2>4. OwnFirst'
    BY <1>a DEF OwnFirst
  <2> QED
    BY <1>a, <1>q, <2>3, <2>4, OwnPartsNext
<1>9. WorkersUsed'
  <2> SUFFICES ASSUME NEW k \in Inst, NEW n \in DOMAIN workers[k]
               PROVE  \/ \E l \in jobs : l.inst = k /\ l.core = workers[k][n] /\ owner'[l.core] = l.id
                      \/ Holding(k) /\ n = Len(workers[k])
    BY <1>a, <1>s DEF WorkersUsed
  <2>1. CASE \E l \in jobs : l.inst = k /\ l.core = workers[k][n] /\ owner[l.core] = l.id
    <3>1. PICK l \in jobs : l.inst = k /\ l.core = workers[k][n] /\ owner[l.core] = l.id
      BY <2>1
    <3>2. l.core \in Core /\ l.core # job.core
      BY <1>0, <1>m, <3>1 DEF TypeQueues, Job
    <3> QED
      BY <1>c, <3>1, <3>2
  <2> QED
    BY <2>1 DEF IInv, CoreInv, WorkersUsed
<1>10. JobsHaveCores'
  <2> SUFFICES ASSUME NEW l \in jobs, l # job
               PROVE  owner'[l.core] = l.id /\ \E n \in DOMAIN workers[l.inst] : workers[l.inst][n] = l.core
    BY <1>a DEF JobsHaveCores
  <2>1. owner[l.core] = l.id /\ \E n \in DOMAIN workers[l.inst] : workers[l.inst][n] = l.core
    BY DEF IInv, CoreInv, JobsHaveCores
  <2>2. l.inst \in Inst /\ l.core \in Core
    BY <1>0 DEF TypeQueues, Job
  <2> QED
    BY <1>c, <1>m, <2>1, <2>2
<1>11. WalkInv'
  <2>1. Answer' = Answer
    BY <1>a DEF Answer
  <2> QED
    BY <1>a, <1>j, <1>u, <2>1 DEF IInv, WalkInv, Walking
<1>12. IdInv'
  <2>1. \A c \in Core : owner'[c] < nextJob
    <3>1. NoJob < nextJob
      BY <1>0, BoundsAssumption DEF TypeCores, NoJob
    <3> QED
      BY <1>c, <3>1 DEF IInv, IdInv
  <2>2. \A id \in JobId : id >= nextJob => pending'[id] = "none"
    BY <1>g DEF IInv, IdInv
  <2>3. \A c, d \in Core : owner'[c] = owner'[d] /\ owner'[c] # NoJob => c = d
    BY <1>c DEF IInv, IdInv
  <2> QED
    BY <1>a, <1>s, <2>1, <2>2, <2>3 DEF IInv, IdInv
<1>13. JobsWaiting'
  BY <1>a DEF IInv, FrameInv, JobsWaiting
<1>14. FlightPlaced'
  BY <1>a DEF IInv, FrameInv, FlightPlaced
<1>15. AnswersAsked'
  BY <1>a DEF IInv, FrameInv, AnswersAsked
<1>16. RingInv'
  BY <1>a, <1>s DEF IInv, FrameInv, RingInv, ring
<1>17. LastInv'
  BY <1>a DEF IInv, LastInv
<1>18. CountInv'
  BY <1>a, <1>o DEF IInv, CountInv, ring
<1>19. SliceInv'
  BY <1>a, <1>g, <1>s DEF IInv, SliceInv, Uses
<1>20. ~cutShort'
  BY <1>a, <1>q
<1> QED
  BY <1>1, <1>2, <1>3, <1>4, <1>5, <1>6, <1>7, <1>8, <1>9, <1>10, <1>11, <1>12, <1>13, <1>14,
     <1>15, <1>16, <1>17, <1>18, <1>19, <1>20, TypePartsNext DEF IInv, CoreInv, FrameInv

\* The job has its last report; its core may be lent again meanwhile.
LEMMA MoveJob_Keeps ==
    ASSUME IInv, MoveJob
    PROVE  IInv'
<1>0. TypeQueues /\ TypeThread /\ TypeTold /\ TypeCaller /\ TypeRing /\ TypeCores
  BY TypeParts DEF IInv
<1>a. /\ at = "move" /\ at' = "visit" /\ hasOutput' = TRUE /\ job' = NoOne
      /\ UNCHANGED <<referCounter, bFlush, workers, reg, todo, waitOut, waitError>>
      /\ UNCHANGED <<pc, call, cur, ring, owner, running, pending, nextJob>>
      /\ UNCHANGED <<flight, verdict, cutShort, gone>>
      /\ jobs' = {j \in jobs : j.id # job.id}
  BY DEF MoveJob, caller, kernel, history, outcome, cwl
<1>q. ~cutShort /\ CoresOnce /\ CoresUsed /\ CoresNoted /\ OwnLast
  BY CoresParts, OwnParts DEF IInv, CoreInv
<1>j. /\ job \in jobs /\ job \notin todo /\ job \in Job /\ job.inst \in Inst /\ job.core \in Core
      /\ job.id \in JobId /\ job.id \in flight[job.inst] /\ Answer \in Final /\ Answer # "slice"
  BY <1>0, <1>a DEF IInv, WalkInv, FrameInv, JobsWaiting, TypeQueues, Job, Final
<1>k. jobs' = jobs \ {job} /\ \A j \in jobs : j # job => j.id # job.id
  BY <1>a, <1>j DEF IInv, WalkInv
<1>c. \A l \in jobs : owner[l.core] = l.id => l # job
  BY <1>0, <1>a DEF IInv, WalkInv, TypeQueues, Job
<1>x. /\ out[job.id] \in Seq(Final \cup {"slice"}) /\ DOMAIN out = JobId
      /\ out' = [out EXCEPT ![job.id] = Append(@, Answer)]
  BY <1>0, <1>j DEF MoveJob, TypeQueues
<1>y. /\ out'[job.id] \in Seq(Final \cup {"slice"}) /\ out'[job.id] # <<>>
      /\ Len(out'[job.id]) = Len(out[job.id]) + 1
      /\ DOMAIN out'[job.id] = 1 .. Len(out[job.id]) + 1
      /\ \A k \in 1 .. Len(out[job.id]) : out'[job.id][k] = out[job.id][k]
      /\ out'[job.id][Len(out[job.id]) + 1] = Answer
      /\ Len(out[job.id]) \in Nat /\ DOMAIN out[job.id] = 1 .. Len(out[job.id])
  BY <1>x, <1>j, AppendProperties, LenProperties
<1>z. \A id \in JobId : id # job.id => out'[id] = out[id]
  BY <1>x
<1>f. ASSUME NEW k \in DOMAIN out'[job.id]
      PROVE  \/ /\ k \in DOMAIN out[job.id] /\ out'[job.id][k] = out[job.id][k]
                /\ out'[job.id][k] \notin Final
             \/ k = Len(out'[job.id]) /\ out'[job.id][k] = Answer
  <2>1. CASE k \in DOMAIN out[job.id]
    BY <1>j, <1>y, <2>1 DEF IInv, FrameInv, JobsWaiting
  <2>2. CASE k \notin DOMAIN out[job.id]
    <3>1. k = Len(out[job.id]) + 1
      BY <1>y, <2>2
    <3> QED
      BY <1>y, <3>1
  <2> QED
    BY <2>1, <2>2
<1>1. TypeQueues'
  <2>1. out' \in [JobId -> Seq(Final \cup {"slice"})]
    BY <1>0, <1>x, <1>y DEF TypeQueues
  <2>2. jobs' \subseteq Job /\ todo' \subseteq jobs'
    BY <1>0, <1>a, <1>j, <1>k DEF TypeQueues
  <2> QED
    BY <1>0, <1>a, <2>1, <2>2 DEF TypeQueues
<1>2. TypeThread'
  BY <1>0, <1>a DEF TypeThread
<1>3. TypeTold'
  BY <1>0, BoundsAssumption, NextIndexType
    DEF MoveJob, TypeTold, Status, Quiet, ewl, told, thread, ring, caller, kernel, history,
        outcome, cwl
<1>4. TypeCaller'
  BY <1>0, BoundsAssumption, NextIndexType
    DEF MoveJob, TypeCaller, ewl, told, thread, ring, caller, kernel, history, outcome, cwl
<1>5. TypeRing'
  BY <1>0, BoundsAssumption, NextIndexType
    DEF MoveJob, TypeRing, ewl, told, thread, ring, caller, kernel, history, outcome, cwl
<1>6. TypeCores'
  BY <1>0, <1>a DEF TypeCores
<1>s. \A k \in Inst : /\ Submitting(k)' <=> Submitting(k)
                      /\ Lent(k)' <=> Lent(k)
                      /\ Holding(k)' <=> Holding(k)
  BY <1>0
    DEF MoveJob, TypeCaller, Submitting, ewl, told, thread, ring, caller, kernel, history,
        outcome, cwl, Lent, Holding
<1>o. \A k \in Inst : Open(k)' <=> Open(k)
  BY <1>0
    DEF MoveJob, TypeCaller, Open, ewl, told, thread, ring, caller, kernel, history, outcome,
        cwl
<1>7. CoresAccounted'
  <2>1. CoresOnce'
    BY <1>a, <1>q DEF CoresOnce
  <2>2. CoresUsed'
    <3>1. \A c \in Core : /\ Used(c)' <=> Used(c)
                          /\ OnItsWayOut(c)' <=> OnItsWayOut(c)
                          /\ ~OnItsWayBack(c)' /\ ~OnItsWayBack(c)
      BY <1>a DEF Used, OnItsWayOut, OnItsWayBack
    <3> QED
      BY <1>a, <1>q, <3>1 DEF CoresUsed
  <2>3. CoresNoted'
    BY <1>a, <1>q, <1>s DEF CoresNoted
  <2> QED
    BY <1>a, <1>q, <2>1, <2>2, <2>3, CoresPartsNext
<1>8. OwnCore'
  <2>1. \A k \in Inst : LAST_CORE(k)' = LAST_CORE(k)
    BY <1>a DEF LAST_CORE
  <2>2. OwnLast'
    BY <1>a, <1>q, <1>s, <2>1 DEF OwnLast
  <2>3. OwnFirst'
    BY <1>a DEF OwnFirst
  <2> QED
    BY <1>a, <1>q, <2>2, <2>3, OwnPartsNext
<1>9. WorkersUsed'
  <2>1. \A l \in jobs : owner[l.core] = l.id => l \in jobs'
    BY <1>c, <1>k
  <2> QED
    BY <1>a, <1>s, <2>1 DEF IInv, CoreInv, WorkersUsed
<1>10. JobsHaveCores'
  BY <1>a, <1>k DEF IInv, CoreInv, JobsHaveCores
<1>11. WalkInv'
  BY <1>a, <1>k DEF IInv, WalkInv, Walking
<1>12. IdInv'
  BY <1>a, <1>s DEF IInv, IdInv
<1>13. JobsWaiting'
  <2>1. \A l \in jobs' : l \in jobs /\ l.id \in JobId /\ l.id # job.id
    BY <1>0, <1>k DEF TypeQueues, Job
  <2> QED
    BY <1>a, <1>z, <2>1 DEF IInv, FrameInv, JobsWaiting
<1>14. FlightPlaced'
  <2> SUFFICES ASSUME NEW k \in Inst, NEW id \in flight[k]
               PROVE  \/ \E j \in jobs' : j.id = id
                      \/ out'[id] # <<>> /\ Last(out'[id]) \in Final
    BY <1>a DEF FlightPlaced
  <2>1. CASE id = job.id
    BY <1>j, <1>y, <2>1 DEF Last
  <2>2. CASE id # job.id
    BY <1>0, <1>k, <1>z, <2>2 DEF IInv, FrameInv, FlightPlaced, TypeRing
  <2> QED
    BY <2>1, <2>2
<1>15. AnswersAsked'
  BY <1>a, <1>j, <1>z DEF IInv, FrameInv, AnswersAsked
<1>16. RingInv'
  BY <1>a, <1>s DEF IInv, FrameInv, RingInv, ring
<1>17. LastInv'
  BY <1>f, <1>z DEF IInv, LastInv
<1>18. CountInv'
  BY <1>a, <1>o DEF IInv, CountInv, ring
<1>19. SliceInv'
  <2>1. ASSUME NEW id \in JobId, \E k \in DOMAIN out'[id] : out'[id][k] = "slice"
        PROVE  \E k \in DOMAIN out[id] : out[id][k] = "slice"
    BY <1>f, <1>j, <1>z, <2>1
  <2> QED
    BY <1>a, <1>s, <2>1 DEF IInv, SliceInv, Uses
<1>20. ~cutShort'
  BY <1>a, <1>q
<1> QED
  BY <1>1, <1>2, <1>3, <1>4, <1>5, <1>6, <1>7, <1>8, <1>9, <1>10, <1>11, <1>12, <1>13, <1>14,
     <1>15, <1>16, <1>17, <1>18, <1>19, <1>20, TypePartsNext DEF IInv, CoreInv, FrameInv

\* The sleepers look again.
LEMMA Broadcast_Keeps ==
    ASSUME IInv, Broadcast
    PROVE  IInv'
<1>0. TypeQueues /\ TypeThread /\ TypeTold /\ TypeCaller /\ TypeRing /\ TypeCores
  BY TypeParts DEF IInv
<1>1. TypeQueues'
  BY <1>0, BoundsAssumption, NextIndexType
    DEF Broadcast, TypeQueues, Job, Final, ewl, told, thread, ring, caller, kernel, history,
        outcome, cwl
<1>2. TypeThread'
  BY <1>0, BoundsAssumption, NextIndexType
    DEF Broadcast, TypeThread, NoOne, Job, JobMutexFree, Signalled, ewl, told, thread, ring,
        caller, kernel, history, outcome, cwl
<1>3. TypeTold'
  BY <1>0, BoundsAssumption, NextIndexType
    DEF Broadcast, TypeTold, Status, Quiet, ewl, told, thread, ring, caller, kernel, history,
        outcome, cwl
<1>4. TypeCaller'
  BY <1>0, BoundsAssumption, NextIndexType
    DEF Broadcast, TypeCaller, ewl, told, thread, ring, caller, kernel, history, outcome, cwl
<1>5. TypeRing'
  BY <1>0, BoundsAssumption, NextIndexType
    DEF Broadcast, TypeRing, ewl, told, thread, ring, caller, kernel, history, outcome, cwl
<1>6. TypeCores'
  BY <1>0, BoundsAssumption, NextIndexType
    DEF Broadcast, TypeCores, ewl, told, thread, ring, caller, kernel, history, outcome, cwl
<1>s. \A k \in Inst : /\ Submitting(k)' <=> Submitting(k)
                      /\ Lent(k)' <=> Lent(k)
                      /\ Holding(k)' <=> Holding(k)
  BY <1>0
    DEF Broadcast, TypeCaller, Submitting, ewl, told, thread, ring, caller, kernel, history,
        outcome, cwl, Lent, Holding
<1>o. \A k \in Inst : Open(k)' <=> Open(k)
  BY <1>0
    DEF Broadcast, TypeCaller, Open, ewl, told, thread, ring, caller, kernel, history, outcome,
        cwl
<1>7. CoresAccounted'
  BY <1>0, <1>s
    DEF Broadcast, IInv, CoreInv, CoresAccounted, OnItsWayBack, ewl, told, thread, ring, caller,
        kernel, history, outcome, cwl, OnItsWayOut, Lent
<1>8. OwnCore'
  BY <1>0, <1>s
    DEF TypeThread, Broadcast, IInv, CoreInv, OwnCore, FIRST_CORE, LAST_CORE, ewl, told, thread,
        ring, caller, kernel, history, outcome, cwl, Holding
<1>9. WorkersUsed'
  BY <1>0, <1>s
    DEF Broadcast, IInv, CoreInv, WorkersUsed, ewl, told, thread, ring, caller, kernel, history,
        outcome, cwl
<1>10. JobsHaveCores'
  BY <1>0
    DEF Broadcast, IInv, CoreInv, JobsHaveCores, ewl, told, thread, ring, caller, kernel,
        history, outcome, cwl
<1>11. WalkInv'
  BY <1>0
    DEF TypeThread, Broadcast, IInv, WalkInv, Walking, Answer, Final, Status, Quiet, NoOne, ewl,
        told, thread, ring, caller, kernel, history, outcome, cwl
<1>12. IdInv'
  BY <1>0, <1>s
    DEF TypeTold, Broadcast, IInv, IdInv, Quiet, Status, ewl, told, thread, ring, caller,
        kernel, history, outcome, cwl
<1>13. JobsWaiting'
  BY <1>0
    DEF Broadcast, IInv, FrameInv, JobsWaiting, ewl, told, thread, ring, caller, kernel,
        history, outcome, cwl
<1>14. FlightPlaced'
  BY <1>0
    DEF Broadcast, IInv, FrameInv, FlightPlaced, ewl, told, thread, ring, caller, kernel,
        history, outcome, cwl
<1>15. AnswersAsked'
  BY <1>0
    DEF Broadcast, IInv, FrameInv, AnswersAsked, ewl, told, thread, ring, caller, kernel,
        history, outcome, cwl
<1>16. RingInv'
  BY <1>0, <1>s
    DEF Broadcast, IInv, FrameInv, RingInv, ewl, told, thread, ring, caller, kernel, history,
        outcome, cwl
<1>17. LastInv'
  BY <1>0
    DEF Broadcast, IInv, LastInv, ewl, told, thread, ring, caller, kernel, history, outcome, cwl
<1>18. CountInv'
  BY <1>0, <1>o
    DEF TypeRing, TypeCaller, Broadcast, IInv, CountInv, ewl, told, thread, ring, caller,
        kernel, history, outcome, cwl
<1>19. SliceInv'
  BY <1>0, <1>s
    DEF Broadcast, IInv, SliceInv, Uses, Quiet, ewl, told, thread, ring, caller, kernel,
        history, outcome, cwl
<1>20. ~cutShort'
  BY DEF IInv, Broadcast, history, outcome
<1> QED
  BY <1>1, <1>2, <1>3, <1>4, <1>5, <1>6, <1>7, <1>8, <1>9, <1>10, <1>11, <1>12, <1>13, <1>14,
     <1>15, <1>16, <1>17, <1>18, <1>19, <1>20, TypePartsNext DEF IInv, CoreInv, FrameInv

\* A core tells of a slice.
LEMMA SliceReady_Keeps ==
    ASSUME IInv, NEW c \in Core, SliceReady(c)
    PROVE  IInv'
<1>0. TypeQueues /\ TypeThread /\ TypeTold /\ TypeCaller /\ TypeRing /\ TypeCores
  BY TypeParts DEF IInv
<1>1. TypeQueues'
  BY <1>0, BoundsAssumption, NextIndexType
    DEF SliceReady, MayReport, TypeQueues, Job, Final, ewl, told, thread, ring, caller, kernel,
        history, outcome, cwl
<1>2. TypeThread'
  BY <1>0, BoundsAssumption, NextIndexType
    DEF SliceReady, MayReport, TypeThread, NoOne, Job, JobMutexFree, Signalled, ewl, told,
        thread, ring, caller, kernel, history, outcome, cwl
<1>3. TypeTold'
  BY <1>0, BoundsAssumption, NextIndexType
    DEF SliceReady, MayReport, TypeTold, Status, Quiet, ewl, told, thread, ring, caller, kernel,
        history, outcome, cwl
<1>4. TypeCaller'
  BY <1>0, BoundsAssumption, NextIndexType
    DEF SliceReady, MayReport, TypeCaller, ewl, told, thread, ring, caller, kernel, history,
        outcome, cwl
<1>5. TypeRing'
  BY <1>0, BoundsAssumption, NextIndexType
    DEF SliceReady, MayReport, TypeRing, ewl, told, thread, ring, caller, kernel, history,
        outcome, cwl
<1>6. TypeCores'
  BY <1>0, BoundsAssumption, NextIndexType
    DEF SliceReady, MayReport, TypeCores, ewl, told, thread, ring, caller, kernel, history,
        outcome, cwl
<1>s. \A k \in Inst : /\ Submitting(k)' <=> Submitting(k)
                      /\ Lent(k)' <=> Lent(k)
                      /\ Holding(k)' <=> Holding(k)
  BY <1>0
    DEF SliceReady, MayReport, TypeCaller, Submitting, ewl, told, thread, ring, caller, kernel,
        history, outcome, cwl, Lent, Holding
<1>o. \A k \in Inst : Open(k)' <=> Open(k)
  BY <1>0
    DEF SliceReady, MayReport, TypeCaller, Open, ewl, told, thread, ring, caller, kernel,
        history, outcome, cwl
<1>7. CoresAccounted'
  BY <1>0, <1>s
    DEF SliceReady, MayReport, IInv, CoreInv, CoresAccounted, OnItsWayBack, ewl, told, thread,
        ring, caller, kernel, history, outcome, cwl, OnItsWayOut, Lent
<1>8. OwnCore'
  BY <1>0, <1>s
    DEF TypeThread, SliceReady, MayReport, IInv, CoreInv, OwnCore, FIRST_CORE, LAST_CORE, ewl,
        told, thread, ring, caller, kernel, history, outcome, cwl, Holding
<1>9. WorkersUsed'
  BY <1>0, <1>s
    DEF SliceReady, MayReport, IInv, CoreInv, WorkersUsed, ewl, told, thread, ring, caller,
        kernel, history, outcome, cwl
<1>10. JobsHaveCores'
  BY <1>0
    DEF SliceReady, MayReport, IInv, CoreInv, JobsHaveCores, ewl, told, thread, ring, caller,
        kernel, history, outcome, cwl
<1>11. WalkInv'
  BY <1>0
    DEF TypeThread, SliceReady, MayReport, IInv, WalkInv, Walking, Answer, Final, Status, Quiet,
        NoOne, ewl, told, thread, ring, caller, kernel, history, outcome, cwl
<1>12. IdInv'
  <2>1. \A id \in JobId : id >= nextJob => pending'[id] = "none"
    <3>1. \A id \in JobId : id >= nextJob => pending[id] = "none"
      BY DEF IInv, IdInv
    <3>2. owner[c] < nextJob /\ owner[c] \in Int /\ nextJob \in Int
      BY <1>0 DEF IInv, IdInv, TypeCores, JobId, NoJob
    <3>3. \A id \in JobId : id >= nextJob => id # owner[c]
      BY <3>2 DEF JobId
    <3>4. \A id \in JobId : id # owner[c] => pending'[id] = pending[id]
      BY <1>0 DEF SliceReady, MayReport, TypeTold
    <3> QED
      BY <3>1, <3>3, <3>4
  <2> QED
    BY <2>1
      DEF SliceReady, MayReport, IInv, IdInv, Submitting, Quiet, Status, ewl, told, thread,
          ring, caller, kernel, history, outcome, cwl, Lent, Holding
<1>13. JobsWaiting'
  BY <1>0
    DEF SliceReady, MayReport, IInv, FrameInv, JobsWaiting, ewl, told, thread, ring, caller,
        kernel, history, outcome, cwl
<1>14. FlightPlaced'
  BY <1>0
    DEF SliceReady, MayReport, IInv, FrameInv, FlightPlaced, ewl, told, thread, ring, caller,
        kernel, history, outcome, cwl
<1>15. AnswersAsked'
  BY <1>0
    DEF SliceReady, MayReport, IInv, FrameInv, AnswersAsked, ewl, told, thread, ring, caller,
        kernel, history, outcome, cwl
<1>16. RingInv'
  BY <1>0, <1>s
    DEF SliceReady, MayReport, IInv, FrameInv, RingInv, ewl, told, thread, ring, caller, kernel,
        history, outcome, cwl
<1>17. LastInv'
  BY <1>0
    DEF SliceReady, MayReport, IInv, LastInv, ewl, told, thread, ring, caller, kernel, history,
        outcome, cwl
<1>18. CountInv'
  BY <1>0, <1>o
    DEF TypeRing, TypeCaller, SliceReady, MayReport, IInv, CountInv, ewl, told, thread, ring,
        caller, kernel, history, outcome, cwl
<1>19. SliceInv'
  <2>1. PICK k \in Sliced : Contains(workers[k], c)
    BY DEF SliceReady
  <2>2. k \in Inst /\ \E n \in DOMAIN workers[k] : workers[k][n] = c
    BY <2>1, FaultsAssumption DEF Contains
  <2>3. Uses(k, owner[c])
    BY <2>2, UserOfCore
  <2>4. \A i \in Inst : Uses(i, owner[c]) => i \in Sliced
    BY <2>1, <2>2, <2>3, UsesOnce
  <2> QED
    BY <1>0, <2>4
      DEF SliceReady, MayReport, IInv, SliceInv, Uses, Submitting, Quiet, ewl, told, thread,
          ring, caller, kernel, history, TypeTold, outcome, cwl, Lent, Holding
<1>20. ~cutShort'
  BY DEF IInv, SliceReady, history, outcome
<1> QED
  BY <1>1, <1>2, <1>3, <1>4, <1>5, <1>6, <1>7, <1>8, <1>9, <1>10, <1>11, <1>12, <1>13, <1>14,
     <1>15, <1>16, <1>17, <1>18, <1>19, <1>20, TypePartsNext DEF IInv, CoreInv, FrameInv

\* A core tells of the end of its frame.
LEMMA FrameDone_Keeps ==
    ASSUME IInv, NEW c \in Core, FrameDone(c)
    PROVE  IInv'
<1>0. TypeQueues /\ TypeThread /\ TypeTold /\ TypeCaller /\ TypeRing /\ TypeCores
  BY TypeParts DEF IInv
<1>1. TypeQueues'
  BY <1>0, BoundsAssumption, NextIndexType
    DEF FrameDone, MayReport, TypeQueues, Job, Final, ewl, told, thread, ring, caller, kernel,
        history, outcome, cwl
<1>2. TypeThread'
  BY <1>0, BoundsAssumption, NextIndexType
    DEF FrameDone, MayReport, TypeThread, NoOne, Job, JobMutexFree, Signalled, ewl, told,
        thread, ring, caller, kernel, history, outcome, cwl
<1>3. TypeTold'
  BY <1>0, BoundsAssumption, NextIndexType
    DEF FrameDone, MayReport, TypeTold, Status, Quiet, ewl, told, thread, ring, caller, kernel,
        history, outcome, cwl
<1>4. TypeCaller'
  BY <1>0, BoundsAssumption, NextIndexType
    DEF FrameDone, MayReport, TypeCaller, ewl, told, thread, ring, caller, kernel, history,
        outcome, cwl
<1>5. TypeRing'
  BY <1>0, BoundsAssumption, NextIndexType
    DEF FrameDone, MayReport, TypeRing, ewl, told, thread, ring, caller, kernel, history,
        outcome, cwl
<1>6. TypeCores'
  BY <1>0, BoundsAssumption, NextIndexType
    DEF FrameDone, MayReport, TypeCores, ewl, told, thread, ring, caller, kernel, history,
        outcome, cwl
<1>s. \A k \in Inst : /\ Submitting(k)' <=> Submitting(k)
                      /\ Lent(k)' <=> Lent(k)
                      /\ Holding(k)' <=> Holding(k)
  BY <1>0
    DEF FrameDone, MayReport, TypeCaller, Submitting, ewl, told, thread, ring, caller, kernel,
        history, outcome, cwl, Lent, Holding
<1>o. \A k \in Inst : Open(k)' <=> Open(k)
  BY <1>0
    DEF FrameDone, MayReport, TypeCaller, Open, ewl, told, thread, ring, caller, kernel,
        history, outcome, cwl
<1>7. CoresAccounted'
  BY <1>0, <1>s
    DEF FrameDone, MayReport, IInv, CoreInv, CoresAccounted, OnItsWayBack, ewl, told, thread,
        ring, caller, kernel, history, outcome, cwl, OnItsWayOut, Lent
<1>8. OwnCore'
  BY <1>0, <1>s
    DEF TypeThread, FrameDone, MayReport, IInv, CoreInv, OwnCore, FIRST_CORE, LAST_CORE, ewl,
        told, thread, ring, caller, kernel, history, outcome, cwl, Holding
<1>9. WorkersUsed'
  BY <1>0, <1>s
    DEF FrameDone, MayReport, IInv, CoreInv, WorkersUsed, ewl, told, thread, ring, caller,
        kernel, history, outcome, cwl
<1>10. JobsHaveCores'
  BY <1>0
    DEF FrameDone, MayReport, IInv, CoreInv, JobsHaveCores, ewl, told, thread, ring, caller,
        kernel, history, outcome, cwl
<1>11. WalkInv'
  BY <1>0
    DEF TypeThread, FrameDone, MayReport, IInv, WalkInv, Walking, Answer, Final, Status, Quiet,
        NoOne, ewl, told, thread, ring, caller, kernel, history, outcome, cwl
<1>12. IdInv'
  <2>1. \A id \in JobId : id >= nextJob => pending'[id] = "none"
    <3>1. \A id \in JobId : id >= nextJob => pending[id] = "none"
      BY DEF IInv, IdInv
    <3>2. owner[c] < nextJob /\ owner[c] \in Int /\ nextJob \in Int
      BY <1>0 DEF IInv, IdInv, TypeCores, JobId, NoJob
    <3>3. \A id \in JobId : id >= nextJob => id # owner[c]
      BY <3>2 DEF JobId
    <3>4. \A id \in JobId : id # owner[c] => pending'[id] = pending[id]
      BY <1>0 DEF FrameDone, MayReport, TypeTold
    <3> QED
      BY <3>1, <3>3, <3>4
  <2> QED
    BY <2>1
      DEF FrameDone, MayReport, IInv, IdInv, Submitting, Quiet, Status, ewl, told, thread, ring,
          caller, kernel, history, outcome, cwl, Lent, Holding
<1>13. JobsWaiting'
  BY <1>0
    DEF FrameDone, MayReport, IInv, FrameInv, JobsWaiting, ewl, told, thread, ring, caller,
        kernel, history, outcome, cwl
<1>14. FlightPlaced'
  BY <1>0
    DEF FrameDone, MayReport, IInv, FrameInv, FlightPlaced, ewl, told, thread, ring, caller,
        kernel, history, outcome, cwl
<1>15. AnswersAsked'
  BY <1>0
    DEF FrameDone, MayReport, IInv, FrameInv, AnswersAsked, ewl, told, thread, ring, caller,
        kernel, history, outcome, cwl
<1>16. RingInv'
  BY <1>0, <1>s
    DEF FrameDone, MayReport, IInv, FrameInv, RingInv, ewl, told, thread, ring, caller, kernel,
        history, outcome, cwl
<1>17. LastInv'
  BY <1>0
    DEF FrameDone, MayReport, IInv, LastInv, ewl, told, thread, ring, caller, kernel, history,
        outcome, cwl
<1>18. CountInv'
  BY <1>0, <1>o
    DEF TypeRing, TypeCaller, FrameDone, MayReport, IInv, CountInv, ewl, told, thread, ring,
        caller, kernel, history, outcome, cwl
<1>19. SliceInv'
  BY <1>0, <1>s
    DEF FrameDone, MayReport, IInv, SliceInv, Uses, Quiet, ewl, told, thread, ring, caller,
        kernel, history, outcome, cwl
<1>20. ~cutShort'
  BY DEF IInv, FrameDone, history, outcome
<1> QED
  BY <1>1, <1>2, <1>3, <1>4, <1>5, <1>6, <1>7, <1>8, <1>9, <1>10, <1>11, <1>12, <1>13, <1>14,
     <1>15, <1>16, <1>17, <1>18, <1>19, <1>20, TypePartsNext DEF IInv, CoreInv, FrameInv

-----------------------------------------------------------------------------
(* The theorems *)

\* Nothing is in flight at first.
LEMMA InitHolds == Init => IInv
<1> SUFFICES ASSUME Init PROVE IInv
  OBVIOUS
<1>1. /\ referCounter = 0 /\ bFlush = FALSE /\ jobs = {} /\ out = [id \in JobId |-> <<>>]
      /\ workers = [i \in Inst |-> <<>>] /\ at = "none" /\ todo = {} /\ job = NoOne
      /\ waitOut = [id \in JobId |-> "none"] /\ waitError = FALSE /\ hasOutput = FALSE
      /\ pc = [i \in Inst |-> "none"] /\ call = [i \in Inst |-> "none"]
      /\ cur = [i \in Inst |-> NoJob] /\ jobCnt = [i \in Inst |-> 0]
      /\ waitJobid = [i \in Inst |-> [k \in 0 .. ParallelCoreNum[i] - 1 |-> NoJob]]
      /\ reservedCore = [i \in Inst |-> 0] /\ owner = [c \in Core |-> NoJob] /\ running = {}
      /\ pending = [id \in JobId |-> "none"] /\ nextJob = 1
      /\ flight = [i \in Inst |-> {}] /\ verdict = [id \in JobId |-> "none"]
      /\ reg = [i \in Inst |-> NoCore] /\ cutShort = FALSE /\ gone = FALSE
  BY DEF Init, Quiet
<1>2. /\ \A id \in JobId : out[id] = <<>> /\ DOMAIN out[id] = {}
      /\ \A i \in Inst : /\ workers[i] = <<>> /\ DOMAIN workers[i] = {} /\ pc[i] = "none"
                         /\ call[i] = "none" /\ cur[i] = NoJob /\ flight[i] = {}
                         /\ reservedCore[i] = 0 /\ ~Submitting(i) /\ ~Open(i)
  BY <1>1 DEF Submitting, Open, Lent, Holding
<1>3. TypeInv
  <2>1. TypeQueues
    <3>1. <<>> \in Seq(Final \cup {"slice"})
      BY EmptySeq
    <3>2. out \in [JobId -> Seq(Final \cup {"slice"})]
      BY <1>1, <3>1
    <3> QED
      BY <1>1, <3>2 DEF TypeQueues
  <2>2. TypeThread
    BY <1>1 DEF TypeThread
  <2>3. TypeTold
    BY <1>1 DEF TypeTold, Status
  <2>4. TypeCaller
    BY <1>1 DEF TypeCaller
  <2>5. TypeRing
    BY <1>1, Sizes DEF TypeRing
  <2>6. TypeCores
    <3>1. workers \in [Inst -> Seq(Core)]
      <4>1. <<>> \in Seq(Core)
        BY EmptySeq
      <4> QED
        BY <1>1, <4>1
    <3>2. reg \in [Inst -> Core \cup {NoCore}] /\ owner \in [Core -> JobId \cup {NoJob}]
      BY <1>1
    <3>3. nextJob \in 1 .. JobMax + 1
      BY <1>1, Sizes
    <3> QED
      BY <1>1, <3>1, <3>2, <3>3 DEF TypeCores
  <2> QED
    BY <2>1, <2>2, <2>3, <2>4, <2>5, <2>6, TypeParts
<1>4. CoreInv
  BY <1>1, <1>2
    DEF CoreInv, CoresAccounted, OwnCore, WorkersUsed, JobsHaveCores, OnItsWayBack, Submitting,
        OnItsWayOut, Lent, Holding
<1>5. WalkInv
  BY <1>1 DEF WalkInv
<1>6. IdInv
  BY <1>1, <1>2 DEF IdInv, NoJob
<1>7. FrameInv
  <2>1. \A i \in Inst : \A n \in 0 .. ParallelCoreNum[i] - 1 : waitJobid[i][n] = NoJob
    BY <1>1
  <2>2. RingInv
    BY <1>1, <1>2, <2>1 DEF RingInv, NoJob
  <2> QED
    BY <1>1, <1>2, <2>2 DEF FrameInv, JobsWaiting, FlightPlaced, AnswersAsked
<1>8. LastInv
  BY <1>2 DEF LastInv
<1>9. CountInv
  <2>1. {i \in Inst : Open(i)} = {}
    BY <1>2
  <2>2. IsFiniteSet({}) /\ Cardinality({}) = 0
    BY FS_EmptySet
  <2>3. \A i \in Inst : reservedCore[i] < ParallelCoreNum[i]
    BY <1>2, Sizes
  <2>4. \A i \in Inst : IsFiniteSet(flight[i]) /\ Cardinality(flight[i]) = reservedCore[i]
    BY <1>2, <2>2
  <2>5. referCounter = Cardinality({i \in Inst : Open(i)})
    BY <1>1, <2>1, <2>2
  <2> QED
    BY <1>1, <1>2, <2>3, <2>4, <2>5 DEF CountInv
<1>10. SliceInv
  BY <1>1, <1>2 DEF SliceInv, Uses
<1> QED
  BY <1>1, <1>3, <1>4, <1>5, <1>6, <1>7, <1>8, <1>9, <1>10 DEF IInv

\* No action breaks the invariant, but for a report of a slice taken for the last one.
LEMMA StepHolds == IInv /\ [Next]_vars => IInv' \/ (cutShort' /\ CutBySlices)
<1> SUFFICES ASSUME IInv, [Next]_vars PROVE IInv' \/ (cutShort' /\ CutBySlices)
  OBVIOUS
<1>1. ASSUME NEW i \in Inst, TakeReport(i) PROVE IInv' \/ (cutShort' /\ CutBySlices)
  <2>1. cutShort' \in BOOLEAN
    BY <1>1, TypeParts DEF TakeReport, IInv, TypeCores
  <2>2. CASE cutShort'
    BY <1>1, <2>2, CutShortBySlices
  <2>3. CASE ~cutShort'
    BY <1>1, <2>3, TakeReport_Keeps
  <2> QED
    BY <2>2, <2>3
<1>2. ASSUME NEW i \in Inst, CallStep(i) PROVE IInv' \/ (cutShort' /\ CutBySlices)
  BY <1>1, <1>2, EWLReserveHw_Keeps, FindWorker_Keeps, EncAsicFrameStart_Keeps,
     EWLEnqueueWaitjob_Keeps, WaitForOutput_Keeps, EWLRelease_Keeps, EwlReleaseCoreWait_Keeps
  DEF CallStep
<1>3. ASSUME NEW i \in Inst, NewCall(i) PROVE IInv'
  BY <1>3, EWLInit_Keeps, Encode_Keeps, VCEncMultiCoreFlush_Keeps, VCEncClear_Keeps DEF NewCall
<1>4. CASE UseFreed
  <2>1. gone' \in BOOLEAN /\ UNCHANGED <<ewl, cwl, thread, caller, kernel, flight, verdict, cutShort>>
    BY <1>4 DEF UseFreed
  <2> QED
    BY <2>1, Same_Keeps
<1>5. CASE WaitThread
  BY <1>4, <1>5, NoJobs_Keeps, CoresReport_Keeps, WaitFails_Keeps, LockJobs_Keeps, Visit_Keeps,
     PassSlice_Keeps, FinishJob_Keeps, GiveCoreBack_Keeps, MoveJob_Keeps, Broadcast_Keeps
  DEF WaitThread
<1>6. ASSUME NEW c \in Core, SliceReady(c) \/ FrameDone(c) PROVE IInv'
  BY <1>6, SliceReady_Keeps, FrameDone_Keeps
<1>7. CASE UNCHANGED vars
  <2>1. gone' \in BOOLEAN /\ UNCHANGED <<ewl, cwl, thread, caller, kernel, flight, verdict, cutShort>>
    BY <1>7, TypeParts DEF vars, history, outcome, IInv, TypeCores
  <2> QED
    BY <2>1, Same_Keeps
<1> QED
  BY <1>2, <1>3, <1>5, <1>6, <1>7 DEF Next, Step, Terminating

\* What was cut short stays so.
LEMMA CutShortStays == cutShort /\ [Next]_vars => cutShort'
<1> SUFFICES ASSUME cutShort, [Next]_vars PROVE cutShort'
  OBVIOUS
<1>1. ASSUME NEW i \in Inst, CallStep(i) PROVE cutShort'
  BY <1>1 DEF CallStep, EWLReserveHw, FindWorker, EncAsicFrameStart, EWLEnqueueWaitjob, TakeReport,
              WaitForOutput, EWLRelease, EwlReleaseCoreWait, history, outcome
<1>2. ASSUME NEW i \in Inst, NewCall(i) PROVE cutShort'
  BY <1>2 DEF NewCall, EWLInit, Encode, VCEncMultiCoreFlush, VCEncClear, history, outcome
<1>3. CASE WaitThread
  BY <1>3 DEF WaitThread, NoJobs, CoresReport, WaitFails, LockJobs, Visit, PassSlice, FinishJob,
              GiveCoreBack, MoveJob, Broadcast, UseFreed, history, outcome
<1>4. ASSUME NEW c \in Core, SliceReady(c) \/ FrameDone(c) PROVE cutShort'
  BY <1>4 DEF SliceReady, FrameDone, history, outcome
<1>5. CASE UNCHANGED vars
  BY <1>5 DEF vars, history, outcome
<1> QED
  BY <1>1, <1>2, <1>3, <1>4, <1>5 DEF Next, Step, Terminating

\* The invariant of the core wait thread and its callers, which only an instance with slices
\* and several frames in flight can end (hevcencapi_utils.c:107).
THEOREM Invariance == Spec => [](IInv \/ (cutShort /\ CutBySlices))
<1>1. Init => IInv \/ (cutShort /\ CutBySlices)
  BY InitHolds
<1>2. (IInv \/ (cutShort /\ CutBySlices)) /\ [Next]_vars => (IInv \/ (cutShort /\ CutBySlices))'
  BY StepHolds, CutShortStays DEF CutBySlices
<1> QED
  BY <1>1, <1>2, PTL DEF Spec

\* Every variable of the wrapper layer, its thread and its callers keeps its type (ewl.c:84-105),
\* until VCEncClear takes the report of a slice for the last one of its frame.
THEOREM TypeCorrect == Spec => [](cutShort \/ TypeInv)
<1>1. IInv \/ (cutShort /\ CutBySlices) => cutShort \/ TypeInv
  BY DEF IInv
<1> QED
  BY <1>1, Invariance, PTL

\* LAST_CORE is the core of the frame being submitted and FIRST_CORE that of the job the
\* thread is at, whatever the other thread did to the list of workers in between.
THEOREM CoresServeTheirFrames == Spec => []OwnCore
<1>1. IInv \/ (cutShort /\ CutBySlices) => OwnCore
  BY DEF IInv, CoreInv, OwnCore
<1> QED
  BY <1>1, Invariance, PTL

\* EWLReserveHw, EWLReleaseHw and the thread lose no core and use none twice.
THEOREM NoCoreIsLost == Spec => []CoresAccounted
<1>1. IInv \/ (cutShort /\ CutBySlices) => CoresAccounted
  BY DEF IInv, CoreInv, CoresAccounted
<1> QED
  BY <1>1, Invariance, PTL

\* A frame left with EWLEnqueueWaitjob is in jobs or its last report is in out, until the
\* caller takes it; nothing of an instance outlives it.
THEOREM NoFrameIsLost == Spec => []FramesAccounted
<1>1. IInv => FramesAccounted
  <2> SUFFICES ASSUME IInv PROVE FramesAccounted
    OBVIOUS
  <2> DEFINE waiting == {j.id : j \in jobs}
             done == {id \in JobId : out[id] # <<>> /\ Last(out[id]) \in Final}
             inFlight == UNION {flight[i] : i \in Inst}
  <2>1. TypeQueues /\ TypeRing
    BY TypeParts DEF IInv
  <2>2. \A j \in jobs : j.inst \in Inst /\ j.id \in JobId /\ j.id \in flight[j.inst] /\ j.id \notin done
    <3> TAKE j \in jobs
    <3>1. j.inst \in Inst /\ j.id \in JobId /\ out[j.id] \in Seq(Final \cup {"slice"})
      BY <2>1 DEF TypeQueues, Job
    <3>2. j.id \in flight[j.inst] /\ \A k \in DOMAIN out[j.id] : out[j.id][k] \notin Final
      BY DEF IInv, FrameInv, JobsWaiting
    <3>3. ASSUME out[j.id] # <<>> PROVE Last(out[j.id]) \notin Final
      <4>1. Len(out[j.id]) \in DOMAIN out[j.id]
        BY <3>1, <3>3, EmptySeq, LenProperties
      <4> QED
        BY <3>2, <4>1 DEF Last
    <3> QED
      BY <3>1, <3>2, <3>3
  <2>3. \A id \in JobId : out[id] # <<>> => id \in inFlight
    BY DEF IInv, FrameInv, AnswersAsked
  <2>4. inFlight \subseteq waiting \cup done
    <3>1. ASSUME NEW i \in Inst, NEW id \in flight[i] PROVE id \in waiting \cup done
      <4>1. id \in JobId
        BY <2>1 DEF TypeRing
      <4> QED
        BY <4>1 DEF IInv, FrameInv, FlightPlaced
    <3> QED
      BY <3>1
  <2>5. waiting \subseteq inFlight /\ waiting \cap done = {}
    BY <2>2
  <2>6. done \subseteq inFlight
    BY <2>3
  <2> HIDE DEF waiting, done, inFlight
  <2>7. waiting \cup done = inFlight
    BY <2>4, <2>5, <2>6
  <2>8. \A j \in jobs : j.id \in flight[j.inst]
    BY <2>2
  <2>9. ~cutShort
    BY DEF IInv
  <2> QED
    BY <2>3, <2>5, <2>7, <2>8, <2>9 DEF FramesAccounted, waiting, done, inFlight
<1>2. cutShort /\ CutBySlices => FramesAccounted
  BY DEF FramesAccounted, CutBySlices
<1> QED
  BY <1>1, <1>2, Invariance, PTL

-----------------------------------------------------------------------------
(* What the answers say *)

Ended(status) == status \in {"ready", "failed"}

\* A core at work has not told how its frame ends; a new job has no verdict.
RunningInv ==
    \A c \in running : owner[c] # NoJob /\ verdict[owner[c]] = "none" /\ ~OnItsWayBack(c)
Unstarted(i) == pc[i] \in {"lent", "reserved"}
ReservedInv ==
    /\ \A i \in Inst : Unstarted(i) => /\ verdict[cur[i]] = "none"
                                      /\ \A c \in running : owner[c] # cur[i]
    /\ \A id \in JobId : id >= nextJob => verdict[id] = "none"

\* What the kernel has to tell, or has told, of a core it has lent, or of the job the thread is
\* about to move, is how its frame ended.
ToldInv ==
    /\ \A c \in Core : owner[c] # NoJob =>
          /\ Ended(pending[owner[c]]) => pending[owner[c]] = verdict[owner[c]]
          /\ Ended(waitOut[owner[c]]) => waitOut[owner[c]] = verdict[owner[c]]
    /\ at = "move" /\ Ended(waitOut[job.id]) => waitOut[job.id] = verdict[job.id]

AnswersTrue == \A id \in JobId : \A k \in DOMAIN out[id] :
    out[id][k] \in Final => out[id][k] = verdict[id] \/ (out[id][k] = "error" /\ waitError)

AnswerInv == RunningInv /\ ReservedInv /\ ToldInv /\ AnswersTrue

\* The job of a core at work has no final answer, and no core has the job of an answer.
LEMMA LentUnanswered ==
    ASSUME IInv, NEW c \in Core, owner[c] # NoJob
    PROVE  /\ owner[c] \in JobId
           /\ \A k \in DOMAIN out[owner[c]] : out[owner[c]][k] \notin Final
<1>1. TypeCores
  BY TypeParts DEF IInv
<1>2. owner[c] \in JobId
  BY <1>1 DEF TypeCores
<1>q. CoresUsed /\ OwnLast
  BY CoresParts, OwnParts DEF IInv, CoreInv
<1>3. ASSUME NEW j \in jobs, owner[c] = j.id
      PROVE  \A k \in DOMAIN out[owner[c]] : out[owner[c]][k] \notin Final
  BY <1>3 DEF IInv, FrameInv, JobsWaiting
<1>4. ASSUME NEW i \in Inst, Submitting(i), owner[c] = cur[i]
      PROVE  \A k \in DOMAIN out[owner[c]] : out[owner[c]][k] \notin Final
  <2>1. \A k \in Inst : cur[i] \notin flight[k]
    BY <1>4 DEF IInv, IdInv
  <2>2. out[owner[c]] = <<>>
    BY <1>2, <1>4, <2>1 DEF IInv, FrameInv, AnswersAsked
  <2> QED
    BY <2>2
<1>5. CASE OnItsWayBack(c)
  <2>1. job \in jobs /\ owner[c] = job.id
    BY <1>5 DEF IInv, WalkInv, OnItsWayBack
  <2> QED
    BY <1>2, <1>3, <2>1
<1>6. CASE OnItsWayOut(c)
  BY <1>2, <1>4, <1>6 DEF OnItsWayOut, Submitting, Lent
<1>7. CASE Used(c)
  <2>1. PICK i \in Inst : \E n \in DOMAIN workers[i] : workers[i][n] = c
    BY <1>7 DEF Used
  <2>2. PICK n \in DOMAIN workers[i] : workers[i][n] = c
    BY <2>1
  <2>3. CASE \E j \in jobs : j.inst = i /\ j.core = c /\ owner[j.core] = j.id
    BY <1>2, <1>3, <2>3
  <2>4. CASE Holding(i) /\ n = Len(workers[i])
    <3>1. owner[c] = cur[i]
      BY <1>q, <2>2, <2>4 DEF OwnLast, LAST_CORE, Last
    <3> QED
      BY <1>2, <1>4, <2>4, <3>1 DEF Submitting
  <2> QED
    BY <2>2, <2>3, <2>4 DEF IInv, CoreInv, WorkersUsed
<1> QED
  BY <1>q, <1>5, <1>6, <1>7 DEF CoresUsed

\* Steps that tell nothing, lend nothing and start nothing; opening and closing empty out.
Untold ==
    /\ UNCHANGED <<running, owner, nextJob, verdict, pending, waitOut>>
    /\ \/ out' = out /\ (waitError => waitError')
       \/ \A id \in JobId : out'[id] = <<>>
    /\ at' \in {"give", "move"} => at' = at /\ job' = job
    /\ \A i \in Inst : Unstarted(i)' => Unstarted(i) /\ cur'[i] = cur[i]

LEMMA MostTellNothing ==
    ASSUME IInv, [Next]_vars
    PROVE  \/ Untold
           \/ \E i \in Inst : EWLReserveHw(i) \/ EncAsicFrameStart(i) \/ TakeReport(i)
           \/ CoresReport \/ PassSlice \/ FinishJob \/ GiveCoreBack \/ MoveJob \/ Broadcast
           \/ \E c \in Core : SliceReady(c) \/ FrameDone(c)
<1>0. TypeQueues /\ TypeCaller /\ TypeThread
  BY TypeParts DEF IInv
<1>1. ASSUME NEW i \in Inst, \/ Encode(i) \/ FindWorker(i) \/ EWLEnqueueWaitjob(i)
                             \/ VCEncMultiCoreFlush(i) \/ VCEncClear(i) \/ WaitForOutput(i)
      PROVE  Untold
  <2>1. /\ UNCHANGED <<running, owner, nextJob, verdict, pending, waitOut, out, waitError, job>>
        /\ at' = at \/ at' = Signalled
    BY <1>1 DEF Encode, FindWorker, EWLEnqueueWaitjob, VCEncMultiCoreFlush, VCEncClear,
                WaitForOutput, ewl, told, thread, kernel, history
  <2>2. \A k \in Inst : Unstarted(k)' => Unstarted(k) /\ cur'[k] = cur[k]
    BY <1>0, <1>1 DEF Encode, FindWorker, EWLEnqueueWaitjob, KeepInFlight, VCEncMultiCoreFlush,
                      VCEncClear, WaitForOutput, TypeCaller, Unstarted
  <2> QED
    BY <2>1, <2>2 DEF Untold, Signalled
<1>2. ASSUME NEW i \in Inst, EWLInit(i) \/ EWLRelease(i) \/ EwlReleaseCoreWait(i)
      PROVE  Untold
  <2>1. /\ UNCHANGED <<running, owner, nextJob, verdict, pending, waitOut, job>>
        /\ \/ UNCHANGED <<out, waitError>>
           \/ out' = [id \in JobId |-> <<>>]
        /\ at' \in {"give", "move"} => at' = at
    BY <1>2 DEF EWLInit, EWLRelease, EwlReleaseCoreWait, Signalled, told, kernel, history
  <2>2. \A k \in Inst : Unstarted(k)' => Unstarted(k) /\ cur'[k] = cur[k]
    BY <1>0, <1>2 DEF EWLInit, EWLRelease, EwlReleaseCoreWait, TypeCaller, Unstarted
  <2> QED
    BY <2>1, <2>2 DEF Untold
<1>3. CASE NoJobs \/ WaitFails \/ LockJobs \/ Visit \/ UseFreed \/ UNCHANGED vars
  <2>1. /\ UNCHANGED <<running, owner, nextJob, verdict, pending, waitOut, out, pc, cur>>
        /\ waitError => waitError'
        /\ at' \in {"give", "move"} => at' = at /\ job' = job
    BY <1>3 DEF NoJobs, WaitFails, LockJobs, Visit, UseFreed, vars, ewl, told, thread, caller,
                kernel, history
  <2> QED
    BY <2>1 DEF Untold, Unstarted
<1> QED
  BY <1>1, <1>2, <1>3 DEF Next, Step, CallStep, NewCall, WaitThread, Terminating

LEMMA AnswersAtUntold ==
    ASSUME IInv, AnswerInv, Untold PROVE AnswerInv'
<1>1. RunningInv' /\ ReservedInv'
  BY DEF Untold, AnswerInv, RunningInv, ReservedInv, OnItsWayBack
<1>2. ToldInv'
  BY DEF Untold, AnswerInv, ToldInv
<1>3. AnswersTrue'
  BY DEF Untold, AnswerInv, AnswersTrue
<1> QED
  BY <1>1, <1>2, <1>3 DEF AnswerInv

LEMMA AnswersAtReserve ==
    ASSUME IInv, AnswerInv, NEW i \in Inst, EWLReserveHw(i) PROVE AnswerInv'
<1>0. TypeQueues /\ TypeCaller /\ TypeThread /\ TypeCores /\ TypeTold
  BY TypeParts DEF IInv
<1>1. PICK core \in Core : /\ owner[core] = NoJob
                           /\ owner' = [owner EXCEPT ![core] = nextJob]
  BY DEF EWLReserveHw
<1>2. /\ UNCHANGED <<running, verdict, pending, waitOut, out, waitError, job, at>>
      /\ nextJob' = nextJob + 1 /\ nextJob \in JobId
      /\ cur' = [cur EXCEPT ![i] = nextJob] /\ pc' = [pc EXCEPT ![i] = "lent"]
  BY <1>0, Sizes DEF EWLReserveHw, ewl, thread, told, history, TypeCores, JobId, outcome, cwl
<1>3. /\ pending[nextJob] = "none" /\ waitOut[nextJob] = "none" /\ verdict[nextJob] = "none"
      /\ \A c \in Core : owner[c] < nextJob
  BY <1>0, <1>2 DEF IInv, IdInv, AnswerInv, ReservedInv, TypeCores
<1>4. \A c \in Core : owner'[c] = IF c = core THEN nextJob ELSE owner[c]
  BY <1>0, <1>1 DEF TypeCores
<1>5. \A c \in running : c # core /\ c \in Core /\ owner'[c] = owner[c]
  BY <1>0, <1>1, <1>4 DEF AnswerInv, RunningInv, TypeCores
<1>6. RunningInv'
  BY <1>2, <1>5 DEF AnswerInv, RunningInv, OnItsWayBack
<1>7. ReservedInv'
  <2>1. ASSUME NEW k \in Inst, Unstarted(k)'
        PROVE  verdict'[cur'[k]] = "none" /\ \A c \in running' : owner'[c] # cur'[k]
    <3>1. CASE k = i
      <4>1. cur'[k] = nextJob
        BY <1>0, <1>2, <3>1 DEF TypeCaller
      <4>2. \A c \in running : owner[c] # nextJob
        BY <1>0, <1>2, <1>3, <1>5 DEF TypeCores, JobId, NoJob
      <4> QED
        BY <1>2, <1>3, <1>5, <4>1, <4>2
    <3>2. CASE k # i
      <4>1. Unstarted(k) /\ cur'[k] = cur[k]
        BY <1>0, <1>2, <2>1, <3>2 DEF TypeCaller, Unstarted
      <4> QED
        BY <1>2, <1>5, <4>1 DEF AnswerInv, ReservedInv
    <3> QED
      BY <3>1, <3>2
  <2>2. \A id \in JobId : id >= nextJob' => verdict'[id] = "none"
    <3>1. \A id \in JobId : id >= nextJob + 1 => id >= nextJob
      BY <1>2 DEF JobId
    <3> QED
      BY <1>2, <3>1 DEF AnswerInv, ReservedInv
  <2> QED
    BY <2>1, <2>2 DEF ReservedInv
<1>8. ToldInv'
  BY <1>2, <1>3, <1>4 DEF AnswerInv, ToldInv, Ended
<1>9. AnswersTrue'
  BY <1>2 DEF AnswerInv, AnswersTrue
<1> QED
  BY <1>6, <1>7, <1>8, <1>9 DEF AnswerInv

LEMMA AnswersAtStart ==
    ASSUME IInv, AnswerInv, NEW i \in Inst, EncAsicFrameStart(i) PROVE AnswerInv'
<1>0. TypeQueues /\ TypeCaller /\ TypeThread /\ TypeCores /\ TypeTold
  BY TypeParts DEF IInv
<1> DEFINE c == LAST_CORE(i)
<1>1. /\ UNCHANGED <<owner, nextJob, verdict, pending, waitOut, out, waitError, job, at, cur>>
      /\ pc[i] = "reserved" /\ running' = running \cup {c} /\ pc' = [pc EXCEPT ![i] = "started"]
  BY DEF EncAsicFrameStart, ewl, thread, told, history, outcome, cwl
<1>q. CoresUsed /\ OwnLast
  BY CoresParts, OwnParts DEF IInv, CoreInv
<1>2. /\ owner[c] = cur[i] /\ cur[i] # NoJob /\ verdict[cur[i]] = "none"
      /\ c = workers[i][Len(workers[i])] /\ workers[i] # <<>> /\ workers[i] \in Seq(Core)
  BY <1>0, <1>1, <1>q DEF OwnLast, IInv, IdInv, Submitting, Holding, AnswerInv, ReservedInv,
                          Unstarted, LAST_CORE, Last, TypeCores
<1>3. Len(workers[i]) \in DOMAIN workers[i] /\ c \in Core
  BY <1>2, EmptySeq, LenProperties
<1>4. ~OnItsWayBack(c)
  BY <1>2, <1>3, <1>q DEF CoresUsed, Used
<1> HIDE DEF c
<1>5. RunningInv'
  BY <1>1, <1>2, <1>4 DEF AnswerInv, RunningInv, OnItsWayBack
<1>6. ReservedInv'
  <2>1. ASSUME NEW k \in Inst, Unstarted(k)'
        PROVE  verdict[cur[k]] = "none" /\ \A d \in running' : owner[d] # cur[k]
    <3>1. k # i /\ Unstarted(k)
      BY <1>0, <1>1, <2>1 DEF TypeCaller, Unstarted
    <3>2. cur[k] # cur[i]
      BY <1>1, <3>1 DEF IInv, IdInv, Submitting, Lent, Holding, Unstarted
    <3> QED
      BY <1>1, <1>2, <3>1, <3>2 DEF AnswerInv, ReservedInv
  <2> QED
    BY <1>1, <2>1 DEF AnswerInv, ReservedInv
<1>7. ToldInv' /\ AnswersTrue'
  BY <1>1 DEF AnswerInv, ToldInv, AnswersTrue
<1> QED
  BY <1>5, <1>6, <1>7 DEF AnswerInv

LEMMA AnswersAtTake ==
    ASSUME IInv, AnswerInv, NEW i \in Inst, TakeReport(i), ~cutShort' PROVE AnswerInv'
<1>0. TypeQueues /\ TypeCaller /\ TypeThread /\ TypeCores /\ TypeTold /\ TypeRing
  BY TypeParts DEF IInv
<1>1. PICK id \in JobId : id = Awaited(i)
  BY DEF TakeReport
<1>2. /\ out[id] # <<>> /\ out[id] \in Seq(Final \cup {"slice"}) /\ pc[i] = "search"
      /\ out' = [out EXCEPT ![id] = Tail(@)]
      /\ UNCHANGED <<running, owner, nextJob, pending, waitOut, waitError, job, at, cur>>
  BY <1>0, <1>1 DEF TakeReport, TypeQueues, thread, told, kernel
<1>3. /\ Head(out[id]) = out[id][1] /\ 1 \in DOMAIN out[id] /\ Len(out[id]) \in Nat \ {0}
      /\ DOMAIN Tail(out[id]) = 1 .. Len(out[id]) - 1 /\ DOMAIN out[id] = 1 .. Len(out[id])
      /\ \A k \in 1 .. Len(out[id]) - 1 : Tail(out[id])[k] = out[id][k + 1]
  BY <1>2, HeadTailProperties, LenProperties, EmptySeq
<1>4. id \in flight[i]
  <2>1. PICK k \in Inst : id \in flight[k]
    BY <1>2 DEF IInv, FrameInv, AnswersAsked
  <2>2. Awaited(i) = waitJobid[i][NextIndex(i)] /\ NextIndex(i) \in 0 .. ParallelCoreNum[i] - 1
    BY <1>0, NextIndexType DEF Awaited
  <2> QED
    BY <1>1, <2>1, <2>2 DEF IInv, FrameInv, RingInv
<1>5. CASE Head(out[id]) \in Final \/ call[i] = "clear"
  <2>1. Head(out[id]) \in Final
    BY <1>1, <1>5 DEF TakeReport
  <2>2. verdict' = [verdict EXCEPT ![id] = "none"] /\ pc' \in {pc, [pc EXCEPT ![i] = "idle"], [pc EXCEPT ![i] = "cleared"]}
    BY <1>1, <1>5 DEF TakeReport, LeaveFlight, Return
  <2>3. 1 = Len(out[id])
    BY <1>3, <2>1 DEF IInv, LastInv
  <2>4. DOMAIN out'[id] = {}
    BY <1>0, <1>2, <1>3, <2>3 DEF TypeQueues
  <2>5. \A c \in Core : owner[c] # NoJob => owner[c] # id /\ verdict'[owner[c]] = verdict[owner[c]]
    <3>1. ASSUME NEW c \in Core, owner[c] # NoJob PROVE owner[c] # id /\ owner[c] \in JobId
      <4>1. /\ owner[c] \in JobId
            /\ \A k \in DOMAIN out[owner[c]] : out[owner[c]][k] \notin Final
        BY <3>1, LentUnanswered
      <4>2. 1 \in DOMAIN out[id] /\ out[id][1] \in Final
        BY <1>3, <2>1
      <4> QED
        BY <4>1, <4>2
    <3> QED
      BY <1>0, <2>2, <3>1 DEF TypeTold
  <2>6. \A k \in JobId : verdict'[k] = IF k = id THEN "none" ELSE verdict[k]
    BY <1>0, <2>2 DEF TypeTold
  <2>7. \A k \in Inst : Unstarted(k)' => Unstarted(k)
    BY <1>0, <2>2 DEF TypeCaller, Unstarted
  <2>8. RunningInv'
    BY <1>0, <1>2, <2>5 DEF AnswerInv, RunningInv, OnItsWayBack, TypeCores
  <2>9. ReservedInv'
    <3>1. \A k \in Inst : Unstarted(k) => cur[k] \in JobId
      BY <1>0 DEF IInv, IdInv, Submitting, TypeCaller, Lent, Holding, Unstarted
    <3> QED
      BY <1>2, <2>6, <2>7, <3>1 DEF AnswerInv, ReservedInv
  <2>10. ToldInv'
    <3>1. ASSUME at = "move" PROVE job.id \in JobId /\ job.id # id
      <4>1. job \in jobs /\ job \in Job
        BY <1>0, <3>1 DEF IInv, WalkInv, TypeQueues
      <4>2. \A k \in DOMAIN out[job.id] : out[job.id][k] \notin Final
        BY <4>1 DEF IInv, FrameInv, JobsWaiting
      <4>3. 1 \in DOMAIN out[id] /\ out[id][1] \in Final
        BY <1>3, <2>1
      <4> QED
        BY <4>1, <4>2, <4>3 DEF Job
    <3> QED
      BY <1>2, <2>5, <2>6, <3>1 DEF AnswerInv, ToldInv
  <2>11. AnswersTrue'
    <3>1. \A k \in JobId : k # id => out'[k] = out[k] /\ verdict'[k] = verdict[k]
      BY <1>0, <1>2, <2>6 DEF TypeQueues
    <3> QED
      BY <1>2, <2>4, <3>1 DEF AnswerInv, AnswersTrue
  <2> QED
    BY <2>8, <2>9, <2>10, <2>11 DEF AnswerInv
<1>6. CASE ~(Head(out[id]) \in Final \/ call[i] = "clear")
  <2>1. UNCHANGED <<verdict, pc>>
    BY <1>1, <1>6 DEF TakeReport, history, outcome, cwl
  <2>2. RunningInv' /\ ReservedInv' /\ ToldInv'
    BY <1>2, <2>1 DEF AnswerInv, RunningInv, ReservedInv, Unstarted, ToldInv, OnItsWayBack
  <2>3. AnswersTrue'
    <3>1. out'[id] = Tail(out[id]) /\ \A k \in JobId : k # id => out'[k] = out[k]
      BY <1>0, <1>2 DEF TypeQueues
    <3>2. \A k \in DOMAIN out'[id] : k + 1 \in DOMAIN out[id] /\ out'[id][k] = out[id][k + 1]
      BY <1>3, <3>1
    <3> QED
      BY <1>2, <2>1, <3>1, <3>2 DEF AnswerInv, AnswersTrue
  <2> QED
    BY <2>2, <2>3 DEF AnswerInv
<1> QED
  BY <1>5, <1>6

\* What the kernel tells goes from the cores to the thread, and is forgotten after the walk.
LEMMA AnswersAtTelling ==
    ASSUME IInv, AnswerInv, CoresReport \/ Broadcast PROVE AnswerInv'
<1>0. TypeQueues /\ TypeCaller /\ TypeThread /\ TypeCores /\ TypeTold
  BY TypeParts DEF IInv
<1>1. /\ UNCHANGED <<running, owner, nextJob, verdict, out, waitError, cur>>
      /\ at' \notin {"give", "move"}
      /\ \A i \in Inst : Unstarted(i)' => Unstarted(i)
  BY DEF CoresReport, Broadcast, ewl, caller, kernel, history, Unstarted
<1>2. /\ pending' = pending \/ pending' = Quiet
      /\ waitOut' = pending \/ waitOut' = Quiet
  BY DEF CoresReport, Broadcast, kernel
<1>3. \A c \in Core : owner[c] # NoJob => owner[c] \in JobId
  BY <1>0 DEF TypeCores
<1>4. \A id \in JobId : ~Ended(Quiet[id])
  BY DEF Quiet, Ended
<1>5. RunningInv' /\ ReservedInv' /\ AnswersTrue'
  BY <1>1 DEF AnswerInv, RunningInv, ReservedInv, AnswersTrue, OnItsWayBack
<1>6. ToldInv'
  BY <1>1, <1>2, <1>3, <1>4 DEF AnswerInv, ToldInv
<1> QED
  BY <1>5, <1>6 DEF AnswerInv

LEMMA AnswersAtFinish ==
    ASSUME IInv, AnswerInv, FinishJob PROVE AnswerInv'
<1>0. TypeQueues /\ TypeCaller /\ TypeThread /\ TypeCores /\ TypeTold
  BY TypeParts DEF IInv
<1>1. /\ UNCHANGED <<owner, nextJob, verdict, pending, waitOut, out, waitError, pc, cur>>
      /\ running' = running \ {FIRST_CORE(job.inst)} /\ at' = "give"
  BY DEF FinishJob, ewl, told, caller, history
<1>2. FIRST_CORE(job.inst) = job.core /\ job'.core = job.core
  BY <1>0, OwnParts DEF FinishJob, IInv, CoreInv, OwnFirst, TypeThread, NoOne, Job
<1>3. RunningInv'
  BY <1>1, <1>2 DEF AnswerInv, RunningInv, OnItsWayBack
<1>4. ReservedInv' /\ ToldInv' /\ AnswersTrue'
  BY <1>1 DEF AnswerInv, ReservedInv, Unstarted, ToldInv, AnswersTrue
<1> QED
  BY <1>3, <1>4 DEF AnswerInv

\* A report is added at the end.
LEMMA ReportAdded ==
    ASSUME TypeQueues, NEW id \in JobId, NEW report \in Final \cup {"slice"},
           out' = [out EXCEPT ![id] = Append(@, report)]
    PROVE  /\ \A k \in JobId : k # id => out'[k] = out[k]
           /\ \A k \in DOMAIN out'[id] :
                 (k \in DOMAIN out[id] /\ out'[id][k] = out[id][k]) \/ out'[id][k] = report
<1>1. out[id] \in Seq(Final \cup {"slice"}) /\ out'[id] = Append(out[id], report)
  BY DEF TypeQueues
<1>2. /\ DOMAIN out[id] = 1 .. Len(out[id]) /\ Len(out[id]) \in Nat
      /\ DOMAIN out'[id] = 1 .. Len(out[id]) + 1
      /\ \A k \in 1 .. Len(out[id]) : out'[id][k] = out[id][k]
      /\ out'[id][Len(out[id]) + 1] = report
  BY <1>1, AppendProperties, LenProperties
<1>3. \A k \in JobId : k # id => out'[k] = out[k]
  BY DEF TypeQueues
<1> QED
  BY <1>2, <1>3

LEMMA AnswersAtPass ==
    ASSUME IInv, AnswerInv, PassSlice PROVE AnswerInv'
<1>0. TypeQueues
  BY TypeParts DEF IInv
<1>1. /\ UNCHANGED <<running, owner, pending, nextJob, verdict, waitOut, waitError, pc, cur>>
      /\ at = "finish" /\ at' = "visit" /\ out' = [out EXCEPT ![job.id] = Append(@, "slice")]
  BY DEF PassSlice, caller, kernel, history
<1>2. job.id \in JobId
  BY <1>0, <1>1 DEF IInv, WalkInv, TypeQueues, Job
<1>3. RunningInv' /\ ReservedInv' /\ ToldInv'
  BY <1>1 DEF AnswerInv, RunningInv, ReservedInv, Unstarted, ToldInv, OnItsWayBack
<1>4. "slice" \notin Final
  BY DEF Final
<1>5. /\ \A k \in JobId : k # job.id => out'[k] = out[k]
      /\ \A k \in DOMAIN out'[job.id] :
            (k \in DOMAIN out[job.id] /\ out'[job.id][k] = out[job.id][k]) \/ out'[job.id][k] = "slice"
  BY <1>0, <1>1, <1>2, ReportAdded
<1>6. AnswersTrue'
  BY <1>1, <1>4, <1>5 DEF AnswerInv, AnswersTrue
<1> QED
  BY <1>3, <1>6 DEF AnswerInv

\* What was told of the job whose core goes back stays true although the core is lent again.
LEMMA AnswersAtGive ==
    ASSUME IInv, AnswerInv, GiveCoreBack PROVE AnswerInv'
<1>0. TypeQueues /\ TypeCores /\ TypeTold
  BY TypeParts DEF IInv
<1>1. /\ UNCHANGED <<running, nextJob, verdict, waitOut, waitError, pc, cur, out, job>>
      /\ at = "give" /\ at' = "move"
      /\ owner' = [owner EXCEPT ![job.core] = NoJob]
      /\ pending' = [pending EXCEPT ![job.id] = "none"]
  BY DEF GiveCoreBack, ReturnCore, ewl, told, caller, history
<1>2. /\ job.id \in JobId /\ job.core \in Core /\ owner[job.core] = job.id
      /\ owner[job.core] # NoJob
  <2>1. job \in Job /\ owner[job.core] = job.id
    BY <1>0, <1>1 DEF IInv, WalkInv, TypeQueues
  <2> QED
    BY <2>1, Sizes DEF Job, JobId, NoJob
<1>3. \A c \in Core : owner'[c] # NoJob => owner'[c] = owner[c] /\ owner[c] \in JobId
  BY <1>0, <1>1 DEF TypeCores
<1>4. RunningInv'
  <2>1. \A c \in running : c \in Core /\ c # job.core
    BY <1>0, <1>1 DEF AnswerInv, RunningInv, OnItsWayBack, TypeCores
  <2>2. \A c \in running : owner'[c] = owner[c]
    BY <1>0, <1>1, <2>1 DEF TypeCores
  <2> QED
    BY <1>1, <2>2 DEF AnswerInv, RunningInv, OnItsWayBack
<1>5. ReservedInv'
  <2>1. \A i \in Inst : Unstarted(i) => cur[i] # NoJob
    BY DEF IInv, IdInv, Submitting, Lent, Holding, Unstarted
  <2>2. running \subseteq Core
    BY <1>0 DEF TypeCores
  <2> QED
    BY <1>1, <1>3, <2>1, <2>2 DEF AnswerInv, ReservedInv, Unstarted
<1>6. ToldInv'
  <2>1. \A id \in JobId : Ended(pending'[id]) => pending'[id] = pending[id]
    BY <1>0, <1>1 DEF TypeTold, Ended
  <2>2. Ended(waitOut[job.id]) => waitOut[job.id] = verdict[job.id]
    BY <1>2 DEF AnswerInv, ToldInv
  <2> QED
    BY <1>1, <1>3, <2>1, <2>2 DEF AnswerInv, ToldInv
<1>7. AnswersTrue'
  BY <1>1 DEF AnswerInv, AnswersTrue
<1> QED
  BY <1>4, <1>5, <1>6, <1>7 DEF AnswerInv

LEMMA AnswersAtMove ==
    ASSUME IInv, AnswerInv, MoveJob PROVE AnswerInv'
<1>0. TypeQueues /\ TypeTold
  BY TypeParts DEF IInv
<1>1. /\ UNCHANGED <<running, owner, pending, nextJob, verdict, waitOut, waitError, pc, cur>>
      /\ at = "move" /\ at' = "visit" /\ out' = [out EXCEPT ![job.id] = Append(@, Answer)]
  BY DEF MoveJob, caller, kernel, history
<1>2. job.id \in JobId /\ Answer \in Final
  BY <1>0, <1>1 DEF IInv, WalkInv, TypeQueues, Job
<1>3. RunningInv' /\ ReservedInv' /\ ToldInv'
  BY <1>1 DEF AnswerInv, RunningInv, ReservedInv, Unstarted, ToldInv, OnItsWayBack
<1>4. Answer = verdict[job.id] \/ (Answer = "error" /\ waitError)
  <2>1. CASE waitError
    BY <2>1 DEF Answer
  <2>2. CASE ~waitError
    <3>1. Answer = waitOut[job.id] /\ Ended(Answer)
      BY <1>0, <1>2, <2>2 DEF Answer, Final, Ended, TypeTold, Status
    <3> QED
      BY <1>1, <3>1 DEF AnswerInv, ToldInv
  <2> QED
    BY <2>1, <2>2
<1> DEFINE report == Answer
<1>5. /\ report \in Final /\ out' = [out EXCEPT ![job.id] = Append(@, report)]
      /\ report = verdict[job.id] \/ (report = "error" /\ waitError)
  BY <1>1, <1>2, <1>4
<1> HIDE DEF report
<1>6. /\ \A k \in JobId : k # job.id => out'[k] = out[k]
      /\ \A k \in DOMAIN out'[job.id] :
            (k \in DOMAIN out[job.id] /\ out'[job.id][k] = out[job.id][k]) \/ out'[job.id][k] = report
  BY <1>0, <1>2, <1>5, ReportAdded
<1>7. AnswersTrue'
  BY <1>1, <1>5, <1>6 DEF AnswerInv, AnswersTrue
<1> QED
  BY <1>3, <1>7 DEF AnswerInv

LEMMA AnswersAtCores ==
    ASSUME IInv, AnswerInv, NEW c \in Core, SliceReady(c) \/ FrameDone(c) PROVE AnswerInv'
<1>0. TypeQueues /\ TypeCaller /\ TypeThread /\ TypeCores /\ TypeTold
  BY TypeParts DEF IInv
<1>1. /\ UNCHANGED <<owner, nextJob, waitOut, out, waitError, pc, cur, at, job>>
      /\ c \in running
  BY DEF SliceReady, FrameDone, MayReport, ewl, thread, told, caller, outcome, cwl
<1>2. owner[c] \in JobId /\ verdict[owner[c]] = "none" /\ owner[c] # NoJob
  BY <1>0, <1>1 DEF AnswerInv, RunningInv, TypeCores
<1>3. CASE SliceReady(c)
  <2>1. UNCHANGED <<verdict, running>> /\ pending' = [pending EXCEPT ![owner[c]] = "slice"]
    BY <1>3 DEF SliceReady, history, outcome, cwl
  <2>2. \A id \in JobId : Ended(pending'[id]) => pending'[id] = pending[id]
    BY <1>0, <2>1 DEF TypeTold, Ended
  <2>3. ToldInv'
    <3>1. \A d \in Core : owner[d] # NoJob => owner[d] \in JobId
      BY <1>0 DEF TypeCores
    <3> QED
      BY <1>1, <2>1, <2>2, <3>1 DEF AnswerInv, ToldInv
  <2> QED
    BY <1>1, <2>1, <2>3 DEF AnswerInv, RunningInv, ReservedInv, Unstarted, AnswersTrue, OnItsWayBack
<1>4. CASE FrameDone(c)
  <2>1. PICK status : /\ Ended(status)
                      /\ pending' = [pending EXCEPT ![owner[c]] = status]
                      /\ verdict' = [verdict EXCEPT ![owner[c]] = status]
    BY <1>4 DEF FrameDone, Ended
  <2>2. running' = running \ {c}
    BY <1>4 DEF FrameDone
  <2>3. \A id \in JobId : /\ verdict'[id] = IF id = owner[c] THEN status ELSE verdict[id]
                          /\ pending'[id] = IF id = owner[c] THEN status ELSE pending[id]
    BY <1>0, <2>1 DEF TypeTold
  <2>4. RunningInv'
    <3> SUFFICES ASSUME NEW d \in running, d # c
                 PROVE  owner[d] # NoJob /\ verdict'[owner[d]] = "none" /\ ~OnItsWayBack(d)
      BY <1>1, <2>2 DEF RunningInv, OnItsWayBack
    <3>1. owner[d] # NoJob /\ verdict[owner[d]] = "none" /\ ~OnItsWayBack(d) /\ d \in Core
      BY <1>0 DEF AnswerInv, RunningInv, TypeCores
    <3>2. owner[d] # owner[c] /\ owner[d] \in JobId
      BY <1>0, <1>1, <3>1 DEF IInv, IdInv, TypeCores
    <3> QED
      BY <2>3, <3>1, <3>2
  <2>5. ReservedInv'
    <3>1. ASSUME NEW i \in Inst, Unstarted(i)
          PROVE  verdict'[cur[i]] = "none" /\ \A d \in running' : owner[d] # cur[i]
      <4>1. cur[i] \in JobId /\ owner[c] # cur[i]
        BY <1>0, <1>1, <3>1
          DEF IInv, IdInv, Submitting, TypeCaller, AnswerInv, ReservedInv, Lent, Holding,
              Unstarted
      <4> QED
        BY <2>2, <2>3, <3>1, <4>1 DEF AnswerInv, ReservedInv
    <3>2. \A id \in JobId : id >= nextJob => id # owner[c]
      BY <1>0, <1>2 DEF IInv, IdInv, TypeCores, JobId
    <3> QED
      BY <1>1, <2>3, <3>1, <3>2 DEF AnswerInv, ReservedInv, Unstarted
  <2>6. ToldInv'
    <3>1. ASSUME NEW d \in Core, owner[d] # NoJob
          PROVE  /\ Ended(pending'[owner[d]]) => pending'[owner[d]] = verdict'[owner[d]]
                 /\ Ended(waitOut[owner[d]]) => waitOut[owner[d]] = verdict'[owner[d]]
      <4>1. owner[d] \in JobId
        BY <1>0, <3>1 DEF TypeCores
      <4>2. owner[d] = owner[c] => ~Ended(waitOut[owner[d]])
        BY <1>2, <3>1 DEF AnswerInv, ToldInv, Ended
      <4> QED
        BY <2>3, <3>1, <4>1, <4>2 DEF AnswerInv, ToldInv
    <3>2. ASSUME at = "move" PROVE verdict'[job.id] = verdict[job.id]
      <4>1. job.id \in JobId /\ owner[c] # job.id
        BY <1>0, <3>2 DEF IInv, WalkInv, TypeQueues, Job
      <4> QED
        BY <2>3, <4>1
    <3> QED
      BY <1>1, <3>1, <3>2 DEF AnswerInv, ToldInv
  <2>7. AnswersTrue'
    <3>1. \A k \in DOMAIN out[owner[c]] : out[owner[c]][k] \notin Final
      BY <1>2, LentUnanswered
    <3> QED
      BY <1>1, <2>3, <3>1 DEF AnswerInv, AnswersTrue
  <2> QED
    BY <2>4, <2>5, <2>6, <2>7 DEF AnswerInv
<1> QED
  BY <1>3, <1>4

LEMMA AnswerNext == IInv /\ AnswerInv /\ [Next]_vars => AnswerInv' \/ cutShort'
<1> SUFFICES ASSUME IInv, AnswerInv, [Next]_vars, ~cutShort' PROVE AnswerInv'
  OBVIOUS
<1> QED
  BY MostTellNothing, AnswersAtUntold, AnswersAtReserve, AnswersAtStart, AnswersAtTake,
     AnswersAtTelling, AnswersAtFinish, AnswersAtPass, AnswersAtGive, AnswersAtMove, AnswersAtCores

LEMMA AnswerInit == Init => AnswerInv
<1> SUFFICES ASSUME Init PROVE AnswerInv
  OBVIOUS
<1>1. running = {} /\ (\A i \in Inst : pc[i] = "none") /\ (\A id \in JobId : verdict[id] = "none")
  BY DEF Init, Quiet
<1>2. at = "none" /\ \A c \in Core : owner[c] = NoJob
  BY DEF Init
<1>3. \A id \in JobId : DOMAIN out[id] = {}
  BY EmptySeq DEF Init
<1> QED
  BY <1>1, <1>2, <1>3 DEF AnswerInv, RunningInv, ReservedInv, Unstarted, ToldInv, AnswersTrue

LEMMA AnswersAlways == Spec => []((IInv /\ AnswerInv) \/ cutShort)
<1>1. Init => (IInv /\ AnswerInv) \/ cutShort
  BY InitHolds, AnswerInit
<1>2. ((IInv /\ AnswerInv) \/ cutShort) /\ [Next]_vars => ((IInv /\ AnswerInv) \/ cutShort)'
  BY StepHolds, AnswerNext, CutShortStays
<1> QED
  BY <1>1, <1>2, PTL DEF Spec

\* What EWLDequeueCoreOutJob hands to the caller last of a frame is how its own core ended it,
\* or an error if the thread's wait failed, whatever the thread and the cores interleave
\* (ewl.c:872-913, :990-1028; hevcencapi.c:5403-5438).
THEOREM AnswersAreTrue == Spec => []TrueAnswers
<1>1. (IInv /\ AnswerInv) \/ cutShort => TrueAnswers
  BY DEF IInv, LastInv, AnswerInv, AnswersTrue, TrueAnswers
<1> QED
  BY <1>1, AnswersAlways, PTL

\* EWLReleaseHw resets no core that still works on a frame nobody has heard of, unless the wait
\* for the cores had failed (ewl.c:2890-2916).
THEOREM NoCoreIsReset == Spec => NoFrameIsKilled
<1>1. ((IInv /\ AnswerInv) \/ cutShort) /\ [Next]_vars
        => [\A c \in running \ running' : verdict'[owner[c]] # "none" \/ waitError \/ cutShort]_vars
  <2> SUFFICES ASSUME IInv, AnswerInv, [Next]_vars, NEW c \in running \ running', ~waitError
               PROVE  verdict'[owner[c]] # "none"
    OBVIOUS
  <2>0. TypeCores /\ TypeTold /\ TypeThread
    BY TypeParts DEF IInv
  <2>1. c \in Core /\ owner[c] # NoJob /\ owner[c] \in JobId
    BY <2>0 DEF AnswerInv, RunningInv, TypeCores
  <2>2. FinishJob \/ FrameDone(c)
    BY MostTellNothing DEF Untold, EWLReserveHw, EncAsicFrameStart, TakeReport, CoresReport,
       PassSlice, GiveCoreBack, MoveJob, Broadcast, SliceReady, FrameDone, kernel
  <2>3. CASE FinishJob
    <3>1. /\ at = "finish" /\ waitOut[job.id] # "slice" /\ verdict' = verdict
          /\ c = FIRST_CORE(job.inst)
      BY <2>3 DEF FinishJob, history
    <3>2. owner[c] = job.id /\ waitOut[job.id] # "none"
      BY <3>1, OwnParts DEF IInv, CoreInv, OwnFirst, WalkInv
    <3>3. Ended(waitOut[owner[c]])
      BY <2>0, <2>1, <3>1, <3>2 DEF TypeTold, Status, Ended
    <3> QED
      BY <2>1, <3>1, <3>3 DEF AnswerInv, ToldInv, Ended
  <2>4. CASE FrameDone(c)
    BY <2>0, <2>1, <2>4 DEF FrameDone, TypeTold
  <2> QED
    BY <2>2, <2>3, <2>4
<1> QED
  BY <1>1, AnswersAlways, PTL DEF Spec, NoFrameIsKilled

-----------------------------------------------------------------------------
(* What a caller waits for.  With one or two frames in flight the next     *)
(* index of its ring is that of the older one; with more it need not be.   *)
(* Nothing here depends on what the thread and the cores do, so that it    *)
(* lasts for ever.                                                         *)

\* Who waits has frames in flight, who may submit one has room for it, and it comes after them.
Waits(i) == pc[i] \in {"search", "asleep"}
OrderAt(i) ==
    /\ Waits(i) => reservedCore[i] > 0
    /\ ~Waits(i) => reservedCore[i] < ParallelCoreNum[i]
    /\ cur[i] < nextJob /\ \A id \in flight[i] : id < nextJob
    /\ Submitting(i) => cur[i] # NoJob /\ \A id \in flight[i] : id < cur[i]
CallerInv == TypeCaller /\ TypeRing /\ nextJob \in 1 .. JobMax + 1 /\ \A i \in Inst : OrderAt(i)

\* Where the ring of at most two frames has them.
AwaitAt(i) ==
    ParallelCoreNum[i] <= 2 =>
        /\ reservedCore[i] = 0 => flight[i] = {}
        /\ reservedCore[i] = 1 => flight[i] = {Awaited(i)}
        /\ reservedCore[i] = 2 => /\ call[i] = "encode"
                                  /\ flight[i] = {Awaited(i), waitJobid[i][jobCnt[i]]}
                                  /\ Awaited(i) < waitJobid[i][jobCnt[i]]
AwaitInv == CallerInv /\ \A i \in Inst : AwaitAt(i)

\* The ring of an instance with at most two frames in flight.
LEMMA RingOfTwo ==
    ASSUME TypeRing, NEW i \in Inst, ParallelCoreNum[i] <= 2
    PROVE  \/ ParallelCoreNum[i] = 1 /\ jobCnt[i] = 0 /\ NextIndex(i) = 0
           \/ ParallelCoreNum[i] = 2 /\ jobCnt[i] = 0 /\ NextIndex(i) = 1
           \/ ParallelCoreNum[i] = 2 /\ jobCnt[i] = 1 /\ NextIndex(i) = 0
<1>1. ParallelCoreNum[i] \in {1, 2} /\ jobCnt[i] \in Nat /\ jobCnt[i] < ParallelCoreNum[i]
  BY Sizes DEF TypeRing
<1>2. (0 + 1) % 1 = 0 /\ (0 + 1) % 2 = 1 /\ (1 + 1) % 2 = 0
  OBVIOUS
<1>3. CASE ParallelCoreNum[i] = 1
  <2>1. jobCnt[i] = 0
    BY <1>1, <1>3
  <2> QED
    BY <1>2, <1>3, <2>1 DEF NextIndex
<1>4. CASE ParallelCoreNum[i] = 2
  <2>1. jobCnt[i] = 0 \/ jobCnt[i] = 1
    BY <1>1, <1>4
  <2> QED
    BY <1>2, <1>4, <2>1 DEF NextIndex
<1> QED
  BY <1>1, <1>3, <1>4


\* An instance whose ring and frames in flight stay as they are.
LEMMA OrderKept ==
    ASSUME CallerInv, NEW i \in Inst, nextJob' \in Nat, nextJob <= nextJob',
           flight'[i] = flight[i], reservedCore'[i] = reservedCore[i], cur'[i] = cur[i],
           Submitting(i)' => Submitting(i), Waits(i)' <=> Waits(i)
    PROVE  OrderAt(i)'
<1>1. nextJob \in Nat /\ cur[i] \in Nat /\ \A id \in flight[i] : id \in Nat
  BY BoundsAssumption DEF CallerInv, TypeCaller, TypeRing, JobId, NoJob
<1>2. cur[i] < nextJob /\ \A id \in flight[i] : id < nextJob
  BY DEF CallerInv, OrderAt
<1>3. cur[i] < nextJob'
  BY <1>1, <1>2
<1>4. \A id \in flight[i] : id < nextJob'
  BY <1>1, <1>2
<1>5. /\ Waits(i) => reservedCore[i] > 0
      /\ ~Waits(i) => reservedCore[i] < ParallelCoreNum[i]
      /\ Submitting(i) => cur[i] # NoJob /\ \A id \in flight[i] : id < cur[i]
  BY DEF CallerInv, OrderAt
<1> QED
  BY <1>3, <1>4, <1>5 DEF OrderAt

LEMMA AwaitKept ==
    ASSUME NEW i \in Inst, AwaitAt(i),
           waitJobid'[i] = waitJobid[i], jobCnt'[i] = jobCnt[i], flight'[i] = flight[i],
           reservedCore'[i] = reservedCore[i], reservedCore[i] = 2 => call'[i] = call[i]
    PROVE  AwaitAt(i)'
<1>1. Awaited(i)' = Awaited(i)
  BY DEF Awaited, NextIndex
<1>2. waitJobid'[i][jobCnt'[i]] = waitJobid[i][jobCnt[i]]
  OBVIOUS
<1> QED
  BY <1>1, <1>2 DEF AwaitAt

\* A frame joins those in flight.
LEMMA AwaitAtEnqueue ==
    ASSUME AwaitInv, NEW i \in Inst, EWLEnqueueWaitjob(i)
    PROVE  AwaitInv'
<1>0. TypeCaller /\ TypeRing /\ nextJob \in 1 .. JobMax + 1 /\ CallerInv
  BY DEF AwaitInv, CallerInv
<1> DEFINE id == cur[i]
<1>a. /\ pc[i] = "started" /\ nextJob' = nextJob
      /\ waitJobid' = [waitJobid EXCEPT ![i][jobCnt[i]] = id]
      /\ reservedCore' = [reservedCore EXCEPT ![i] = @ + 1]
      /\ flight' = [flight EXCEPT ![i] = @ \cup {id}]
      /\ \/ /\ reservedCore[i] + 1 = ParallelCoreNum[i]
            /\ pc' = [pc EXCEPT ![i] = "search"] /\ call' = [call EXCEPT ![i] = "encode"]
            /\ jobCnt' = jobCnt
         \/ /\ reservedCore[i] + 1 # ParallelCoreNum[i]
            /\ pc' = [pc EXCEPT ![i] = "idle"] /\ jobCnt' = [jobCnt EXCEPT ![i] = NextIndex(i)]
            /\ call' = call
      /\ cur' = [cur EXCEPT ![i] = NoJob]
  BY DEF EWLEnqueueWaitjob, KeepInFlight, AllBusy, kernel
<1>b. /\ id # NoJob /\ id \in JobId /\ id \in Nat /\ flight[i] \subseteq JobId
      /\ \A old \in flight[i] : old < id /\ old < nextJob
      /\ id < nextJob /\ reservedCore[i] \in Nat /\ reservedCore[i] < ParallelCoreNum[i]
      /\ ParallelCoreNum[i] \in Nat
  <2>1. OrderAt(i) /\ Submitting(i) /\ ~Waits(i)
    BY <1>0, <1>a DEF CallerInv, Submitting, Holding, Waits
  <2>2. id # NoJob /\ (\A old \in flight[i] : old < id /\ old < nextJob) /\ id < nextJob
    BY <2>1 DEF OrderAt
  <2>3. id \in JobId /\ flight[i] \subseteq JobId /\ reservedCore[i] \in Nat
    BY <1>0, <2>2 DEF TypeCaller, TypeRing
  <2> QED
    BY <2>1, <2>2, <2>3, Sizes DEF OrderAt, JobId
<1>c. \A k \in Inst : k # i => /\ waitJobid'[k] = waitJobid[k] /\ jobCnt'[k] = jobCnt[k]
                               /\ flight'[k] = flight[k] /\ reservedCore'[k] = reservedCore[k]
                               /\ pc'[k] = pc[k] /\ call'[k] = call[k] /\ cur'[k] = cur[k]
  BY <1>0, <1>a DEF TypeRing, TypeCaller
<1>1. TypeCaller'
  BY <1>0, <1>a DEF TypeCaller
<1>2. TypeRing'
  <2>1. /\ jobCnt \in [Inst -> Nat] /\ \A k \in Inst : jobCnt[k] < ParallelCoreNum[k]
        /\ reservedCore \in [Inst -> Nat] /\ \A k \in Inst : reservedCore[k] <= ParallelCoreNum[k]
        /\ flight \in [Inst -> SUBSET JobId] /\ DOMAIN waitJobid = Inst
        /\ \A k \in Inst : waitJobid[k] \in [0 .. ParallelCoreNum[k] - 1 -> JobId \cup {NoJob}]
    BY <1>0 DEF TypeRing
  <2>2. NextIndex(i) \in Nat /\ NextIndex(i) < ParallelCoreNum[i]
    <3>1. NextIndex(i) \in 0 .. ParallelCoreNum[i] - 1
      BY <1>0, NextIndexType
    <3> QED
      BY <1>b, <3>1
  <2>3. jobCnt' \in [Inst -> Nat] /\ \A k \in Inst : jobCnt'[k] < ParallelCoreNum[k]
    <3>1. jobCnt' = jobCnt \/ jobCnt' = [jobCnt EXCEPT ![i] = NextIndex(i)]
      BY <1>a
    <3> QED
      BY <2>1, <2>2, <3>1
  <2>4. reservedCore' \in [Inst -> Nat] /\ \A k \in Inst : reservedCore'[k] <= ParallelCoreNum[k]
    <3>1. reservedCore' = [reservedCore EXCEPT ![i] = reservedCore[i] + 1]
      BY <1>a
    <3>2. reservedCore[i] + 1 \in Nat /\ reservedCore[i] + 1 <= ParallelCoreNum[i]
      BY <1>b
    <3>3. reservedCore' \in [Inst -> Nat] /\ reservedCore'[i] = reservedCore[i] + 1
      BY <2>1, <3>1, <3>2
    <3> QED
      BY <1>c, <2>1, <3>2, <3>3
  <2>5. flight' \in [Inst -> SUBSET JobId]
    <3>1. flight[i] \cup {id} \in SUBSET JobId
      BY <1>b
    <3>2. flight' = [flight EXCEPT ![i] = flight[i] \cup {id}]
      BY <1>a
    <3> QED
      BY <2>1, <3>1, <3>2
  <2>6. DOMAIN waitJobid' = Inst
    BY <1>a, <2>1
  <2>7. waitJobid'[i] \in [0 .. ParallelCoreNum[i] - 1 -> JobId \cup {NoJob}]
    <3>1. waitJobid'[i] = [waitJobid[i] EXCEPT ![jobCnt[i]] = id]
      BY <1>a, <2>1
    <3>2. waitJobid[i] \in [0 .. ParallelCoreNum[i] - 1 -> JobId \cup {NoJob}]
      BY <2>1
    <3> QED
      BY <1>b, <3>1, <3>2
  <2>8. \A k \in Inst : waitJobid'[k] \in [0 .. ParallelCoreNum[k] - 1 -> JobId \cup {NoJob}]
    BY <1>c, <2>1, <2>7
  <2> QED
    BY <2>3, <2>4, <2>5, <2>6, <2>8 DEF TypeRing
<1>d. flight'[i] = flight[i] \cup {id} /\ reservedCore'[i] = reservedCore[i] + 1
  BY <1>0, <1>a DEF TypeRing
<1>e. ~Submitting(i)' /\ (pc'[i] = "search" \/ (pc'[i] = "idle" /\ reservedCore[i] + 1 # ParallelCoreNum[i]))
  BY <1>0, <1>a DEF TypeCaller, Submitting, Lent, Holding
<1>3. ASSUME NEW k \in Inst PROVE OrderAt(k)'
  <2>1. CASE k # i
    <3>1. (Submitting(k)' => Submitting(k)) /\ (Waits(k)' <=> Waits(k))
      BY <1>c, <2>1 DEF Submitting, Lent, Holding, Waits
    <3>2. nextJob' \in Nat /\ nextJob <= nextJob'
      BY <1>0, <1>a
    <3> QED
      BY <1>0, <1>c, <2>1, <3>1, <3>2, OrderKept
  <2>2. CASE k = i
    <3>1. reservedCore[i] + 1 > 0 /\ (reservedCore[i] + 1 # ParallelCoreNum[i] => reservedCore[i] + 1 < ParallelCoreNum[i])
      BY <1>b
    <3>2. cur'[i] < nextJob'
      <4>1. cur'[i] = NoJob
        BY <1>0, <1>a DEF TypeCaller
      <4> QED
        BY <1>0, <1>a, <4>1 DEF NoJob
    <3>3. \A old \in flight'[i] : old < nextJob'
      BY <1>a, <1>b, <1>d
    <3> QED
      BY <1>d, <1>e, <2>2, <3>1, <3>2, <3>3 DEF OrderAt, Waits
  <2> QED
    BY <2>1, <2>2
<1>4. ASSUME NEW k \in Inst, k # i PROVE AwaitAt(k)'
  BY <1>4, <1>c, AwaitKept DEF AwaitInv
<1>5. ASSUME ParallelCoreNum[i] <= 2 PROVE AwaitAt(i)'
  <2>2. \A n \in 0 .. ParallelCoreNum[i] - 1 :
           waitJobid'[i][n] = IF n = jobCnt[i] THEN id ELSE waitJobid[i][n]
    BY <1>0, <1>a DEF TypeRing
  <2>3. Awaited(i) = waitJobid[i][NextIndex(i)]
    BY DEF Awaited
  <2>4. Awaited(i)' = waitJobid'[i][(jobCnt'[i] + 1) % ParallelCoreNum[i]]
    BY DEF Awaited, NextIndex
  <2>5. CASE reservedCore[i] = 0
    <3>1. flight'[i] = {id}
      BY <1>5, <1>d, <2>5 DEF AwaitInv, AwaitAt
    <3>2. (jobCnt'[i] + 1) % ParallelCoreNum[i] = jobCnt[i]
      <4>1. CASE ParallelCoreNum[i] = 1
        <5>1. jobCnt[i] = 0 /\ jobCnt'[i] = 0
          BY <1>0, <1>a, <2>5, <4>1, RingOfTwo
        <5> QED
          BY <4>1, <5>1
      <4>2. CASE ParallelCoreNum[i] = 2
        <5>1. jobCnt'[i] = NextIndex(i)
          BY <1>0, <1>a, <2>5, <4>2 DEF TypeRing
        <5>2. (jobCnt[i] = 0 /\ NextIndex(i) = 1) \/ (jobCnt[i] = 1 /\ NextIndex(i) = 0)
          BY <1>0, <4>2, RingOfTwo
        <5> QED
          BY <4>2, <5>1, <5>2
      <4> QED
        BY <1>0, <1>5, <4>1, <4>2, RingOfTwo
    <3>3. jobCnt[i] \in 0 .. ParallelCoreNum[i] - 1
      BY <1>0, Sizes DEF TypeRing
    <3>4. Awaited(i)' = id
      BY <2>2, <2>4, <3>2, <3>3
    <3>5. reservedCore'[i] = 1
      BY <1>d, <2>5
    <3> QED
      BY <3>1, <3>4, <3>5 DEF AwaitAt
  <2>6. CASE reservedCore[i] = 1
    <3>1. ParallelCoreNum[i] = 2
      BY <1>0, <1>5, <1>b, <2>6, RingOfTwo
    <3>2. jobCnt'[i] = jobCnt[i] /\ call'[i] = "encode"
      BY <1>0, <1>a, <2>6, <3>1 DEF TypeCaller
    <3>3. Awaited(i)' = Awaited(i) /\ waitJobid'[i][jobCnt'[i]] = id
      <4>1. (jobCnt[i] = 0 /\ NextIndex(i) = 1) \/ (jobCnt[i] = 1 /\ NextIndex(i) = 0)
        BY <1>0, <3>1, RingOfTwo
      <4>2. Awaited(i)' = waitJobid'[i][NextIndex(i)]
        BY <2>4, <3>2 DEF NextIndex
      <4> QED
        BY <2>2, <2>3, <3>1, <3>2, <4>1, <4>2
    <3>4. flight[i] = {Awaited(i)}
      BY <1>5, <2>6 DEF AwaitInv, AwaitAt
    <3>5. Awaited(i) < id
      BY <1>b, <3>4
    <3>6. reservedCore'[i] = 2 /\ flight'[i] = {Awaited(i), id}
      BY <1>d, <2>6, <3>4
    <3> QED
      BY <3>2, <3>3, <3>5, <3>6 DEF AwaitAt
  <2>7. reservedCore[i] = 0 \/ reservedCore[i] = 1
    BY <1>5, <1>b
  <2> QED
    BY <2>5, <2>6, <2>7
<1>6. ASSUME ~(ParallelCoreNum[i] <= 2) PROVE AwaitAt(i)'
  BY <1>6 DEF AwaitAt
<1>7. nextJob' \in 1 .. JobMax + 1
  BY <1>0, <1>a
<1> QED
  BY <1>1, <1>2, <1>3, <1>4, <1>5, <1>6, <1>7 DEF AwaitInv, CallerInv

\* A frame leaves those in flight, and the index goes to the next one unless it was the last.
LEMMA AwaitAtTake ==
    ASSUME AwaitInv, NEW i \in Inst, TakeReport(i)
    PROVE  AwaitInv'
<1>0. TypeCaller /\ TypeRing /\ nextJob \in 1 .. JobMax + 1 /\ CallerInv
  BY DEF AwaitInv, CallerInv
<1> DEFINE r == Head(out[Awaited(i)])
           over == r \in Final \/ call[i] = "clear"
<1>a. pc[i] = "search" /\ waitJobid' = waitJobid /\ cur' = cur /\ nextJob' = nextJob
  BY DEF TakeReport, kernel
<1>b. over => LeaveFlight(i, call[i] = "flush" => r = "ready")
  BY DEF TakeReport
<1>c. ~over => UNCHANGED <<reservedCore, jobCnt, pc, call, flight>>
  BY DEF TakeReport
<1> HIDE DEF over
<1>n. nextJob' \in 1 .. JobMax + 1 /\ nextJob' \in Nat /\ nextJob <= nextJob'
  BY <1>0, <1>a
<1>1. CASE ~over
  <2>1. TypeCaller' /\ TypeRing'
    BY <1>0, <1>1, <1>a, <1>c DEF TypeCaller, TypeRing
  <2>2. ASSUME NEW k \in Inst PROVE OrderAt(k)'
    <3>1. (Submitting(k)' => Submitting(k)) /\ (Waits(k)' <=> Waits(k))
      BY <1>1, <1>c DEF Submitting, Lent, Holding, Waits
    <3> QED
      BY <1>0, <1>1, <1>a, <1>c, <1>n, <3>1, OrderKept
  <2>3. \A k \in Inst : AwaitAt(k)'
    BY <1>1, <1>a, <1>c, AwaitKept DEF AwaitInv
  <2> QED
    BY <1>n, <2>1, <2>2, <2>3 DEF AwaitInv, CallerInv
<1>2. CASE over
  <2> DEFINE moves == call[i] = "flush" => r = "ready"
  <2> HIDE DEF r
  <2>1. /\ reservedCore' = [reservedCore EXCEPT ![i] = @ - 1]
        /\ jobCnt' = IF moves THEN [jobCnt EXCEPT ![i] = NextIndex(i)] ELSE jobCnt
        /\ flight' = [flight EXCEPT ![i] = @ \ {Awaited(i)}]
        /\ \/ pc' = [pc EXCEPT ![i] = "idle"] /\ call' = [call EXCEPT ![i] = "none"]
           \/ /\ reservedCore[i] = 1
              /\ pc' = [pc EXCEPT ![i] = "cleared"] /\ call' = [call EXCEPT ![i] = "none"]
           \/ reservedCore[i] # 1 /\ UNCHANGED <<pc, call>>
    BY <1>b, <1>2 DEF LeaveFlight, Return
  <2>2. \A k \in Inst : k # i => /\ waitJobid'[k] = waitJobid[k] /\ jobCnt'[k] = jobCnt[k]
                                 /\ flight'[k] = flight[k] /\ reservedCore'[k] = reservedCore[k]
                                 /\ pc'[k] = pc[k] /\ call'[k] = call[k] /\ cur'[k] = cur[k]
    BY <1>0, <1>a, <2>1 DEF TypeRing, TypeCaller
  <2>3. /\ reservedCore[i] \in Nat /\ reservedCore[i] > 0 /\ ParallelCoreNum[i] \in Nat
        /\ reservedCore[i] <= ParallelCoreNum[i]
    BY <1>0, <1>a, Sizes DEF CallerInv, OrderAt, Waits, TypeRing
  <2>4. TypeCaller'
    BY <1>0, <1>a, <2>1 DEF TypeCaller
  <2>5. TypeRing'
    <3>1. /\ jobCnt \in [Inst -> Nat] /\ \A k \in Inst : jobCnt[k] < ParallelCoreNum[k]
          /\ reservedCore \in [Inst -> Nat] /\ \A k \in Inst : reservedCore[k] <= ParallelCoreNum[k]
          /\ flight \in [Inst -> SUBSET JobId]
      BY <1>0 DEF TypeRing
    <3>2. NextIndex(i) \in Nat /\ NextIndex(i) < ParallelCoreNum[i]
      <4>1. NextIndex(i) \in 0 .. ParallelCoreNum[i] - 1
        BY <1>0, NextIndexType
      <4> QED
        BY <2>3, <4>1
    <3>3. jobCnt' \in [Inst -> Nat] /\ \A k \in Inst : jobCnt'[k] < ParallelCoreNum[k]
      <4>1. jobCnt' = jobCnt \/ jobCnt' = [jobCnt EXCEPT ![i] = NextIndex(i)]
        BY <2>1
      <4> QED
        BY <3>1, <3>2, <4>1
    <3>4. reservedCore' \in [Inst -> Nat] /\ \A k \in Inst : reservedCore'[k] <= ParallelCoreNum[k]
      <4>1. reservedCore' = [reservedCore EXCEPT ![i] = reservedCore[i] - 1]
        BY <2>1
      <4>2. \A k \in Inst : reservedCore'[k] = IF k = i THEN reservedCore[k] - 1 ELSE reservedCore[k]
        BY <3>1, <4>1
      <4>3. reservedCore[i] - 1 \in Nat /\ reservedCore[i] - 1 <= ParallelCoreNum[i]
        BY <2>3
      <4>4. reservedCore' \in [Inst -> Nat]
        BY <3>1, <4>1, <4>3
      <4> QED
        BY <3>1, <4>2, <4>3, <4>4
    <3>5. flight' \in [Inst -> SUBSET JobId]
      <4>1. flight[i] \ {Awaited(i)} \in SUBSET JobId
        BY <3>1
      <4>2. flight' = [flight EXCEPT ![i] = flight[i] \ {Awaited(i)}]
        BY <2>1
      <4> QED
        BY <3>1, <4>1, <4>2
    <3> QED
      BY <1>0, <1>a, <3>3, <3>4, <3>5 DEF TypeRing
  <2>6. /\ reservedCore'[i] = reservedCore[i] - 1 /\ flight'[i] = flight[i] \ {Awaited(i)}
        /\ cur'[i] = cur[i] /\ ~Submitting(i)'
        /\ pc'[i] \in {"idle", "cleared"} \/ (pc'[i] = "search" /\ reservedCore[i] # 1)
    BY <1>0, <1>a, <2>1 DEF TypeRing, TypeCaller, Submitting, Lent, Holding
  <2>7. ASSUME NEW k \in Inst PROVE OrderAt(k)'
    <3>1. CASE k # i
      <4>1. (Submitting(k)' => Submitting(k)) /\ (Waits(k)' <=> Waits(k))
        BY <2>2, <3>1 DEF Submitting, Lent, Holding, Waits
      <4> QED
        BY <1>0, <1>n, <2>2, <3>1, <4>1, OrderKept
    <3>2. CASE k = i
      <4>1. reservedCore[i] - 1 < ParallelCoreNum[i] /\ (reservedCore[i] # 1 => reservedCore[i] - 1 > 0)
        BY <2>3
      <4>2. cur[i] < nextJob /\ \A id \in flight[i] : id < nextJob
        BY <1>0 DEF CallerInv, OrderAt
      <4> QED
        BY <1>a, <2>6, <3>2, <4>1, <4>2 DEF OrderAt, Waits
    <3> QED
      BY <3>1, <3>2
  <2>8. ASSUME NEW k \in Inst, k # i PROVE AwaitAt(k)'
    BY <2>2, <2>8, AwaitKept DEF AwaitInv
  <2>9. ASSUME ParallelCoreNum[i] <= 2 PROVE AwaitAt(i)'
    <3>1. reservedCore[i] = 1 \/ reservedCore[i] = 2
      BY <2>3, <2>9
    <3>2. CASE reservedCore[i] = 1
      <4>1. reservedCore'[i] = 0
        BY <2>6, <3>2
      <4>2. flight[i] = {Awaited(i)}
        BY <2>9, <3>2 DEF AwaitInv, AwaitAt
      <4>3. flight'[i] = {}
        BY <2>6, <4>2
      <4> QED
        BY <4>1, <4>3 DEF AwaitAt
    <3>3. CASE reservedCore[i] = 2
      <4>1. ParallelCoreNum[i] = 2
        BY <2>3, <2>9, <3>3
      <4>2. /\ call[i] = "encode" /\ flight[i] = {Awaited(i), waitJobid[i][jobCnt[i]]}
            /\ Awaited(i) # waitJobid[i][jobCnt[i]]
        <5>1. flight[i] \subseteq Nat
          BY <1>0 DEF TypeRing, JobId
        <5>2. call[i] = "encode" /\ flight[i] = {Awaited(i), waitJobid[i][jobCnt[i]]}
          BY <2>9, <3>3 DEF AwaitInv, AwaitAt
        <5>3. Awaited(i) < waitJobid[i][jobCnt[i]]
          BY <2>9, <3>3 DEF AwaitInv, AwaitAt
        <5>4. Awaited(i) \in Nat /\ waitJobid[i][jobCnt[i]] \in Nat
          BY <5>1, <5>2
        <5> QED
          BY <5>2, <5>3, <5>4
      <4>3. moves /\ jobCnt'[i] = NextIndex(i)
        BY <1>0, <2>1, <4>2 DEF TypeRing
      <4>4. (jobCnt'[i] + 1) % ParallelCoreNum[i] = jobCnt[i]
        <5>1. (jobCnt[i] = 0 /\ NextIndex(i) = 1) \/ (jobCnt[i] = 1 /\ NextIndex(i) = 0)
          BY <1>0, <4>1, RingOfTwo
        <5> QED
          BY <4>1, <4>3, <5>1
      <4>5. Awaited(i)' = waitJobid[i][jobCnt[i]]
        BY <1>a, <4>4 DEF Awaited, NextIndex
      <4>6. flight'[i] = {Awaited(i)'}
        BY <2>6, <4>2, <4>5
      <4>7. reservedCore'[i] = 1
        BY <2>6, <3>3
      <4> QED
        BY <4>6, <4>7 DEF AwaitAt
    <3> QED
      BY <3>1, <3>2, <3>3
  <2>10. ASSUME ~(ParallelCoreNum[i] <= 2) PROVE AwaitAt(i)'
    BY <2>10 DEF AwaitAt
  <2> QED
    BY <1>n, <2>4, <2>5, <2>7, <2>8, <2>9, <2>10 DEF AwaitInv, CallerInv
<1> QED
  BY <1>1, <1>2

LEMMA AwaitAtRelease ==
    ASSUME AwaitInv, NEW i \in Inst, EWLRelease(i)
    PROVE  AwaitInv'
<1>0. TypeCaller /\ TypeRing /\ nextJob \in 1 .. JobMax + 1 /\ CallerInv
  BY DEF AwaitInv, CallerInv
<1>1. /\ pc' = [pc EXCEPT ![i] = "released"] /\ call' = call /\ nextJob' = nextJob
      /\ waitJobid' = [waitJobid EXCEPT ![i] = [k \in DOMAIN @ |-> NoJob]]
      /\ jobCnt' = [jobCnt EXCEPT ![i] = 0] /\ reservedCore' = [reservedCore EXCEPT ![i] = 0]
      /\ cur' = [cur EXCEPT ![i] = NoJob] /\ flight' = [flight EXCEPT ![i] = {}]
  BY DEF EWLRelease, kernel
<1>2. TypeCaller' /\ TypeRing'
  BY <1>0, <1>1, Sizes DEF TypeCaller, TypeRing
<1>3. \A k \in Inst : k # i => /\ waitJobid'[k] = waitJobid[k] /\ jobCnt'[k] = jobCnt[k]
                               /\ flight'[k] = flight[k] /\ reservedCore'[k] = reservedCore[k]
                               /\ pc'[k] = pc[k] /\ call'[k] = call[k] /\ cur'[k] = cur[k]
  BY <1>0, <1>1 DEF TypeRing, TypeCaller
<1>4. /\ reservedCore'[i] = 0 /\ flight'[i] = {} /\ cur'[i] = NoJob
      /\ ~Waits(i)' /\ ~Submitting(i)'
  BY <1>0, <1>1 DEF TypeRing, TypeCaller, Waits, Submitting, Lent, Holding
<1>5. nextJob' \in 1 .. JobMax + 1 /\ nextJob' \in Nat /\ nextJob <= nextJob' /\ NoJob < nextJob'
  BY <1>0, <1>1 DEF NoJob
<1>6. ASSUME NEW k \in Inst, k # i PROVE OrderAt(k)' /\ AwaitAt(k)'
  <2>1. (Submitting(k)' => Submitting(k)) /\ (Waits(k)' <=> Waits(k))
    BY <1>3, <1>6 DEF Submitting, Lent, Holding, Waits
  <2>2. OrderAt(k)'
    BY <1>0, <1>3, <1>5, <1>6, <2>1, OrderKept
  <2>3. AwaitAt(k)'
    BY <1>3, <1>6, AwaitKept DEF AwaitInv
  <2> QED
    BY <2>2, <2>3
<1>7. OrderAt(i)' /\ AwaitAt(i)'
  <2>1. 0 < ParallelCoreNum[i]
    BY Sizes
  <2> QED
    BY <1>4, <1>5, <2>1 DEF OrderAt, AwaitAt
<1> QED
  BY <1>2, <1>5, <1>6, <1>7 DEF AwaitInv, CallerInv

\* The new frame comes after those in flight.
LEMMA AwaitAtReserve ==
    ASSUME AwaitInv, NEW i \in Inst, EWLReserveHw(i)
    PROVE  AwaitInv'
<1>0. TypeCaller /\ TypeRing /\ nextJob \in 1 .. JobMax + 1 /\ CallerInv
  BY DEF AwaitInv, CallerInv
<1>1. /\ pc[i] = "reserving" /\ pc' = [pc EXCEPT ![i] = "lent"] /\ nextJob <= JobMax
      /\ cur' = [cur EXCEPT ![i] = nextJob] /\ nextJob' = nextJob + 1
      /\ UNCHANGED <<call, waitJobid, jobCnt, reservedCore, flight>>
  BY DEF EWLReserveHw, ring, history
<1>2. /\ nextJob' \in 1 .. JobMax + 1 /\ nextJob' \in Nat /\ nextJob <= nextJob'
      /\ nextJob \in JobId /\ nextJob # NoJob /\ nextJob < nextJob'
  BY <1>0, <1>1, Sizes DEF JobId, NoJob
<1>3. TypeCaller' /\ TypeRing'
  BY <1>0, <1>1, <1>2 DEF TypeCaller, TypeRing
<1>4. ASSUME NEW k \in Inst PROVE AwaitAt(k)'
  BY <1>1, AwaitKept DEF AwaitInv
<1>5. ASSUME NEW k \in Inst, k # i PROVE OrderAt(k)'
  <2>1. pc'[k] = pc[k] /\ cur'[k] = cur[k]
    BY <1>0, <1>1, <1>5 DEF TypeCaller
  <2>2. (Submitting(k)' => Submitting(k)) /\ (Waits(k)' <=> Waits(k))
    BY <2>1 DEF Submitting, Lent, Holding, Waits
  <2> QED
    BY <1>0, <1>1, <1>2, <2>1, <2>2, OrderKept
<1>6. OrderAt(i)'
  <2>1. pc'[i] = "lent" /\ cur'[i] = nextJob /\ flight'[i] = flight[i]
    BY <1>0, <1>1 DEF TypeCaller
  <2>2. reservedCore[i] < ParallelCoreNum[i] /\ \A id \in flight[i] : id < nextJob
    BY <1>0, <1>1 DEF CallerInv, OrderAt, Waits
  <2>3. \A id \in flight[i] : id < nextJob'
    <3>1. \A id \in flight[i] : id \in Nat
      BY <1>0 DEF TypeRing, JobId
    <3>2. nextJob \in Nat
      BY <1>0
    <3> QED
      BY <1>1, <2>2, <3>1, <3>2
  <2> QED
    BY <1>1, <1>2, <2>1, <2>2, <2>3 DEF OrderAt, Waits
<1> QED
  BY <1>2, <1>3, <1>4, <1>5, <1>6 DEF AwaitInv, CallerInv

\* What a caller does without its ring.
LEMMA AwaitAtCall ==
    ASSUME AwaitInv, NEW i \in Inst,
           \/ EWLInit(i) \/ Encode(i) \/ FindWorker(i) \/ EncAsicFrameStart(i)
           \/ VCEncMultiCoreFlush(i) \/ VCEncClear(i) \/ WaitForOutput(i) \/ EwlReleaseCoreWait(i)
    PROVE  AwaitInv'
<1>0. TypeCaller /\ TypeRing /\ nextJob \in 1 .. JobMax + 1 /\ CallerInv
  BY DEF AwaitInv, CallerInv
<1>1. UNCHANGED <<waitJobid, jobCnt, reservedCore, flight, cur, nextJob>>
  BY DEF EWLInit, Encode, FindWorker, EncAsicFrameStart, VCEncMultiCoreFlush, VCEncClear,
         WaitForOutput, EwlReleaseCoreWait, caller, ring, kernel, history
<1>2. TypeRing' /\ nextJob' \in 1 .. JobMax + 1 /\ nextJob' \in Nat /\ nextJob <= nextJob'
  BY <1>0, <1>1 DEF TypeRing
<1>3. \/ pc' = pc /\ call' = call
      \/ /\ call' = call
         /\ \/ pc[i] \in {"none", "idle", "lent", "reserved", "released"}
               /\ pc' \in {[pc EXCEPT ![i] = p] : p \in {"idle", "reserving", "cleared", "closed"}}
            \/ Submitting(i) /\ pc' \in {[pc EXCEPT ![i] = p] : p \in {"reserved", "started"}}
            \/ pc[i] = "search" /\ pc' = [pc EXCEPT ![i] = "asleep"]
      \/ /\ pc[i] = "idle" /\ reservedCore[i] # 0 /\ pc' = [pc EXCEPT ![i] = "search"]
         /\ call' \in {[call EXCEPT ![i] = c] : c \in {"flush", "clear"}}
  BY <1>0 DEF EWLInit, Encode, FindWorker, EncAsicFrameStart, VCEncMultiCoreFlush, VCEncClear,
     NothingInFlight, WaitForOutput, EwlReleaseCoreWait, caller, ring, Submitting, Lent, Holding,
     TypeRing
<1>4. TypeCaller'
  BY <1>0, <1>1, <1>3 DEF TypeCaller
<1>5. \A k \in Inst : k # i => pc'[k] = pc[k] /\ call'[k] = call[k]
  BY <1>0, <1>3 DEF TypeCaller
<1>6. ASSUME NEW k \in Inst, k # i PROVE OrderAt(k)' /\ AwaitAt(k)'
  <2>1. (Submitting(k)' => Submitting(k)) /\ (Waits(k)' <=> Waits(k))
    BY <1>1, <1>5, <1>6 DEF Submitting, Lent, Holding, Waits
  <2>2. OrderAt(k)'
    BY <1>0, <1>1, <1>2, <2>1, OrderKept
  <2>3. AwaitAt(k)'
    BY <1>1, <1>5, <1>6, AwaitKept DEF AwaitInv
  <2> QED
    BY <2>2, <2>3
<1>7. /\ pc[i] = "idle" => reservedCore[i] < ParallelCoreNum[i]
      /\ reservedCore[i] \in Nat /\ ParallelCoreNum[i] \in Nat
  BY <1>0, Sizes DEF TypeRing, CallerInv, OrderAt, Waits
<1>8. AwaitAt(i)'
  <2>1. CASE call' = call
    BY <1>1, <2>1, AwaitKept DEF AwaitInv
  <2>2. CASE pc[i] = "idle"
    <3>1. ParallelCoreNum[i] <= 2 => reservedCore[i] # 2
      BY <1>7, <2>2
    <3>2. Awaited(i)' = Awaited(i)
      BY <1>1 DEF Awaited, NextIndex
    <3> QED
      BY <1>1, <3>1, <3>2 DEF AwaitInv, AwaitAt
  <2> QED
    BY <1>3, <2>1, <2>2
<1>9. OrderAt(i)'
  <2>1. CASE (Submitting(i)' => Submitting(i)) /\ (Waits(i)' <=> Waits(i))
    BY <1>0, <1>1, <1>2, <2>1, OrderKept
  <2>2. CASE pc[i] = "idle" /\ reservedCore[i] # 0 /\ pc'[i] = "search"
    <3>1. reservedCore[i] > 0
      BY <1>7, <2>2
    <3>2. cur[i] < nextJob /\ \A id \in flight[i] : id < nextJob
      BY <1>0 DEF CallerInv, OrderAt
    <3>3. Waits(i)' /\ ~Submitting(i)'
      BY <2>2 DEF Waits, Submitting, Lent, Holding
    <3> QED
      BY <1>1, <3>1, <3>2, <3>3 DEF OrderAt
  <2> QED
    BY <1>0, <1>3, <2>1, <2>2 DEF Submitting, Lent, Holding, Waits, TypeCaller
<1> QED
  BY <1>2, <1>4, <1>6, <1>8, <1>9 DEF AwaitInv, CallerInv

\* The thread and the cores.
LEMMA AwaitAtThread ==
    ASSUME AwaitInv,
           WaitThread \/ (\E c \in Core : SliceReady(c) \/ FrameDone(c)) \/ UNCHANGED vars
    PROVE  AwaitInv'
<1>0. TypeCaller /\ TypeRing /\ nextJob \in 1 .. JobMax + 1 /\ CallerInv
  BY DEF AwaitInv, CallerInv
<1>1. UNCHANGED <<waitJobid, jobCnt, reservedCore, flight, call, cur, nextJob>>
  BY DEF WaitThread, NoJobs, CoresReport, WaitFails, LockJobs, Visit, PassSlice, FinishJob,
         GiveCoreBack, MoveJob, UseFreed, Broadcast, SliceReady, FrameDone, caller, ring, kernel,
         history, vars
<1>2. pc' = pc \/ pc' = [i \in Inst |-> IF hasOutput /\ pc[i] = "asleep" THEN "search" ELSE pc[i]]
  BY DEF WaitThread, NoJobs, CoresReport, WaitFails, LockJobs, Visit, PassSlice, FinishJob,
         GiveCoreBack, MoveJob, UseFreed, Broadcast, SliceReady, FrameDone, caller, vars
<1>3. \A i \in Inst : pc'[i] = pc[i] \/ (pc[i] = "asleep" /\ pc'[i] = "search")
  BY <1>0, <1>2 DEF TypeCaller
<1>4. TypeCaller' /\ TypeRing'
  BY <1>0, <1>1, <1>2 DEF TypeCaller, TypeRing
<1>5. nextJob' \in 1 .. JobMax + 1 /\ nextJob' \in Nat /\ nextJob <= nextJob'
  BY <1>0, <1>1
<1>6. ASSUME NEW i \in Inst PROVE OrderAt(i)' /\ AwaitAt(i)'
  <2>1. (Submitting(i)' => Submitting(i)) /\ (Waits(i)' <=> Waits(i))
    BY <1>3 DEF Submitting, Lent, Holding, Waits
  <2>2. OrderAt(i)'
    BY <1>0, <1>1, <1>5, <2>1, OrderKept
  <2>3. AwaitAt(i)'
    BY <1>1, AwaitKept DEF AwaitInv
  <2> QED
    BY <2>2, <2>3
<1> QED
  BY <1>4, <1>5, <1>6 DEF AwaitInv, CallerInv

LEMMA AwaitNext == AwaitInv /\ [Next]_vars => AwaitInv'
<1> SUFFICES ASSUME AwaitInv, [Next]_vars PROVE AwaitInv'
  OBVIOUS
<1>1. ASSUME NEW i \in Inst, CallStep(i) \/ NewCall(i) PROVE AwaitInv'
  BY <1>1, AwaitAtCall, AwaitAtReserve, AwaitAtEnqueue, AwaitAtTake, AwaitAtRelease
  DEF CallStep, NewCall
<1> QED
  BY <1>1, AwaitAtThread DEF Next, Step, Terminating

LEMMA AwaitInit == Init => AwaitInv
<1> SUFFICES ASSUME Init PROVE AwaitInv
  OBVIOUS
<1>1. /\ pc = [i \in Inst |-> "none"] /\ call = [i \in Inst |-> "none"]
      /\ cur = [i \in Inst |-> NoJob] /\ jobCnt = [i \in Inst |-> 0] /\ nextJob = 1
      /\ waitJobid = [i \in Inst |-> [k \in 0 .. ParallelCoreNum[i] - 1 |-> NoJob]]
      /\ reservedCore = [i \in Inst |-> 0] /\ flight = [i \in Inst |-> {}]
  BY DEF Init
<1>2. TypeCaller
  BY <1>1 DEF TypeCaller
<1>3. TypeRing
  BY <1>1, Sizes DEF TypeRing
<1>4. nextJob \in 1 .. JobMax + 1
  BY <1>1, Sizes
<1>5. ASSUME NEW i \in Inst PROVE OrderAt(i) /\ AwaitAt(i)
  <2>1. /\ pc[i] = "none" /\ reservedCore[i] = 0 /\ flight[i] = {} /\ cur[i] = NoJob
        /\ 0 < ParallelCoreNum[i]
    BY <1>1, Sizes
  <2> QED
    BY <1>1, <2>1 DEF OrderAt, AwaitAt, Waits, Submitting, Lent, Holding, NoJob
<1> QED
  BY <1>2, <1>3, <1>4, <1>5 DEF AwaitInv, CallerInv

\* A caller with at most two frames in flight waits for the oldest of them, so that its stream
\* comes out in order: what EWLDequeueCoreOutJob is asked for is the job next_waiting_core names
\* (hevcencapi.c:8406-8459). With three and more a flush that failed leaves the index behind.
THEOREM TheOldestIsAwaited == Spec => []AwaitedIsOldest
<1>1. AwaitInv => AwaitedIsOldest
  <2> SUFFICES ASSUME AwaitInv, NEW i \in Inst, ParallelCoreNum[i] <= 2,
                      pc[i] \in {"search", "asleep"}
               PROVE  Awaited(i) \in flight[i] /\ \A id \in flight[i] : Awaited(i) <= id
    BY DEF AwaitedIsOldest
  <2>0. TypeRing /\ OrderAt(i) /\ AwaitAt(i)
    BY DEF AwaitInv, CallerInv
  <2>1. reservedCore[i] = 1 \/ reservedCore[i] = 2
    <3>1. /\ reservedCore[i] \in Nat /\ reservedCore[i] > 0 /\ reservedCore[i] <= ParallelCoreNum[i]
          /\ ParallelCoreNum[i] \in Nat
      BY <2>0, Sizes DEF OrderAt, Waits, TypeRing
    <3> QED
      BY <3>1
  <2>2. flight[i] \subseteq Nat
    BY <2>0 DEF TypeRing, JobId
  <2>3. CASE reservedCore[i] = 1
    BY <2>0, <2>2, <2>3 DEF AwaitAt
  <2>4. CASE reservedCore[i] = 2
    <3>1. flight[i] = {Awaited(i), waitJobid[i][jobCnt[i]]}
      BY <2>0, <2>4 DEF AwaitAt
    <3>2. Awaited(i) < waitJobid[i][jobCnt[i]]
      BY <2>0, <2>4 DEF AwaitAt
    <3> QED
      BY <2>2, <3>1, <3>2
  <2> QED
    BY <2>1, <2>3, <2>4
<1> QED
  BY <1>1, AwaitInit, AwaitNext, PTL DEF Spec
=============================================================================
