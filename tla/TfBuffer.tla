------------------------------ MODULE TfBuffer ------------------------------
(***************************************************************************)
(* The transform buffer of tf2 (BufferCore): the cache of every frame, the *)
(* walk that composes the transforms between two frames, and the requests  *)
(* that wait for a transform to become available.                          *)
(*                                                                         *)
(* Several threads call it.  frame_mutex_ protects the caches; a second    *)
(* mutex, transformable_requests_mutex_, protects the list of requests.    *)
(* setTransform holds them one after the other, addTransformableRequest    *)
(* holds the second while it takes the first: the steps below are the      *)
(* critical sections of frame_mutex_, and reqLock is the second mutex.     *)
(*                                                                         *)
(* A transform is a rigid motion of the line: a turn s (1 or -1) followed  *)
(* by a shift v.  Composition is not commutative, so an order that is      *)
(* wrong shows.  Frame names are their own numbers; None stands for the    *)
(* number 0.                                                               *)
(***************************************************************************)
EXTENDS Integers, Sequences, FiniteSets

CONSTANTS
  Frames,          \* the frame names
  None,            \* no frame (CompactFrameID 0)
  Messages,        \* the transforms that publishers may send
  Requests,        \* the requests that may be made: target, source, time
  Publishers,      \* the threads that call setTransform
  CacheTime,       \* cache_time_
  Times            \* the stamps that are asked for

ASSUME TfAssumption ==
  /\ None \notin Frames /\ IsFiniteSet(Frames)
  /\ CacheTime \in Nat /\ Times \subseteq Nat
  /\ Messages \subseteq
       [child : Frames, parent : Frames, stamp : Nat \ {0}, s : {-1, 1},
        v : Int, static : BOOLEAN]
  /\ Requests \subseteq [target : Frames, source : Frames, time : Nat]
  /\ Publishers \cap {"free", "add"} = {}

(***************************************************************************)
(* The publishers keep a tree: frames can be put in an order in which      *)
(* every transform leads upwards, and for one stamp a frame has one        *)
(* parent.  (A transform of a frame to itself is ignored.)                 *)
(***************************************************************************)
ASSUME TreeAssumption ==
  /\ \E rank \in [Frames -> 1..Cardinality(Frames)] : \A m \in Messages :
       m.child # m.parent => rank[m.child] < rank[m.parent]
  /\ \A m, n \in Messages :
       (m.child = n.child /\ m.stamp = n.stamp) => m.parent = n.parent

VARIABLES
  caches,    \* frames_: per frame NoCache, a static or a timed cache
  known,     \* the frames that have a number (frameIDs_)
  sent,      \* the messages that publishers have sent
  requests,  \* transformable_requests_
  reqLock,   \* the holder of transformable_requests_mutex_
  thread,    \* per publisher: what its setTransform has still to do
  adding,    \* the call of addTransformableRequest that runs
  answers    \* per request: what its maker has been told, in order

tfVars == <<caches, known, sent, requests, reqLock, thread, adding, answers>>

Zero == 0                          \* TimePointZero: "the latest"
Free == "free"
NoCache == [kind |-> "none"]
Identity == [s |-> 1, v |-> 0]
Compose(up, tf) == [s |-> up.s * tf.s, v |-> up.s * tf.v + up.v]
Inverted(tf) == [s |-> tf.s, v |-> -(tf.s * tf.v)]
MaxDepth == Cardinality(Frames)    \* MAX_GRAPH_DEPTH: no tree is deeper

-----------------------------------------------------------------------------
(***************************************************************************)
(* The cache of a frame: the newest entry first.                           *)
(***************************************************************************)

LatestTimestamp(cache) ==
  IF cache.kind = "timed" /\ cache.list # <<>> THEN cache.list[1].stamp ELSE Zero

\* How many entries are newer than a time: they come first.
Newer(list, t) ==
  CHOOSE n \in 0..Len(list) : \A k \in 1..Len(list) : list[k].stamp > t <=> k <= n

\* Entries further than the cache time behind the newest one are dropped.
PruneList(list) ==
  IF list = <<>> THEN list
  ELSE SubSeq(list, 1, Newer(list, list[1].stamp - CacheTime - 1))

(***************************************************************************)
(* insertData prunes first; it refuses an entry that is too old, keeps the *)
(* list sorted, and does not store the same entry twice.                   *)
(***************************************************************************)
Refused(cache, e) ==
  /\ cache.kind = "timed"
  /\ cache.list # <<>>
  /\ e.stamp < LatestTimestamp(cache) - CacheTime

InsertData(cache, e) ==
  IF cache.kind = "static"
  THEN [cache EXCEPT !.list = <<e>>]
  ELSE LET kept == PruneList(cache.list)
           n == Newer(kept, e.stamp)
           newer == SubSeq(kept, 1, n)
           rest == SubSeq(kept, n + 1, Len(kept))
       IN  [cache EXCEPT !.list =
              IF Refused(cache, e) \/ \E i \in 1..Len(rest) : rest[i] = e
              THEN kept
              ELSE newer \o <<e>> \o rest]

(***************************************************************************)
(* The entries around a time: none, one, or the older and the newer one.   *)
(***************************************************************************)
FindClosest(list, t) ==
  IF list = <<>> THEN <<>>
  ELSE IF t \in {Zero, list[1].stamp} THEN <<list[1]>>
  ELSE LET last == list[Len(list)]
       IN IF t = last.stamp THEN <<last>>
          ELSE IF Len(list) = 1 \/ t > list[1].stamp \/ t < last.stamp THEN <<>>
          ELSE LET n == Newer(list, t)
               IN  <<list[n + 1], list[n]>>

\* The motion between two entries, linear in the time.
Interpolate(older, newer, t) ==
  [older EXCEPT !.v = older.v + ((newer.v - older.v) * (t - older.stamp))
                                  \div (newer.stamp - older.stamp)]

\* getData: interpolated only between two entries with the same parent.
GetData(cache, t) ==
  LET found == FindClosest(cache.list, t)
  IN  IF cache.kind = "static" THEN cache.list
      ELSE IF Len(found) = 2 /\ found[1].parent = found[2].parent
      THEN <<Interpolate(found[1], found[2], t)>>
      ELSE IF found = <<>> THEN <<>> ELSE <<found[1]>>

\* getParent: what canTransform asks for instead of the data.
GetParent(cache, t) ==
  LET found == IF cache.kind = "static" THEN cache.list
               ELSE FindClosest(cache.list, t)
  IN  IF found = <<>> THEN None ELSE found[1].parent

-----------------------------------------------------------------------------
(***************************************************************************)
(* The latest time for which both chains of ancestors have data.  Chains   *)
(* follow the newest parent of every frame; stamps of static transforms do *)
(* not count.                                                              *)
(***************************************************************************)
LatestParent(f) ==
  IF caches[f].kind = "none" \/ caches[f].list = <<>> THEN None
  ELSE caches[f].list[1].parent

Lineage(f) ==
  LET up[k \in 0..MaxDepth] ==
        IF k = 0 THEN <<f>>
        ELSE LET below == up[k - 1]
                 p == LatestParent(below[Len(below)])
             IN  IF Len(below) < k \/ p = None THEN below ELSE Append(below, p)
  IN  up[MaxDepth]

\* Where the chain lt first meets ls, and the oldest of the stamps up to there.
OldestUpToMeeting(lt, ls) ==
  LET Shared(i) == \E j \in 1..Len(ls) : ls[j] = lt[i]
      meet == {i \in 1..Len(lt) : Shared(i) /\ \A h \in 1..(i - 1) : ~Shared(h)}
  IN  IF meet = {} THEN [ok |-> FALSE, time |-> Zero]
      ELSE LET i == CHOOSE x \in meet : TRUE
               j == CHOOSE y \in 1..Len(ls) : ls[y] = lt[i]
               path == {lt[x] : x \in 1..(i - 1)} \cup {ls[y] : y \in 1..(j - 1)}
               stamps == {LatestTimestamp(caches[f]) : f \in path} \ {Zero}
           IN  [ok |-> TRUE,
                time |-> IF stamps = {} THEN Zero
                         ELSE CHOOSE x \in stamps : \A y \in stamps : x <= y]

GetLatestCommonTime(target, source) ==
  IF target = source
  THEN [ok |-> TRUE, time |-> LatestTimestamp(caches[source])]
  ELSE OldestUpToMeeting(Lineage(target), Lineage(source))

(***************************************************************************)
(* One of the two climbs of walkToTopParent: from a frame to the root,     *)
(* composing the transforms, until it meets a frame of `stop', a frame     *)
(* without a cache ("root") or one without data for the time ("gap").      *)
(***************************************************************************)
Gather(f, t, data) ==
  IF data THEN GetData(caches[f], t)
  ELSE LET p == GetParent(caches[f], t)
       IN  IF p = None THEN <<>> ELSE <<[parent |-> p, s |-> 1, v |-> 0]>>

\* One frame further up: st is what the cache of w.at has for the time.
Ascend(w, st, stop) ==
  IF w.end # "loop" THEN w
  ELSE IF w.at \in stop THEN [w EXCEPT !.end = "met"]
  ELSE IF caches[w.at].kind = "none" THEN [w EXCEPT !.end = "root"]
  ELSE IF st = <<>> THEN [w EXCEPT !.end = "gap"]
  ELSE [w EXCEPT !.at = st[1].parent,
                 !.tf = Compose([s |-> st[1].s, v |-> st[1].v], w.tf)]

Climb(start, stop, t, data) ==
  LET up[k \in 0..(MaxDepth + 1)] ==
        IF k = 0 THEN [at |-> start, tf |-> Identity, end |-> "loop"]
        ELSE Ascend(up[k - 1], Gather(up[k - 1].at, t, data), stop)
  IN  up[MaxDepth + 1]

Failure(kind) == [error |-> kind, tf |-> Identity, time |-> Zero]

(***************************************************************************)
(* The source climbs to the target or to its top parent; then the target   *)
(* climbs to that frame.  data tells a lookup from canTransform.           *)
(***************************************************************************)
Joined(source, t, up, down) ==
  IF "loop" \in {up.end, down.end} THEN Failure("lookup")
  ELSE IF down.end = "met" \/ down.at = up.at
  THEN [error |-> "none", time |-> t,
        tf |-> IF down.at = source THEN Inverted(down.tf)
               ELSE Compose(Inverted(down.tf), up.tf)]
  ELSE IF "gap" \in {up.end, down.end} THEN Failure("extrapolation")
  ELSE Failure("connectivity")

FromTop(target, source, t, up, data) ==
  Joined(source, t, up, Climb(target, {up.at, source}, t, data))

WalkAt(target, source, t, data) ==
  FromTop(target, source, t, Climb(source, {target}, t, data), data)

WalkToTopParent(target, source, time, data) ==
  LET common == GetLatestCommonTime(target, source)
  IN  IF source = target THEN [error |-> "none", tf |-> Identity, time |-> time]
      ELSE IF time # Zero THEN WalkAt(target, source, time, data)
      ELSE IF common.ok THEN WalkAt(target, source, common.time, data)
      ELSE Failure("connectivity")

\* lookupTransform, and canTransform, whose frames must have a number.
LookupTransform(target, source, t) ==
  IF {target, source} \subseteq known \/ target = source
  THEN WalkToTopParent(target, source, t, TRUE)
  ELSE Failure("lookup")

CanTransformInternal(target, source, t) ==
  /\ {target, source} \subseteq known
  /\ WalkToTopParent(target, source, t, FALSE).error = "none"

-----------------------------------------------------------------------------
Idle == [pc |-> "idle", i |-> 0, pending |-> <<>>]
NoCall == [pc |-> "idle"]
MaxAnswers == 2

TfInit ==
  /\ caches = [f \in Frames |-> NoCache]
  /\ known = {}
  /\ sent = {}
  /\ requests = <<>>
  /\ reqLock = Free
  /\ thread = [p \in Publishers |-> Idle]
  /\ adding = NoCall
  /\ answers = [r \in Requests |-> <<>>]

\* A frame whose transforms change kind starts a new cache.
AllocateFrame(cache, static) ==
  IF static /\ cache.kind # "static" THEN [kind |-> "static", list |-> <<>>]
  ELSE IF ~static /\ cache.kind # "timed" THEN [kind |-> "timed", list |-> <<>>]
  ELSE cache

(***************************************************************************)
(* setTransformImpl up to the release of frame_mutex_.  A transform of a   *)
(* frame to itself is ignored; data too old is dropped, and the requests   *)
(* are then not tested.                                                    *)
(***************************************************************************)
SetTransform(p, m) ==
  LET e == [stamp |-> m.stamp, parent |-> m.parent, s |-> m.s, v |-> m.v]
      cache == AllocateFrame(caches[m.child], m.static)
  IN  /\ thread[p].pc = "idle"
      /\ m \notin sent
      /\ m.child # m.parent
      /\ sent' = sent \cup {m}
      /\ known' = known \cup {m.child, m.parent}
      /\ caches' = [caches EXCEPT ![m.child] = InsertData(cache, e)]
      /\ thread' = [thread EXCEPT ![p].pc =
                      IF Refused(cache, e) THEN "idle" ELSE "lock"]
      /\ UNCHANGED <<requests, reqLock, adding, answers>>

\* clear empties the timed caches; static ones keep their transform.
Clear ==
  /\ caches' = [f \in Frames |->
                  IF caches[f].kind = "timed" THEN [caches[f] EXCEPT !.list = <<>>]
                  ELSE caches[f]]
  /\ UNCHANGED <<known, sent, requests, reqLock, thread, adding, answers>>

-----------------------------------------------------------------------------
(***************************************************************************)
(* testTransformableRequests: the mutex is held over the loop, each        *)
(* request is one step, and the callbacks run after the release.           *)
(***************************************************************************)
LockRequests(p) ==
  /\ thread[p].pc = "lock"
  /\ reqLock = Free
  /\ reqLock' = p
  /\ thread' = [thread EXCEPT ![p] = [pc |-> "test", i |-> 1, pending |-> <<>>]]
  /\ UNCHANGED <<caches, known, sent, requests, adding, answers>>

TooOld(r, time) ==
  LET latest == GetLatestCommonTime(r.target, r.source)
  IN  /\ {r.target, r.source} \subseteq known
      /\ latest.time # Zero
      /\ time + CacheTime < latest.time

\* The request is taken out: the last one takes its place.
SwapRemove(seq, i) ==
  SubSeq([seq EXCEPT ![i] = seq[Len(seq)]], 1, Len(seq) - 1)

TestRequest(p) ==
  LET i == thread[p].i
      r == requests[i]
      old == TooOld(r, r.time)
  IN  /\ thread[p].pc = "test"
      /\ i <= Len(requests)
      /\ IF old \/ CanTransformInternal(r.target, r.source, r.time)
         THEN /\ requests' = SwapRemove(requests, i)
              /\ thread' = [thread EXCEPT ![p].pending =
                   Append(@, <<r, IF old THEN "failure" ELSE "available">>)]
         ELSE /\ thread' = [thread EXCEPT ![p].i = i + 1]
              /\ UNCHANGED requests
      /\ UNCHANGED <<caches, known, sent, reqLock, adding, answers>>

EndTest(p) ==
  /\ thread[p].pc = "test"
  /\ thread[p].i > Len(requests)
  /\ reqLock' = Free
  /\ thread' = [thread EXCEPT ![p].pc = "call"]
  /\ UNCHANGED <<caches, known, sent, requests, adding, answers>>

CallBack(p) ==
  LET call == thread[p].pending[1]
  IN  /\ thread[p].pc = "call"
      /\ IF thread[p].pending = <<>>
         THEN thread' = [thread EXCEPT ![p] = Idle] /\ UNCHANGED answers
         ELSE /\ answers' = [answers EXCEPT ![call[1]] = Append(@, call[2])]
              /\ thread' = [thread EXCEPT ![p].pending = Tail(@)]
      /\ UNCHANGED <<caches, known, sent, requests, reqLock, adding>>

-----------------------------------------------------------------------------
(***************************************************************************)
(* addTransformableRequest: the mutex of the requests is taken first, the  *)
(* caches are read under frame_mutex_, then without it.                    *)
(***************************************************************************)
AddTransformableRequest(r) ==
  /\ adding = NoCall
  /\ reqLock = Free
  /\ answers[r] = <<>>
  /\ \A i \in 1..Len(requests) : requests[i] # r
  /\ \A p \in Publishers : \A i \in 1..Len(thread[p].pending) :
       thread[p].pending[i][1] # r
  /\ IF r.target = r.source
     THEN /\ answers' = [answers EXCEPT ![r] = <<"now">>]
          /\ UNCHANGED <<reqLock, adding>>
     ELSE /\ reqLock' = "add"
          /\ adding' = [pc |-> "check", r |-> r]
          /\ UNCHANGED answers
  /\ UNCHANGED <<caches, known, sent, requests, thread>>

\* mutated form: the lock is released before the request is stored
CheckRequestUnlocked ==
  LET r == adding.r
  IN  /\ adding.pc = "check"
      /\ IF CanTransformInternal(r.target, r.source, r.time)
         THEN /\ answers' = [answers EXCEPT ![r] = <<"now">>]
              /\ adding' = NoCall
         ELSE /\ adding' = [adding EXCEPT !.pc = "push"]
              /\ UNCHANGED answers
      /\ reqLock' = Free
      /\ UNCHANGED <<caches, known, sent, requests, thread>>

CheckRequest ==
  LET r == adding.r
  IN  /\ adding.pc = "check"
      /\ IF CanTransformInternal(r.target, r.source, r.time)
         THEN /\ answers' = [answers EXCEPT ![r] = <<"now">>]
              /\ reqLock' = Free
              /\ adding' = NoCall
         ELSE /\ adding' = [adding EXCEPT !.pc = "push"]
              /\ UNCHANGED <<answers, reqLock>>
      /\ UNCHANGED <<caches, known, sent, requests, thread>>

PushRequest ==
  LET r == adding.r
  IN  /\ adding.pc = "push"
      /\ reqLock' = Free
      /\ adding' = NoCall
      /\ IF TooOld(r, r.time)
         THEN /\ answers' = [answers EXCEPT ![r] = <<"never">>]
              /\ UNCHANGED requests
         ELSE /\ requests' = Append(requests, r)
              /\ UNCHANGED answers
      /\ UNCHANGED <<caches, known, sent, thread>>

\* A cancelled request leaves the list; a callback already taken still runs.
CancelTransformableRequest(r) ==
  /\ reqLock = Free
  /\ \E i \in 1..Len(requests) :
       /\ requests[i] = r
       /\ requests' = SubSeq(requests, 1, i - 1) \o SubSeq(requests, i + 1, Len(requests))
  /\ answers' = [answers EXCEPT ![r] = <<"cancelled">>]
  /\ UNCHANGED <<caches, known, sent, reqLock, thread, adding>>

TfNext ==
  \/ \E p \in Publishers :
       \/ \E m \in Messages : SetTransform(p, m)
       \/ LockRequests(p) \/ TestRequest(p) \/ EndTest(p) \/ CallBack(p)
  \/ \E r \in Requests : AddTransformableRequest(r) \/ CancelTransformableRequest(r)
  \/ CheckRequest
  \/ PushRequest
  \/ Clear

TfSpec == TfInit /\ [][TfNext]_tfVars

-----------------------------------------------------------------------------
(***************************************************************************)
(* No wake-up is lost: when no setTransform has still to look at the       *)
(* requests and no request is being added, a request that is left in the   *)
(* list can neither be answered nor be given up.  The race is the one the  *)
(* comment of addTransformableRequest describes: a transform that arrives  *)
(* between the check of a request and its entry in the list.               *)
(***************************************************************************)
NoRequestIsForgotten ==
  (reqLock = Free /\ \A p \in Publishers : thread[p].pc \in {"idle", "call"})
    => \A i \in 1..Len(requests) :
         LET r == requests[i]
         IN  ~CanTransformInternal(r.target, r.source, r.time) /\ ~TooOld(r, r.time)

\* Nobody is answered twice: not by two threads that test the same list, and
\* not both at once by addTransformableRequest and later by a callback.
AnsweredOnce ==
  \A r \in Requests :
    /\ Len(answers[r]) < MaxAnswers
    /\ answers[r] # <<>> => \A i \in 1..Len(requests) : requests[i] # r

(***************************************************************************)
(* Lookups agree with each other.  At one time, going from c to b and from *)
(* b to a is going from c to a, whatever mixture of early exits and full   *)
(* walks the three lookups take, and canTransform (which reads parents     *)
(* only) answers as the lookup (which reads data) does.  It depends on the *)
(* caches alone, so it is looked at while nothing else goes on.            *)
(***************************************************************************)
Unasked ==
  /\ known # {} /\ adding = NoCall /\ requests = <<>>
  /\ \A r \in Requests : answers[r] = <<>>
  /\ \A p \in Publishers : thread[p] = Idle

LookupsCompose == Unasked =>
  \A found \in {[q \in Frames \X Frames \X Times |-> LookupTransform(q[1], q[2], q[3])]} :
  LET Ok(a, b, t) == found[<<a, b, t>>].error = "none"
  IN  /\ \A a, b \in known, t \in Times : Ok(a, b, t) = CanTransformInternal(a, b, t)
      /\ \A a, b, c \in Frames, t \in Times \ {Zero} :
           (Ok(a, b, t) /\ Ok(b, c, t)) =>
             /\ Ok(a, c, t)
             /\ found[<<a, c, t>>].tf = Compose(found[<<a, b, t>>].tf, found[<<b, c, t>>].tf)

(***************************************************************************)
(* Waiting for a transform and asking for one agree with the data: nobody  *)
(* waits for what is there or is answered twice, and answers compose       *)
(* (addTransformableRequest, testTransformableRequests, lookupTransform).  *)
(***************************************************************************)
TfIsSound == NoRequestIsForgotten /\ AnsweredOnce /\ LookupsCompose
=============================================================================
