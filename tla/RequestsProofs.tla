---------------------------- MODULE RequestsProofs ----------------------------
(***************************************************************************)
(* Proofs about Requests, for every number of workers and requests and     *)
(* every choice of keys: Next is fair, a value of a finished request comes *)
(* from the right place, and the maps of a request that sets every default *)
(* are never written.                                                      *)
(***************************************************************************)
EXTENDS Requests, SequenceTheorems, TLAPS
-----------------------------------------------------------------------------
(***************************************************************************)
(* The remainder of a successor, which the provers do not know of.         *)
(***************************************************************************)

(* Every number has a quotient and a remainder.                            *)
LEMMA Division ==
  ASSUME NEW n \in Nat \ {0}, NEW a \in Nat
  PROVE  \E q \in Nat, r \in Nat : a = n * q + r /\ r < n /\ r = a % n
<1>1. a % n \in 0 .. (n - 1) /\ a \div n \in Nat /\ a = n * (a \div n) + (a % n)
  BY SMT
<1>2. a % n \in Nat /\ a % n < n
  BY <1>1
<1> WITNESS a \div n \in Nat, a % n \in Nat
<1> QED  BY <1>1, <1>2

(* A smaller quotient makes a smaller number.                              *)
LEMMA SmallerQuotient ==
  ASSUME NEW n \in Nat \ {0}, NEW q \in Int, NEW r \in Nat,
         NEW p \in Int, NEW s \in Nat,
         n * q + r = n * p + s, r < n, s < n
  PROVE  ~(q < p)
<1>1. ASSUME q < p PROVE FALSE
  <2>1. p >= q + 1
    BY <1>1
  <2>2. n * p >= n * (q + 1)
    BY <2>1, SMT
  <2>3. n * (q + 1) = n * q + n
    BY SMT
  <2> QED  BY <2>2, <2>3, SMT
<1> QED  BY <1>1

(* The remainder is unique.                                                *)
LEMMA SameRemainder ==
  ASSUME NEW n \in Nat \ {0}, NEW q \in Int, NEW r \in Nat,
         NEW p \in Int, NEW s \in Nat,
         n * q + r = n * p + s, r < n, s < n
  PROVE  r = s
<1>1. q = p
  BY SmallerQuotient
<1> QED  BY <1>1, SMT

(* The successor's remainder is the next one, around the circle.           *)
LEMMA NextRemainder ==
  ASSUME NEW n \in Nat \ {0}, NEW a \in Nat
  PROVE  /\ a % n \in 0 .. (n - 1)
         /\ (a + 1) % n = IF a % n = n - 1 THEN 0 ELSE (a % n) + 1
<1>1. PICK x \in Nat, y \in Nat : a = n * x + y /\ y < n /\ y = a % n
  BY Division
<1>2. PICK u \in Nat, v \in Nat : a + 1 = n * u + v /\ v < n /\ v = (a + 1) % n
  BY Division, a + 1 \in Nat
<1>3. n * x \in Int /\ n * u \in Int /\ x \in Int /\ u \in Int
  BY SMT
<1>4. y = n - 1 => v = 0
  <2> SUFFICES ASSUME y = n - 1 PROVE v = 0
    OBVIOUS
  <2>1. n * (x + 1) = n * x + n
    BY SMT
  <2>2. n * (x + 1) + 0 = n * u + v
    BY <2>1, <1>1, <1>2, <1>3
  <2>3. v < n /\ 0 < n /\ 0 \in Nat /\ x + 1 \in Int
    BY <1>2
  <2>4. 0 = v
    BY <2>2, <2>3, <1>3, SameRemainder, Zenon
  <2> QED  BY <2>4
<1>5. y # n - 1 => v = y + 1
  <2> SUFFICES ASSUME y # n - 1 PROVE v = y + 1
    OBVIOUS
  <2>1. n * x + (y + 1) = n * u + v /\ y + 1 < n
    BY <1>1, <1>2, <1>3
  <2>2. v < n /\ y + 1 \in Nat
    BY <1>2
  <2>3. y + 1 = v
    BY <2>1, <2>2, <1>3, SameRemainder, Zenon
  <2> QED  BY <2>3
<1>6. y \in 0 .. (n - 1)
  BY <1>1
<1>7. v = IF y = n - 1 THEN 0 ELSE y + 1
  BY <1>4, <1>5
<1> QED  BY <1>1, <1>2, <1>6, <1>7, Zenon
-----------------------------------------------------------------------------
(***************************************************************************)
(* The parts of the invariant.                                             *)
(***************************************************************************)
Reasons == {"no", "nil-map", "concurrent-access", "torn-string"}

WorkersOK == /\ pc \in [Workers -> Places] /\ cur \in [Workers -> Indices]
             /\ fatal \in Reasons

(* The keys a worker still has to look at, and the one it writes.          *)
LoopOK ==
  /\ todo \in [Workers -> SUBSET AllKeys] /\ key \in [Workers -> AllKeys]
  /\ slot \in [Workers -> Nat \ {0}]
  /\ \A w \in Workers, f \in Fields :
       /\ pc[w] \in Loop(f) => todo[w] \subseteq Defaults[f]
       /\ pc[w] \in Loop(f) \ {f} =>
            key[w] \in todo[w] /\ key[w] \in Lacked(cur[w], f)

(* The worker in Next, and nobody else, has the mutex.                     *)
MutexOK ==
  /\ poolMu \in Workers \cup {NoOwner}
  /\ \A w \in Workers : pc[w] \in {"next", "advance"} <=> poolMu = w

(* handed is full rounds and a part of the last one. It is ahead of idx by *)
(* the request whose index a worker has read and not yet advanced.         *)
Ahead == \E w \in Workers : pc[w] = "advance"
Given == IF Ahead THEN idx + 1 ELSE idx
Rounds(q, r) == handed = [i \in Indices |-> IF i < r THEN q + 1 ELSE q]
RoundsOK ==
  /\ idx \in 0 .. MaxNext
  /\ Ahead => idx < MaxNext
  /\ \E q \in Nat : Rounds(q, Given % NumRequests)

(* The slots of a map: first the request's own, then defaults it lacks.    *)
Filled(i, f, m) ==
  /\ m \in Seq(Entries) /\ Own[i][f] \in Seq(AllKeys)
  /\ Len(m) >= Len(Own[i][f])
  /\ \A s \in 1 .. Len(m) :
       /\ s <= Len(Own[i][f]) => m[s] = Entry(Own[i][f][s], "own")
       /\ s > Len(Own[i][f]) => /\ m[s].key \in Lacked(i, f)
                                /\ m[s].value \in {"empty"} \cup Lacked(i, f)
MapsOK ==
  /\ DOMAIN maps = Indices
  /\ \A i \in Indices : DOMAIN maps[i] = Fields
  /\ \A i \in Indices, f \in Fields : Filled(i, f, maps[i][f])

(* A worker writes behind the request's own slots.                         *)
SlotsOK ==
  \A w \in Workers, f \in Fields :
    /\ pc[w] = Writing(f) =>
         slot[w] \in (Len(Own[cur[w]][f]) + 1) .. (Len(maps[cur[w]][f]) + 1)
    /\ pc[w] = Storing(f) =>
         slot[w] \in (Len(Own[cur[w]][f]) + 1) .. Len(maps[cur[w]][f])

(* The fields a worker has copied are right; the timeout comes last.       *)
Right(i, f, m, r) ==
  /\ Names(f, Configured(i, f)) \subseteq DOMAIN m
  /\ \A n \in DOMAIN m : m[n] \in Expected(i, f, n, r)
TokenRight(i, m, r) ==
  /\ Names("headers", Configured(i, "headers")) \subseteq DOMAIN m
  /\ \A n \in DOMAIN m :
       m[n] \in IF n = AuthKey /\ i \in WithToken THEN {"token"}
                ELSE Sources(i, "headers", n, r)
Origins == {"own", "empty", "token", "timeout"} \cup AllKeys
ShapeOK ==
  /\ DOMAIN built = Workers
  /\ \A w \in Workers : DOMAIN built[w] = Fields
  /\ \A w \in Workers, f \in Fields : MapOK(built[w][f], AllNames, Origins)
TokensRight ==
  \A w \in Workers : pc[w] \in Loop("query") =>
                       TokenRight(cur[w], built[w]["headers"], TRUE)
HeadersRight ==
  \A w \in Workers : pc[w] = "built" =>
                       Right(cur[w], "headers", built[w]["headers"], TRUE)
QueryRight ==
  \A w \in Workers : pc[w] = "built" =>
                       Right(cur[w], "query", built[w]["query"], TRUE)
CopiesOK == ShapeOK /\ TokensRight /\ HeadersRight /\ QueryRight

(* Whoever kills the process fills the map of a sparse request.            *)
KillOK == fatal # "no" =>
            \E w \in Workers : pc[w] \in Filling /\ Sparse(cur[w])

IInv == /\ WorkersOK /\ LoopOK /\ MutexOK /\ RoundsOK
        /\ MapsOK /\ SlotsOK /\ CopiesOK /\ KillOK

(* There is a request to hand out.                                         *)
LEMMA Sizes == NumRequests \in Nat \ {0}
BY RequestsAssumption

(* The constants as the proofs use them.                                   *)
LEMMA Constants ==
  /\ NumRequests \in Nat \ {0} /\ MaxNext \in Nat /\ NoOwner \notin Workers
  /\ DOMAIN Defaults = Fields /\ DOMAIN Own = Indices
  /\ \A i \in Indices : DOMAIN Own[i] = Fields
  /\ AuthKey \in AllKeys
  /\ AuthKey \in AllNames /\ TimeoutKey \in AllNames /\ AuthKey # TimeoutKey
  /\ \A f \in Fields, k \in AllKeys : Name(f, k) \in AllNames
  /\ \A f \in Fields : Defaults[f] \subseteq AllKeys
  /\ \A i \in Indices, f \in Fields : Own[i][f] \in Seq(AllKeys)
  /\ \A i \in Indices, f \in Fields : Configured(i, f) \subseteq AllKeys
  /\ \A i \in Indices, f \in Fields : Lacked(i, f) \subseteq AllKeys
<1>1. \A f \in Fields : Defaults[f] \subseteq UNION {Defaults[g] : g \in Fields}
  OBVIOUS
<1>2. ASSUME NEW i \in Indices, NEW f \in Fields
      PROVE  Configured(i, f)
               \subseteq UNION {Configured(j, g) : j \in Indices, g \in Fields}
  OBVIOUS
<1>3. \A f \in Fields : Defaults[f] \subseteq AllKeys
  BY <1>1 DEF AllKeys
<1>4. \A i \in Indices, f \in Fields : Configured(i, f) \subseteq AllKeys
  BY <1>2 DEF AllKeys
<1>9. \A i \in Indices, f \in Fields : Own[i][f] \in Seq(AllKeys)
  <2> SUFFICES ASSUME NEW i \in Indices, NEW f \in Fields
               PROVE  Own[i][f] \in Seq(AllKeys)
    OBVIOUS
  <2>1. Own[i][f] \in Seq(Configured(i, f)) /\ Configured(i, f) \subseteq AllKeys
    BY <1>4, RequestsAssumption
  <2> HIDE DEF Configured
  <2> QED  BY <2>1
<1>10. \A i \in Indices, f \in Fields : Lacked(i, f) \subseteq AllKeys
  BY <1>3 DEF Lacked
<1>5. AuthKey \in AllKeys /\ TimeoutKey \in AllKeys
  BY DEF AllKeys
<1>6. \A f \in Fields, k \in AllKeys : Name(f, k) \in AllNames
  BY DEF AllNames
<1>7. Name("headers", AuthKey) = AuthKey /\ Name("headers", TimeoutKey) = TimeoutKey
  BY RequestsAssumption DEF Name
<1>8. AuthKey \in AllNames /\ TimeoutKey \in AllNames
  BY <1>5, <1>6, <1>7 DEF Fields
<1> QED  BY <1>3, <1>4, <1>5, <1>6, <1>8, <1>9, <1>10, RequestsAssumption

(* The places of the loops over the two fields are different places.       *)
LEMMA FieldPlaces ==
  ASSUME NEW f \in Fields
  PROVE  /\ Loop(f) \subseteq Places /\ Loop(f) \subseteq Filling
         /\ Loop(f) = {f, Assigning(f), Writing(f), Storing(f)}
         /\ f # Assigning(f) /\ f # Writing(f) /\ f # Storing(f)
         /\ Assigning(f) # Writing(f) /\ Assigning(f) # Storing(f)
         /\ Writing(f) # Storing(f)
         /\ Loop(f) \cap {"idle", "next", "advance", "build", "built"} = {}
         /\ \A g \in Fields : Loop(f) \cap Loop(g) # {} => f = g
<1>1. Loop(f) \subseteq Places /\ Loop(f) \subseteq Filling
  BY DEF Places, Filling
<1> QED  BY <1>1 DEF Fields, Loop, Assigning, Writing, Storing

(* The other places.                                                       *)
LEMMA OuterPlaces ==
  /\ {"idle", "next", "advance", "build", "built"} \subseteq Places
  /\ "headers" \in Fields /\ "query" \in Fields
  /\ "headers" \in Loop("headers") /\ "query" \in Loop("query")
BY DEF Places, Fields, Loop
-----------------------------------------------------------------------------
(***************************************************************************)
(* Workers and the mutex.                                                  *)
(***************************************************************************)

(* The steps of BuildRequest.                                              *)
BuildStep(w) ==
  \/ BuildError(w) \/ BeginHeaders(w) \/ FinishHeaders(w) \/ FinishQuery(w)
  \/ Sent(w) \/ \E f \in Fields : FieldStep(w, f)

(* A worker is in Next or in BuildRequest.                                 *)
LEMMA StepKinds ==
  ASSUME NEW w \in Workers, Step(w)
  PROVE  LockPool(w) \/ ReadIndex(w) \/ Advance(w) \/ BuildStep(w)
BY DEF Step, BuildStep

(* A step of BuildRequest moves one worker, and not into or out of Next.   *)
LEMMA BuildFrame ==
  ASSUME WorkersOK, NEW w \in Workers, BuildStep(w)
  PROVE  /\ UNCHANGED <<idx, poolMu, handed, cur>>
         /\ pc' \in [Workers -> Places] /\ fatal' \in Reasons
         /\ fatal = "no"
         /\ pc[w] \notin {"next", "advance"} /\ pc'[w] \notin {"next", "advance"}
         /\ \A v \in Workers \ {w} : pc'[v] = pc[v]
<1> USE OuterPlaces DEF WorkersOK, Goto, Reasons, pool
<1>0. "headers" \in Places /\ "query" \in Places
  BY FieldPlaces
<1>1. CASE BuildError(w)
  BY <1>1 DEF BuildError, local
<1>2. CASE BeginHeaders(w)
  BY <1>0, <1>2 DEF BeginHeaders
<1>3. CASE FinishHeaders(w)
  BY <1>0, <1>3 DEF FinishHeaders
<1>4. CASE FinishQuery(w)
  BY <1>4 DEF FinishQuery
<1>5. CASE Sent(w)
  BY <1>5 DEF Sent
<1>6. ASSUME NEW f \in Fields, FieldStep(w, f)
      PROVE  /\ UNCHANGED <<idx, poolMu, handed, cur>>
             /\ pc' \in [Workers -> Places] /\ fatal' \in Reasons
             /\ fatal = "no"
             /\ pc[w] \notin {"next", "advance"}
             /\ pc'[w] \notin {"next", "advance"}
             /\ \A v \in Workers \ {w} : pc'[v] = pc[v]
  <2>1. {f, Assigning(f), Writing(f), Storing(f)} \subseteq Places
        /\ {f, Assigning(f), Writing(f), Storing(f)}
             \cap {"next", "advance"} = {}
    BY FieldPlaces
  <2>2. ASSUME NEW from \in {f, Assigning(f), Writing(f), Storing(f)},
               NEW to \in {f, Assigning(f), Writing(f), Storing(f)},
               Goto(w, from, to), UNCHANGED <<idx, poolMu, handed, cur, fatal>>
        PROVE  /\ pc' \in [Workers -> Places] /\ fatal' \in Reasons
               /\ fatal = "no"
               /\ pc[w] \notin {"next", "advance"}
               /\ pc'[w] \notin {"next", "advance"}
               /\ \A v \in Workers \ {w} : pc'[v] = pc[v]
    <3>1. to \in Places /\ from \notin {"next", "advance"}
          /\ to \notin {"next", "advance"}
      BY <2>1
    <3>2. pc[w] = from /\ fatal = "no" /\ pc' = [pc EXCEPT ![w] = to]
      BY <2>2
    <3> QED  BY <2>2, <3>1, <3>2
  <2>3. CASE KeyThere(w, f) \/ BeginWrite(w, f) \/ FindSlot(w, f)
             \/ PutKey(w, f) \/ StoreValue(w, f)
    <3>1. \E from, to \in {f, Assigning(f), Writing(f), Storing(f)} :
            Goto(w, from, to)
      BY <2>3 DEF KeyThere, BeginWrite, FindSlot, PutKey, StoreValue
    <3>2. UNCHANGED <<idx, poolMu, handed, cur, fatal>>
      BY <2>3 DEF KeyThere, BeginWrite, FindSlot, PutKey, StoreValue, local
    <3> HIDE DEF Goto
    <3> QED  BY <2>2, <3>1, <3>2
  <2>4. CASE WriteToNil(w, f) \/ RaceNoticed(w, f) \/ TornValue(w, f)
    <3>1. /\ UNCHANGED <<idx, poolMu, handed, cur, pc>>
          /\ fatal = "no" /\ fatal' \in Reasons
          /\ pc[w] \in {f, Assigning(f), Writing(f), Storing(f)}
      BY <2>4 DEF WriteToNil, RaceNoticed, TornValue, Die, local
    <3> QED  BY <2>1, <3>1
  <2>5. UNCHANGED <<idx, poolMu, handed, cur>>
    BY <1>6 DEF FieldStep, KeyThere, BeginWrite, FindSlot, PutKey, StoreValue,
       WriteToNil, RaceNoticed, TornValue, Die, local
  <2> QED  BY <1>6, <2>3, <2>4, <2>5 DEF FieldStep
<1> QED  BY <1>1, <1>2, <1>3, <1>4, <1>5, <1>6 DEF BuildStep

(* What the three steps of Next leave alone.                               *)
LEMMA PoolFrame ==
  ASSUME WorkersOK, NEW w \in Workers,
         LockPool(w) \/ ReadIndex(w) \/ Advance(w)
  PROVE  /\ UNCHANGED <<maps, todo, key, slot, built, fatal>>
         /\ pc[w] \in {"idle", "next", "advance"}
         /\ pc'[w] \in {"next", "advance", "build"}
         /\ \A v \in Workers \ {w} : pc'[v] = pc[v] /\ cur'[v] = cur[v]
         /\ pc' \in [Workers -> Places] /\ fatal = "no"
BY OuterPlaces DEF WorkersOK, LockPool, ReadIndex, Advance, Goto, pool, local

(* The index read is one of a request.                                     *)
LEMMA WorkersStep ==
  ASSUME IInv, [Next]_vars
  PROVE  WorkersOK'
<1>1. ASSUME NEW w \in Workers, Step(w) PROVE WorkersOK'
  <2>1. CASE LockPool(w)
    BY <2>1, PoolFrame DEF IInv, WorkersOK, LockPool, local
  <2>2. CASE ReadIndex(w)
    <3>1. idx \in Nat
      BY Constants DEF IInv, RoundsOK
    <3>2. idx % NumRequests \in Indices
      BY <3>1, Constants, NextRemainder DEF Indices
    <3> QED  BY <2>2, <3>2, PoolFrame DEF IInv, WorkersOK, ReadIndex
  <2>3. CASE Advance(w)
    BY <2>3, PoolFrame DEF IInv, WorkersOK, Advance, local
  <2>4. CASE BuildStep(w)
    BY <2>4, BuildFrame DEF IInv, WorkersOK
  <2> QED  BY <1>1, <2>1, <2>2, <2>3, <2>4, StepKinds
<1>2. CASE UNCHANGED vars
  BY <1>2 DEF IInv, WorkersOK, vars, local
<1> QED  BY <1>1, <1>2 DEF Next

(* One worker at a time is in Next.                                        *)
LEMMA MutexStep ==
  ASSUME IInv, [Next]_vars
  PROVE  MutexOK'
<1> USE DEF IInv, WorkersOK, MutexOK
<1>1. ASSUME NEW w \in Workers, Step(w) PROVE MutexOK'
  <2>1. CASE LockPool(w)
    BY <2>1, Constants DEF LockPool, Goto
  <2>2. CASE ReadIndex(w)
    BY <2>2 DEF ReadIndex, Goto
  <2>3. CASE Advance(w)
    BY <2>3, Constants DEF Advance, Goto
  <2>4. CASE BuildStep(w)
    BY <2>4, BuildFrame
  <2> QED  BY <1>1, <2>1, <2>2, <2>3, <2>4, StepKinds
<1>2. CASE UNCHANGED vars
  BY <1>2 DEF vars, pool
<1> QED  BY <1>1, <1>2 DEF Next
-----------------------------------------------------------------------------
(***************************************************************************)
(* Round robin.                                                            *)
(***************************************************************************)

(* One more request handed out: the next of the round, or the first of the *)
(* next one.                                                               *)
LEMMA OneMore ==
  ASSUME NEW q \in Nat, NEW r \in 0 .. (NumRequests - 1), Rounds(q, r),
         handed' = [handed EXCEPT ![r] = @ + 1]
  PROVE  \E p \in Nat : Rounds(p, IF r = NumRequests - 1 THEN 0 ELSE r + 1)'
<1> USE Sizes DEF Rounds, Indices
<1>1. handed' = [i \in Indices |-> IF i < r \/ i = r THEN q + 1 ELSE q]
  <2>1. r \in Indices /\ DOMAIN handed' = Indices
    OBVIOUS
  <2>2. handed' = [i \in Indices |-> IF i = r THEN handed[i] + 1 ELSE handed[i]]
    BY <2>1
  <2>3. \A i \in Indices : handed[i] = IF i < r THEN q + 1 ELSE q
    OBVIOUS
  <2>4. \A i \in Indices : (IF i = r THEN handed[i] + 1 ELSE handed[i])
                             = IF i < r \/ i = r THEN q + 1 ELSE q
    BY <2>3
  <2> QED  BY <2>2, <2>4
<1>2. CASE r = NumRequests - 1
  <2>1. Rounds(q + 1, 0)'
    BY <1>1, <1>2
  <2> QED  BY <1>2, <2>1, q + 1 \in Nat
<1>3. CASE r # NumRequests - 1
  <2>1. \A i \in Indices : i < r \/ i = r <=> i < r + 1
    OBVIOUS
  <2>2. Rounds(q, r + 1)'
    BY <1>1, <2>1
  <2> QED  BY <1>3, <2>2
<1> QED  BY <1>2, <1>3

(* Whoever does not touch the index or the last step of Next.              *)
LEMMA RoundsFrame ==
  ASSUME RoundsOK, idx' = idx, handed' = handed,
         \A v \in Workers : pc'[v] = "advance" <=> pc[v] = "advance"
  PROVE  RoundsOK'
<1>1. Ahead' <=> Ahead
  BY DEF Ahead
<1>2. Given' = Given
  BY <1>1 DEF Given
<1> QED  BY <1>1, <1>2 DEF RoundsOK, Rounds

(* Only the worker that has the mutex can be ahead.                        *)
LEMMA RoundsStep ==
  ASSUME IInv, [Next]_vars
  PROVE  RoundsOK'
<1> USE DEF IInv
<1>1. ASSUME NEW w \in Workers, Step(w) PROVE RoundsOK'
  <2>1. CASE LockPool(w)
    BY <2>1, RoundsFrame DEF LockPool, Goto, WorkersOK
  <2>2. CASE ReadIndex(w)
    <3>1. pc[w] = "next" /\ pc' = [pc EXCEPT ![w] = "advance"]
          /\ idx < MaxNext /\ idx' = idx
          /\ handed' = [handed EXCEPT ![idx % NumRequests] = @ + 1]
      BY <2>2 DEF ReadIndex, Goto
    <3>2. ~Ahead /\ Ahead'
      BY <3>1, Constants DEF Ahead, MutexOK, WorkersOK
    <3>3. Given = idx /\ Given' = idx + 1
      BY <3>1, <3>2 DEF Given
    <3>4. PICK q \in Nat : Rounds(q, idx % NumRequests)
      BY <3>3 DEF RoundsOK
    <3>5. idx \in Nat /\ idx \in 0 .. MaxNext
      BY Constants DEF RoundsOK
    <3>6. PICK r \in 0 .. (NumRequests - 1) : r = idx % NumRequests
      BY <3>5, Constants, NextRemainder
    <3>7. (idx + 1) % NumRequests = IF r = NumRequests - 1 THEN 0 ELSE r + 1
      BY <3>5, <3>6, Constants, NextRemainder
    <3>8. \E p \in Nat : Rounds(p, IF r = NumRequests - 1 THEN 0 ELSE r + 1)'
      BY <3>1, <3>4, <3>6, OneMore
    <3>9. Given' % NumRequests = IF r = NumRequests - 1 THEN 0 ELSE r + 1
      BY <3>3, <3>7
    <3>10. \E p \in Nat : Rounds(p, Given % NumRequests)'
      BY <3>8, <3>9, Zenon DEF Rounds
    <3> QED  BY <3>1, <3>2, <3>3, <3>5, <3>10 DEF RoundsOK
  <2>3. CASE Advance(w)
    <3>1. pc[w] = "advance" /\ pc' = [pc EXCEPT ![w] = "build"]
          /\ idx' = idx + 1 /\ handed' = handed
      BY <2>3 DEF Advance, Goto
    <3>2. Ahead /\ ~Ahead'
      BY <3>1, Constants DEF Ahead, MutexOK, WorkersOK
    <3>3. Given = idx + 1 /\ Given' = idx + 1
      BY <3>1, <3>2 DEF Given
    <3>4. idx' \in 0 .. MaxNext
      BY <3>1, <3>2, Constants DEF RoundsOK
    <3> QED  BY <3>1, <3>2, <3>3, <3>4 DEF RoundsOK, Rounds
  <2>4. CASE BuildStep(w)
    BY <2>4, BuildFrame, RoundsFrame
  <2> QED  BY <1>1, <2>1, <2>2, <2>3, <2>4, StepKinds
<1>2. CASE UNCHANGED vars
  BY <1>2, RoundsFrame DEF vars, pool
<1> QED  BY <1>1, <1>2 DEF Next
-----------------------------------------------------------------------------
(***************************************************************************)
(* The loops, the maps they fill and the copies they make.                 *)
(***************************************************************************)

(* What one worker's step in the loop of a field may change.               *)
FieldFramed(w, f) ==
  /\ pc[w] \in Loop(f) /\ pc'[w] \in Loop(f)
  /\ built' = built /\ cur' = cur
  /\ todo' \in [Workers -> SUBSET AllKeys]
  /\ key' \in [Workers -> AllKeys]
  /\ slot' \in [Workers -> Nat \ {0}]
  /\ todo'[w] \subseteq todo[w]
  /\ \A v \in Workers \ {w} :
       todo'[v] = todo[v] /\ key'[v] = key[v] /\ slot'[v] = slot[v]
       /\ pc'[v] = pc[v]
  /\ pc'[w] \in Loop(f) \ {f} =>
       key'[w] \in todo'[w] /\ key'[w] \in Lacked(cur[w], f)

(* The keys the request is configured with are in the map.                 *)
LEMMA OwnKeysStay ==
  ASSUME NEW i \in Indices, NEW f \in Fields, NEW m, Filled(i, f, m)
  PROVE  Configured(i, f) \subseteq Keys(m)
<1> SUFFICES ASSUME NEW k \in Configured(i, f) PROVE k \in Keys(m)
  OBVIOUS
<1>1. PICK s \in DOMAIN Own[i][f] : k = Own[i][f][s]
  BY DEF Configured, Range
<1>2. s \in 1 .. Len(m) /\ s <= Len(Own[i][f]) /\ DOMAIN m = 1 .. Len(m)
  BY <1>1 DEF Filled
<1>3. m[s] = Entry(Own[i][f][s], "own")
  BY <1>2 DEF Filled
<1>4. m[s].key = k
  BY <1>1, <1>3 DEF Entry
<1> QED  BY <1>2, <1>4 DEF Keys

(* The slot of a key is a place in the map, or the one after its end.      *)
LEMMA SlotIsThere ==
  ASSUME NEW S, NEW m \in Seq(S), NEW k
  PROVE  /\ SlotOf(m, k) \in 1 .. (Len(m) + 1)
         /\ SlotOf(m, k) \in 1 .. Len(m) => m[SlotOf(m, k)].key = k
         /\ k \notin Keys(m) => SlotOf(m, k) = Len(m) + 1
<1>1. DOMAIN m = 1 .. Len(m) /\ Len(m) \in Nat
  OBVIOUS
<1>2. CASE k \in Keys(m)
  <2>1. \E s \in DOMAIN m : m[s].key = k
    BY <1>2 DEF Keys
  <2>2. /\ (CHOOSE s \in DOMAIN m : m[s].key = k) \in DOMAIN m
        /\ m[CHOOSE s \in DOMAIN m : m[s].key = k].key = k
    BY <2>1
  <2>3. SlotOf(m, k) = CHOOSE s \in DOMAIN m : m[s].key = k
    BY <1>2 DEF SlotOf
  <2>4. SlotOf(m, k) \in DOMAIN m /\ m[SlotOf(m, k)].key = k
    BY <2>2, <2>3, Zenon
  <2> QED  BY <1>1, <1>2, <2>4
<1>3. CASE k \notin Keys(m)
  BY <1>1, <1>3 DEF SlotOf
<1> QED  BY <1>2, <1>3

LEMMA FieldFrame ==
  ASSUME WorkersOK, LoopOK, MapsOK, NEW w \in Workers, NEW f \in Fields,
         FieldStep(w, f)
  PROVE  FieldFramed(w, f)
<1> USE DEF WorkersOK, LoopOK, Goto, FieldFramed
<1>0. /\ {f, Assigning(f), Writing(f), Storing(f)} \subseteq Loop(f)
      /\ f \notin {Assigning(f), Writing(f), Storing(f)}
      /\ pc[w] \in Loop(f) => todo[w] \subseteq Defaults[f]
      /\ pc[w] \in Loop(f) \ {f} =>
           key[w] \in todo[w] /\ key[w] \in Lacked(cur[w], f)
  BY FieldPlaces
<1>1. CASE KeyThere(w, f)
  BY <1>0, <1>1 DEF KeyThere
<1>2. CASE BeginWrite(w, f)
  <2>1. PICK k \in todo[w] \ Keys(maps[cur[w]][f]) :
          /\ pc[w] = f /\ pc' = [pc EXCEPT ![w] = Assigning(f)]
          /\ key' = [key EXCEPT ![w] = k] /\ slot' = slot
          /\ todo' = todo /\ built' = built /\ cur' = cur
    BY <1>2 DEF BeginWrite
  <2>2. Configured(cur[w], f) \subseteq Keys(maps[cur[w]][f])
    BY OwnKeysStay DEF MapsOK
  <2>3. k \in AllKeys /\ k \in todo[w] /\ k \in Lacked(cur[w], f)
    BY <1>0, <2>1, <2>2 DEF Lacked
  <2> QED  BY <1>0, <2>1, <2>3
<1>3. CASE FindSlot(w, f)
  <2>1. maps[cur[w]][f] \in Seq(Entries)
    BY DEF MapsOK, Filled
  <2>2. SlotOf(maps[cur[w]][f], key[w]) \in Nat \ {0}
    BY <2>1, SlotIsThere
  <2>3. /\ pc[w] = Assigning(f) /\ pc' = [pc EXCEPT ![w] = Writing(f)]
        /\ slot' = [slot EXCEPT ![w] = SlotOf(maps[cur[w]][f], key[w])]
        /\ todo' = todo /\ key' = key /\ built' = built /\ cur' = cur
    BY <1>3 DEF FindSlot
  <2> QED  BY <1>0, <2>2, <2>3
<1>4. CASE PutKey(w, f)
  BY <1>0, <1>4 DEF PutKey, local
<1>5. CASE StoreValue(w, f)
  <2>1. /\ pc[w] = Storing(f) /\ pc' = [pc EXCEPT ![w] = f]
        /\ todo' = [todo EXCEPT ![w] = @ \ {key[w]}]
        /\ key' = key /\ slot' = slot /\ built' = built /\ cur' = cur
    BY <1>5 DEF StoreValue
  <2> QED  BY <1>0, <2>1
<1>6. CASE WriteToNil(w, f) \/ RaceNoticed(w, f) \/ TornValue(w, f)
  <2>1. UNCHANGED <<pc, cur, todo, key, slot, built>>
        /\ pc[w] \in {f, Assigning(f), Writing(f)}
    BY <1>6 DEF WriteToNil, RaceNoticed, TornValue, Die, local
  <2> QED  BY <1>0, <2>1
<1> QED  BY <1>1, <1>2, <1>3, <1>4, <1>5, <1>6 DEF FieldStep

(* A worker only ever writes a default key that the request lacks.         *)
LEMMA LoopStep ==
  ASSUME IInv, [Next]_vars
  PROVE  LoopOK'
<1> USE DEF IInv, WorkersOK
<1> DEFINE OK(v, g) ==
      /\ pc[v] \in Loop(g) => todo[v] \subseteq Defaults[g]
      /\ pc[v] \in Loop(g) \ {g} =>
           key[v] \in todo[v] /\ key[v] \in Lacked(cur[v], g)
<1>0. \A v \in Workers, g \in Fields : OK(v, g)
  BY DEF LoopOK
<1>1. ASSUME NEW w \in Workers, Step(w) PROVE LoopOK'
  <2>0. ASSUME NEW v \in Workers, NEW g \in Fields,
               pc'[v] \in {"idle", "next", "advance", "build", "built"}
        PROVE  OK(v, g)'
    BY <2>0, FieldPlaces
  <2>1. CASE LockPool(w) \/ ReadIndex(w) \/ Advance(w)
    <3>1. \A v \in Workers, g \in Fields : OK(v, g)'
      <4> SUFFICES ASSUME NEW v \in Workers, NEW g \in Fields PROVE OK(v, g)'
        OBVIOUS
      <4>1. CASE v = w
        BY <2>0, <2>1, <4>1, PoolFrame
      <4>2. CASE v # w
        BY <1>0, <2>1, <4>2, PoolFrame
      <4> QED  BY <4>1, <4>2
    <3> QED  BY <2>1, <3>1, PoolFrame DEF LoopOK
  <2>2. CASE BuildError(w) \/ Sent(w) \/ FinishQuery(w)
    <3>1. UNCHANGED <<cur, todo, key, slot>>
          /\ (pc' = [pc EXCEPT ![w] = "idle"] \/ pc' = [pc EXCEPT ![w] = "built"])
      BY <2>2 DEF BuildError, Sent, FinishQuery, local, Goto
    <3>2. \A v \in Workers, g \in Fields : OK(v, g)'
      <4> SUFFICES ASSUME NEW v \in Workers, NEW g \in Fields PROVE OK(v, g)'
        OBVIOUS
      <4>1. CASE v = w
        BY <2>0, <3>1, <4>1
      <4>2. CASE v # w
        BY <1>0, <3>1, <4>2
      <4> QED  BY <4>1, <4>2
    <3> QED  BY <3>1, <3>2 DEF LoopOK
  <2>3. ASSUME NEW f \in Fields, key' = key, slot' = slot,
               pc' = [pc EXCEPT ![w] = f], cur' = cur,
               todo' = [todo EXCEPT ![w] = Defaults[f]]
        PROVE  LoopOK'
    <3>1. Defaults[f] \subseteq AllKeys
      BY Constants
    <3>2. todo' \in [Workers -> SUBSET AllKeys]
          /\ key' \in [Workers -> AllKeys] /\ slot' \in [Workers -> Nat \ {0}]
      BY <2>3, <3>1 DEF LoopOK
    <3>3. ASSUME NEW v \in Workers, NEW g \in Fields
          PROVE  OK(v, g)'
      <4>1. CASE v = w
        <5>1. pc'[v] = f /\ todo'[v] = Defaults[f]
          BY <2>3, <4>1 DEF LoopOK
        <5>2. pc'[v] \in Loop(g) => f = g
          BY <5>1, FieldPlaces
        <5> QED  BY <5>1, <5>2
      <4>2. CASE v # w
        BY <1>0, <2>3, <4>2 DEF LoopOK
      <4> QED  BY <4>1, <4>2
    <3> QED  BY <3>2, <3>3 DEF LoopOK
  <2>4. CASE BeginHeaders(w)
    BY <2>3, <2>4, OuterPlaces DEF BeginHeaders, Goto
  <2>5. CASE FinishHeaders(w)
    BY <2>3, <2>5, OuterPlaces DEF FinishHeaders, Goto
  <2>6. ASSUME NEW f \in Fields, FieldStep(w, f) PROVE LoopOK'
    <3>0. FieldFramed(w, f)
      BY <2>6, FieldFrame
    <3>1. ASSUME NEW v \in Workers, NEW g \in Fields
          PROVE  OK(v, g)'
      <4>1. CASE v = w
        <5>1. todo[w] \subseteq Defaults[f] /\ todo'[w] \subseteq todo[w]
              /\ pc'[w] \in Loop(f) /\ cur' = cur
          BY <1>0, <3>0 DEF FieldFramed
        <5>2. pc'[w] \in Loop(g) => f = g
          BY <5>1, FieldPlaces
        <5>3. pc'[w] \in Loop(f) \ {f} =>
                key'[w] \in todo'[w] /\ key'[w] \in Lacked(cur[w], f)
          BY <3>0 DEF FieldFramed
        <5> QED  BY <4>1, <5>1, <5>2, <5>3
      <4>2. CASE v # w
        <5>1. UNCHANGED <<cur, todo[v], key[v], pc[v]>>
          BY <3>0, <4>2 DEF FieldFramed
        <5> QED  BY <1>0, <5>1
      <4> QED  BY <4>1, <4>2
    <3> QED  BY <3>0, <3>1 DEF LoopOK, FieldFramed
  <2> QED  BY <1>1, <2>1, <2>2, <2>4, <2>5, <2>6 DEF Step
<1>2. CASE UNCHANGED vars
  BY <1>2 DEF LoopOK, vars, local
<1> QED  BY <1>1, <1>2 DEF Next

(* A key put into a slot behind the request's own keeps the map right.     *)
LEMMA PutLemma ==
  ASSUME NEW i \in Indices, NEW f \in Fields, NEW m, Filled(i, f, m),
         NEW s \in (Len(Own[i][f]) + 1) .. (Len(m) + 1),
         NEW k \in Lacked(i, f)
  PROVE  /\ Filled(i, f, Put(m, s, k))
         /\ Len(Put(m, s, k)) = IF s = Len(m) + 1 THEN Len(m) + 1 ELSE Len(m)
         /\ \A t \in 1 .. Len(Put(m, s, k)) :
              IF t = s THEN Put(m, s, k)[t].key = k ELSE Put(m, s, k)[t] = m[t]
<1>1. /\ m \in Seq(Entries) /\ Len(Own[i][f]) \in Nat /\ Len(m) \in Nat
      /\ s \in Nat /\ k \in AllKeys
  BY Constants DEF Filled
<1>2. CASE s \in 1 .. Len(m)
  <2>1. m[s] \in Entries /\ s > Len(Own[i][f]) /\ DOMAIN m = 1 .. Len(m)
    BY <1>1, <1>2
  <2>2. /\ Entry(k, m[s].value) \in Entries
        /\ Entry(k, m[s].value).key = k
        /\ Entry(k, m[s].value).value = m[s].value
    BY <1>1, <2>1 DEF Entry, Entries
  <2> DEFINE e == Entry(k, m[s].value)
  <2>3. Put(m, s, k) = [m EXCEPT ![s] = e]
    BY <1>2, <2>1 DEF Put
  <2> HIDE DEF e
  <2>4. /\ [m EXCEPT ![s] = e] \in Seq(Entries)
        /\ Len([m EXCEPT ![s] = e]) = Len(m)
        /\ \A t \in 1 .. Len(m) :
             [m EXCEPT ![s] = e][t] = IF t = s THEN e ELSE m[t]
    BY <1>1, <1>2, <2>2, ExceptSeq DEF e
  <2>5. m[s].value \in {"empty"} \cup Lacked(i, f)
    BY <1>2, <2>1 DEF Filled
  <2> DEFINE p == Put(m, s, k)
  <2>6. /\ p \in Seq(Entries) /\ Len(p) = Len(m)
        /\ \A t \in 1 .. Len(m) : p[t] = IF t = s THEN e ELSE m[t]
    BY <2>3, <2>4
  <2>7. e.key = k /\ e.value = m[s].value
    BY <2>2 DEF e
  <2> HIDE DEF p
  <2>8. ASSUME NEW t \in 1 .. Len(p)
        PROVE  /\ t <= Len(Own[i][f]) => p[t] = Entry(Own[i][f][t], "own")
               /\ t > Len(Own[i][f]) => /\ p[t].key \in Lacked(i, f)
                                        /\ p[t].value \in {"empty"} \cup Lacked(i, f)
    <3>1. CASE t = s
      BY <1>1, <2>1, <2>5, <2>6, <2>7, <3>1
    <3>2. CASE t # s
      BY <1>1, <2>6, <3>2 DEF Filled
    <3> QED  BY <3>1, <3>2
  <2>9. Filled(i, f, p)
    BY <1>1, <2>6, <2>8 DEF Filled
  <2>10. Len(p) = IF s = Len(m) + 1 THEN Len(m) + 1 ELSE Len(m)
    BY <1>1, <1>2, <2>6
  <2>11. \A t \in 1 .. Len(p) : IF t = s THEN p[t].key = k ELSE p[t] = m[t]
    BY <2>6, <2>7
  <2> QED  BY <2>9, <2>10, <2>11 DEF p
<1>3. CASE s = Len(m) + 1
  <2> DEFINE e == Entry(k, "empty")
  <2>1. e \in Entries /\ e.key = k /\ e.value = "empty"
    BY <1>1 DEF Entry, Entries
  <2>2. Put(m, s, k) = Append(m, e)
    BY <1>1, <1>3 DEF Put
  <2> HIDE DEF e
  <2>3. /\ Append(m, e) \in Seq(Entries) /\ Len(Append(m, e)) = Len(m) + 1
        /\ \A t \in 1 .. Len(m) : Append(m, e)[t] = m[t]
        /\ Append(m, e)[Len(m) + 1] = e
    BY <1>1, <2>1
  <2> DEFINE p == Put(m, s, k)
  <2>4. /\ p \in Seq(Entries) /\ Len(p) = Len(m) + 1
        /\ \A t \in 1 .. Len(p) : p[t] = IF t = s THEN e ELSE m[t]
    <3>1. ASSUME NEW t \in 1 .. (Len(m) + 1)
          PROVE  Append(m, e)[t] = IF t = s THEN e ELSE m[t]
      <4>1. t = Len(m) + 1 \/ t \in 1 .. Len(m)
        BY <1>1
      <4>2. t \in 1 .. Len(m) => t # s
        BY <1>1, <1>3
      <4> QED  BY <1>3, <2>3, <4>1, <4>2
    <3> QED  BY <2>2, <2>3, <3>1
  <2> HIDE DEF p
  <2>5. ASSUME NEW t \in 1 .. Len(p)
        PROVE  /\ t <= Len(Own[i][f]) => p[t] = Entry(Own[i][f][t], "own")
               /\ t > Len(Own[i][f]) => /\ p[t].key \in Lacked(i, f)
                                        /\ p[t].value \in {"empty"} \cup Lacked(i, f)
    <3>1. CASE t = s
      BY <1>1, <2>1, <2>4, <3>1
    <3>2. CASE t # s
      <4>1. t \in 1 .. Len(m) /\ p[t] = m[t]
        BY <1>1, <1>3, <2>4, <3>2
      <4> QED  BY <1>1, <4>1 DEF Filled
    <3> QED  BY <3>1, <3>2
  <2>6. Filled(i, f, p)
    BY <1>1, <2>4, <2>5 DEF Filled
  <2>7. Len(p) = IF s = Len(m) + 1 THEN Len(m) + 1 ELSE Len(m)
    BY <1>3, <2>4
  <2>8. \A t \in 1 .. Len(p) : IF t = s THEN p[t].key = k ELSE p[t] = m[t]
    BY <2>1, <2>4
  <2> QED  BY <2>6, <2>7, <2>8 DEF p
<1> QED  BY <1>1, <1>2, <1>3

(* So does a default stored in such a slot.                                *)
LEMMA StoreLemma ==
  ASSUME NEW i \in Indices, NEW f \in Fields, NEW m, Filled(i, f, m),
         NEW s \in (Len(Own[i][f]) + 1) .. Len(m),
         NEW k \in Lacked(i, f)
  PROVE  /\ Filled(i, f, Store(m, s, k))
         /\ Len(Store(m, s, k)) = Len(m)
         /\ \A t \in 1 .. Len(m) : Store(m, s, k)[t] =
              IF t = s THEN Entry(m[s].key, k) ELSE m[t]
<1>1. /\ m \in Seq(Entries) /\ Len(Own[i][f]) \in Nat /\ Len(m) \in Nat
      /\ s \in 1 .. Len(m) /\ k \in AllKeys
  BY Constants DEF Filled
<1>2. m[s] \in Entries /\ s > Len(Own[i][f])
  BY <1>1
<1> DEFINE e == Entry(m[s].key, k)
<1>3. e \in Entries /\ e.key = m[s].key /\ e.value = k
  BY <1>1, <1>2 DEF Entry, Entries
<1>4. Store(m, s, k) = [m EXCEPT ![s] = e]
  BY <1>1 DEF Store
<1>5. m[s].key \in Lacked(i, f)
  BY <1>1, <1>2 DEF Filled
<1>6. e = Entry(m[s].key, k)
  OBVIOUS
<1> HIDE DEF e
<1>7. /\ [m EXCEPT ![s] = e] \in Seq(Entries)
      /\ Len([m EXCEPT ![s] = e]) = Len(m)
      /\ \A t \in 1 .. Len(m) :
           [m EXCEPT ![s] = e][t] = IF t = s THEN e ELSE m[t]
  BY <1>1, <1>3, ExceptSeq
<1> QED  BY <1>1, <1>2, <1>3, <1>4, <1>5, <1>6, <1>7 DEF Filled

(* Only the two steps of a write change a map.                             *)
LEMMA MapsFrame ==
  ASSUME NEW w \in Workers, Step(w),
         ~\E f \in Fields : PutKey(w, f) \/ StoreValue(w, f)
  PROVE  maps' = maps
<1>1. CASE LockPool(w) \/ ReadIndex(w) \/ Advance(w)
  BY <1>1 DEF LockPool, ReadIndex, Advance
<1>2. CASE BuildError(w) \/ BeginHeaders(w) \/ FinishHeaders(w)
           \/ FinishQuery(w) \/ Sent(w)
  BY <1>2 DEF BuildError, BeginHeaders, FinishHeaders, FinishQuery, Sent
<1>3. ASSUME NEW f \in Fields, FieldStep(w, f) PROVE maps' = maps
  BY <1>3 DEF FieldStep, KeyThere, BeginWrite, FindSlot,
     WriteToNil, RaceNoticed, TornValue, Die
<1> QED  BY <1>1, <1>2, <1>3 DEF Step

(* And they change one, behind the request's own slots.                    *)
Written(w, f) ==
  /\ DOMAIN maps' = Indices
  /\ \A i \in Indices : DOMAIN maps'[i] = Fields
  /\ \A i \in Indices, g \in Fields :
       maps'[i][g] = IF i = cur[w] /\ g = f
                     THEN IF pc[w] = Writing(f)
                          THEN Put(maps[i][g], slot[w], key[w])
                          ELSE Store(maps[i][g], slot[w], key[w])
                     ELSE maps[i][g]
LEMMA MapWritten ==
  ASSUME WorkersOK, MapsOK, NEW w \in Workers, NEW f \in Fields,
         PutKey(w, f) \/ StoreValue(w, f)
  PROVE  Written(w, f)
<1>1. CASE PutKey(w, f)
  <2>1. /\ maps' = [maps EXCEPT ![cur[w]][f] = Put(@, slot[w], key[w])]
        /\ pc[w] = Writing(f)
    BY <1>1 DEF PutKey, Goto
  <2> QED  BY <2>1 DEF MapsOK, WorkersOK, Written
<1>2. CASE StoreValue(w, f)
  <2>1. /\ maps' = [maps EXCEPT ![cur[w]][f] = Store(@, slot[w], key[w])]
        /\ pc[w] # Writing(f)
    BY <1>2, FieldPlaces DEF StoreValue, Goto
  <2> QED  BY <2>1 DEF MapsOK, WorkersOK, Written
<1> QED  BY <1>1, <1>2

(* What the worker at these steps has.                                     *)
LEMMA WriterHas ==
  ASSUME IInv, NEW w \in Workers, NEW f \in Fields,
         PutKey(w, f) \/ StoreValue(w, f)
  PROVE  /\ pc[w] \in {Writing(f), Storing(f)} /\ cur[w] \in Indices
         /\ key[w] \in Lacked(cur[w], f)
         /\ Filled(cur[w], f, maps[cur[w]][f])
         /\ pc[w] = Writing(f) => slot[w] \in (Len(Own[cur[w]][f]) + 1)
                                        .. (Len(maps[cur[w]][f]) + 1)
         /\ pc[w] = Storing(f) =>
              slot[w] \in (Len(Own[cur[w]][f]) + 1) .. Len(maps[cur[w]][f])
<1>1. pc[w] \in {Writing(f), Storing(f)}
  BY DEF PutKey, StoreValue, Goto
<1>2. pc[w] \in Loop(f) \ {f} /\ cur[w] \in Indices
  BY <1>1, FieldPlaces DEF IInv, WorkersOK
<1>3. key[w] \in Lacked(cur[w], f)
  BY <1>2 DEF IInv, LoopOK
<1>4. Filled(cur[w], f, maps[cur[w]][f])
  BY <1>2 DEF IInv, MapsOK
<1> QED  BY <1>1, <1>2, <1>3, <1>4 DEF IInv, SlotsOK

(* Maps stay right, and never shrink.                                      *)
LEMMA MapsGrow ==
  ASSUME IInv, NEW w \in Workers, Step(w)
  PROVE  /\ MapsOK'
         /\ \A i \in Indices, g \in Fields : Len(maps'[i][g]) >= Len(maps[i][g])
<1>0. \A i \in Indices, g \in Fields :
        Filled(i, g, maps[i][g]) /\ Len(maps[i][g]) \in Nat
  BY DEF IInv, MapsOK, Filled
<1>1. CASE \E f \in Fields : PutKey(w, f) \/ StoreValue(w, f)
  <2>1. PICK f \in Fields : PutKey(w, f) \/ StoreValue(w, f)
    BY <1>1
  <2>2. Written(w, f)
    BY <2>1, MapWritten DEF IInv
  <2> DEFINE m == maps[cur[w]][f]
  <2>3. CASE pc[w] = Writing(f)
    <3>1. /\ Filled(cur[w], f, Put(m, slot[w], key[w]))
          /\ Len(Put(m, slot[w], key[w])) >= Len(m)
      BY <1>0, <2>1, <2>3, WriterHas, PutLemma
    <3>2. \A i \in Indices, g \in Fields :
            Filled(i, g, maps'[i][g]) /\ Len(maps'[i][g]) >= Len(maps[i][g])
      BY <1>0, <2>2, <2>3, <3>1 DEF Written
    <3> QED  BY <2>2, <3>2 DEF MapsOK, Filled, Written
  <2>4. CASE pc[w] # Writing(f)
    <3>1. /\ Filled(cur[w], f, Store(m, slot[w], key[w]))
          /\ Len(Store(m, slot[w], key[w])) >= Len(m)
      BY <1>0, <2>1, <2>4, WriterHas, StoreLemma
    <3>2. \A i \in Indices, g \in Fields :
            Filled(i, g, maps'[i][g]) /\ Len(maps'[i][g]) >= Len(maps[i][g])
      BY <1>0, <2>2, <2>4, <3>1 DEF Written
    <3> QED  BY <2>2, <3>2 DEF MapsOK, Filled, Written
  <2> QED  BY <2>3, <2>4
<1>2. CASE ~\E f \in Fields : PutKey(w, f) \/ StoreValue(w, f)
  <2>1. maps' = maps
    BY <1>2, MapsFrame
  <2> QED  BY <1>0, <2>1 DEF IInv, MapsOK, Filled
<1> QED  BY <1>1, <1>2

(* Only default keys are inserted.                                         *)
LEMMA MapsStep ==
  ASSUME IInv, [Next]_vars
  PROVE  MapsOK'
<1>1. CASE UNCHANGED vars
  BY <1>1 DEF IInv, MapsOK, Filled, vars
<1> QED  BY <1>1, MapsGrow DEF Next

(* An interval that ends later has the same elements, and more.            *)
LEMMA Wider ==
  ASSUME NEW a \in Nat, NEW l \in Nat, NEW n \in Nat, n >= l, NEW x
  PROVE  /\ x \in (a + 1) .. (l + 1) => x \in (a + 1) .. (n + 1)
         /\ x \in (a + 1) .. l => x \in (a + 1) .. n
OBVIOUS

(* A worker keeps to the slot it has found.                                *)
LEMMA SlotsStep ==
  ASSUME IInv, [Next]_vars
  PROVE  SlotsOK'
<1> USE DEF IInv
<1> DEFINE OK(v, g) ==
      LET n == Len(Own[cur[v]][g])
          l == Len(maps[cur[v]][g])
      IN  /\ pc[v] = Writing(g) => slot[v] \in (n + 1) .. (l + 1)
          /\ pc[v] = Storing(g) => slot[v] \in (n + 1) .. l
<1>0. SlotsOK <=> \A v \in Workers, g \in Fields : OK(v, g)
  BY DEF SlotsOK
<1>1. ASSUME NEW w \in Workers, Step(w), NEW v \in Workers, NEW g \in Fields
      PROVE  OK(v, g)'
  <2>1. /\ \A i \in Indices : Len(maps'[i][g]) >= Len(maps[i][g])
        /\ \A i \in Indices : Len(maps'[i][g]) \in Nat
        /\ \A i \in Indices : Len(maps[i][g]) \in Nat
        /\ \A i \in Indices : Len(Own[i][g]) \in Nat
    BY <1>1, MapsGrow DEF MapsOK, Filled
  <2>2. CASE pc'[v] \notin {Writing(g), Storing(g)}
    BY <2>2
  <2>3. CASE UNCHANGED <<cur[v], pc[v], slot[v]>>
    <3>1. cur[v] \in Indices
      BY DEF WorkersOK
    <3>2. OK(v, g)
      BY <1>0
    <3>3. cur'[v] = cur[v] /\ pc'[v] = pc[v] /\ slot'[v] = slot[v]
      BY <2>3
    <3>4. /\ Len(maps'[cur[v]][g]) >= Len(maps[cur[v]][g])
          /\ Len(maps'[cur[v]][g]) \in Nat /\ Len(maps[cur[v]][g]) \in Nat
          /\ Len(Own[cur[v]][g]) \in Nat
      BY <2>1, <3>1
    <3> DEFINE a == Len(Own[cur[v]][g])
               l == Len(maps[cur[v]][g])
               n == Len(maps'[cur[v]][g])
               x == slot[v]
    <3>5. /\ pc[v] = Writing(g) => x \in (a + 1) .. (l + 1)
          /\ pc[v] = Storing(g) => x \in (a + 1) .. l
      BY <3>2, Zenon
    <3>6. /\ x \in (a + 1) .. (l + 1) => x \in (a + 1) .. (n + 1)
          /\ x \in (a + 1) .. l => x \in (a + 1) .. n
      <4>1. a \in Nat /\ l \in Nat /\ n \in Nat /\ n >= l
        BY <3>4
      <4> HIDE DEF a, l, n, x
      <4> QED  BY <4>1, Wider, Zenon
    <3>7. /\ pc[v] = Writing(g) => x \in (a + 1) .. (n + 1)
          /\ pc[v] = Storing(g) => x \in (a + 1) .. n
      BY <3>5, <3>6, Zenon
    <3> QED  BY <3>3, <3>7, Zenon
  <2>4. CASE v # w \/ ~\E f \in Fields : FieldStep(w, f)
    <3>1. UNCHANGED <<cur[v], pc[v], slot[v]>>
          \/ pc'[v] \notin {Writing(g), Storing(g)}
      <4>1. CASE \E f \in Fields : FieldStep(w, f)
        BY <2>4, <4>1, FieldFrame DEF FieldFramed
      <4>2. CASE LockPool(w) \/ ReadIndex(w) \/ Advance(w)
        <5>1. /\ slot' = slot /\ pc'[w] \in {"next", "advance", "build"}
              /\ \A u \in Workers \ {w} : pc'[u] = pc[u] /\ cur'[u] = cur[u]
          BY <4>2, PoolFrame
        <5> QED  BY <5>1, FieldPlaces
      <4>3. CASE BuildError(w) \/ BeginHeaders(w) \/ FinishHeaders(w)
                 \/ FinishQuery(w) \/ Sent(w)
        <5>1. /\ slot' = slot /\ cur' = cur
              /\ pc'[w] \in {"idle", "headers", "query", "built"}
              /\ \A u \in Workers \ {w} : pc'[u] = pc[u]
          BY <4>3 DEF BuildError, BeginHeaders, FinishHeaders, FinishQuery,
             Sent, Goto, local, WorkersOK
        <5>2. {Writing(g), Storing(g)}
                \cap {"idle", "headers", "query", "built"} = {}
          BY FieldPlaces, OuterPlaces DEF Fields, Loop
        <5> QED  BY <5>1, <5>2
      <4> QED  BY <1>1, <4>1, <4>2, <4>3 DEF Step
    <3> QED  BY <2>2, <2>3, <3>1
  <2>5. ASSUME NEW f \in Fields, FieldStep(w, f), v = w PROVE OK(v, g)'
    <3>1. cur' = cur /\ pc'[w] \in Loop(f) /\ cur[w] \in Indices
          /\ pc[w] \in Loop(f) /\ slot \in [Workers -> Nat \ {0}]
      BY <2>5, FieldFrame DEF FieldFramed, WorkersOK, LoopOK
    <3>2. g # f => pc'[w] \notin {Writing(g), Storing(g)}
      BY <3>1, FieldPlaces
    <3>3. CASE g = f
      <4> DEFINE m == maps[cur[w]][f]
      <4>1. Filled(cur[w], f, m) /\ Len(m) \in Nat
            /\ Len(Own[cur[w]][f]) \in Nat
        BY <3>1 DEF MapsOK, Filled
      <4>2. CASE KeyThere(w, f) \/ StoreValue(w, f)
        <5>1. pc'[w] = f
          BY <4>2 DEF KeyThere, StoreValue, Goto, WorkersOK
        <5> QED  BY <2>2, <2>5, <3>3, <5>1, FieldPlaces
      <4>3. CASE BeginWrite(w, f)
        <5>1. pc'[w] = Assigning(f)
          BY <4>3 DEF BeginWrite, Goto, WorkersOK
        <5> QED  BY <2>2, <2>5, <3>3, <5>1, FieldPlaces
      <4>4. CASE FindSlot(w, f)
        <5>1. /\ slot' = [slot EXCEPT ![w] = SlotOf(m, key[w])] /\ maps' = maps
              /\ pc[w] = Assigning(f) /\ pc'[w] = Writing(f)
          BY <4>4 DEF FindSlot, Goto, WorkersOK
        <5>2. slot'[w] = SlotOf(m, key[w])
          BY <3>1, <5>1
        <5>3. key[w] \in Lacked(cur[w], f)
          BY <5>1, FieldPlaces DEF LoopOK
        <5>4. /\ SlotOf(m, key[w]) \in 1 .. (Len(m) + 1)
              /\ SlotOf(m, key[w]) \in 1 .. Len(m) =>
                   m[SlotOf(m, key[w])].key = key[w]
          BY <4>1, SlotIsThere DEF Filled
        <5>5. ~(SlotOf(m, key[w]) <= Len(Own[cur[w]][f]))
          <6> SUFFICES ASSUME SlotOf(m, key[w]) <= Len(Own[cur[w]][f])
                       PROVE  FALSE
            OBVIOUS
          <6> DEFINE s == SlotOf(m, key[w])
          <6>1. s \in 1 .. Len(m) /\ s \in DOMAIN Own[cur[w]][f]
            BY <4>1, <5>4 DEF Filled
          <6>2. m[s] = Entry(Own[cur[w]][f][s], "own") /\ m[s].key = key[w]
            BY <4>1, <5>4, <6>1 DEF Filled
          <6>3. key[w] = Own[cur[w]][f][s]
            BY <6>2 DEF Entry
          <6>4. key[w] \in Configured(cur[w], f)
            BY <6>1, <6>3 DEF Configured, Range
          <6> QED  BY <5>3, <6>4 DEF Lacked
        <5>6. SlotOf(m, key[w]) \in (Len(Own[cur[w]][f]) + 1) .. (Len(m) + 1)
          BY <4>1, <5>4, <5>5
        <5>7. pc'[w] # Storing(f)
          BY <5>1, FieldPlaces
        <5>8. maps'[cur'[v]][g] = m /\ Own[cur'[v]][g] = Own[cur[w]][f]
          BY <2>5, <3>1, <3>3, <5>1
        <5> HIDE DEF m
        <5> QED  BY <2>5, <3>3, <5>2, <5>6, <5>7, <5>8
      <4>5. CASE PutKey(w, f)
        <5>1. /\ pc[w] = Writing(f) /\ pc'[w] = Storing(f) /\ slot' = slot
              /\ pc'[w] # Writing(f)
          BY <4>5, FieldPlaces DEF PutKey, Goto, WorkersOK, local
        <5>2. slot[w] \in (Len(Own[cur[w]][f]) + 1) .. (Len(m) + 1)
          BY <4>5, <5>1, WriterHas
        <5>3. Len(Put(m, slot[w], key[w]))
                = IF slot[w] = Len(m) + 1 THEN Len(m) + 1 ELSE Len(m)
          BY <4>1, <4>5, <5>2, <3>1, WriterHas, PutLemma
        <5>4. maps'[cur[w]][f] = Put(m, slot[w], key[w])
          BY <3>1, <4>5, <5>1, MapWritten DEF Written
        <5>5. slot[w] \in (Len(Own[cur[w]][f]) + 1) .. Len(maps'[cur[w]][f])
          BY <4>1, <5>2, <5>3, <5>4
        <5> QED  BY <2>5, <3>1, <3>3, <5>1, <5>5
      <4>6. CASE WriteToNil(w, f) \/ RaceNoticed(w, f) \/ TornValue(w, f)
        <5>1. UNCHANGED <<cur[v], pc[v], slot[v]>>
          BY <4>6 DEF WriteToNil, RaceNoticed, TornValue, Die, local
        <5> QED  BY <2>3, <5>1
      <4> QED  BY <2>5, <4>2, <4>3, <4>4, <4>5, <4>6 DEF FieldStep
    <3> QED  BY <2>2, <2>5, <3>2, <3>3
  <2> QED  BY <2>4, <2>5
<1>2. CASE UNCHANGED vars
  BY <1>2 DEF SlotsOK, vars, local
<1>3. (\A v \in Workers, g \in Fields : OK(v, g)') => SlotsOK'
  BY DEF SlotsOK
<1> HIDE DEF OK
<1> QED  BY <1>1, <1>2, <1>3 DEF Next

(* Every default in the map is the one of its key.                         *)
Exact(i, f, m) ==
  \A s \in 1 .. Len(m) : s > Len(Own[i][f]) => m[s].value = m[s].key

(* A copy has every name of the map, each from a key spelled so. What a    *)
(* race may have left there shows only where the map is not exact.         *)
CopyRight(i, f, c, r) ==
  /\ Names(f, Configured(i, f)) \subseteq DOMAIN c
  /\ \A n \in DOMAIN c : c[n] \in Sources(i, f, n, r)
  /\ MapOK(c, AllNames, Origins)

LEMMA CopySources ==
  ASSUME NEW i \in Indices, NEW f \in Fields, NEW m, Filled(i, f, m),
         NEW c \in Copies(f, m), NEW r \in BOOLEAN, r \/ Exact(i, f, m)
  PROVE  DOMAIN c = Names(f, Keys(m)) /\ CopyRight(i, f, c, r)
<1>1. /\ DOMAIN c = Names(f, Keys(m))
      /\ \A n \in DOMAIN c :
           \E s \in DOMAIN m : Name(f, m[s].key) = n /\ m[s].value = c[n]
  BY DEF Copies
<1>2. Names(f, Configured(i, f)) \subseteq DOMAIN c
  BY <1>1, OwnKeysStay DEF Names
<1>3. DOMAIN m = 1 .. Len(m) /\ Len(m) \in Nat /\ Len(Own[i][f]) \in Nat
      /\ DOMAIN Own[i][f] = 1 .. Len(Own[i][f])
  BY DEF Filled
<1>4. ASSUME NEW n \in DOMAIN c
      PROVE  c[n] \in Sources(i, f, n, r) /\ n \in AllNames /\ c[n] \in Origins
  <2>1. PICK s \in 1 .. Len(m) : Name(f, m[s].key) = n /\ m[s].value = c[n]
    BY <1>1, <1>3
  <2>2. CASE s <= Len(Own[i][f])
    <3>1. m[s] = Entry(Own[i][f][s], "own") /\ s \in DOMAIN Own[i][f]
      BY <1>3, <2>2 DEF Filled
    <3>2. m[s].key = Own[i][f][s] /\ m[s].value = "own"
      BY <3>1 DEF Entry
    <3>3. m[s].key \in Configured(i, f)
      BY <3>1, <3>2 DEF Configured, Range
    <3>4. m[s].key \in AllKeys
      BY <3>3, Constants
    <3>5. c[n] \in Sources(i, f, n, r)
      BY <2>1, <3>2, <3>3 DEF Sources
    <3> QED  BY <2>1, <3>2, <3>4, <3>5, Constants DEF Origins
  <2>3. CASE s > Len(Own[i][f])
    <3>1. /\ m[s].key \in Lacked(i, f)
          /\ m[s].value \in {"empty"} \cup Lacked(i, f)
      BY <2>3 DEF Filled
    <3>2. m[s].key \in AllKeys /\ m[s].value \in Origins
      BY <3>1, Constants DEF Origins
    <3>3. n \in Names(f, Lacked(i, f))
      BY <2>1, <3>1 DEF Names
    <3>4. r => c[n] \in Sources(i, f, n, r)
      BY <2>1, <3>1, <3>3 DEF Sources
    <3>5. ASSUME Exact(i, f, m) PROVE c[n] \in Sources(i, f, n, r)
      <4>1. c[n] = m[s].key
        BY <2>1, <2>3, <3>5 DEF Exact
      <4> QED  BY <2>1, <3>1, <4>1 DEF Sources
    <3> QED  BY <2>1, <3>2, <3>4, <3>5, Constants
  <2> QED  BY <1>3, <2>2, <2>3
<1>5. MapOK(c, AllNames, Origins)
  BY <1>4 DEF MapOK
<1> QED  BY <1>1, <1>2, <1>4, <1>5 DEF CopyRight

(* What FinishHeaders puts into the request.                               *)
LEMMA CopyHeaders ==
  ASSUME NEW w \in Workers, NEW i \in Indices, cur[w] = i,
         NEW c, NEW r \in BOOLEAN, CopyRight(i, "headers", c, r)
  PROVE  /\ TokenRight(i, SetToken(w, c), r)
         /\ MapOK(SetToken(w, c), AllNames, Origins)
         /\ DOMAIN c \subseteq DOMAIN SetToken(w, c)
<1>1. CASE i \in WithToken
  <2>1. SetToken(w, c) = [x \in DOMAIN c \cup {AuthKey} |->
                            IF x = AuthKey THEN "token" ELSE c[x]]
    BY <1>1 DEF SetToken, Insert
  <2> QED  BY <1>1, <2>1, Constants DEF CopyRight, TokenRight, MapOK, Origins
<1>2. CASE i \notin WithToken
  <2>1. SetToken(w, c) = c
    BY <1>2 DEF SetToken
  <2> QED  BY <1>2, <2>1 DEF CopyRight, TokenRight
<1> QED  BY <1>1, <1>2

(* The timeout, at the end, replaces one header at most.                   *)
LEMMA TimeoutHeader ==
  ASSUME NEW w \in Workers, NEW i \in Indices, cur[w] = i,
         NEW m, NEW r \in BOOLEAN, TokenRight(i, m, r),
         MapOK(m, AllNames, Origins)
  PROVE  /\ Right(i, "headers", SetTimeout(w, m), r)
         /\ MapOK(SetTimeout(w, m), AllNames, Origins)
         /\ DOMAIN m \subseteq DOMAIN SetTimeout(w, m)
<1>1. CASE i \in WithTimeout
  <2>1. SetTimeout(w, m) = [x \in DOMAIN m \cup {TimeoutKey} |->
                              IF x = TimeoutKey THEN "timeout" ELSE m[x]]
    BY <1>1 DEF SetTimeout, Insert
  <2> QED  BY <1>1, <2>1, Constants
           DEF TokenRight, Right, Expected, MapOK, Origins
<1>2. CASE i \notin WithTimeout
  <2>1. SetTimeout(w, m) = m
    BY <1>2 DEF SetTimeout
  <2> QED  BY <1>2, <2>1 DEF TokenRight, Right, Expected
<1> QED  BY <1>1, <1>2

(* What FinishQuery puts into the request.                                 *)
LEMMA CopyQuery ==
  ASSUME NEW i \in Indices, NEW c, NEW r \in BOOLEAN,
         CopyRight(i, "query", c, r)
  PROVE  Right(i, "query", c, r) /\ MapOK(c, AllNames, Origins)
BY DEF CopyRight, Right, Expected

(* The copies of a worker change only in its own three steps.              *)
LEMMA CopiesFrame ==
  ASSUME CopiesOK, built' = built, NEW w \in Workers,
         \A v \in Workers \ {w} : pc'[v] = pc[v] /\ cur'[v] = cur[v],
         \/ /\ cur'[w] = cur[w]
            /\ pc'[w] \in Loop("query") => pc[w] \in Loop("query")
            /\ pc'[w] = "built" => pc[w] = "built"
         \/ pc'[w] \notin Loop("query") \cup {"built"}
  PROVE  CopiesOK'
<1>1. ShapeOK'
  BY DEF CopiesOK, ShapeOK, MapOK
<1>2. ASSUME NEW v \in Workers, pc'[v] \in Loop("query")
      PROVE  TokenRight(cur'[v], built'[v]["headers"], TRUE)
  <2>1. pc[v] \in Loop("query") /\ cur'[v] = cur[v]
    BY <1>2
  <2> QED  BY <2>1 DEF CopiesOK, TokensRight
<1>3. ASSUME NEW v \in Workers, pc'[v] = "built"
      PROVE  /\ Right(cur'[v], "headers", built'[v]["headers"], TRUE)
             /\ Right(cur'[v], "query", built'[v]["query"], TRUE)
  <2>1. pc[v] = "built" /\ cur'[v] = cur[v]
    BY <1>3
  <2> QED  BY <2>1 DEF CopiesOK, HeadersRight, QueryRight
<1>4. TokensRight' /\ HeadersRight' /\ QueryRight'
  BY <1>2, <1>3 DEF TokensRight, HeadersRight, QueryRight
<1> QED  BY <1>1, <1>4 DEF CopiesOK

(* A worker puts a field into its request, or two: what is needed of them  *)
(* for the rest to hold.                                                   *)
LEMMA CopyOne ==
  ASSUME WorkersOK, CopiesOK, NEW w \in Workers, NEW h, NEW q,
         MapOK(h, AllNames, Origins), MapOK(q, AllNames, Origins),
         DOMAIN built' = Workers, DOMAIN built'[w] = Fields,
         built'[w]["headers"] = h, built'[w]["query"] = q,
         \A v \in Workers \ {w} : built'[v] = built[v],
         cur' = cur,
         \/ /\ pc' = [pc EXCEPT ![w] = "idle"]
         \/ /\ TokenRight(cur[w], h, TRUE)
            /\ pc' = [pc EXCEPT ![w] = "query"]
         \/ /\ Right(cur[w], "headers", h, TRUE)
            /\ Right(cur[w], "query", q, TRUE)
            /\ pc' = [pc EXCEPT ![w] = "built"]
  PROVE  CopiesOK'
<1> USE DEF WorkersOK
<1>1. ASSUME NEW v \in Workers, NEW f \in Fields
      PROVE  /\ DOMAIN built'[v] = Fields
             /\ MapOK(built'[v][f], AllNames, Origins)
  <2>1. CASE v = w
    BY <2>1 DEF Fields
  <2>2. CASE v # w
    BY <2>2 DEF CopiesOK, ShapeOK
  <2> QED  BY <2>1, <2>2
<1>2. ASSUME NEW v \in Workers, pc'[v] \in Loop("query")
      PROVE  TokenRight(cur'[v], built'[v]["headers"], TRUE)
  BY <1>2, OuterPlaces, FieldPlaces DEF CopiesOK, TokensRight
<1>3. ASSUME NEW v \in Workers, pc'[v] = "built"
      PROVE  /\ Right(cur'[v], "headers", built'[v]["headers"], TRUE)
             /\ Right(cur'[v], "query", built'[v]["query"], TRUE)
  BY <1>3 DEF CopiesOK, HeadersRight, QueryRight
<1>4. ShapeOK'
  <2>1. \A v \in Workers, f \in Fields : MapOK(built'[v][f], AllNames, Origins)
    BY <1>1
  <2>2. \A v \in Workers : DOMAIN built'[v] = Fields
    BY <1>1 DEF Fields
  <2> QED  BY <2>1, <2>2 DEF ShapeOK, MapOK
<1>5. TokensRight' /\ HeadersRight' /\ QueryRight'
  BY <1>2, <1>3 DEF TokensRight, HeadersRight, QueryRight
<1> QED  BY <1>4, <1>5 DEF CopiesOK

(* What has been copied stays right.                                       *)
LEMMA CopiesStep ==
  ASSUME IInv, [Next]_vars
  PROVE  CopiesOK'
<1> USE DEF IInv
<1>1. ASSUME NEW w \in Workers, Step(w) PROVE CopiesOK'
  <2>1. CASE LockPool(w) \/ ReadIndex(w) \/ Advance(w)
    <3>1. pc'[w] \notin Loop("query") \cup {"built"}
      BY <2>1, PoolFrame, FieldPlaces, OuterPlaces
    <3> QED  BY <2>1, <3>1, PoolFrame, CopiesFrame
  <2>2. CASE BuildError(w) \/ BeginHeaders(w)
    <3>1. /\ built' = built /\ cur' = cur
          /\ pc' = [pc EXCEPT ![w] = "idle"] \/ pc' = [pc EXCEPT ![w] = "headers"]
      BY <2>2 DEF BuildError, BeginHeaders, local, Goto
    <3>2. pc'[w] \notin Loop("query") \cup {"built"}
      BY <3>1, FieldPlaces, OuterPlaces DEF WorkersOK, Loop, Assigning, Writing,
         Storing
    <3> QED  BY <3>1, <3>2, CopiesFrame DEF WorkersOK
  <2>3. CASE Sent(w)
    <3>1. /\ built' = [built EXCEPT ![w] = Nothing]
          /\ cur' = cur /\ pc' = [pc EXCEPT ![w] = "idle"]
      BY <2>3 DEF Sent, Goto
    <3>2. DOMAIN Nothing = Fields
          /\ \A f \in Fields : MapOK(Nothing[f], AllNames, Origins)
      BY DEF Nothing, Empty, MapOK, Origins
    <3>3. /\ DOMAIN built' = Workers /\ built'[w] = Nothing
          /\ \A v \in Workers \ {w} : built'[v] = built[v]
      BY <3>1 DEF CopiesOK, ShapeOK
    <3> QED  BY <3>1, <3>2, <3>3, OuterPlaces, CopyOne
  <2>4. CASE FinishHeaders(w)
    <3>1. PICK c \in Copies("headers", maps[cur[w]]["headers"]) :
            built' = [built EXCEPT ![w]["headers"] = SetToken(w, c)]
      BY <2>4 DEF FinishHeaders
    <3>2. cur' = cur /\ pc' = [pc EXCEPT ![w] = "query"]
      BY <2>4 DEF FinishHeaders, Goto
    <3>3. cur[w] \in Indices /\ "headers" \in Fields /\ "query" \in Fields
      BY DEF Fields, WorkersOK
    <3>6. CopyRight(cur[w], "headers", c, TRUE)
      BY <3>3, CopySources DEF MapsOK
    <3>4. /\ TokenRight(cur[w], SetToken(w, c), TRUE)
          /\ MapOK(SetToken(w, c), AllNames, Origins)
      BY <3>3, <3>6, CopyHeaders
    <3>5. /\ DOMAIN built' = Workers /\ DOMAIN built'[w] = Fields
          /\ built'[w]["headers"] = SetToken(w, c)
          /\ built'[w]["query"] = built[w]["query"]
          /\ \A v \in Workers \ {w} : built'[v] = built[v]
          /\ MapOK(built[w]["query"], AllNames, Origins)
      BY <3>1, <3>3 DEF CopiesOK, ShapeOK
    <3> QED  BY <3>2, <3>4, <3>5, CopyOne
  <2>5. CASE FinishQuery(w)
    <3> DEFINE h == SetTimeout(w, built[w]["headers"])
    <3>1. PICK c \in Copies("query", maps[cur[w]]["query"]) :
            built' = [built EXCEPT ![w]["query"] = c, ![w]["headers"] = h]
      BY <2>5 DEF FinishQuery, CopiesOK, ShapeOK, Fields
    <3>2. cur' = cur /\ pc[w] = "query" /\ pc' = [pc EXCEPT ![w] = "built"]
      BY <2>5 DEF FinishQuery, Goto
    <3>3. cur[w] \in Indices /\ "headers" \in Fields /\ "query" \in Fields
      BY DEF Fields, WorkersOK
    <3>8. CopyRight(cur[w], "query", c, TRUE)
      BY <3>3, CopySources DEF MapsOK
    <3>4. Right(cur[w], "query", c, TRUE) /\ MapOK(c, AllNames, Origins)
      BY <3>3, <3>8, CopyQuery
    <3>5. /\ TokenRight(cur[w], built[w]["headers"], TRUE)
          /\ MapOK(built[w]["headers"], AllNames, Origins)
      BY <3>2, <3>3, OuterPlaces DEF CopiesOK, TokensRight, ShapeOK
    <3>6. Right(cur[w], "headers", h, TRUE) /\ MapOK(h, AllNames, Origins)
      BY <3>3, <3>5, TimeoutHeader
    <3> HIDE DEF h
    <3>7. /\ DOMAIN built' = Workers /\ DOMAIN built'[w] = Fields
          /\ built'[w]["headers"] = h /\ built'[w]["query"] = c
          /\ \A v \in Workers \ {w} : built'[v] = built[v]
      BY <3>1, <3>3 DEF CopiesOK, ShapeOK
    <3> QED  BY <3>2, <3>4, <3>6, <3>7, CopyOne
  <2>6. ASSUME NEW f \in Fields, FieldStep(w, f) PROVE CopiesOK'
    <3>1. /\ built' = built /\ cur' = cur
          /\ \A v \in Workers \ {w} : pc'[v] = pc[v]
          /\ pc[w] \in Loop(f) /\ pc'[w] \in Loop(f)
      BY <2>6, FieldFrame DEF FieldFramed
    <3>2. /\ pc'[w] \in Loop("query") => pc[w] \in Loop("query")
          /\ pc'[w] # "built"
      BY <3>1, FieldPlaces, OuterPlaces
    <3> QED  BY <3>1, <3>2, CopiesFrame
  <2> QED  BY <1>1, <2>1, <2>2, <2>3, <2>4, <2>5, <2>6 DEF Step
<1>2. CASE UNCHANGED vars
  <2>1. ShapeOK'
    BY <1>2 DEF vars, local, CopiesOK, ShapeOK, MapOK
  <2>2. TokensRight' /\ HeadersRight' /\ QueryRight'
    BY <1>2 DEF vars, local, CopiesOK, TokensRight, HeadersRight, QueryRight
  <2> QED  BY <2>1, <2>2 DEF CopiesOK
<1> QED  BY <1>1, <1>2 DEF Next
-----------------------------------------------------------------------------
(***************************************************************************)
(* What kills the process, and the theorems.                               *)
(***************************************************************************)

(* A worker writes in a map only if its request lacks a default.           *)
LEMMA WritingIsSparse ==
  ASSUME IInv, NEW w \in Workers, NEW f \in Fields, pc[w] \in Loop(f) \ {f}
  PROVE  Sparse(cur[w])
<1>1. key[w] \in Lacked(cur[w], f)
  BY DEF IInv, LoopOK
<1> QED  BY <1>1 DEF Sparse

(* The fatal steps, and no step after them.                                *)
Kill(w, f) == WriteToNil(w, f) \/ RaceNoticed(w, f) \/ TornValue(w, f)

LEMMA KillStep ==
  ASSUME IInv, [Next]_vars
  PROVE  KillOK'
<1>1. ASSUME NEW w \in Workers, NEW f \in Fields, Kill(w, f)
      PROVE  pc[w] \in Filling /\ Sparse(cur[w]) /\ UNCHANGED <<pc, cur>>
  <2>1. CASE WriteToNil(w, f)
    <3>1. pc[w] = Assigning(f) /\ UNCHANGED <<pc, cur>>
      BY <2>1 DEF WriteToNil, Die, local
    <3> QED  BY <3>1, FieldPlaces, WritingIsSparse
  <2>2. CASE RaceNoticed(w, f) \/ TornValue(w, f)
    <3>1. /\ pc[w] \in {f, Assigning(f), Writing(f)} /\ UNCHANGED <<pc, cur>>
          /\ Another(w, Writing(f)) \/ Another(w, Storing(f))
      BY <2>2 DEF RaceNoticed, TornValue, Die, local
    <3>2. PICK v \in Workers :
            cur[v] = cur[w] /\ pc[v] \in {Writing(f), Storing(f)}
      BY <3>1 DEF Another
    <3>3. Sparse(cur[v])
      BY <3>2, FieldPlaces, WritingIsSparse
    <3> QED  BY <3>1, <3>2, <3>3, FieldPlaces
  <2> QED  BY <1>1, <2>1, <2>2 DEF Kill
<1>2. ASSUME NEW w \in Workers, Step(w) PROVE KillOK'
  <2>1. CASE \E f \in Fields : Kill(w, f)
    <3>1. pc[w] \in Filling /\ Sparse(cur[w]) /\ UNCHANGED <<pc, cur>>
      BY <1>1, <2>1
    <3> QED  BY <3>1 DEF KillOK, Sparse
  <2>2. CASE ~\E f \in Fields : Kill(w, f)
    <3>1. fatal' = "no"
      <4>1. CASE LockPool(w) \/ ReadIndex(w) \/ Advance(w)
        BY <4>1, PoolFrame DEF IInv
      <4>2. CASE BuildError(w) \/ BeginHeaders(w) \/ FinishHeaders(w)
                 \/ FinishQuery(w) \/ Sent(w)
        BY <4>2 DEF BuildError, BeginHeaders, FinishHeaders, FinishQuery,
                    Sent, Goto
      <4>3. ASSUME NEW f \in Fields, FieldStep(w, f) PROVE fatal' = "no"
        BY <4>3, <2>2 DEF FieldStep, KeyThere, BeginWrite, FindSlot, PutKey,
           StoreValue, Kill, Goto
      <4> QED  BY <1>2, <4>1, <4>2, <4>3 DEF Step
    <3> QED  BY <3>1 DEF KillOK
  <2> QED  BY <2>1, <2>2
<1>3. CASE UNCHANGED vars
  BY <1>3 DEF IInv, KillOK, Sparse, vars, local
<1> QED  BY <1>2, <1>3 DEF Next

(* The invariant holds initially.                                          *)
LEMMA InitIInv == Init => IInv
<1> SUFFICES ASSUME Init PROVE IInv
  OBVIOUS
<1> USE Constants DEF Init
<1>1. WorkersOK
  BY OuterPlaces DEF WorkersOK, Reasons, Indices
<1>2. LoopOK
  BY FieldPlaces DEF LoopOK
<1>3. MutexOK
  BY DEF MutexOK
<1>4. RoundsOK
  <2>1. ~Ahead /\ Given = 0
    BY DEF Ahead, Given
  <2>2. 0 % NumRequests = 0
    BY SMT
  <2>3. Rounds(0, 0)
    BY DEF Rounds, Indices
  <2> QED  BY <2>1, <2>2, <2>3 DEF RoundsOK
<1>5. MapsOK
  <2>1. ASSUME NEW i \in Indices, NEW f \in Fields
        PROVE  Filled(i, f, maps[i][f])
    <3> DEFINE o == Own[i][f]
    <3>1. o \in Seq(AllKeys) /\ DOMAIN o = 1 .. Len(o) /\ Len(o) \in Nat
      BY Constants
    <3> DEFINE m == [s \in 1 .. Len(o) |-> Entry(o[s], "own")]
    <3>2. maps[i][f] = m
      BY <3>1
    <3>3. \A s \in 1 .. Len(o) : Entry(o[s], "own") \in Entries
      BY <3>1 DEF Entry, Entries
    <3>4. m \in Seq(Entries) /\ Len(m) = Len(o)
      BY <3>1, <3>3
    <3>5. \A s \in 1 .. Len(m) : m[s] = Entry(o[s], "own") /\ ~(s > Len(o))
      BY <3>1, <3>4
    <3>6. Len(m) >= Len(o)
      BY <3>1, <3>4
    <3> HIDE DEF m
    <3>7. Filled(i, f, m)
      BY <3>1, <3>4, <3>5, <3>6, Zenon DEF Filled
    <3> QED  BY <3>2, <3>7
  <2> QED  BY <2>1 DEF MapsOK
<1>6. CopiesOK
  <2>1. ShapeOK
    BY DEF ShapeOK, Nothing, Empty, MapOK, Origins
  <2> QED  BY <2>1, FieldPlaces, OuterPlaces
           DEF CopiesOK, TokensRight, HeadersRight, QueryRight
<1>8. SlotsOK
  BY FieldPlaces DEF SlotsOK
<1>7. KillOK
  BY DEF KillOK
<1> QED  BY <1>1, <1>2, <1>3, <1>4, <1>5, <1>6, <1>7, <1>8 DEF IInv

(* Pool and requests: the inductive invariant.                             *)
THEOREM Invariance == Spec => []IInv
<1>1. IInv /\ [Next]_vars => IInv'
  <2> SUFFICES ASSUME IInv, [Next]_vars PROVE IInv'
    OBVIOUS
  <2>1. WorkersOK' /\ LoopOK' /\ MutexOK' /\ RoundsOK'
    BY WorkersStep, LoopStep, MutexStep, RoundsStep
  <2>2. MapsOK' /\ SlotsOK' /\ CopiesOK' /\ KillOK'
    BY MapsStep, SlotsStep, CopiesStep, KillStep
  <2> QED  BY <2>1, <2>2 DEF IInv
<1> QED  BY InitIInv, <1>1, PTL DEF Spec

(* Every variable of the pool and the workers has its type.                *)
THEOREM TypeCorrect == Spec => []TypeOK
<1>1. IInv => TypeOK
  <2> SUFFICES ASSUME IInv PROVE TypeOK
    OBVIOUS
  <2>1. ASSUME NEW i \in Indices, NEW f \in Fields
        PROVE  maps[i][f] \in Seq(Entries)
    BY DEF IInv, MapsOK, Filled
  <2>2. handed \in [Indices -> Nat]
    BY DEF IInv, RoundsOK, Rounds
  <2>3. \A w \in Workers, f \in Fields :
          MapOK(built[w][f], AllNames,
                {"own", "empty", "token", "timeout"} \cup AllKeys)
    BY DEF IInv, CopiesOK, ShapeOK, Origins
  <2> QED  BY <2>1, <2>2, <2>3 DEF IInv, WorkersOK, LoopOK, MutexOK, RoundsOK,
                                   Reasons, TypeOK
<1> QED  BY Invariance, <1>1, PTL

(* However many workers ask, no request is handed out twice more often     *)
(* than another.                                                           *)
THEOREM PoolIsFair == Spec => []RoundRobin
<1>1. IInv => RoundRobin
  <2> SUFFICES ASSUME IInv PROVE RoundRobin
    OBVIOUS
  <2>1. PICK q \in Nat : Rounds(q, Given % NumRequests)
    BY DEF IInv, RoundsOK
  <2>2. \A i \in Indices : handed[i] \in {q, q + 1}
    BY <2>1 DEF Rounds
  <2> QED  BY <2>2 DEF RoundRobin
<1> QED  BY Invariance, <1>1, PTL

(* A configuration whose requests set every default themselves is safe to  *)
(* share: nobody writes to it, and the process does not die of it.         *)
THEOREM CompleteRequestsAreSafe == Spec => []OnlySparseKills
<1>1. IInv => OnlySparseKills
  BY WritingIsSparse DEF IInv, KillOK, OnlySparseKills
<1> QED  BY Invariance, <1>1, PTL
-----------------------------------------------------------------------------
(***************************************************************************)
(* Requests that one worker has. A second invariant, on top of the first:  *)
(* until a request is handed out again, its maps are as if nothing ran     *)
(* concurrently, but for the value that is just being stored.              *)
(***************************************************************************)
Has(w) == pc[w] \notin {"idle", "next"}

HoldOK == \A w \in Workers : Has(w) => handed[cur[w]] >= 1

AloneOK ==
  \A w, v \in Workers :
    Has(w) /\ Has(v) /\ cur[v] = cur[w] /\ handed[cur[w]] = 1 => v = w

(* Every value is there, or is the one that a worker is about to store.    *)
ExactOK ==
  \A i \in Indices, f \in Fields :
    handed[i] <= 1 =>
      \A s \in 1 .. Len(maps[i][f]) :
        \/ s > Len(Own[i][f]) => maps[i][f][s].value = maps[i][f][s].key
        \/ \E u \in Workers : cur[u] = i /\ pc[u] = Storing(f) /\ slot[u] = s

(* The loop has dealt with every default it no longer has before it; the   *)
(* key that is written is not there, and then is in its slot.              *)
LoopComplete(w) ==
  \A f \in Fields :
    LET m == maps[cur[w]][f] IN
      /\ pc[w] \in Loop(f) => Defaults[f] \subseteq todo[w] \cup Keys(m)
      /\ pc[w] \in {Assigning(f), Writing(f)} => key[w] \notin Keys(m)
      /\ pc[w] = Writing(f) => slot[w] = Len(m) + 1
      /\ pc[w] = Storing(f) => m[slot[w]].key = key[w]

CopyComplete(w) ==
  /\ pc[w] \in Loop("query") =>
       /\ Names("headers", Defaults["headers"]) \subseteq DOMAIN built[w]["headers"]
       /\ TokenRight(cur[w], built[w]["headers"], FALSE)
  /\ pc[w] = "built" => \A f \in Fields :
       /\ Names(f, Defaults[f]) \subseteq DOMAIN built[w][f]
       /\ Right(cur[w], f, built[w][f], FALSE)

DoneOK ==
  \A w \in Workers :
    handed[cur[w]] = 1 => LoopComplete(w) /\ CopyComplete(w)

CompleteInv == HoldOK /\ AloneOK /\ ExactOK /\ DoneOK

(* The counts are numbers.                                                 *)
LEMMA HandedType ==
  ASSUME IInv
  PROVE  handed \in [Indices -> Nat]
BY DEF IInv, RoundsOK, Rounds

(* A worker in BuildRequest has a request.                                 *)
LEMMA BuildHas ==
  ASSUME NEW w \in Workers, BuildStep(w)
  PROVE  Has(w)
<1> USE FieldPlaces, OuterPlaces DEF Has, Goto, Die
<1>0. "headers" \notin {"idle", "next"} /\ "query" \notin {"idle", "next"}
  OBVIOUS
<1>1. CASE BuildError(w) \/ BeginHeaders(w) \/ FinishHeaders(w)
           \/ FinishQuery(w) \/ Sent(w)
  BY <1>0, <1>1 DEF BuildError, BeginHeaders, FinishHeaders, FinishQuery, Sent
<1>2. ASSUME NEW f \in Fields, FieldStep(w, f) PROVE Has(w)
  <2>1. pc[w] \in {f, Assigning(f), Writing(f), Storing(f)}
    BY <1>2 DEF FieldStep, KeyThere, BeginWrite, FindSlot, PutKey, StoreValue,
       WriteToNil, RaceNoticed, TornValue
  <2>2. {f, Assigning(f), Writing(f), Storing(f)} \cap {"idle", "next"} = {}
    OBVIOUS
  <2> QED  BY <2>1, <2>2
<1> QED  BY <1>1, <1>2 DEF BuildStep

(* Steps that hand out nothing.                                            *)
LEMMA HoldFrame ==
  ASSUME HoldOK, AloneOK, handed' = handed, cur' = cur,
         \A v \in Workers : Has(v)' => Has(v)
  PROVE  HoldOK' /\ AloneOK'
BY DEF HoldOK, AloneOK

(* A request handed out for the first time was nobody's.                   *)
LEMMA HoldStep ==
  ASSUME IInv, CompleteInv, [Next]_vars
  PROVE  HoldOK' /\ AloneOK'
<1> USE DEF CompleteInv
<1>1. WorkersOK /\ handed \in [Indices -> Nat]
  BY HandedType DEF IInv
<1>2. ASSUME NEW w \in Workers, Step(w) PROVE HoldOK' /\ AloneOK'
  <2>1. CASE LockPool(w)
    <3>1. /\ handed' = handed /\ cur' = cur
          /\ pc' = [pc EXCEPT ![w] = "next"]
      BY <2>1 DEF LockPool, Goto, local
    <3> QED  BY <1>1, <3>1, HoldFrame DEF Has, WorkersOK
  <2>2. CASE ReadIndex(w)
    <3> DEFINE r == idx % NumRequests
    <3>1. r \in Indices
      <4>1. idx \in Nat
        BY Constants DEF IInv, RoundsOK
      <4> QED  BY <4>1, Constants, NextRemainder DEF Indices
    <3>2. /\ cur' = [cur EXCEPT ![w] = r]
          /\ handed' = [handed EXCEPT ![r] = @ + 1]
          /\ pc' = [pc EXCEPT ![w] = "advance"]
      BY <2>2 DEF ReadIndex, Goto
    <3> HIDE DEF r
    <3>3. ASSUME NEW v \in Workers, v # w
          PROVE  cur'[v] = cur[v] /\ pc'[v] = pc[v] /\ cur[v] \in Indices
      BY <1>1, <3>2, <3>3 DEF WorkersOK
    <3>4. cur'[w] = r /\ handed'[r] = handed[r] + 1 /\ handed[r] \in Nat
      BY <1>1, <3>1, <3>2 DEF WorkersOK
    <3>5. \A i \in Indices : handed'[i] >= handed[i] /\ handed[i] \in Nat
                             /\ handed'[i] \in Nat
      BY <1>1, <3>1, <3>2
    <3>6. HoldOK'
      <4>1. ASSUME NEW v \in Workers, v # w, Has(v)
            PROVE  handed'[cur'[v]] >= 1
        <5>1. handed[cur[v]] >= 1
          BY <4>1 DEF HoldOK
        <5> QED  BY <3>3, <3>5, <4>1, <5>1
      <4>2. handed'[cur'[w]] >= 1
        BY <3>4
      <4> QED  BY <3>3, <4>1, <4>2 DEF HoldOK, Has
    <3>7. AloneOK'
      <4>1. ASSUME NEW v \in Workers, v # w, Has(v), cur[v] = r
            PROVE  handed'[r] # 1
        <5>1. handed[r] >= 1
          BY <4>1 DEF HoldOK
        <5> QED  BY <3>4, <5>1
      <4>2. ASSUME NEW u \in Workers, NEW v \in Workers, u # w, v # w,
                   Has(u), Has(v), cur[v] = cur[u], handed'[cur[u]] = 1
            PROVE  v = u
        <5>1. handed[cur[u]] >= 1
          BY <4>2 DEF HoldOK
        <5>2. handed[cur[u]] = 1
          BY <3>3, <3>5, <4>2, <5>1
        <5> QED  BY <4>2, <5>2 DEF AloneOK
      <4>3. ASSUME NEW u \in Workers, NEW v \in Workers, Has(u)', Has(v)',
                   cur'[v] = cur'[u], handed'[cur'[u]] = 1
            PROVE  v = u
        <5>1. CASE u = w /\ v # w
          BY <3>3, <3>4, <4>1, <4>3, <5>1 DEF Has
        <5>2. CASE u # w /\ v = w
          BY <3>3, <3>4, <4>1, <4>3, <5>2 DEF Has
        <5>3. CASE u # w /\ v # w
          BY <3>3, <4>2, <4>3, <5>3 DEF Has
        <5> QED  BY <5>1, <5>2, <5>3
      <4> QED  BY <4>3 DEF AloneOK
    <3> QED  BY <3>6, <3>7
  <2>3. CASE Advance(w)
    <3>1. /\ handed' = handed /\ cur' = cur /\ pc[w] = "advance"
          /\ pc' = [pc EXCEPT ![w] = "build"]
      BY <2>3 DEF Advance, Goto, local
    <3> QED  BY <1>1, <3>1, HoldFrame DEF Has, WorkersOK
  <2>4. CASE BuildStep(w)
    <3>1. /\ handed' = handed /\ cur' = cur /\ Has(w)
          /\ \A v \in Workers \ {w} : pc'[v] = pc[v]
      BY <1>1, <2>4, BuildFrame, BuildHas
    <3> QED  BY <3>1, HoldFrame DEF Has
  <2> QED  BY <1>2, <2>1, <2>2, <2>3, <2>4, StepKinds
<1>3. CASE UNCHANGED vars
  BY <1>3, HoldFrame DEF Has, vars, pool, local
<1> QED  BY <1>2, <1>3 DEF Next

(* A worker's place, request, loop and copies are its own.                 *)
LEMMA OthersFrame ==
  ASSUME IInv, NEW w \in Workers, Step(w), NEW v \in Workers, v # w
  PROVE  UNCHANGED <<pc[v], cur[v], todo[v], key[v], slot[v], built[v]>>
<1> USE DEF IInv
<1>1. CASE LockPool(w) \/ ReadIndex(w) \/ Advance(w)
  BY <1>1, PoolFrame
<1>2. CASE BuildError(w)
  BY <1>2 DEF BuildError, Goto, local, WorkersOK
<1>3. CASE BeginHeaders(w) \/ FinishHeaders(w) \/ FinishQuery(w) \/ Sent(w)
  <2>1. UNCHANGED <<pc[v], cur[v], todo[v], key[v], slot[v]>>
    BY <1>3 DEF BeginHeaders, FinishHeaders, FinishQuery, Sent, Goto, WorkersOK,
       LoopOK
  <2>2. CASE BeginHeaders(w)
    BY <2>1, <2>2 DEF BeginHeaders
  <2>3. CASE FinishHeaders(w)
    <3>1. PICK c : built' = [built EXCEPT ![w]["headers"] = SetToken(w, c)]
      BY <2>3 DEF FinishHeaders
    <3> QED  BY <2>1, <3>1 DEF CopiesOK, ShapeOK
  <2>4. CASE FinishQuery(w)
    <3>1. PICK c : built' = [built EXCEPT ![w]["query"] = c,
                     ![w]["headers"] = SetTimeout(w, built[w]["headers"])]
      BY <2>4 DEF FinishQuery, CopiesOK, ShapeOK, Fields
    <3> QED  BY <2>1, <3>1 DEF CopiesOK, ShapeOK
  <2>5. CASE Sent(w)
    BY <2>1, <2>5 DEF Sent, CopiesOK, ShapeOK
  <2> QED  BY <1>3, <2>2, <2>3, <2>4, <2>5
<1>4. ASSUME NEW f \in Fields, FieldStep(w, f)
      PROVE  UNCHANGED <<pc[v], cur[v], todo[v], key[v], slot[v], built[v]>>
  BY <1>4, FieldFrame DEF FieldFramed
<1> QED  BY <1>1, <1>2, <1>3, <1>4 DEF Step

(* No request is taken back.                                               *)
LEMMA HandedGrows ==
  ASSUME IInv, NEW w \in Workers, Step(w), NEW i \in Indices
  PROVE  handed[i] \in Nat /\ handed'[i] \in Nat /\ handed'[i] >= handed[i]
<1>1. handed \in [Indices -> Nat]
  BY HandedType
<1>2. CASE ReadIndex(w)
  <2> DEFINE r == idx % NumRequests
  <2>1. handed' = [handed EXCEPT ![r] = @ + 1]
    BY <1>2 DEF ReadIndex
  <2> HIDE DEF r
  <2> QED  BY <1>1, <2>1
<1>3. CASE LockPool(w) \/ Advance(w)
  BY <1>1, <1>3 DEF LockPool, Advance
<1>4. CASE BuildStep(w)
  BY <1>1, <1>4, BuildFrame DEF IInv
<1> QED  BY <1>2, <1>3, <1>4, StepKinds

(* A step of another worker takes nothing from a request handed out once.  *)
LEMMA OthersKeepDone ==
  ASSUME IInv, CompleteInv, NEW w \in Workers, Step(w),
         NEW v \in Workers, v # w, handed'[cur'[v]] = 1
  PROVE  LoopComplete(v)' /\ CopyComplete(v)'
<1>1. UNCHANGED <<pc[v], cur[v], todo[v], key[v], slot[v], built[v]>>
  BY OthersFrame
<1>2. CASE ~Has(v)
  <2>1. pc'[v] \in {"idle", "next"}
    BY <1>1, <1>2 DEF Has
  <2>2. \A f \in Fields : pc'[v] \notin Loop(f) /\ pc'[v] # "built"
    BY <2>1, FieldPlaces
  <2>3. \A f \in Fields :
          pc'[v] \notin {Assigning(f), Writing(f)} /\ pc'[v] # Storing(f)
    BY <2>2, FieldPlaces
  <2> QED  BY <2>2, <2>3, OuterPlaces DEF LoopComplete, CopyComplete
<1>3. CASE Has(v)
  <2>1. cur[v] \in Indices
    BY DEF IInv, WorkersOK
  <2>2. handed[cur[v]] >= 1 /\ handed[cur[v]] \in Nat
    BY <1>3, <2>1, HandedType DEF CompleteInv, HoldOK
  <2>4. handed[cur[v]] = 1
    BY <1>1, <2>1, <2>2, HandedGrows
  <2>5. LoopComplete(v) /\ CopyComplete(v)
    BY <2>4 DEF CompleteInv, DoneOK
  <2>6. \A f \in Fields : maps'[cur[v]][f] = maps[cur[v]][f]
    <3>1. CASE \E f \in Fields : PutKey(w, f) \/ StoreValue(w, f)
      <4>1. PICK f \in Fields : PutKey(w, f) \/ StoreValue(w, f)
        BY <3>1
      <4>2. Has(w)
        BY <4>1, BuildHas DEF BuildStep, FieldStep
      <4>3. cur[w] # cur[v]
        BY <1>3, <2>4, <4>2 DEF CompleteInv, AloneOK
      <4>4. Written(w, f)
        BY <4>1, MapWritten DEF IInv
      <4> QED  BY <2>1, <4>3, <4>4 DEF Written
    <3>2. CASE ~\E f \in Fields : PutKey(w, f) \/ StoreValue(w, f)
      BY <3>2, MapsFrame
    <3> QED  BY <3>1, <3>2
  <2>7. LoopComplete(v)'
    BY <1>1, <2>5, <2>6 DEF LoopComplete
  <2>8. CopyComplete(v)'
    BY <1>1, <2>5 DEF CopyComplete
  <2> QED  BY <2>7, <2>8
<1> QED  BY <1>2, <1>3

(* What a map has behind a key that is put into its first empty slot.      *)
LEMMA PutKeys ==
  ASSUME NEW i \in Indices, NEW f \in Fields, NEW m, Filled(i, f, m),
         NEW k \in Lacked(i, f), NEW s, s = Len(m) + 1
  PROVE  /\ Keys(Put(m, s, k)) = Keys(m) \cup {k}
         /\ Len(Put(m, s, k)) = Len(m) + 1
         /\ Put(m, s, k)[s].key = k
         /\ \A t \in 1 .. Len(m) : Put(m, s, k)[t] = m[t]
<1> DEFINE p == Put(m, s, k)
<1>1. Len(m) \in Nat /\ Len(Own[i][f]) \in Nat /\ Len(m) >= Len(Own[i][f])
      /\ DOMAIN m = 1 .. Len(m)
  BY DEF Filled
<1>2. s \in (Len(Own[i][f]) + 1) .. (Len(m) + 1)
  BY <1>1
<1>3. /\ Filled(i, f, p) /\ Len(p) = Len(m) + 1
      /\ \A t \in 1 .. Len(p) : IF t = s THEN p[t].key = k ELSE p[t] = m[t]
  BY <1>1, <1>2, PutLemma
<1> HIDE DEF p
<1>4. DOMAIN p = 1 .. (Len(m) + 1)
  BY <1>1, <1>3 DEF Filled
<1>5. \A t \in 1 .. Len(m) : t \in 1 .. Len(p) /\ t # s
  BY <1>1, <1>3
<1>6. \A t \in 1 .. Len(m) : p[t] = m[t]
  BY <1>3, <1>5
<1>7. s \in 1 .. Len(p)
  BY <1>1, <1>3
<1>8. p[s].key = k
  BY <1>3, <1>7
<1>9. Keys(p) = Keys(m) \cup {k}
  <2>1. \A t \in DOMAIN p : t \in DOMAIN m \/ t = s
    BY <1>1, <1>4
  <2>2. \A t \in DOMAIN m : t \in DOMAIN p
    BY <1>1, <1>4
  <2>3. s \in DOMAIN p
    BY <1>1, <1>4
  <2> QED  BY <1>1, <1>6, <1>8, <2>1, <2>2, <2>3, Zenon DEF Keys
<1> QED  BY <1>3, <1>6, <1>8, <1>9 DEF p

(* A value stored changes no key.                                          *)
LEMMA StoreKeys ==
  ASSUME NEW i \in Indices, NEW f \in Fields, NEW m, Filled(i, f, m),
         NEW s \in (Len(Own[i][f]) + 1) .. Len(m), NEW k \in Lacked(i, f)
  PROVE  Keys(Store(m, s, k)) = Keys(m)
<1> DEFINE p == Store(m, s, k)
<1>1. /\ Filled(i, f, p) /\ Len(p) = Len(m)
      /\ \A t \in 1 .. Len(m) : p[t] = IF t = s THEN Entry(m[s].key, k) ELSE m[t]
  BY StoreLemma
<1> HIDE DEF p
<1>2. DOMAIN p = 1 .. Len(m) /\ DOMAIN m = 1 .. Len(m)
  BY <1>1 DEF Filled
<1>3. \A t \in 1 .. Len(m) : p[t].key = m[t].key
  BY <1>1 DEF Entry
<1>4. Keys(p) = Keys(m)
  BY <1>2, <1>3, Zenon DEF Keys
<1> QED  BY <1>4 DEF p

(* A step in the loop of a field: a key leaves todo when it is in the map. *)
LEMMA FieldKeepsDone ==
  ASSUME IInv, CompleteInv, NEW w \in Workers, NEW f \in Fields,
         FieldStep(w, f), handed[cur[w]] = 1
  PROVE  LoopComplete(w)' /\ CopyComplete(w)'
<1> USE DEF IInv
<1> DEFINE m == maps[cur[w]][f]
<1> DEFINE n == maps'[cur[w]][f]
<1>1. FieldFramed(w, f)
  BY FieldFrame
<1>2. cur[w] \in Indices /\ Filled(cur[w], f, m)
  BY DEF WorkersOK, MapsOK
<1>3. LoopComplete(w) /\ CopyComplete(w)
  BY DEF CompleteInv, DoneOK
<1>4. /\ Defaults[f] \subseteq todo[w] \cup Keys(m)
      /\ pc[w] \in {Assigning(f), Writing(f)} => key[w] \notin Keys(m)
      /\ pc[w] = Writing(f) => slot[w] = Len(m) + 1
      /\ pc[w] = Storing(f) => m[slot[w]].key = key[w]
  BY <1>1, <1>3 DEF LoopComplete, FieldFramed
<1>5. /\ Defaults[f] \subseteq todo'[w] \cup Keys(n)
      /\ pc'[w] \in {Assigning(f), Writing(f)} => key'[w] \notin Keys(n)
      /\ pc'[w] = Writing(f) => slot'[w] = Len(n) + 1
      /\ pc'[w] = Storing(f) => n[slot'[w]].key = key'[w]
  <2> DEFINE places == {f, Assigning(f), Writing(f), Storing(f)}
  <2>0. /\ f # Assigning(f) /\ f # Writing(f) /\ f # Storing(f)
        /\ Assigning(f) # Writing(f) /\ Assigning(f) # Storing(f)
        /\ Writing(f) # Storing(f)
    BY FieldPlaces
  <2>1. CASE KeyThere(w, f)
    <3>1. PICK k \in todo[w] \cap Keys(m) :
            todo' = [todo EXCEPT ![w] = @ \ {k}] /\ maps' = maps
      BY <2>1 DEF KeyThere
    <3>2. todo'[w] = todo[w] \ {k} /\ pc'[w] = f
      BY <2>1, <3>1 DEF LoopOK, KeyThere, Goto, WorkersOK
    <3> QED  BY <1>4, <2>0, <3>1, <3>2
  <2>2. CASE BeginWrite(w, f)
    <3>1. PICK k \in todo[w] \ Keys(m) :
            /\ key' = [key EXCEPT ![w] = k] /\ maps' = maps /\ todo' = todo
            /\ pc' = [pc EXCEPT ![w] = Assigning(f)]
      BY <2>2 DEF BeginWrite, Goto
    <3>2. key'[w] = k /\ pc'[w] = Assigning(f)
      BY <3>1 DEF LoopOK, WorkersOK
    <3> QED  BY <1>4, <2>0, <3>1, <3>2
  <2>3. CASE FindSlot(w, f)
    <3>1. /\ maps' = maps /\ todo' = todo /\ key' = key
          /\ pc[w] = Assigning(f) /\ pc'[w] = Writing(f)
          /\ slot'[w] = SlotOf(m, key[w])
      BY <2>3 DEF FindSlot, Goto, WorkersOK, LoopOK
    <3>2. slot'[w] = Len(m) + 1
      BY <1>2, <1>4, <3>1, SlotIsThere DEF Filled
    <3> QED  BY <1>4, <2>0, <3>1, <3>2
  <2>4. CASE PutKey(w, f)
    <3>1. /\ pc[w] = Writing(f) /\ pc'[w] = Storing(f)
          /\ todo' = todo /\ key' = key /\ slot' = slot
      BY <2>4 DEF PutKey, Goto, WorkersOK, local
    <3>2. /\ n = Put(m, slot[w], key[w]) /\ key[w] \in Lacked(cur[w], f)
          /\ slot[w] = Len(m) + 1
      BY <1>2, <1>4, <2>4, <3>1, MapWritten, WriterHas DEF Written
    <3>3. Keys(n) = Keys(m) \cup {key[w]} /\ n[slot[w]].key = key[w]
      <4> DEFINE i == cur[w]
      <4> DEFINE k == key[w]
      <4> DEFINE s == slot[w]
      <4>1. /\ i \in Indices /\ Filled(i, f, m) /\ k \in Lacked(i, f)
            /\ s = Len(m) + 1 /\ n = Put(m, s, k)
        BY <1>2, <3>2
      <4> HIDE DEF m, n, i, k, s
      <4>2. /\ Keys(Put(m, s, k)) = Keys(m) \cup {k}
            /\ Put(m, s, k)[s].key = k
        BY <4>1, PutKeys
      <4>3. Keys(n) = Keys(m) \cup {k} /\ n[s].key = k
        BY <4>1, <4>2
      <4> QED  BY <4>3 DEF i, k, s
    <3> HIDE DEF n
    <3> QED  BY <1>4, <2>0, <3>1, <3>2, <3>3
  <2>5. CASE StoreValue(w, f)
    <3>1. pc[w] = Storing(f) /\ pc'[w] = f /\ todo'[w] = todo[w] \ {key[w]}
      BY <2>5 DEF StoreValue, Goto, WorkersOK, LoopOK
    <3>2. /\ n = Store(m, slot[w], key[w]) /\ key[w] \in Lacked(cur[w], f)
          /\ slot[w] \in (Len(Own[cur[w]][f]) + 1) .. Len(m)
      BY <1>2, <2>0, <2>5, <3>1, MapWritten, WriterHas DEF Written
    <3>3. Keys(n) = Keys(m)
      BY <1>2, <3>2, StoreKeys
    <3>4. key[w] \in Keys(m)
      <4>1. slot[w] \in DOMAIN m
        BY <1>2, <3>2 DEF Filled
      <4> QED  BY <1>4, <3>1, <4>1 DEF Keys
    <3> HIDE DEF n
    <3> QED  BY <1>4, <2>0, <3>1, <3>3, <3>4
  <2>6. CASE WriteToNil(w, f) \/ RaceNoticed(w, f) \/ TornValue(w, f)
    BY <1>1, <1>4, <2>6 DEF WriteToNil, RaceNoticed, TornValue, Die, local
  <2> QED  BY <2>1, <2>2, <2>3, <2>4, <2>5, <2>6 DEF FieldStep
<1>6. LoopComplete(w)'
  <2>1. ASSUME NEW g \in Fields, g # f
        PROVE  pc'[w] \notin Loop(g) /\ pc'[w] \notin {Assigning(g), Writing(g)}
               /\ pc'[w] # Storing(g)
    BY <1>1, <2>1, FieldPlaces DEF FieldFramed
  <2>2. cur'[w] = cur[w]
    BY <1>1 DEF FieldFramed
  <2> QED  BY <1>5, <2>1, <2>2 DEF LoopComplete
<1>7. CopyComplete(w)'
  <2>1. pc'[w] # "built" /\ cur' = cur /\ built' = built
        /\ (pc'[w] \in Loop("query") => pc[w] \in Loop("query"))
    BY <1>1, FieldPlaces, OuterPlaces DEF FieldFramed
  <2> QED  BY <1>3, <2>1 DEF CopyComplete
<1> QED  BY <1>6, <1>7

(* A worker that has left the loop of a field alone finds its map exact.   *)
LEMMA AloneExact ==
  ASSUME IInv, CompleteInv, NEW w \in Workers, NEW f \in Fields, pc[w] = f,
         handed[cur[w]] = 1
  PROVE  Exact(cur[w], f, maps[cur[w]][f])
<1>1. cur[w] \in Indices /\ Has(w)
  BY FieldPlaces DEF IInv, WorkersOK, Has
<1>2. ASSUME NEW u \in Workers, cur[u] = cur[w], pc[u] = Storing(f)
      PROVE  FALSE
  <2>1. Has(u)
    BY <1>2, FieldPlaces DEF Has
  <2>2. u = w
    BY <1>1, <1>2, <2>1 DEF CompleteInv, AloneOK
  <2> QED  BY <1>2, <2>2, FieldPlaces
<1> QED  BY <1>1, <1>2 DEF CompleteInv, ExactOK, Exact

(* A worker's own step outside the loops.                                  *)
LEMMA OwnKeepsDone ==
  ASSUME IInv, CompleteInv, NEW w \in Workers, Step(w), handed'[cur'[w]] = 1
  PROVE  LoopComplete(w)' /\ CopyComplete(w)'
<1> USE DEF IInv
<1>1. ASSUME pc'[w] \in {"idle", "next", "advance", "build"}
      PROVE  LoopComplete(w)' /\ CopyComplete(w)'
  <2>1. \A f \in Fields : pc'[w] \notin Loop(f)
    BY <1>1, FieldPlaces
  <2>2. \A f \in Fields :
          pc'[w] \notin {Assigning(f), Writing(f)} /\ pc'[w] # Storing(f)
    BY <2>1, FieldPlaces
  <2> QED  BY <1>1, <2>1, <2>2, OuterPlaces DEF LoopComplete, CopyComplete
<1>2. CASE LockPool(w) \/ ReadIndex(w) \/ Advance(w)
  BY <1>1, <1>2, PoolFrame
<1>3. CASE BuildError(w) \/ Sent(w)
  <2>1. pc'[w] = "idle"
    BY <1>3 DEF BuildError, Sent, Goto, WorkersOK
  <2> QED  BY <1>1, <2>1
<1>8. ASSUME NEW f \in Fields, pc'[w] = f, todo'[w] = Defaults[f]
      PROVE  LoopComplete(w)'
  <2>1. \A g \in Fields :
          /\ pc'[w] \in Loop(g) => g = f
          /\ pc'[w] \notin {Assigning(g), Writing(g)} /\ pc'[w] # Storing(g)
    BY <1>8, FieldPlaces
  <2> QED  BY <1>8, <2>1 DEF LoopComplete
<1>4. CASE BeginHeaders(w)
  <2>1. pc'[w] = "headers" /\ todo'[w] = Defaults["headers"]
    BY <1>4 DEF BeginHeaders, Goto, WorkersOK, LoopOK
  <2>2. pc'[w] \notin Loop("query") /\ pc'[w] # "built"
    BY <2>1 DEF Loop, Assigning, Writing, Storing
  <2> QED  BY <1>8, <2>1, <2>2, OuterPlaces DEF CopyComplete
<1>5. CASE FinishHeaders(w)
  <2>1. /\ pc[w] = "headers" /\ pc'[w] = "query" /\ todo[w] = {}
        /\ todo'[w] = Defaults["query"]
        /\ handed' = handed /\ cur' = cur
    BY <1>5 DEF FinishHeaders, Goto, WorkersOK, LoopOK, pool
  <2>2. PICK c \in Copies("headers", maps[cur[w]]["headers"]) :
          built'[w]["headers"] = SetToken(w, c)
    BY <1>5 DEF FinishHeaders, CopiesOK, ShapeOK, Fields
  <2>3. LoopComplete(w)
    BY <2>1 DEF CompleteInv, DoneOK
  <2>4. Defaults["headers"] \subseteq Keys(maps[cur[w]]["headers"])
    BY <2>1, <2>3, OuterPlaces DEF LoopComplete
  <2>5. Exact(cur[w], "headers", maps[cur[w]]["headers"])
    BY <2>1, AloneExact, OuterPlaces
  <2>6. /\ DOMAIN c = Names("headers", Keys(maps[cur[w]]["headers"]))
        /\ CopyRight(cur[w], "headers", c, FALSE)
    BY <2>5, CopySources, OuterPlaces DEF WorkersOK, MapsOK
  <2>7. /\ TokenRight(cur[w], SetToken(w, c), FALSE)
        /\ DOMAIN c \subseteq DOMAIN SetToken(w, c)
    BY <2>6, CopyHeaders DEF WorkersOK
  <2>8. Names("headers", Defaults["headers"]) \subseteq DOMAIN c
    BY <2>4, <2>6 DEF Names
  <2>9. LoopComplete(w)'
    BY <1>8, <2>1, OuterPlaces
  <2>10. CopyComplete(w)'
    BY <2>1, <2>2, <2>7, <2>8 DEF CopyComplete
  <2> QED  BY <2>9, <2>10
<1>6. CASE FinishQuery(w)
  <2>1. /\ pc[w] = "query" /\ pc'[w] = "built" /\ todo[w] = {}
        /\ handed' = handed /\ cur' = cur
    BY <1>6 DEF FinishQuery, Goto, WorkersOK, pool
  <2>2. PICK c \in Copies("query", maps[cur[w]]["query"]) :
          /\ built'[w]["query"] = c
          /\ built'[w]["headers"] = SetTimeout(w, built[w]["headers"])
    BY <1>6 DEF FinishQuery, CopiesOK, ShapeOK, Fields
  <2>3. LoopComplete(w) /\ CopyComplete(w)
    BY <2>1 DEF CompleteInv, DoneOK
  <2>4. Defaults["query"] \subseteq Keys(maps[cur[w]]["query"])
    BY <2>1, <2>3, OuterPlaces DEF LoopComplete
  <2>5. Exact(cur[w], "query", maps[cur[w]]["query"])
    BY <2>1, AloneExact, OuterPlaces
  <2>6. /\ DOMAIN c = Names("query", Keys(maps[cur[w]]["query"]))
        /\ CopyRight(cur[w], "query", c, FALSE)
    BY <2>5, CopySources, OuterPlaces DEF WorkersOK, MapsOK
  <2>7. /\ Names("query", Defaults["query"]) \subseteq DOMAIN c
        /\ Right(cur[w], "query", c, FALSE)
    BY <2>4, <2>6, CopyQuery DEF Names, WorkersOK
  <2>8. /\ Names("headers", Defaults["headers"]) \subseteq DOMAIN built[w]["headers"]
        /\ TokenRight(cur[w], built[w]["headers"], FALSE)
    BY <2>1, <2>3, OuterPlaces DEF CopyComplete
  <2>9. /\ Names("headers", Defaults["headers"])
             \subseteq DOMAIN built'[w]["headers"]
        /\ Right(cur[w], "headers", built'[w]["headers"], FALSE)
    BY <2>2, <2>8, TimeoutHeader, OuterPlaces DEF WorkersOK, CopiesOK, ShapeOK
  <2>10. LoopComplete(w)'
    <3>1. \A g \in Fields :
            /\ pc'[w] \notin Loop(g)
            /\ pc'[w] \notin {Assigning(g), Writing(g)} /\ pc'[w] # Storing(g)
      BY <2>1, FieldPlaces
    <3> QED  BY <3>1 DEF LoopComplete
  <2>11. \A f \in Fields :
           /\ Names(f, Defaults[f]) \subseteq DOMAIN built'[w][f]
           /\ Right(cur[w], f, built'[w][f], FALSE)
    BY <2>2, <2>7, <2>9 DEF Fields
  <2>12. pc'[w] \notin Loop("query")
    BY <2>1, FieldPlaces, OuterPlaces
  <2>13. CopyComplete(w)'
    BY <2>1, <2>11, <2>12 DEF CopyComplete, Right
  <2> QED  BY <2>10, <2>13
<1>7. ASSUME NEW f \in Fields, FieldStep(w, f)
      PROVE  LoopComplete(w)' /\ CopyComplete(w)'
  <2>1. BuildStep(w)
    BY <1>7 DEF BuildStep
  <2>2. handed' = handed /\ cur' = cur
    BY <2>1, BuildFrame
  <2> QED  BY <1>7, <2>2, FieldKeepsDone
<1> QED  BY <1>2, <1>3, <1>4, <1>5, <1>6, <1>7 DEF Step

(* No step of anyone takes a default from a request handed out once.       *)
LEMMA DoneStep ==
  ASSUME IInv, CompleteInv, [Next]_vars
  PROVE  DoneOK'
<1>1. ASSUME NEW w \in Workers, Step(w) PROVE DoneOK'
  <2>1. ASSUME NEW v \in Workers, handed'[cur'[v]] = 1
        PROVE  LoopComplete(v)' /\ CopyComplete(v)'
    BY <1>1, <2>1, OthersKeepDone, OwnKeepsDone
  <2> QED  BY <2>1 DEF DoneOK
<1>2. CASE UNCHANGED vars
  BY <1>2 DEF CompleteInv, DoneOK, LoopComplete, CopyComplete, vars, pool, local
<1> QED  BY <1>1, <1>2 DEF Next

(* A worker at the store of a value keeps its place, slot and request,     *)
(* until it stores the value.                                              *)
LEMMA StorersFrame ==
  ASSUME IInv, NEW w \in Workers, Step(w), NEW u \in Workers, NEW f \in Fields,
         pc[u] = Storing(f), ~(u = w /\ StoreValue(w, f))
  PROVE  UNCHANGED <<pc[u], cur[u], slot[u]>>
<1>1. CASE u # w
  BY <1>1, OthersFrame
<1>2. CASE u = w
  <2>1. pc[w] \notin {"idle", "next", "advance", "build", "built",
                     "headers", "query"}
    BY <1>2, FieldPlaces DEF Fields, Storing
  <2>2. ~(LockPool(w) \/ ReadIndex(w) \/ Advance(w) \/ BuildError(w)
          \/ BeginHeaders(w) \/ FinishHeaders(w) \/ FinishQuery(w) \/ Sent(w))
    BY <2>1 DEF LockPool, ReadIndex, Advance, BuildError, BeginHeaders,
       FinishHeaders, FinishQuery, Sent, Goto
  <2>3. PICK g \in Fields : FieldStep(w, g)
    BY <2>2 DEF Step
  <2>4. pc[w] \in Loop(g)
    BY <2>3, FieldFrame DEF FieldFramed, IInv
  <2>5. g = f
    BY <1>2, <2>4, FieldPlaces
  <2>6. pc[w] \notin {f, Assigning(f), Writing(f)}
    BY <1>2, FieldPlaces
  <2>7. ~(KeyThere(w, f) \/ BeginWrite(w, f) \/ FindSlot(w, f) \/ PutKey(w, f))
    BY <2>6 DEF KeyThere, BeginWrite, FindSlot, PutKey, Goto
  <2>8. WriteToNil(w, f) \/ RaceNoticed(w, f) \/ TornValue(w, f)
    BY <1>2, <2>3, <2>5, <2>7 DEF FieldStep
  <2> QED  BY <1>2, <2>8 DEF WriteToNil, RaceNoticed, TornValue, Die, local
<1> QED  BY <1>1, <1>2

(* The slots of a request handed out once stay exact.                      *)
LEMMA ExactStep ==
  ASSUME IInv, CompleteInv, [Next]_vars
  PROVE  ExactOK'
<1> DEFINE Set(i, f, s) == maps[i][f][s].value = maps[i][f][s].key
<1> DEFINE Stored(i, f, s) ==
      \E u \in Workers : cur[u] = i /\ pc[u] = Storing(f) /\ slot[u] = s
<1> DEFINE OK(i, f, s) == (s > Len(Own[i][f]) => Set(i, f, s)) \/ Stored(i, f, s)
<1>1. ASSUME NEW w \in Workers, Step(w), NEW i \in Indices, NEW f \in Fields,
             handed'[i] <= 1, NEW s \in 1 .. Len(maps'[i][f])
      PROVE  OK(i, f, s)'
  <2>1. handed[i] <= 1 /\ Len(maps[i][f]) \in Nat
    BY <1>1, HandedGrows DEF IInv, MapsOK, Filled
  <2>2. \A t \in 1 .. Len(maps[i][f]) : OK(i, f, t)
    BY <2>1 DEF CompleteInv, ExactOK
  <2>3. ASSUME Stored(i, f, s), ~StoreValue(w, f) PROVE Stored(i, f, s)'
    <3>1. PICK u \in Workers : cur[u] = i /\ pc[u] = Storing(f) /\ slot[u] = s
      BY <2>3
    <3>2. UNCHANGED <<pc[u], cur[u], slot[u]>>
      BY <1>1, <2>3, <3>1, StorersFrame
    <3> QED  BY <3>1, <3>2
  <2>4. ASSUME maps'[i][f] = maps[i][f], ~StoreValue(w, f)
        PROVE  OK(i, f, s)'
    BY <2>2, <2>3, <2>4
  <2>5. CASE PutKey(w, f) /\ cur[w] = i
    <3>1. /\ pc[w] = Writing(f) /\ pc'[w] = Storing(f)
          /\ cur' = cur /\ slot' = slot
      BY <2>5 DEF PutKey, Goto, local, IInv, WorkersOK
    <3>2. Has(w) /\ handed[i] = 1
      <4>1. Has(w)
        BY <3>1, FieldPlaces DEF Has
      <4>2. handed[i] >= 1 /\ handed[i] \in Nat
        BY <1>1, <2>5, <4>1, HandedGrows DEF CompleteInv, HoldOK
      <4> QED  BY <2>1, <4>1, <4>2
    <3>3. slot[w] = Len(maps[i][f]) + 1
      BY <2>5, <3>1, <3>2 DEF CompleteInv, DoneOK, LoopComplete
    <3>4. /\ maps'[i][f] = Put(maps[i][f], slot[w], key[w])
          /\ key[w] \in Lacked(i, f) /\ Filled(i, f, maps[i][f])
      BY <2>5, <3>1, MapWritten, WriterHas DEF Written, IInv
    <3>5. /\ Len(maps'[i][f]) = Len(maps[i][f]) + 1
          /\ \A t \in 1 .. Len(maps[i][f]) : maps'[i][f][t] = maps[i][f][t]
      BY <3>3, <3>4, PutKeys
    <3>6. CASE s = Len(maps[i][f]) + 1
      BY <2>5, <3>1, <3>3, <3>6
    <3>7. CASE s # Len(maps[i][f]) + 1
      <4>1. s \in 1 .. Len(maps[i][f])
        BY <2>1, <3>5, <3>7
      <4>2. ~StoreValue(w, f)
        BY <3>1, FieldPlaces DEF StoreValue, Goto
      <4>3. maps'[i][f][s] = maps[i][f][s]
        BY <3>5, <4>1
      <4> QED  BY <2>2, <2>3, <4>1, <4>2, <4>3
    <3> QED  BY <3>6, <3>7
  <2>6. CASE StoreValue(w, f) /\ cur[w] = i
    <3>1. pc[w] = Storing(f) /\ pc[w] # Writing(f)
      BY <2>6, FieldPlaces DEF StoreValue, Goto
    <3>2. Has(w) /\ handed[i] = 1
      <4>1. Has(w)
        BY <3>1, FieldPlaces DEF Has
      <4>2. handed[i] >= 1 /\ handed[i] \in Nat
        BY <1>1, <2>6, <4>1, HandedGrows DEF CompleteInv, HoldOK
      <4> QED  BY <2>1, <4>1, <4>2
    <3>3. maps[i][f][slot[w]].key = key[w]
      BY <2>6, <3>1, <3>2 DEF CompleteInv, DoneOK, LoopComplete
    <3>4. /\ maps'[i][f] = Store(maps[i][f], slot[w], key[w])
          /\ key[w] \in Lacked(i, f) /\ Filled(i, f, maps[i][f])
          /\ slot[w] \in (Len(Own[i][f]) + 1) .. Len(maps[i][f])
      BY <2>6, <3>1, MapWritten, WriterHas DEF Written, IInv
    <3>5. /\ Len(maps'[i][f]) = Len(maps[i][f])
          /\ \A t \in 1 .. Len(maps[i][f]) : maps'[i][f][t] =
               IF t = slot[w] THEN Entry(maps[i][f][slot[w]].key, key[w])
               ELSE maps[i][f][t]
      BY <3>4, StoreLemma
    <3>6. CASE s = slot[w]
      <4>1. maps'[i][f][s] = Entry(key[w], key[w])
        BY <3>3, <3>5, <3>6
      <4> QED  BY <4>1 DEF Entry
    <3>7. CASE s # slot[w]
      <4>1. ~Stored(i, f, s)
        <5>1. ASSUME NEW u \in Workers, cur[u] = i, pc[u] = Storing(f),
                     slot[u] = s
              PROVE  FALSE
          <6>1. Has(u)
            BY <5>1, FieldPlaces DEF Has
          <6>2. u = w
            BY <2>6, <3>2, <5>1, <6>1 DEF CompleteInv, AloneOK
          <6> QED  BY <3>7, <5>1, <6>2
        <5> QED  BY <5>1
      <4> QED  BY <2>2, <3>5, <3>7, <4>1
    <3> QED  BY <3>6, <3>7
  <2>7. CASE StoreValue(w, f) /\ cur[w] # i
    <3>1. maps'[i][f] = maps[i][f]
      BY <2>7, MapWritten DEF Written, IInv
    <3>2. ASSUME Stored(i, f, s) PROVE Stored(i, f, s)'
      <4>1. PICK u \in Workers : cur[u] = i /\ pc[u] = Storing(f) /\ slot[u] = s
        BY <3>2
      <4>2. UNCHANGED <<pc[u], cur[u], slot[u]>>
        BY <1>1, <2>7, <4>1, StorersFrame
      <4> QED  BY <4>1, <4>2
    <3> QED  BY <2>2, <3>1, <3>2
  <2>8. CASE PutKey(w, f) /\ cur[w] # i
    <3>1. maps'[i][f] = maps[i][f]
      BY <2>8, MapWritten DEF Written, IInv
    <3>2. ~StoreValue(w, f)
      BY <2>8, FieldPlaces DEF PutKey, StoreValue, Goto
    <3> QED  BY <2>4, <3>1, <3>2
  <2>9. CASE ~PutKey(w, f) /\ ~StoreValue(w, f)
    <3>1. maps'[i][f] = maps[i][f]
      <4>1. CASE \E g \in Fields : PutKey(w, g) \/ StoreValue(w, g)
        BY <2>9, <4>1, MapWritten DEF Written, IInv
      <4>2. CASE ~\E g \in Fields : PutKey(w, g) \/ StoreValue(w, g)
        BY <1>1, <4>2, MapsFrame
      <4> QED  BY <4>1, <4>2
    <3> QED  BY <2>4, <2>9, <3>1
  <2> QED  BY <2>5, <2>6, <2>7, <2>8, <2>9
<1>2. (\A i \in Indices, f \in Fields :
         handed'[i] <= 1 => \A s \in 1 .. Len(maps'[i][f]) : OK(i, f, s)')
        => ExactOK'
  BY DEF ExactOK
<1>3. CASE UNCHANGED vars
  BY <1>3 DEF CompleteInv, ExactOK, vars, pool, local
<1> HIDE DEF OK
<1> QED  BY <1>1, <1>2, <1>3 DEF Next

(* The second invariant holds.                                             *)
THEOREM CompleteInvariance == Spec => []CompleteInv
<1>1. Init => CompleteInv
  <2> SUFFICES ASSUME Init PROVE CompleteInv
    OBVIOUS
  <2>1. ExactOK
    <3>1. ASSUME NEW i \in Indices, NEW f \in Fields,
                 NEW s \in 1 .. Len(maps[i][f])
          PROVE  ~(s > Len(Own[i][f]))
      <4>1. Own[i][f] \in Seq(AllKeys)
        BY Constants
      <4>2. maps[i][f] = [t \in 1 .. Len(Own[i][f]) |-> Entry(Own[i][f][t], "own")]
        BY <4>1 DEF Init
      <4>3. Len(maps[i][f]) = Len(Own[i][f]) /\ Len(Own[i][f]) \in Nat
        BY <4>1, <4>2
      <4> QED  BY <4>3
    <3> QED  BY <3>1 DEF ExactOK
  <2>2. \A w \in Workers : pc[w] = "idle" /\ handed[cur[w]] = 0
    <3>1. 0 \in Indices
      BY Constants DEF Indices
    <3> QED  BY <3>1 DEF Init
  <2>3. HoldOK /\ AloneOK
    BY <2>2 DEF HoldOK, AloneOK, Has
  <2>4. DoneOK
    BY <2>2 DEF DoneOK
  <2> QED  BY <2>1, <2>3, <2>4 DEF CompleteInv
<1>2. IInv /\ CompleteInv /\ [Next]_vars => CompleteInv'
  BY HoldStep, ExactStep, DoneStep DEF CompleteInv
<1> QED  BY <1>1, <1>2, Invariance, PTL DEF Spec

(* The values of a finished request are its own, the token's or the        *)
(* defaults', each in its place; only if another worker has had the        *)
(* request too, can the race leave a default empty or another's.           *)
THEOREM ValuesAreRight == Spec => []BuiltRight
<1>1. IInv /\ CompleteInv => BuiltRight
  <2> SUFFICES ASSUME IInv, CompleteInv, NEW w \in Workers, NEW f \in Fields,
                      pc[w] = "built"
               PROVE  Right(cur[w], f, built[w][f], handed[cur[w]] > 1)
    BY DEF BuiltRight, Right
  <2>1. handed[cur[w]] \in Nat /\ handed[cur[w]] >= 1
    <3>1. Has(w)
      BY DEF Has
    <3> QED  BY <3>1, HandedType DEF CompleteInv, HoldOK, IInv, WorkersOK
  <2>2. CASE handed[cur[w]] = 1
    <3>1. Right(cur[w], f, built[w][f], FALSE)
      BY <2>2 DEF CompleteInv, DoneOK, CopyComplete
    <3>2. (handed[cur[w]] > 1) = FALSE
      BY <2>2
    <3> QED  BY <3>1, <3>2
  <2>3. CASE handed[cur[w]] > 1
    <3>1. Right(cur[w], f, built[w][f], TRUE)
      BY DEF IInv, CopiesOK, HeadersRight, QueryRight, Fields
    <3>2. (handed[cur[w]] > 1) = TRUE
      BY <2>3
    <3> QED  BY <3>1, <3>2
  <2> QED  BY <2>1, <2>2, <2>3
<1> QED  BY Invariance, CompleteInvariance, <1>1, PTL

(* A finished request has every default, if it is configured with it or if *)
(* nobody else has had the request, whatever the other workers do.         *)
THEOREM DefaultsAreComplete == Spec => []BuiltComplete
<1>1. IInv /\ CompleteInv => BuiltComplete
  <2> SUFFICES ASSUME IInv, CompleteInv, NEW w \in Workers, NEW f \in Fields,
                      pc[w] = "built", ~Sparse(cur[w]) \/ handed[cur[w]] = 1
               PROVE  Names(f, Defaults[f]) \subseteq DOMAIN built[w][f]
    BY DEF BuiltComplete
  <2>1. CASE ~Sparse(cur[w])
    <3>1. Defaults[f] \subseteq Configured(cur[w], f)
      BY <2>1 DEF Sparse, Lacked
    <3>2. Right(cur[w], f, built[w][f], TRUE)
      BY DEF IInv, CopiesOK, HeadersRight, QueryRight, Fields
    <3> QED  BY <3>1, <3>2 DEF Right, Names
  <2>2. CASE handed[cur[w]] = 1
    BY <2>2 DEF CompleteInv, DoneOK, CopyComplete
  <2> QED  BY <2>1, <2>2
<1> QED  BY Invariance, CompleteInvariance, <1>1, PTL
=============================================================================
