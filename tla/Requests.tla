------------------------------ MODULE Requests ------------------------------
(***************************************************************************)
(* RequestPool.Next and http.BuildRequest, called by all workers.          *)
(*                                                                         *)
(* Next hands out the configured requests in turn, under a mutex. What it  *)
(* hands out is a pointer into the configuration: BuildRequest fills the   *)
(* defaults into the maps of that request, in place and without a lock, so *)
(* two workers with the same request share its maps. A write to a nil map  *)
(* panics. Headers and query parameters are filled by the same loop, one   *)
(* after the other.                                                        *)
(*                                                                         *)
(* Go leaves such a race undefined: the runtime kills the process when it  *)
(* notices, and otherwise the accesses go through. They are modelled step  *)
(* by step, as the runtime makes them in a map of up to eight entries,     *)
(* which are slots that are filled in order and never move. An assignment  *)
(* marks the map as being written and looks for the slot of the key, or    *)
(* the first empty one; puts the key there and takes the mark away; and    *)
(* only then is the value stored in the slot, by the caller. So a reader   *)
(* can see a key that has the empty string still, and a writer can put its *)
(* key over one that took the same slot, and leave it the other's value.   *)
(* The copy of a map into the request is one step.                         *)
(*                                                                         *)
(* A value is abstracted to where it comes from. A map may have one header *)
(* under two spellings; a request that is sent has it once, under its      *)
(* canonical name. The request Next makes up when none is configured has   *)
(* the maps of the defaults.                                               *)
(***************************************************************************)
EXTENDS Naturals, Sequences, Functions

CONSTANTS
  Workers,      \* the goroutines
  NumRequests,  \* len(rp.reqs)
  Defaults,     \* Defaults[f]: the keys of the defaults' map f
  Own,          \* Own[i][f]: the keys request i is configured with, by slot
  Nil,          \* the requests and fields whose map is nil: pairs <<i, f>>
  Unbuildable,  \* requests without a URL, or with one that does not parse
  WithToken,    \* requests with an auth token, their own or the default one
  WithTimeout,  \* requests with a timeout, their own or the default one
  AuthKey,      \* the key of the Authorization header
  TimeoutKey,   \* the key of the X-Timeout header
  Canonical,    \* Canonical[k]: the canonical spelling of the header k
  NoOwner,      \* the pool's mutex is free
  MaxNext       \* bound: calls of Next that return a request

Fields == {"headers", "query"}
Indices == 0 .. NumRequests - 1

(* The keys request i sets itself, and the defaults it lacks.              *)
Configured(i, f) == Range(Own[i][f])
Lacked(i, f) == Defaults[f] \ Configured(i, f)

AllKeys == (UNION {Defaults[f] : f \in Fields})
           \cup (UNION {Configured(i, f) : i \in Indices, f \in Fields})
           \cup {AuthKey, TimeoutKey}

ASSUME RequestsAssumption ==
  /\ NumRequests \in Nat \ {0}
  /\ DOMAIN Defaults = Fields
  /\ DOMAIN Own = Indices
  /\ \A i \in Indices : DOMAIN Own[i] = Fields
  /\ \A i \in Indices, f \in Fields : Own[i][f] \in Seq(Configured(i, f))
  /\ Nil \subseteq Indices \X Fields
  /\ \A n \in Nil : Own[n[1]][n[2]] = <<>>
  /\ Unbuildable \subseteq Indices
  /\ WithToken \subseteq Indices /\ WithTimeout \subseteq Indices
  /\ AllKeys \subseteq DOMAIN Canonical
  /\ Canonical[AuthKey] = AuthKey /\ Canonical[TimeoutKey] = TimeoutKey
  /\ AuthKey # TimeoutKey
  /\ NoOwner \notin Workers
  /\ MaxNext \in Nat

VARIABLES
  idx,      \* RequestPool.idx
  poolMu,   \* the owner of RequestPool.mu
  maps,     \* maps[i][f]: the slots of the map of request i, in order
  pc,       \* where each worker is
  cur,      \* the request each worker has
  todo,     \* the default keys its loop has not reached yet
  key,      \* the default key it is writing
  slot,     \* the slot it is writing it to
  built,    \* built[w][f]: what it has put into its http.Request
  handed,   \* how often Next returned each request
  fatal     \* what killed the process, or "no"

pool  == <<idx, poolMu, handed>>
local == <<cur, todo, key, slot, built>>
vars  == <<pool, maps, pc, local, fatal>>

(* The entry in a slot of a map. Its value is the request's own, the       *)
(* default of a key, which is named by that key, or not there yet.         *)
Entry(k, v) == [key |-> k, value |-> v]
Keys(m) == {m[s].key : s \in DOMAIN m}

Insert(m, k, o) ==
  [x \in DOMAIN m \cup {k} |-> IF x = k THEN o ELSE m[x]]
Empty == [n \in {} |-> "own"]
Nothing == [f \in Fields |-> Empty]

Init ==
  /\ idx = 0 /\ poolMu = NoOwner
  /\ maps = [i \in Indices |-> [f \in Fields |->
               [s \in DOMAIN Own[i][f] |-> Entry(Own[i][f][s], "own")]]]
  /\ pc    = [w \in Workers |-> "idle"]
  /\ cur   = [w \in Workers |-> 0]
  /\ todo  = [w \in Workers |-> {}]
  /\ key   = [w \in Workers |-> AuthKey]
  /\ slot  = [w \in Workers |-> 1]
  /\ built = [w \in Workers |-> Nothing]
  /\ handed = [i \in Indices |-> 0]
  /\ fatal = "no"

Goto(w, from, to) ==
  /\ fatal = "no"
  /\ pc[w] = from
  /\ pc' = [pc EXCEPT ![w] = to]
-----------------------------------------------------------------------------
(***************************************************************************)
(* RequestPool.Next.                                                       *)
(***************************************************************************)

(* Mutant of LockPool: Next does not take the mutex.                       *)
NoLock(w) ==
  /\ Goto(w, "idle", "next")
  /\ UNCHANGED <<pool, maps, local, fatal>>

LockPool(w) ==
  /\ Goto(w, "idle", "next")
  /\ poolMu = NoOwner
  /\ poolMu' = w
  /\ UNCHANGED <<idx, handed, maps, local, fatal>>

(* Mutant of ReadIndex: the index is not wrapped around.                   *)
ReadIndexUnwrapped(w) ==
  /\ Goto(w, "next", "advance")
  /\ idx < MaxNext
  /\ cur' = [cur EXCEPT ![w] = idx]
  /\ handed' = [handed EXCEPT ![idx % NumRequests] = @ + 1]
  /\ UNCHANGED <<idx, poolMu, maps, todo, key, slot, built, fatal>>

(* req := rp.reqs[rp.idx%len(rp.reqs)]                                     *)
ReadIndex(w) ==
  /\ Goto(w, "next", "advance")
  /\ idx < MaxNext
  /\ cur' = [cur EXCEPT ![w] = idx % NumRequests]
  /\ handed' = [handed EXCEPT ![idx % NumRequests] = @ + 1]
  /\ UNCHANGED <<idx, poolMu, maps, todo, key, slot, built, fatal>>

(* rp.idx++ and the deferred unlock.                                       *)
Advance(w) ==
  /\ Goto(w, "advance", "build")
  /\ idx' = idx + 1
  /\ poolMu' = NoOwner
  /\ UNCHANGED <<handed, maps, local, fatal>>
-----------------------------------------------------------------------------
(***************************************************************************)
(* BuildRequest.                                                           *)
(***************************************************************************)

(* No URL, or http.NewRequest refuses: the error returns before the maps   *)
(* are touched.                                                            *)
BuildError(w) ==
  /\ Goto(w, "build", "idle")
  /\ cur[w] \in Unbuildable
  /\ UNCHANGED <<pool, maps, local, fatal>>

BeginHeaders(w) ==
  /\ Goto(w, "build", "headers")
  /\ cur[w] \notin Unbuildable
  /\ todo' = [todo EXCEPT ![w] = Defaults["headers"]]
  /\ UNCHANGED <<pool, maps, cur, key, slot, built, fatal>>

(* The places of an assignment: before it; the slot is found and the map   *)
(* marked; the key is there and the mark taken away.                       *)
Assigning(f) == IF f = "headers" THEN "assign-header" ELSE "assign-query"
Writing(f)   == IF f = "headers" THEN "write-header" ELSE "write-query"
Storing(f)   == IF f = "headers" THEN "store-header" ELSE "store-query"
Loop(f) == {f, Assigning(f), Writing(f), Storing(f)}

(* Another worker with the same request is there.                          *)
Another(w, place) == \E v \in Workers \ {w} : cur[v] = cur[w] /\ pc[v] = place

(* The process dies in an access of w to the map f of its request.         *)
Die(w, at, reason) ==
  /\ fatal = "no" /\ pc[w] = at
  /\ fatal' = reason
  /\ UNCHANGED <<pool, maps, pc, local>>

(* Mutant of BeginWrite: a key is written, whether it is there or not.     *)
AlwaysWrite(w, f) ==
  \E k \in todo[w] :
    /\ Goto(w, f, Assigning(f))
    /\ key' = [key EXCEPT ![w] = k]
    /\ UNCHANGED <<pool, maps, cur, todo, slot, built, fatal>>

(* One turn of the loop over the defaults, in any order: the key is there; *)
(* or it is not and the write begins.                                      *)
KeyThere(w, f) ==
  \E k \in todo[w] \cap Keys(maps[cur[w]][f]) :
    /\ Goto(w, f, f)
    /\ todo' = [todo EXCEPT ![w] = @ \ {k}]
    /\ UNCHANGED <<pool, maps, cur, key, slot, built, fatal>>

BeginWrite(w, f) ==
  \E k \in todo[w] \ Keys(maps[cur[w]][f]) :
    /\ Goto(w, f, Assigning(f))
    /\ key' = [key EXCEPT ![w] = k]
    /\ UNCHANGED <<pool, maps, cur, todo, slot, built, fatal>>

(* The slot of the key, which another worker may have inserted since, or   *)
(* the first that is empty.                                                *)
SlotOf(m, k) ==
  IF k \in Keys(m) THEN CHOOSE s \in DOMAIN m : m[s].key = k ELSE Len(m) + 1

FindSlot(w, f) ==
  /\ Goto(w, Assigning(f), Writing(f))
  /\ <<cur[w], f>> \notin Nil
  /\ slot' = [slot EXCEPT ![w] = SlotOf(maps[cur[w]][f], key[w])]
  /\ UNCHANGED <<pool, maps, cur, todo, key, built, fatal>>

(* The key is put into the slot, if need be over one that another worker   *)
(* has put there since. The value that is there stays.                     *)
Put(m, s, k) ==
  IF s \in DOMAIN m THEN [m EXCEPT ![s] = Entry(k, @.value)]
  ELSE Append(m, Entry(k, "empty"))

PutKey(w, f) ==
  /\ Goto(w, Writing(f), Storing(f))
  /\ maps' = [maps EXCEPT ![cur[w]][f] = Put(@, slot[w], key[w])]
  /\ UNCHANGED <<pool, local, fatal>>

(* The value is stored in the slot, whatever key it has by now.            *)
Store(m, s, v) == [m EXCEPT ![s] = Entry(@.key, v)]

(* Mutant of StoreValue: the loop ends at its first insert.                *)
StoreAndBreak(w, f) ==
  /\ Goto(w, Storing(f), f)
  /\ maps' = [maps EXCEPT ![cur[w]][f] = Store(@, slot[w], key[w])]
  /\ todo' = [todo EXCEPT ![w] = {}]
  /\ UNCHANGED <<pool, cur, key, slot, built, fatal>>

StoreValue(w, f) ==
  /\ Goto(w, Storing(f), f)
  /\ maps' = [maps EXCEPT ![cur[w]][f] = Store(@, slot[w], key[w])]
  /\ todo' = [todo EXCEPT ![w] = @ \ {key[w]}]
  /\ UNCHANGED <<pool, cur, key, slot, built, fatal>>

WriteToNil(w, f) ==
  /\ <<cur[w], f>> \in Nil
  /\ Die(w, Assigning(f), "nil-map")

(* The runtime may notice that a map is accessed while another worker      *)
(* writes to it.                                                           *)
RaceNoticed(w, f) ==
  /\ Another(w, Writing(f))
  /\ \E at \in {f, Assigning(f), Writing(f)} :
       Die(w, at, "concurrent-access")

(* A string is stored in two words: one that is copied between them has a  *)
(* length and no text, and the process dies where it is used.              *)
TornValue(w, f) ==
  /\ todo[w] = {}
  /\ Another(w, Storing(f))
  /\ Die(w, f, "torn-string")

(* The second loop copies the map into the request, a header under its     *)
(* canonical name; of two spellings of one, the last that the loop comes   *)
(* to stays. After the headers the token is set, over a configured         *)
(* Authorization header; after the query the timeout, and the request is   *)
(* complete.                                                               *)
Name(f, k) == IF f = "headers" THEN Canonical[k] ELSE k
Names(f, S) == {Name(f, k) : k \in S}

Copies(f, m) ==
  {c \in [Names(f, Keys(m)) -> {m[s].value : s \in DOMAIN m}] :
     \A n \in DOMAIN c :
       \E s \in DOMAIN m : Name(f, m[s].key) = n /\ m[s].value = c[n]}

SetToken(w, m) ==
  IF cur[w] \in WithToken THEN Insert(m, AuthKey, "token") ELSE m

SetTimeout(w, m) ==
  IF cur[w] \in WithTimeout THEN Insert(m, TimeoutKey, "timeout") ELSE m

(* Mutant of FinishHeaders: the second loop is missing.                    *)
FinishTokenOnly(w) ==
  /\ Goto(w, "headers", "query") /\ todo[w] = {}
  /\ built' = [built EXCEPT ![w]["headers"] = SetToken(w, Empty)]
  /\ todo' = [todo EXCEPT ![w] = Defaults["query"]]
  /\ UNCHANGED <<pool, maps, cur, key, slot, fatal>>

FinishHeaders(w) ==
  /\ Goto(w, "headers", "query") /\ todo[w] = {}
  /\ \E c \in Copies("headers", maps[cur[w]]["headers"]) :
       built' = [built EXCEPT ![w]["headers"] = SetToken(w, c)]
  /\ todo' = [todo EXCEPT ![w] = Defaults["query"]]
  /\ UNCHANGED <<pool, maps, cur, key, slot, fatal>>

FinishQuery(w) ==
  /\ Goto(w, "query", "built") /\ todo[w] = {}
  /\ \E c \in Copies("query", maps[cur[w]]["query"]) :
       built' = [built EXCEPT ![w]["query"] = c,
                              ![w]["headers"] = SetTimeout(w, @)]
  /\ UNCHANGED <<pool, maps, cur, todo, key, slot, fatal>>

(* The worker is done with its http.Request and asks for the next one.     *)
Sent(w) ==
  /\ Goto(w, "built", "idle")
  /\ built' = [built EXCEPT ![w] = Nothing]
  /\ UNCHANGED <<pool, maps, cur, todo, key, slot, fatal>>

FieldStep(w, f) ==
  \/ KeyThere(w, f) \/ BeginWrite(w, f)
  \/ FindSlot(w, f) \/ PutKey(w, f) \/ StoreValue(w, f)
  \/ WriteToNil(w, f) \/ RaceNoticed(w, f) \/ TornValue(w, f)

Step(w) ==
  \/ LockPool(w) \/ ReadIndex(w) \/ Advance(w)
  \/ BuildError(w) \/ BeginHeaders(w)
  \/ \E f \in Fields : FieldStep(w, f)
  \/ FinishHeaders(w) \/ FinishQuery(w) \/ Sent(w)

Next == \E w \in Workers : Step(w)

Spec == Init /\ [][Next]_vars
-----------------------------------------------------------------------------
(* Every variable has its type; fatal names a reason.                      *)
AllNames == {Name(f, k) : f \in Fields, k \in AllKeys}

MapOK(m, keys, values) ==
  DOMAIN m \subseteq keys /\ \A k \in DOMAIN m : m[k] \in values

Entries == [key : AllKeys, value : {"own", "empty"} \cup AllKeys]
Places  == {"idle", "next", "advance", "build", "built"}
           \cup UNION {Loop(f) : f \in Fields}

TypeOK ==
  /\ idx \in 0 .. MaxNext
  /\ poolMu \in Workers \cup {NoOwner}
  /\ \A i \in Indices, f \in Fields : maps[i][f] \in Seq(Entries)
  /\ pc \in [Workers -> Places]
  /\ cur \in [Workers -> Indices]
  /\ todo \in [Workers -> SUBSET AllKeys]
  /\ key \in [Workers -> AllKeys]
  /\ \A w \in Workers : slot[w] \in Nat \ {0}
  /\ \A w \in Workers, f \in Fields :
       MapOK(built[w][f], AllNames,
             {"own", "empty", "token", "timeout"} \cup AllKeys)
  /\ handed \in [Indices -> Nat]
  /\ fatal \in {"no", "nil-map", "concurrent-access", "torn-string"}

(* Next is fair: however the workers interleave, no request has been       *)
(* handed out more than once more often than another.                      *)
RoundRobin == \A i, j \in Indices : handed[i] <= handed[j] + 1

(* The values of a finished request are the right ones: its own where it   *)
(* has one, all of them there, the default of the key otherwise. Only when *)
(* the request and the defaults spell a header differently, is either of   *)
(* the two sent. And only when another worker has had the request as well, *)
(* can a default that the request lacks be empty, or another such default: *)
(* the race never touches a value the request is configured with.          *)
Sources(i, f, n, raced) ==
  {"own" : k \in {x \in Configured(i, f) : Name(f, x) = n}}
  \cup {k \in Lacked(i, f) : Name(f, k) = n}
  \cup IF raced /\ n \in Names(f, Lacked(i, f)) THEN {"empty"} \cup Lacked(i, f)
       ELSE {}

Expected(i, f, n, raced) ==
  IF f = "headers" /\ n = TimeoutKey /\ i \in WithTimeout THEN {"timeout"}
  ELSE IF f = "headers" /\ n = AuthKey /\ i \in WithToken THEN {"token"}
  ELSE Sources(i, f, n, raced)

BuiltRight ==
  \A w \in Workers, f \in Fields :
    pc[w] = "built" =>
      /\ Names(f, Configured(cur[w], f)) \subseteq DOMAIN built[w][f]
      /\ \A n \in DOMAIN built[w][f] :
           built[w][f][n] \in Expected(cur[w], f, n, handed[cur[w]] > 1)

(* A request is sparse when some of its maps lacks a default.              *)
Sparse(i) == \E f \in Fields : Lacked(i, f) # {}

(* A finished request has every default key when it is configured with     *)
(* them, also while other requests race, and when nobody else has had it   *)
(* yet: then no insert of its only worker can have been lost.              *)
BuiltComplete ==
  \A w \in Workers, f \in Fields :
    pc[w] = "built" /\ (~Sparse(cur[w]) \/ handed[cur[w]] = 1) =>
      Names(f, Defaults[f]) \subseteq DOMAIN built[w][f]

(* Only a sparse request can kill the process: the maps of the others are  *)
(* never written, and so are safe to share.                                *)
Filling == UNION {Loop(f) : f \in Fields}
OnlySparseKills ==
  /\ \A w \in Workers, f \in Fields :
       pc[w] \in Loop(f) \ {f} => Sparse(cur[w])
  /\ fatal # "no" =>
       \E w \in Workers : pc[w] \in Filling /\ Sparse(cur[w])
-----------------------------------------------------------------------------
(***************************************************************************)
(* What the repository says and the code does not do.                      *)
(***************************************************************************)

(* config/types.go: "DefaultRequest provides default values for all        *)
(* requests in the test". A request without headers of its own, such as    *)
(* the first one of examples/enterprise.yml, panics instead.               *)
DefaultsForAll == fatal # "nil-map"
=============================================================================
