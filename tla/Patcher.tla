------------------------------- MODULE Patcher -------------------------------
(***************************************************************************)
(* The core's Patcher (core/Patcher.cpp): client threads add patch groups  *)
(* to a queue, one patcher thread makes passes over the queue while it     *)
(* holds patchGroupsMutex_, and a client undoes a group with its id.       *)
(*                                                                         *)
(* The target process is its memory, one byte per address, and the modules *)
(* it has loaded so far.  A search byte is the set of bytes it accepts: a  *)
(* plain byte is a singleton, an ignored one is Byte, a special search is  *)
(* what it accepts.  A replace byte that is ignored is Keep.  The four     *)
(* bytes of a relative address are RelWidth bytes of value Relative.       *)
(***************************************************************************)
EXTENDS Integers, Sequences, Functions

CONSTANTS
  Addr,         \* the addresses of the target process, an interval of Nat
  Byte,         \* the values a byte takes
  Relative,     \* the byte a relative address replace writes
  Keep,         \* an ignored replace byte
  Original,     \* the memory of the process before anything is patched
  Module,       \* the modules the process may load
  Segment,      \* the addresses of each module
  RelWidth,     \* bytes of a relative address (4 in the code)
  Submitter,    \* the threads that call addToQueue() and undoPatchGroup()
  Catalogue,    \* the patch groups they may ask for
  IdLimit,      \* getNextAvailablePatchGroupId_ throws here ((size_t)-1)
  MaxTime,      \* bound: the clock stops here
  MaxStarts,    \* bound: calls of startPatcherThread()
  MaxFaults     \* bound: exceptions of queryPage(), mprotect() and safeCopy()

ASSUME NatAssumption ==
  /\ IdLimit \in Nat /\ MaxTime \in Nat /\ MaxStarts \in Nat
  /\ MaxFaults \in Nat /\ RelWidth \in Nat \ {0}
  /\ Addr \subseteq Nat

ASSUME MemoryAssumption ==
  /\ Relative \in Byte /\ Keep \notin Byte
  /\ Original \in [Addr -> Byte]
  /\ Segment \in [Module -> SUBSET Addr]

Forever == -1   \* secondsToTry of a group that is retried until it succeeds

Callback == {"nullptr", "undoSelf", "undoOther"}

Patch == [module  : Module,
          search  : Seq(SUBSET Byte),
          replace : Seq(Byte \cup {Keep}),
          relative : SUBSET Nat]

Request == [patches : Seq(Patch), secondsToTry : Nat \cup {Forever},
            onFailure : Callback, onSuccess : Callback]

ASSUME CatalogueAssumption ==
  \A r \in Catalogue :
    /\ r \in Request
    /\ \A i \in DOMAIN r.patches :
         /\ r.patches[i].search # <<>>
         /\ Len(r.patches[i].search) = Len(r.patches[i].replace)

VARIABLES
  memory,                    \* the bytes of the target process
  loaded,                    \* the modules it has loaded
  clock,                     \* std::time()
  patchGroups,               \* patchGroups_, a map from id to group
  patchGroupQueue,           \* patchGroupQueue_, the ids of queued groups
  nextAvailablePatchGroupId, \* the static counter of the id allocator
  adding,                    \* the calls of addToQueue() in flight
  patcherThread,             \* where the patcher thread is
  amountInQueue,             \* its loop variable
  current,                   \* the group whose callback it runs
  withdrawn,                 \* history: queued groups its pass saw withdrawn
  isRequestStop, isRunning,  \* the two flags, shared without a lock
  owner,                     \* the thread that starts, stops and destroys
  starts,                    \* calls of startPatcherThread() so far
  aborted,                   \* the process died: std::terminate or a bad pop
  faults,                    \* exceptions so far
  tainted                    \* history: addresses where patches met or a
                             \* step failed

target   == <<memory, loaded, clock>>
groupVars == <<patchGroups, patchGroupQueue>>
idVars   == <<nextAvailablePatchGroupId, adding>>
loopVars == <<patcherThread, amountInQueue, current, withdrawn>>
flagVars == <<isRequestStop, isRunning>>
ownerVars == <<owner, starts>>
faultVars == <<faults, tainted>>
vars == <<target, groupVars, idVars, loopVars, flagVars, ownerVars, aborted,
          faultVars>>

PatchGroupId == 0..(IdLimit - 1)

\* Where a patch of the group was found, each with the bytes saved there.
IsResults(f) == DOMAIN f \subseteq Addr /\ f \in [DOMAIN f -> Seq(Byte)]

IsPatchGroup(g) ==
  LET results == g.resultsAndOriginalBytes IN
    /\ g \in [request : Catalogue, timeAdded : Nat, isTimedOut : BOOLEAN,
              isPatchesSuccessful : BOOLEAN, resultsAndOriginalBytes : {results}]
    /\ DOMAIN results = DOMAIN g.request.patches
    /\ \A i \in DOMAIN results : IsResults(results[i])

-----------------------------------------------------------------------------
(* Searching and writing: what one patch does to the memory.               *)

MatchesAt(p, a, bytes) ==
  \A j \in DOMAIN p.search :
    /\ a + j - 1 \in Segment[p.module]
    /\ bytes[a + j - 1] \in p.search[j]

\* Search::doSearch_: matches from the left, resuming after each match.
FoundIn(p, bytes) ==
  LET Size    == Len(p.search)
      matches == {a \in Segment[p.module] : MatchesAt(p, a, bytes)}
      taken[a \in matches] ==
        \A b \in matches : b < a /\ a < b + Size => ~ taken[b]
  IN  {a \in matches : taken[a]}

SearchResults(p) == FoundIn(p, memory)

\* The bytes of a result that are saved and put back.
Span(p, a) == a..(a + Len(p.replace) - 1)

\* The offsets of a relative address that the write loop reaches.
InRelative(p, offset) ==
  \E rva \in p.relative : rva < Len(p.replace) /\ offset \in rva..(rva + RelWidth - 1)

Covers(p, a, x) ==
  LET offset == x - a IN
    \/ InRelative(p, offset)
    \/ /\ offset \in 0..(Len(p.replace) - 1)
       /\ p.replace[offset + 1] # Keep

Written(p, a, x) ==
  IF InRelative(p, x - a) THEN Relative ELSE p.replace[x - a + 1]

\* The writes of a group: a patch and one of its matches.  They run in this
\* order: the patches as given, the matches of a patch by address (std::map).
Writes(g) ==
  {w \in (1..Len(g.resultsAndOriginalBytes)) \X Addr :
     w[2] \in DOMAIN g.resultsAndOriginalBytes[w[1]]}

Before(v, w) == v[1] < w[1] \/ (v[1] = w[1] /\ v[2] < w[2])

\* What may have been done when an exception stops a loop over the writes W.
Prefixes(W) == {D \in SUBSET W : \A w \in D, v \in W : Before(v, w) => v \in D}

\* The memory once the writes D of group g are done, the last one winning.
MemoryAfter(g, D) ==
  LET p(w)    == g.request.patches[w[1]]
      At(w, x) == Covers(p(w), w[2], x)
      Last(x, w) == At(w, x) /\ \A v \in D : At(v, x) => ~ Before(w, v)
  IN  [x \in Addr |-> IF \E w \in D : Last(x, w)
                      THEN LET w == CHOOSE w \in D : Last(x, w)
                           IN  Written(p(w), w[2], x)
                      ELSE memory[x]]

\* Mutant: all the bytes are saved once all the writes are done.
SavesTooLate(g, D) ==
  [i \in DOMAIN g.resultsAndOriginalBytes |->
     [a \in DOMAIN g.resultsAndOriginalBytes[i] |->
        IF <<i, a>> \in D
        THEN [j \in 1..Len(g.request.patches[i].replace) |-> MemoryAfter(g, D)[a + j - 1]]
        ELSE g.resultsAndOriginalBytes[i][a]]]

\* Each write first copies the bytes it replaces.
ResultsAfter(g, D) ==
  [i \in DOMAIN g.resultsAndOriginalBytes |->
     [a \in DOMAIN g.resultsAndOriginalBytes[i] |->
        IF <<i, a>> \in D
        THEN LET earlier == MemoryAfter(g, {v \in D : Before(v, <<i, a>>)})
             IN  [j \in 1..Len(g.request.patches[i].replace) |-> earlier[a + j - 1]]
        ELSE g.resultsAndOriginalBytes[i][a]]]

\* The addresses the saved bytes of write w go back to.
Saved(g, w) ==
  w[2]..(w[2] + Len(g.resultsAndOriginalBytes[w[1]][w[2]]) - 1)

\* The memory once undoPatchGroup has copied back the bytes of the writes D.
MemoryRestored(g, D) ==
  LET Last(x, w) == x \in Saved(g, w) /\ \A v \in D : x \in Saved(g, v) => ~ Before(w, v)
  IN  [x \in Addr |-> IF \E w \in D : Last(x, w)
                      THEN LET w == CHOOSE w \in D : Last(x, w)
                           IN  g.resultsAndOriginalBytes[w[1]][w[2]][x - w[2] + 1]
                      ELSE memory[x]]

Touched(g, D) == {x \in Addr : \E w \in D : Covers(g.request.patches[w[1]], w[2], x)}

Spanned(g) == {x \in Addr : \E w \in Writes(g) : x \in Span(g.request.patches[w[1]], w[2])}

\* The addresses of the groups that are applied.
Taken ==
  UNION {Spanned(patchGroups[id]) :
           id \in {i \in DOMAIN patchGroups : patchGroups[i].isPatchesSuccessful}}

\* The addresses that the writes of g do not have to themselves: nothing in
\* the code keeps two results apart, and none of a group's later bytes from
\* being saved as the program's own.
Clash(g) ==
  {x \in Addr : \E w \in Writes(g) :
     LET p(v) == g.request.patches[v[1]] IN
       \/ Covers(p(w), w[2], x) /\ x \notin Span(p(w), w[2])
       \/ /\ x \in Span(p(w), w[2])
          /\ x \in Taken \/ \E v \in Writes(g) \ {w} : x \in Span(p(v), v[2])}

-----------------------------------------------------------------------------
(* The queue and the groups in it.                                         *)

\* Mutant: nobody takes the mutex.
NoLock == TRUE

\* A lock_guard of patchGroupsMutex_ in another thread waits for the pass.
LockFree == patcherThread \notin {"pass", "callback"}

Pending(g) == ~ g.isTimedOut /\ ~ g.isPatchesSuccessful

\* A search that throws because the module is not loaded, or finds nothing.
Misses(p) == p.module \notin loaded \/ SearchResults(p) = {}

\* The patches the search phase comes to: it ends at the first that misses.
Reached(g) ==
  {k \in 1..Len(g.request.patches) :
     \A i \in 1..(k - 1) : ~ Misses(g.request.patches[i])}

FirstMiss(g) == {k \in Reached(g) : Misses(g.request.patches[k])}

SearchedUpTo(g, k) ==
  [g EXCEPT !.resultsAndOriginalBytes =
     [i \in DOMAIN @ |->
        IF i < k
        THEN LET found == SearchResults(g.request.patches[i])
             IN  [a \in DOMAIN @[i] \cup found |-> IF a \in found THEN <<>> ELSE @[i][a]]
        ELSE @[i]]]

Cleared(g) ==
  [g EXCEPT !.resultsAndOriginalBytes = [i \in DOMAIN @ |-> <<>>]]

\* What operator[] of a map does before the assignment, and the assignment.
With(f, x, e) == [y \in DOMAIN f \cup {x} |-> IF y = x THEN e ELSE f[y]]

SetGroup(id, g) == patchGroups' = [patchGroups EXCEPT ![id] = g]

\* How long the group has been tried is compared the wrong way round.
IsTimeUp(g) ==
  /\ g.request.secondsToTry # Forever
  /\ g.timeAdded + g.request.secondsToTry > clock

-----------------------------------------------------------------------------
Init ==
  /\ memory = Original /\ loaded \in SUBSET Module /\ clock = 0
  /\ patchGroups = <<>> /\ patchGroupQueue = <<>>
  /\ nextAvailablePatchGroupId = 0 /\ adding = <<>>
  /\ patcherThread = "none" /\ amountInQueue = 0 /\ current = 0 /\ withdrawn = 0
  /\ isRequestStop = FALSE /\ isRunning = FALSE
  /\ owner = "idle" /\ starts = 0 /\ aborted = FALSE
  /\ faults = 0 /\ tainted = {}

(* The target process. *)

Tick ==
  /\ clock < MaxTime
  /\ clock' = clock + 1
  /\ UNCHANGED <<memory, loaded, groupVars, idVars, loopVars, flagVars,
                 ownerVars, aborted, faultVars>>

LoadModule(m) ==
  /\ m \notin loaded
  /\ loaded' = loaded \cup {m}
  /\ UNCHANGED <<memory, clock, groupVars, idVars, loopVars, flagVars,
                 ownerVars, aborted, faultVars>>

(* startPatcherThread, stopPatcherThread and the destructor.               *)

\* Assigning to a std::thread that is joinable calls std::terminate.
StartPatcherThread ==
  /\ owner = "idle" /\ starts < MaxStarts
  /\ ~ isRunning
  /\ starts' = starts + 1
  /\ isRequestStop' = FALSE
  /\ IF patcherThread = "none"
     THEN patcherThread' = "spawned" /\ UNCHANGED aborted
     ELSE aborted' = TRUE /\ UNCHANGED patcherThread
  /\ UNCHANGED <<target, groupVars, idVars, amountInQueue, current, withdrawn,
                 isRunning, owner, faultVars>>

StopPatcherThread ==
  /\ owner = "idle" /\ isRunning
  /\ isRequestStop' = TRUE
  /\ UNCHANGED <<target, groupVars, idVars, loopVars, isRunning, ownerVars,
                 aborted, faultVars>>

\* ~Patcher: the Core singleton, whose listener adds groups, is gone by then.
Destroy ==
  /\ owner = "idle" /\ adding = <<>>
  /\ IF isRunning
     THEN owner' = "wait" /\ isRequestStop' = TRUE
     ELSE owner' = "join" /\ UNCHANGED isRequestStop
  /\ UNCHANGED <<target, groupVars, idVars, loopVars, isRunning, starts,
                 aborted, faultVars>>

\* The end of stopPatcherThreadAndWait's loop.
Waited ==
  /\ owner = "wait" /\ ~ isRunning
  /\ owner' = "join"
  /\ UNCHANGED <<target, groupVars, idVars, loopVars, flagVars, starts,
                 aborted, faultVars>>

Joined ==
  /\ owner = "join" /\ patcherThread \in {"none", "finished"}
  /\ owner' = "destroyed"
  /\ UNCHANGED <<target, groupVars, idVars, loopVars, flagVars, starts,
                 aborted, faultVars>>

(* addToQueue.  The id comes from an unlocked read and write of the counter. *)

\* The check on the RVAs against the replace bytes reads crend(), past the
\* end: either outcome.  What remains sure is that they are RelWidth apart.
IsAccepted(r) ==
  /\ r.patches # <<>>
  /\ \A i \in DOMAIN r.patches : \A s, t \in r.patches[i].relative :
       s < t => s + RelWidth <= t

\* Mutant: the counter runs past its limit.
NeverRunsOut == TRUE

\* Otherwise getNextAvailablePatchGroupId_ throws.
HasId == nextAvailablePatchGroupId # IdLimit

AddToQueue(s, r) ==
  /\ owner = "idle"
  /\ s \notin DOMAIN adding
  /\ IsAccepted(r)
  /\ HasId
  /\ adding' = With(adding, s,
       [id |-> nextAvailablePatchGroupId, counted |-> FALSE,
        group |-> [request |-> r, timeAdded |-> clock,
                   isTimedOut |-> FALSE, isPatchesSuccessful |-> FALSE,
                   resultsAndOriginalBytes |-> [i \in DOMAIN r.patches |-> <<>>]]])
  /\ UNCHANGED <<target, groupVars, nextAvailablePatchGroupId, loopVars,
                 flagVars, ownerVars, aborted, faultVars>>

CountId(s) ==
  /\ s \in DOMAIN adding /\ ~ adding[s].counted
  /\ nextAvailablePatchGroupId' = adding[s].id + 1
  /\ adding' = [adding EXCEPT ![s].counted = TRUE]
  /\ UNCHANGED <<target, groupVars, loopVars, flagVars, ownerVars, aborted,
                 faultVars>>

InsertGroup(s) ==
  /\ s \in DOMAIN adding /\ adding[s].counted
  /\ LockFree
  /\ patchGroups' = With(patchGroups, adding[s].id, adding[s].group)
  /\ patchGroupQueue' = Append(patchGroupQueue, adding[s].id)
  /\ adding' = Restrict(adding, DOMAIN adding \ {s})
  /\ UNCHANGED <<target, nextAvailablePatchGroupId, loopVars, flagVars,
                 ownerVars, aborted, faultVars>>

(* undoPatchGroup, without its lock: a callback runs it inside the pass.    *)

\* Mutant: the queue keeps a group that is undone.
KeepsQueue(q, id) == q

\* Only the first entry of the queue that is this group is erased.
RemoveFirstOf(q, id) ==
  {k \in 1..Len(q) : q[k] = id /\ \A j \in 1..(k - 1) : q[j] # id}

WithoutFirst(q, id) ==
  IF \E k \in 1..Len(q) : q[k] = id
  THEN LET k == CHOOSE k \in RemoveFirstOf(q, id) : TRUE
       IN  SubSeq(q, 1, k - 1) \o SubSeq(q, k + 1, Len(q))
  ELSE q

Undo(id) ==
  /\ id \in DOMAIN patchGroups
  /\ LET g == patchGroups[id] IN
       /\ memory' = IF g.isPatchesSuccessful THEN MemoryRestored(g, Writes(g))
                                             ELSE memory
       /\ patchGroupQueue' = IF Pending(g) THEN WithoutFirst(patchGroupQueue, id)
                                           ELSE patchGroupQueue
  /\ patchGroups' = Restrict(patchGroups, DOMAIN patchGroups \ {id})
  /\ UNCHANGED faultVars

\* safeCopy throws part way: the group stays, some of its bytes are back.
UndoThrows(id) ==
  /\ id \in DOMAIN patchGroups /\ faults < MaxFaults
  /\ LET g == patchGroups[id] IN
       /\ g.isPatchesSuccessful
       /\ \E D \in Prefixes(Writes(g)) :
            /\ memory' = MemoryRestored(g, D)
            /\ tainted' = tainted \cup Touched(g, Writes(g))
  /\ faults' = faults + 1
  /\ UNCHANGED groupVars

UndoPatchGroup(id) ==
  /\ owner = "idle" /\ LockFree
  /\ Undo(id) \/ UndoThrows(id)
  /\ UNCHANGED <<loaded, clock, idVars, loopVars, flagVars, ownerVars, aborted>>

(* patcher_, the thread. *)

ThreadStarts ==
  /\ patcherThread = "spawned"
  /\ patcherThread' = "loop"
  /\ isRunning' = TRUE
  /\ UNCHANGED <<target, groupVars, idVars, amountInQueue, current, withdrawn,
                 isRequestStop, ownerVars, aborted, faultVars>>

\* Mutant: the thread stops only when it has nothing left to try.
StopsWhenEmpty ==
  /\ patcherThread = "loop"
  /\ IF isRequestStop /\ patchGroupQueue = <<>>
     THEN patcherThread' = "finished" /\ isRunning' = FALSE
     ELSE patcherThread' = "lock" /\ UNCHANGED isRunning
  /\ UNCHANGED <<target, groupVars, idVars, amountInQueue, current, withdrawn,
                 isRequestStop, ownerVars, aborted, faultVars>>

TestRequestStop ==
  /\ patcherThread = "loop"
  /\ IF isRequestStop
     THEN patcherThread' = "finished" /\ isRunning' = FALSE
     ELSE patcherThread' = "lock" /\ UNCHANGED isRunning
  /\ UNCHANGED <<target, groupVars, idVars, amountInQueue, current, withdrawn,
                 isRequestStop, ownerVars, aborted, faultVars>>

BeginPass ==
  /\ patcherThread = "lock"
  /\ patcherThread' = "pass"
  /\ amountInQueue' = Len(patchGroupQueue)
  /\ UNCHANGED <<target, groupVars, idVars, current, withdrawn, flagVars,
                 ownerVars, aborted, faultVars>>

EndPass ==
  /\ patcherThread = "pass" /\ amountInQueue = 0
  /\ patcherThread' = "loop" /\ withdrawn' = 0
  /\ UNCHANGED <<target, groupVars, idVars, amountInQueue, current, flagVars,
                 ownerVars, aborted, faultVars>>

Visiting(id) ==
  /\ patcherThread = "pass" /\ amountInQueue > 0
  /\ patchGroupQueue # <<>> /\ id = Head(patchGroupQueue)

AfterCallback(id, callback) ==
  /\ amountInQueue' = amountInQueue - 1
  /\ IF callback = "nullptr" THEN UNCHANGED <<patcherThread, current>>
     ELSE patcherThread' = "callback" /\ current' = id
  /\ UNCHANGED withdrawn

PopEmptyQueue ==
  /\ patcherThread = "pass" /\ amountInQueue > 0 /\ patchGroupQueue = <<>>
  /\ aborted' = TRUE
  /\ UNCHANGED <<target, groupVars, idVars, loopVars, flagVars, ownerVars,
                 faultVars>>

TimeOutGroup(id) ==
  /\ Visiting(id)
  /\ LET g == patchGroups[id] IN
       /\ IsTimeUp(g)
       /\ SetGroup(id, [g EXCEPT !.isTimedOut = TRUE])
       /\ AfterCallback(id, g.request.onFailure)
  /\ patchGroupQueue' = Tail(patchGroupQueue)
  /\ UNCHANGED <<target, idVars, flagVars, ownerVars, aborted, faultVars>>

\* Mutant: a group that is not there yet goes back to the front.
RequeueInFront(id, g) ==
  /\ SetGroup(id, g)
  /\ UNCHANGED <<patchGroupQueue, patcherThread, current, withdrawn>>
  /\ amountInQueue' = amountInQueue - 1

\* A pass puts the group back when a search throws or finds nothing.
Requeue(id, g) ==
  /\ SetGroup(id, g)
  /\ patchGroupQueue' = Append(Tail(patchGroupQueue), id)
  /\ amountInQueue' = amountInQueue - 1
  /\ UNCHANGED <<patcherThread, current, withdrawn>>

\* doSearch throws: the module is not loaded, or queryPage or
\* changePageProtection fails, at whichever patch.  The results of the
\* patches before it stay in the group, and its next try adds to them.
SearchThrows(id) ==
  /\ Visiting(id) /\ ~ IsTimeUp(patchGroups[id])
  /\ LET g == patchGroups[id] IN
       \E k \in Reached(g) :
         /\ \/ g.request.patches[k].module \notin loaded /\ UNCHANGED faults
            \/ /\ g.request.patches[k].module \in loaded
               /\ faults < MaxFaults /\ faults' = faults + 1
         /\ Requeue(id, SearchedUpTo(g, k))
  /\ UNCHANGED <<target, idVars, flagVars, ownerVars, aborted, tainted>>

SearchFindsNothing(id) ==
  /\ Visiting(id) /\ ~ IsTimeUp(patchGroups[id])
  /\ LET g == patchGroups[id] IN
       \E k \in FirstMiss(g) :
         /\ g.request.patches[k].module \in loaded
         /\ Requeue(id, Cleared(g))
  /\ UNCHANGED <<target, idVars, flagVars, ownerVars, aborted, faultVars>>

\* Every patch of the group was found, and it has more than one to write.
Found(id) ==
  /\ Visiting(id) /\ ~ IsTimeUp(patchGroups[id])
  /\ FirstMiss(patchGroups[id]) = {}

Searched(id) ==
  LET g == patchGroups[id] IN SearchedUpTo(g, Len(g.request.patches) + 1)

ApplyGroup(id) ==
  /\ Found(id)
  /\ LET g == Searched(id) IN
       /\ memory' = MemoryAfter(g, Writes(g))
       /\ SetGroup(id, [g EXCEPT !.isPatchesSuccessful = TRUE,
                                 !.resultsAndOriginalBytes = ResultsAfter(g, Writes(g))])
       /\ tainted' = tainted \cup Clash(g)
       /\ AfterCallback(id, g.request.onSuccess)
  /\ patchGroupQueue' = Tail(patchGroupQueue)
  /\ UNCHANGED <<loaded, clock, idVars, flagVars, ownerVars, aborted, faults>>

\* queryPage or changePageProtection throws among the writes: what was
\* written stays, and so do the results, and the group is tried again.
WriteThrows(id) ==
  /\ Found(id) /\ faults < MaxFaults
  /\ LET g == Searched(id) IN
       \E D \in Prefixes(Writes(g)) :
         /\ memory' = MemoryAfter(g, D)
         /\ tainted' = tainted \cup Touched(g, D)
         /\ Requeue(id, [g EXCEPT !.resultsAndOriginalBytes = ResultsAfter(g, D)])
  /\ faults' = faults + 1
  /\ UNCHANGED <<loaded, clock, idVars, flagVars, ownerVars, aborted>>

(* A callback that calls back into the Patcher: the mutex is recursive.    *)

CallbackOf(g) == IF g.isTimedOut THEN g.request.onFailure ELSE g.request.onSuccess

ReturnFromCallback ==
  /\ patcherThread = "callback"
  /\ patcherThread' = "pass"
  /\ UNCHANGED <<target, groupVars, idVars, amountInQueue, current, withdrawn,
                 flagVars, ownerVars, aborted, faultVars>>

\* No handler catches what a callback throws: it ends the process.
CallbackUndoes(id) ==
  /\ patcherThread = "callback"
  /\ (CallbackOf(patchGroups[current]) = "undoSelf") <=> (id = current)
  /\ \/ /\ Undo(id) /\ patcherThread' = "pass" /\ UNCHANGED aborted
        /\ withdrawn' = withdrawn + (IF Pending(patchGroups[id]) THEN 1 ELSE 0)
     \/ UndoThrows(id) /\ aborted' = TRUE /\ UNCHANGED <<patcherThread, withdrawn>>
  /\ UNCHANGED <<loaded, clock, idVars, amountInQueue, current, flagVars,
                 ownerVars>>

-----------------------------------------------------------------------------
ThreadStep ==
  \/ ThreadStarts \/ TestRequestStop \/ BeginPass \/ EndPass \/ PopEmptyQueue
  \/ ReturnFromCallback
  \/ \E id \in DOMAIN patchGroups :
       \/ TimeOutGroup(id) \/ SearchThrows(id) \/ SearchFindsNothing(id)
       \/ ApplyGroup(id) \/ WriteThrows(id) \/ CallbackUndoes(id)

OwnerStep ==
  StartPatcherThread \/ StopPatcherThread \/ Destroy \/ Waited \/ Joined

Next ==
  /\ ~ aborted
  /\ \/ ThreadStep
     \/ OwnerStep
     \/ \E s \in Submitter :
          CountId(s) \/ InsertGroup(s) \/ \E r \in Catalogue : AddToQueue(s, r)
     \/ \E id \in DOMAIN patchGroups : UndoPatchGroup(id)
     \/ \E m \in Module : LoadModule(m)
     \/ Tick

\* The scheduler runs the patcher thread, the destructor goes on once it may,
\* and a call of addToQueue() is not left half way.
Fairness ==
  /\ WF_vars(~ aborted /\ ThreadStep)
  /\ WF_vars(~ aborted /\ (Waited \/ Joined))
  /\ \A s \in Submitter : WF_vars(~ aborted /\ (CountId(s) \/ InsertGroup(s)))

Spec == Init /\ [][Next]_vars /\ Fairness
-----------------------------------------------------------------------------
(* What is checked.                                                        *)

\* Every variable holds a value of its type: the process, the groups and
\* their queue, the calls of addToQueue(), the threads.
TargetTypes ==
  memory \in [Addr -> Byte] /\ loaded \subseteq Module /\ clock \in 0..MaxTime

GroupTypes ==
  /\ DOMAIN patchGroups \subseteq PatchGroupId
  /\ \A id \in DOMAIN patchGroups : IsPatchGroup(patchGroups[id])
  /\ patchGroupQueue \in Seq(PatchGroupId)

IdTypes ==
  /\ nextAvailablePatchGroupId \in 0..IdLimit
  /\ DOMAIN adding \subseteq Submitter
  /\ \A s \in DOMAIN adding :
       /\ adding[s] \in [id : PatchGroupId, counted : BOOLEAN, group : {adding[s].group}]
       /\ IsPatchGroup(adding[s].group)

ControlTypes ==
  /\ patcherThread \in {"none", "spawned", "loop", "lock", "pass", "callback", "finished"}
  /\ amountInQueue \in Nat /\ current \in Nat /\ withdrawn \in Nat
  /\ isRequestStop \in BOOLEAN /\ isRunning \in BOOLEAN
  /\ owner \in {"idle", "wait", "join", "destroyed"} /\ starts \in 0..MaxStarts
  /\ aborted \in BOOLEAN
  /\ faults \in 0..MaxFaults /\ tainted \subseteq Addr

TypeOK == TargetTypes /\ GroupTypes /\ IdTypes /\ ControlTypes

\* The queue holds exactly the groups that are neither applied nor timed out,
\* each once, whatever mix of passes, exceptions, callbacks and undos ran: a
\* group that left the queue too early is never patched, one left behind is a
\* dangling iterator that the next pass dereferences.
QueueExact ==
  /\ \A i \in DOMAIN patchGroupQueue :
       /\ patchGroupQueue[i] \in DOMAIN patchGroups
       /\ Pending(patchGroups[patchGroupQueue[i]])
  /\ \A i, j \in DOMAIN patchGroupQueue :
       patchGroupQueue[i] = patchGroupQueue[j] => i = j
  /\ \A id \in DOMAIN patchGroups :
       Pending(patchGroups[id]) =>
         \E i \in DOMAIN patchGroupQueue : patchGroupQueue[i] = id

\* A pass counts its groups once, when it begins, and pops that many without
\* looking again.  It runs out of groups, and pops an empty list, only for
\* queued groups that a callback of the same pass withdrew: nobody else gets
\* at the queue meanwhile, and no visit loses a group.  A callback finds its
\* own group decided and registered.
PassStaysInQueue ==
  /\ patcherThread \in {"pass", "callback"} =>
       amountInQueue <= Len(patchGroupQueue) + withdrawn
  /\ patcherThread = "callback" =>
       /\ current \in DOMAIN patchGroups
       /\ ~ Pending(patchGroups[current])

\* What clients are promised, free of queue, thread and lock.
Standing(g) ==
  IF Pending(g) THEN "waiting" ELSE IF g.isPatchesSuccessful THEN "applied" ELSE "expired"

Status(id) ==
  IF id \in DOMAIN patchGroups THEN Standing(patchGroups[id])
  ELSE IF \/ id >= nextAvailablePatchGroupId
          \/ \E s \in DOMAIN adding : adding[s].id = id
       THEN "unused" ELSE "withdrawn"

Asked(id) == IF id \in DOMAIN patchGroups THEN patchGroups[id].request.patches ELSE <<>>

Sites(id) == IF id \in DOMAIN patchGroups THEN Writes(patchGroups[id]) ELSE {}

Service == INSTANCE PatchService WITH
  image <- memory, damaged <- tainted, failures <- faults,
  status <- [id \in PatchGroupId |-> Status(id)],
  asked <- [id \in PatchGroupId |-> Asked(id)],
  sites <- [id \in PatchGroupId |-> Sites(id)]

\* The Patcher implements the service.  A group that counts as applied was
\* written wherever its patches were found; an undo puts the program's bytes
\* back, although the bytes saved are those of the moment of the write; ids
\* are not used twice.  Where two results meet, where a relative address runs
\* past its patch and where a step failed, no more is promised, but of no
\* other address is anything lost.
ImplementsService == Service!Spec

\* A group times out only once it has been tried for secondsToTry seconds.
TimedOutInTime ==
  \A id \in DOMAIN patchGroups :
    LET g == patchGroups[id] IN
      g.isTimedOut => g.timeAdded + g.request.secondsToTry <= clock

\* While the thread runs, a queued group whose patches are all in memory is
\* patched, timed out or undone in the end: no other group starves it.
Running == patcherThread \notin {"none", "finished"} /\ ~ isRequestStop /\ ~ aborted

Due(id) ==
  /\ id \in DOMAIN patchGroups
  /\ Pending(patchGroups[id]) /\ FirstMiss(patchGroups[id]) = {}

EventuallyDecided == \A id \in PatchGroupId : []<> ~ (Running /\ Due(id))

\* A destructor that found the thread running is not left waiting for it.
DestroyCompletes == owner = "wait" ~> (owner = "destroyed" \/ aborted)
=============================================================================
