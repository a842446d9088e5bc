-------------------------------- MODULE Memory --------------------------------
(***************************************************************************)
(* The memory of the application and the functions of common/Memory.cpp.   *)
(* A memory has a value at each mapped address and, for each mapped page,  *)
(* what may be done with it and the file it is mapped from.                *)
(***************************************************************************)
EXTENDS Sequences, SequencesExt, FiniteSetsExt, Maps

CONSTANTS
  PageSize,
  MappedPages   \* the pages of the application, which maps none and unmaps none

ASSUME MemoryAssumption ==
  /\ PageSize \in Nat \ {0}
  /\ MappedPages \subseteq Nat /\ IsFiniteSet(MappedPages) /\ MappedPages # {}

PageOf(address) == address \div PageSize
Addresses == UNION {p * PageSize..(p + 1) * PageSize - 1 : p \in MappedPages}

\* Whether n bytes from the address on may be read (written).
Readable(m, address, n) ==
  \A a \in address..address + n - 1 :
    PageOf(a) \in DOMAIN m.page /\ m.page[PageOf(a)].isReadable
Writable(m, address, n) ==
  \A a \in address..address + n - 1 :
    PageOf(a) \in DOMAIN m.page /\ m.page[PageOf(a)].isWritable

\* The memory with the bytes written from the address on.
Written(m, address, bytes) ==
  [m EXCEPT !.byte = [a \in DOMAIN @ |->
     IF a \in address..address + Len(bytes) - 1 THEN bytes[a - address + 1] ELSE @[a]]]

BytesAt(m, address, n) == [i \in 1..n |-> m.byte[address + i - 1]]

\* /proc/self/maps has a line for each run of pages that are alike: the first
\* page of each, and the page behind it.
Starts(m) == {p \in DOMAIN m.page : p - 1 \notin DOMAIN m.page \/ m.page[p - 1] # m.page[p]}
End(m, p) ==
  Min({q \in p + 1..Max(DOMAIN m.page) + 1 : q \in Starts(m) \/ q \notin DOMAIN m.page})

Segment(m, p) ==
  [start |-> p * PageSize, size |-> (End(m, p) - p) * PageSize,
   isReadable |-> m.page[p].isReadable, isWritable |-> m.page[p].isWritable,
   isExecutable |-> m.page[p].isExecutable, pathfile |-> m.page[p].pathfile]

\* Those that enumerateSegments() gives which start at the given pages.
SegmentsAt(m, starts) == [i \in DOMAIN Ascending(starts) |-> Segment(m, Ascending(starts)[i])]

\* alignPage: up is rounded up as an address is, a size from 0 on.
alignPage(down, up) == <<down - (down % PageSize), ((up - 1) \div PageSize) * PageSize + PageSize>>

\* queryPage: the whole segments that have a part in the range, if all of it
\* is mapped. start is rounded down without adding to the size what is lost.
\* There is a page in every range, so that none stands for the exception.
InvalidPage == <<>>
queryPage(m, start, size) ==
  LET range == alignPage(start, size)
      end == range[1] + range[2]
      mapped == \A p \in PageOf(range[1])..PageOf(end) - 1 : p \in DOMAIN m.page
  IN  IF range[2] = 0 \/ ~mapped THEN InvalidPage
      ELSE SegmentsAt(m, {p \in Starts(m) : p * PageSize < end /\ range[1] < End(m, p) * PageSize})

\* The memory with the rights of the pages in the range.
WithRights(m, range, page) ==
  [m EXCEPT !.page = [p \in DOMAIN @ |->
     IF p \notin PageOf(range[1])..PageOf(range[1] + range[2]) - 1 THEN @[p]
     ELSE [@[p] EXCEPT !.isReadable = page.isReadable, !.isWritable = page.isWritable,
                       !.isExecutable = page.isExecutable]]]

\* Mutant: the pages in front of the first one keep the size of its segment.
ChangedUntrimmed(m, page) ==
  LET range == alignPage(page.start, page.size)
      old == queryPage(m, range[1], range[2])
  IN  IF old = InvalidPage THEN [ok |-> FALSE, memory |-> m, oldPages |-> <<>>]
      ELSE [ok |-> TRUE, oldPages |-> [old EXCEPT ![1].start = range[1]],
            memory |-> WithRights(m, range, page)]

\* The segments without what is outside of the range.
TrimmedFront(old, range) ==
  [old EXCEPT ![1].size = @ - (range[1] - old[1].start), ![1].start = range[1]]
TrimmedBack(old, range) ==
  [old EXCEPT ![Len(old)].size = range[2] - (old[Len(old)].start - range[1])]

\* changePageProtection: the old pages are those in the range.
changePageProtection(m, page) ==
  LET range == alignPage(page.start, page.size)
      old == queryPage(m, range[1], range[2])
  IN  IF old = InvalidPage THEN [ok |-> FALSE, memory |-> m, oldPages |-> <<>>]
      ELSE [ok |-> TRUE, oldPages |-> TrimmedBack(TrimmedFront(old, range), range),
            memory |-> WithRights(m, range, page)]

\* Protections put back, one page after the other.
Protected(m, page) == changePageProtection(m, page).memory
Restored(m, pages) == Folded(m, pages, Protected)

\* safeCopy: the process dies when it writes where it may not.
safeCopy(m, from, to) ==
  LET opened == changePageProtection(m,
        [start |-> to, size |-> Len(from), isReadable |-> TRUE, isWritable |-> TRUE,
         isExecutable |-> TRUE, pathfile |-> <<>>])
  IN  CASE ~opened.ok -> [how |-> "throws", memory |-> m]
        [] opened.ok /\ ~Writable(opened.memory, to, Len(from)) ->
             [how |-> "died", memory |-> opened.memory]
        [] OTHER -> [how |-> "copied",
                     memory |-> Restored(Written(opened.memory, to, from), opened.oldPages)]
=============================================================================
