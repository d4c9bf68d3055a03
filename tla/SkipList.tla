------------------------------ MODULE SkipList ------------------------------
(* The memtable's skip list (db/skiplist.h): one writer at a time, readers  *)
(* without a lock.  The writer's stores have an order; a reader has seen    *)
(* some of them, and a load may return any later one: SetNext is a release  *)
(* and Next an acquire, so what was stored before a link it has followed is *)
(* seen with it, but max_height_ is relaxed.                                *)
EXTENDS Naturals, Sequences, FiniteSets

CONSTANTS Keys,       \* numbers from 1
          MaxHeight,  \* kMaxHeight
          MaxMoves    \* bound on the calls of the iterator

VARIABLES stores,     \* every store, in order: [node, level, to]
          writing,    \* Insert under way: [key, height, prev, level], or Idle
          published,  \* the keys inserted, and how many stores there were then
          seen,       \* the stores the reader has synchronized with
          search,     \* FindGreaterOrEqual and such: [op, key, x, level]
          node,       \* Iterator::node_, Nil for nullptr
          start,      \* what was published when the call began
          moves

vars == <<stores, writing, published, seen, search, node, start, moves>>

Front == 0        \* head_
Nil == 1000
Garbage == 999    \* memory not initialized
Idle == [key |-> Nil, height |-> 0, prev |-> <<>>, level |-> 0]
NotReading == [op |-> "none", key |-> Nil, x |-> Front, level |-> 0]
Height == MaxHeight    \* the level under which max_height_ is kept in stores
----------------------------------------------------------------------------
\* The writer sees all of its stores.
Places(n, level) == {i \in DOMAIN stores : stores[i].node = n /\ stores[i].level = level}
Newest(n, level) ==
  stores[CHOOSE i \in Places(n, level) : \A j \in Places(n, level) : j <= i].to
KeyIsAfterNode(key, n) == n # Nil /\ n < key
\* The last node before key at a level, and what it is linked to.
PrevAt(key, level) ==
  LET nodes == {Front} \cup {k \in published.keys : Places(k, level) # {} /\ k < key}
  IN  CHOOSE n \in nodes : \A o \in nodes : o <= n

\* FindGreaterOrEqual, RandomHeight, max_height_.store and NewNode.
Insert(key, height) ==
  /\ writing = Idle /\ key \notin published.keys
  /\ writing' = [key |-> key, height |-> height, level |-> 0,
                 prev |-> [i \in 0..(height - 1) |->
                             IF i < Newest(Front, Height) THEN PrevAt(key, i) ELSE Front]]
  /\ stores' = IF height > Newest(Front, Height)
               THEN Append(stores, [node |-> Front, level |-> Height, to |-> height])
               ELSE stores
  /\ UNCHANGED <<published, seen, search, node, start, moves>>

\* Mutant: the node is linked to before it has its own link.
LinkedLast(key, prev, level) ==
  <<[node |-> prev, level |-> level, to |-> key],
    [node |-> key, level |-> level, to |-> Newest(prev, level)]>>

\* One turn of the loop of Insert: the node's own link first, then the link to it.
Linked(key, prev, level) ==
  <<[node |-> key, level |-> level, to |-> Newest(prev, level)],
    [node |-> prev, level |-> level, to |-> key]>>
Link ==
  /\ writing # Idle
  /\ stores' = stores \o Linked(writing.key, writing.prev[writing.level], writing.level)
  /\ IF writing.level + 1 < writing.height
     THEN writing' = [writing EXCEPT !.level = @ + 1] /\ UNCHANGED published
     ELSE /\ writing' = Idle
          /\ published' = [keys |-> published.keys \cup {writing.key}, stores |-> Len(stores')]
  /\ UNCHANGED <<seen, search, node, start, moves>>
----------------------------------------------------------------------------
\* A load returns a store that is not older than one the reader has seen.
MayLoad(n, level) ==
  {i \in Places(n, level) : \A j \in Places(n, level) : j <= seen => j <= i}
GetMaxHeight == {stores[i].to : i \in MayLoad(Front, Height)}
\* A call begins after the database's mutex or the sequence number's store has
\* told the reader of what is published.
Begin(op, key, x) ==
  /\ search = NotReading /\ moves < MaxMoves
  /\ seen' = IF seen < published.stores THEN published.stores ELSE seen
  /\ start' = published.keys /\ moves' = moves + 1
  /\ search' = [op |-> op, key |-> key, x |-> x, level |-> MaxHeight]
  /\ UNCHANGED <<stores, writing, published, node>>
Seek(key) == Begin("seek", key, Front)
SeekToFirst == Begin("first", Nil, Front)
SeekToLast == Begin("last", Nil, Front)
Prev == node # Nil /\ Begin("prev", node, Front)
Next == node # Nil /\ Begin("next", node, node)

\* FindGreaterOrEqual, FindLessThan and FindLast begin at max_height_;
\* Node::Next of the lowest level is all of the other calls.
LoadMaxHeight ==
  /\ search # NotReading /\ search.level = MaxHeight
  /\ IF search.op \in {"first", "next"} THEN search' = [search EXCEPT !.level = 0]
     ELSE \E h \in GetMaxHeight : search' = [search EXCEPT !.level = h - 1]
  /\ UNCHANGED <<stores, writing, published, seen, node, start, moves>>

GoesOn(next) ==
  CASE search.op = "seek" -> KeyIsAfterNode(search.key, next)
    [] search.op = "prev" -> next # Nil /\ next < search.key
    [] search.op = "last" -> next # Nil
    [] OTHER -> FALSE
Found(next) ==
  IF search.op \in {"seek", "first", "next"} THEN next
  ELSE IF search.x = Front THEN Nil ELSE search.x
\* One turn of their loops: a node that is not initialized at a level has
\* whatever was in the memory.
LoadNext ==
  /\ search # NotReading /\ search.level < MaxHeight
  /\ \E i \in MayLoad(search.x, search.level) \cup
              {n \in {0} : \A j \in Places(search.x, search.level) : j > seen} :
       LET next == IF i = 0 THEN Garbage ELSE stores[i].to
       IN  /\ seen' = IF seen < i THEN i ELSE seen
           /\ IF GoesOn(next) THEN search' = [search EXCEPT !.x = next] /\ UNCHANGED node
              ELSE IF search.level = 0
              THEN search' = NotReading /\ node' = Found(next)
              ELSE search' = [search EXCEPT !.level = @ - 1] /\ UNCHANGED node
  /\ UNCHANGED <<stores, writing, published, start, moves>>

Init ==
  /\ stores = [i \in 1..(MaxHeight + 1) |->
                 [node |-> Front, level |-> i - 1, to |-> IF i = MaxHeight + 1 THEN 1 ELSE Nil]]
  /\ writing = Idle /\ published = [keys |-> {}, stores |-> MaxHeight + 1] /\ seen = MaxHeight + 1
  /\ search = NotReading /\ node = Nil /\ start = {} /\ moves = 0
Step ==
  \/ \E key \in Keys, height \in 1..MaxHeight : Insert(key, height)
  \/ Link
  \/ \E key \in Keys : Seek(key)
  \/ SeekToFirst \/ SeekToLast \/ Prev \/ Next \/ LoadMaxHeight \/ LoadNext
Spec == Init /\ [][Step]_vars
----------------------------------------------------------------------------
\* Types; each level of the list is ordered and part of the level below it.
At(level) == {k \in Keys : \E i \in DOMAIN stores :
                stores[i].level = level /\ stores[i].to = k /\ stores[i].node # k}
TypeOK ==
  /\ seen \in 1..Len(stores) /\ search.level \in 0..MaxHeight
  /\ \A level \in 0..(MaxHeight - 1) : \A k \in At(level) \cup {Front} :
       LET next == Newest(k, level)
       IN  /\ next > k
           /\ \A o \in At(level) : o > k => o >= next
           /\ level > 0 => k \in At(level - 1) \cup {Front}

\* A call lands on an entry that was inserted, and passes over none that was
\* inserted before it began.
ForwardFrom(op, key, at) ==
  IF op = "first" THEN start ELSE {k \in start : IF op = "seek" THEN k >= key ELSE k > key}
MissesNothing ==
  [][search # NotReading /\ search' = NotReading =>
       LET within == IF search.op = "prev" THEN {k \in start : k < search.key}
                     ELSE IF search.op = "last" THEN start
                     ELSE ForwardFrom(search.op, search.key, node)
       IN  /\ node' \in Keys \cup {Nil}
           /\ node' = Nil => within = {}
           /\ node' # Nil /\ search.op \in {"prev", "last"} => \A k \in within : k <= node'
           /\ node' # Nil /\ search.op \in {"seek", "first", "next"} => \A k \in within : node' <= k
           /\ node' # Nil => CASE search.op = "prev" -> node' < search.key
                               [] search.op = "seek" -> node' >= search.key
                               [] search.op = "next" -> node' > search.key
                               [] OTHER -> TRUE]_vars
=============================================================================
