------------------------- MODULE SessionPool_proofs -------------------------
(***************************************************************************)
(* Theorems about SessionPool, for every set of threads, sessions,         *)
(* connections and profiles, and every combination of requests and faults, *)
(* and about LoginLimiter, for every limit, window and block.              *)
(*                                                                         *)
(* Why the pool is sound: the lock of an entry is held exactly while one   *)
(* request is between borrowing and giving back (LocksHeld), what that     *)
(* request holds is what the entry caches (HeldCached), connections are    *)
(* open exactly when one entry caches them (CacheSound), and rows that are *)
(* not committed belong to an import that is about to (RowsPending).       *)
(*                                                                         *)
(* Why the limiter counts: an entry has the same recent failures as the    *)
(* history (Remembers).  Why that bounds them: a failure that blocks is    *)
(* followed, while its block lasts, only by those of attempts which were   *)
(* in flight already (Dense), so that as many failures later it is a block *)
(* later (BlocksApart), and only so many blocks fit into a window.         *)
(***************************************************************************)
EXTENDS SessionPool, LoginLimiter, FiniteSetTheorems, SequenceTheorems, WellFoundedInduction, TLAPS

\* Between borrow_connection's yield and the end of its finally block.
Holding(t) == pc[t] \in {"use", "commit", "end"}

LocksHeld ==
    /\ \A t \in Threads : Holding(t) => mine[t].sid \in Sessions /\ lock[mine[t].sid] = t
    /\ \A s \in Sessions : lock[s] # NoThread => Holding(lock[s]) /\ mine[lock[s]].sid = s

HeldCached ==
    /\ \A t \in Threads : Using(t) => held[t] \in Conns
    /\ \A t \in Threads : Holding(t) /\ held[t] \in Conns => cache[mine[t].sid] = held[t]

CacheSound ==
    /\ \A s \in Sessions : cache[s] \in Conns => conn[cache[s]].state # "free"
    /\ \A c \in Conns : conn[c].state # "free" => \E s \in Sessions : cache[s] = c
    /\ \A s, u \in Sessions : cache[s] \in Conns /\ cache[s] = cache[u] => s = u

RowsPending ==
    \A c \in Conns : conn[c].rows => \E t \in Threads : pc[t] = "commit" /\ held[t] = c

\* Where a request is in its path through the handlers, it knows what it needs.
Route ==
    \A t \in Threads :
        /\ pc[t] = "lock" => mine[t].sid \in Sessions
        /\ pc[t] = "close" => after[t] \in {"find", "reply", "create"}
        /\ pc[t] = "create" \/ (pc[t] = "close" /\ after[t] = "create") => new[t] \in Sessions

PoolInv ==
    TypeOK /\ Route /\ LocksHeld /\ HeldCached /\ CacheSound /\ OwnServer /\ RowsPending /\ AllOrNothing

-----------------------------------------------------------------------------
(* The initial state.                                                      *)

LEMMA ProfileChosen == AnyProfile \in Profiles
  BY PoolAssumption DEF AnyProfile

LEMMA ConnTypes ==
  /\ Free \in Conn /\ Lost \in Conn
  /\ Free.state = "free" /\ Lost.state = "lost" /\ ~Free.rows /\ ~Lost.rows
  BY ProfileChosen DEF Free, Lost, Conn

LEMMA PoolStart == Init => PoolInv
  <1> SUFFICES ASSUME Init PROVE PoolInv
    OBVIOUS
  <1>1. TypeOK
    BY ProfileChosen, ConnTypes DEF Init, TypeOK, Cookie, Points, Parts, AllWorks
  <1>2. Route /\ LocksHeld /\ HeldCached
    BY PoolAssumption DEF Init, Route, LocksHeld, HeldCached, Holding, Using
  <1>3. CacheSound /\ OwnServer /\ RowsPending /\ AllOrNothing
    BY PoolAssumption, ConnTypes DEF Init, CacheSound, OwnServer, RowsPending, AllOrNothing, Using
  <1>4. QED
    BY <1>1, <1>2, <1>3 DEF PoolInv

-----------------------------------------------------------------------------
(* Requests and the registry: nothing that is borrowed is touched.         *)

\* A step of t that leaves connections alone, and what the others know.
Quiet(t) ==
    /\ UNCHANGED <<pool, imported>>
    /\ ~Holding(t) /\ ~Holding(t)'
    /\ \A u \in Threads \ {t} :
          pc'[u] = pc[u] /\ mine'[u] = mine[u] /\ held'[u] = held[u]

LEMMA QuietKeeps ==
  ASSUME PoolInv, NEW t \in Threads, Quiet(t)
  PROVE  LocksHeld' /\ HeldCached' /\ CacheSound' /\ OwnServer' /\ RowsPending' /\ AllOrNothing'
  <1> USE DEF PoolInv, Quiet, pool
  <1>1. LocksHeld'
    BY PoolAssumption DEF TypeOK, LocksHeld, Holding
  <1>2. HeldCached'
    BY DEF HeldCached, Holding, Using
  <1>3. CacheSound'
    BY DEF CacheSound
  <1>4. OwnServer'
    BY DEF OwnServer, Holding, Using
  <1>5. RowsPending'
    BY DEF RowsPending, Holding
  <1>6. QED
    BY <1>1, <1>2, <1>3, <1>4, <1>5 DEF AllOrNothing

LEMMA QuietSteps ==
  ASSUME TypeOK, NEW t \in Threads,
         CleanUp(t) \/ Find(t) \/ Clear(t) \/ Create(t) \/ Reply(t)
            \/ \E kind \in Works : Request(t, kind)
  PROVE  Quiet(t)
  <1> USE DEF TypeOK, Quiet, Holding, Goto
  <1>1. CASE CleanUp(t)
    BY <1>1 DEF CleanUp, Pop
  <1>2. CASE Find(t)
    BY <1>2 DEF Find
  <1>3. CASE Clear(t)
    BY <1>3 DEF Clear, Pop
  <1>4. CASE Create(t)
    BY <1>4 DEF Create
  <1>5. CASE Reply(t)
    BY <1>5 DEF Reply, Done
  <1>6. CASE \E kind \in Works : Request(t, kind)
    BY <1>6 DEF Request, Entry
  <1>7. QED
    BY <1>1, <1>2, <1>3, <1>4, <1>5, <1>6

\* The registry's handlers keep every type, and a request on its route.
LEMMA RegistryTypes ==
  ASSUME TypeOK, Route, NEW t \in Threads,
         CleanUp(t) \/ Find(t) \/ Clear(t) \/ Create(t) \/ Reply(t)
            \/ \E kind \in Works : Request(t, kind)
  PROVE  TypeOK' /\ Route'
  <1> USE PoolAssumption, ProfileChosen DEF TypeOK, Route, Goto, Points, Cookie, pool
  <1>1. ASSUME NEW popped \in SUBSET Sessions, NEW next \in {"find", "reply", "create"},
               Pop(t, popped, next), mine'[t] \in Cookie,
               next = "create" => new[t] \in Sessions,
               \A u \in Threads \ {t} : mine'[u] = mine[u],
               mine' = [mine EXCEPT ![t] = mine'[t]],
               UNCHANGED <<cookie, pool, imported, work, new, held>>
        PROVE  TypeOK' /\ Route'
    <2>1. active' \subseteq Sessions /\ idle' \subseteq active'
      BY <1>1 DEF Pop
    <2>2. closing' \in [Threads -> SUBSET Sessions] /\ after' \in [Threads -> Points]
      BY <1>1 DEF Pop
    <2>3. pc' \in [Threads -> Points]
      BY <1>1 DEF Pop
    <2>4. [mine EXCEPT ![t] = mine'[t]] \in [Threads -> Cookie]
      BY <1>1
    <2>5. mine' \in [Threads -> Cookie]
      BY <1>1, <2>4, Zenon
    <2>6. TypeOK'
      BY <1>1, <2>1, <2>2, <2>3, <2>5
    <2>7. Route'
      BY <1>1 DEF Pop
    <2>8. QED
      BY <2>6, <2>7
  <1>2. CASE CleanUp(t)
    <2>1. idle \in SUBSET Sessions
      OBVIOUS
    <2>2. mine' = [mine EXCEPT ![t] = mine'[t]]
      BY <1>2 DEF CleanUp
    <2>3. QED
      BY <1>1, <1>2, <2>1, <2>2 DEF CleanUp
  <1>3. CASE Find(t)
    <2>1. mine' \in [Threads -> Cookie]
      BY <1>3 DEF Find
    <2>2. TypeOK'
      BY <1>3, <2>1 DEF Find
    <2>3. Route'
      BY <1>3 DEF Find
    <2>4. QED
      BY <2>2, <2>3
  <1>4. CASE Clear(t)
    <2>1. active \cap {mine[t].sid} \in SUBSET Sessions
      OBVIOUS
    <2>2. mine' = [mine EXCEPT ![t] = mine'[t]] /\ mine'[t] \in Cookie
      BY <1>4 DEF Clear
    <2>3. QED
      BY <1>1, <1>4, <2>1, <2>2 DEF Clear
  <1>5. CASE Create(t)
    <2>1. new[t] \in Sessions
      BY <1>5 DEF Create
    <2>2. mine' \in [Threads -> Cookie]
      BY <1>5, <2>1 DEF Create
    <2>3. TypeOK'
      BY <1>5, <2>1, <2>2 DEF Create
    <2>4. Route'
      BY <1>5 DEF Create
    <2>5. QED
      BY <2>3, <2>4
  <1>6. CASE Reply(t)
    <2>1. mine' \in [Threads -> Cookie] /\ cookie' \in Cookie
      BY <1>6 DEF Reply, Done
    <2>2. TypeOK'
      BY <1>6, <2>1 DEF Reply, Done, registry, Parts, AllWorks
    <2>3. Route'
      BY <1>6 DEF Reply, Done
    <2>4. QED
      BY <2>2, <2>3
  <1>7. CASE \E kind \in Works : Request(t, kind)
    <2>1. PICK kind \in Works : Request(t, kind)
      BY <1>7
    <2>2. new' \in [Threads -> Sessions \cup {NoSession}]
      BY <2>1 DEF Request
    <2>3. TypeOK'
      BY <2>1, <2>2 DEF Request, Entry, registry, Parts
    <2>4. Route'
      BY <2>1 DEF Request, Entry
    <2>5. QED
      BY <2>3, <2>4
  <1>8. QED
    BY <1>2, <1>3, <1>4, <1>5, <1>6, <1>7

-----------------------------------------------------------------------------
(* Borrowing, using and giving back.                                       *)

\* A request's entry is nobody else's while it holds the lock, and neither is
\* the connection it holds.
LEMMA Alone ==
  ASSUME PoolInv, NEW t \in Threads, NEW u \in Threads, Holding(t), Holding(u)
  PROVE  /\ mine[t].sid = mine[u].sid => t = u
         /\ held[t] \in Conns /\ held[t] = held[u] => t = u
  BY DEF PoolInv, LocksHeld, HeldCached, CacheSound

\* Closing what an entry caches does not touch what a request borrowed from
\* another entry.
LEMMA ClosedElsewhere ==
  ASSUME PoolInv, NEW s \in Sessions, NEW u \in Threads, Holding(u), held[u] \in Conns,
         mine[u].sid # s
  PROVE  held[u] # cache[s] /\ ConnsWithout(s)[held[u]] = conn[held[u]]
  BY DEF PoolInv, LocksHeld, HeldCached, CacheSound, ConnsWithout

LEMMA ConnsWithoutType ==
  ASSUME TypeOK, NEW s
  PROVE  ConnsWithout(s) \in [Conns -> Conn]
  BY ConnTypes DEF TypeOK, ConnsWithout

\* A closed cache leaves the others as they were.
LEMMA ClosedCache ==
  ASSUME PoolInv, NEW s \in Sessions,
         conn' = ConnsWithout(s), cache' = [cache EXCEPT ![s] = NoConn]
  PROVE  CacheSound'
  <1> USE PoolAssumption, ConnTypes DEF PoolInv, TypeOK, ConnsWithout
  <1>1. \A u \in Sessions : cache'[u] \in Conns =>
            u # s /\ cache'[u] = cache[u] /\ conn'[cache[u]] = conn[cache[u]]
    BY DEF CacheSound
  <1>2. \A c \in Conns : conn'[c].state # "free" => c # cache[s] /\ conn'[c] = conn[c]
    OBVIOUS
  <1>3. QED
    BY <1>1, <1>2 DEF CacheSound

\* A connection opened for an entry replaces the one it cached.
LEMMA OpenedCache ==
  ASSUME PoolInv, NEW s \in Sessions, NEW c \in Conns, NEW r \in Conn,
         ConnsWithout(s)[c].state = "free", r.state # "free",
         conn' = [ConnsWithout(s) EXCEPT ![c] = r], cache' = [cache EXCEPT ![s] = c]
  PROVE  CacheSound'
  <1> USE PoolAssumption, ConnTypes DEF PoolInv, TypeOK, ConnsWithout
  <1>1. \A u \in Sessions \ {s} : cache[u] # c
    BY DEF CacheSound
  <1>2. \A u \in Sessions \ {s} : cache'[u] = cache[u]
            /\ (cache[u] \in Conns => conn'[cache[u]] = conn[cache[u]])
    BY <1>1 DEF CacheSound
  <1>3. cache'[s] = c /\ conn'[c] = r
    OBVIOUS
  <1>4. \A d \in Conns \ {c} : conn'[d].state # "free" => d # cache[s] /\ conn'[d] = conn[d]
    OBVIOUS
  <1>5. QED
    BY <1>1, <1>2, <1>3, <1>4 DEF CacheSound

\* The connections of other requests survive a step on the entry s.
LEMMA ElsewhereKept ==
  ASSUME PoolInv, NEW s \in Sessions,
         \/ conn' = ConnsWithout(s)
         \/ \E c \in Conns, r \in Conn :
               ConnsWithout(s)[c].state = "free" /\ conn' = [ConnsWithout(s) EXCEPT ![c] = r]
  PROVE  \A u \in Threads : Holding(u) /\ held[u] \in Conns /\ mine[u].sid # s =>
            conn'[held[u]] = conn[held[u]]
  <1> SUFFICES ASSUME NEW u \in Threads, Holding(u), held[u] \in Conns, mine[u].sid # s
               PROVE  conn'[held[u]] = conn[held[u]]
    OBVIOUS
  <1>1. ConnsWithout(s)[held[u]] = conn[held[u]]
    BY ClosedElsewhere
  <1>2. conn[held[u]].state # "free"
    BY DEF PoolInv, LocksHeld, HeldCached, CacheSound
  <1>3. ConnsWithout(s) \in [Conns -> Conn]
    BY ConnsWithoutType DEF PoolInv
  <1>4. QED
    BY <1>1, <1>2, <1>3

\* Rows pending on a connection that is still there belong to the same import.
LEMMA RowsElsewhere ==
  ASSUME PoolInv, NEW s \in Sessions, NEW c \in Conns,
         ConnsWithout(s)[c].rows
  PROVE  c # cache[s] /\ \E t \in Threads : pc[t] = "commit" /\ held[t] = c /\ mine[t].sid # s
  <1>1. c # cache[s] /\ conn[c].rows
    BY ConnTypes DEF ConnsWithout
  <1>2. QED
    BY <1>1 DEF PoolInv, RowsPending, HeldCached, Holding

\* close_cached_connection waits for the lock, so what it closes is not in use.
LEMMA CloseOneKeeps ==
  ASSUME PoolInv, NEW t \in Threads, CloseOne(t)
  PROVE  PoolInv'
  <1>1. PICK s \in closing[t] :
            /\ lock[s] = NoThread /\ conn' = ConnsWithout(s)
            /\ cache' = [cache EXCEPT ![s] = NoConn]
            /\ closing' = [closing EXCEPT ![t] = @ \ {s}]
            /\ IF closing[t] = {s}
               THEN Goto(t, after[t]) /\ after' = [after EXCEPT ![t] = "idle"]
               ELSE UNCHANGED <<pc, after>>
    BY DEF CloseOne, Closable
  <1>2. s \in Sessions
    BY DEF PoolInv, TypeOK
  <1>3. UNCHANGED <<cookie, registry, lock, imported, work, mine, new, held>>
    BY DEF CloseOne
  <1>4. TypeOK'
    <2>1. conn' \in [Conns -> Conn]
      BY <1>1, ConnsWithoutType DEF PoolInv
    <2>2. pc' \in [Threads -> Points] /\ after' \in [Threads -> Points]
      BY <1>1 DEF PoolInv, TypeOK, Goto, Points
    <2>3. QED
      BY <1>1, <1>2, <1>3, <2>1, <2>2 DEF PoolInv, TypeOK, registry
  <1>5. ~Holding(t) /\ ~Holding(t)' /\ \A u \in Threads \ {t} : pc'[u] = pc[u]
    BY <1>1 DEF CloseOne, PoolInv, Route, TypeOK, Goto, Holding
  <1>6. Route'
    BY <1>1, <1>3 DEF CloseOne, PoolInv, Route, TypeOK, Goto
  <1>7. LocksHeld'
    BY <1>3, <1>5, PoolAssumption DEF PoolInv, LocksHeld, TypeOK, Holding
  <1>8. \A u \in Threads : Holding(u) => mine[u].sid # s
    BY <1>1, PoolAssumption DEF PoolInv, LocksHeld
  <1>9. HeldCached'
    BY <1>1, <1>3, <1>5, <1>8 DEF PoolInv, LocksHeld, HeldCached, TypeOK, Holding, Using
  <1>10. CacheSound'
    BY <1>1, <1>2, ClosedCache
  <1>11. OwnServer'
    BY <1>1, <1>2, <1>3, <1>5, <1>8, ElsewhereKept
       DEF PoolInv, OwnServer, HeldCached, Holding, Using
  <1>12. RowsPending'
    BY <1>1, <1>2, <1>3, <1>5, RowsElsewhere DEF RowsPending, Holding
  <1>13. QED
    BY <1>3, <1>4, <1>6, <1>7, <1>9, <1>10, <1>11, <1>12 DEF PoolInv, AllOrNothing

\* Taking the lock: what borrow_connection then knows.
LEMMA BorrowKeeps ==
  ASSUME PoolInv, NEW t \in Threads, AtLock(t), NEW c \in Conns, Borrow(t, c),
         mine' = mine
  PROVE  /\ LocksHeld' /\ mine[t].sid \in Sessions /\ Using(t)'
         /\ \A u \in Threads : Holding(u) => u # t /\ mine[u].sid # mine[t].sid
         /\ \A u \in Threads \ {t} : pc'[u] = pc[u] /\ held'[u] = held[u]
         /\ held'[t] = c /\ pc'[t] = "use" /\ pc[t] = "lock"
  <1> USE PoolAssumption DEF PoolInv, TypeOK, AtLock, Borrow, Goto
  <1>1. mine[t].sid \in Sessions /\ pc[t] = "lock" /\ ~Holding(t)
    BY DEF Route, Holding
  <1>2. \A u \in Threads \ {t} : pc'[u] = pc[u] /\ held'[u] = held[u]
    OBVIOUS
  <1>3. held'[t] = c /\ pc'[t] = "use" /\ Using(t)' /\ Holding(t)'
    BY DEF Using, Holding
  <1>4. \A u \in Threads : Holding(u) => u # t /\ mine[u].sid # mine[t].sid
    BY <1>1 DEF LocksHeld
  <1>5. LocksHeld'
    <2>1. \A u \in Threads : Holding(u)' => mine'[u].sid \in Sessions /\ lock'[mine'[u].sid] = u
      BY <1>1, <1>2, <1>4 DEF LocksHeld, Holding
    <2>2. \A s \in Sessions : lock'[s] # NoThread => Holding(lock[s])' /\ mine'[lock'[s]].sid = s
      <3>1. TAKE s \in Sessions
      <3>2. CASE s = mine[t].sid
        BY <1>1, <1>3, <3>2
      <3>3. CASE s # mine[t].sid
        <4>1. lock'[s] = lock[s]
          BY <3>3
        <4>2. lock[s] # NoThread => lock[s] \in Threads \ {t} /\ Holding(lock[s]) /\ mine[lock[s]].sid = s
          BY <1>1, <3>3 DEF LocksHeld
        <4>3. QED
          BY <1>2, <4>1, <4>2 DEF Holding
      <3>4. QED
        BY <3>2, <3>3
    <2>3. QED
      BY <2>1, <2>2 DEF LocksHeld
  <1>6. QED
    BY <1>1, <1>2, <1>3, <1>4, <1>5

LEMMA ReuseKeeps ==
  ASSUME PoolInv, NEW t \in Threads, Reuse(t)
  PROVE  PoolInv'
  <1> DEFINE c == cache[mine[t].sid]
  <1>1. /\ AtLock(t) /\ Borrow(t, c) /\ Usable(t, c)
        /\ UNCHANGED <<cookie, registry, cache, conn, imported, work, mine, new, closing, after>>
    BY DEF Reuse
  <1>2. c \in Conns
    BY <1>1 DEF Usable, SameSignature, AtLock, PoolInv, TypeOK, Route
  <1>3. /\ LocksHeld' /\ mine[t].sid \in Sessions /\ Using(t)'
        /\ \A u \in Threads : Holding(u) => u # t /\ mine[u].sid # mine[t].sid
        /\ \A u \in Threads \ {t} : pc'[u] = pc[u] /\ held'[u] = held[u]
        /\ held'[t] = c /\ pc'[t] = "use" /\ pc[t] = "lock"
    BY <1>1, <1>2, BorrowKeeps
  <1>4. TypeOK'
    BY <1>1, <1>2 DEF Borrow, Goto, PoolInv, TypeOK, Points, registry
  <1>5. Route'
    BY <1>1, <1>3 DEF PoolInv, Route
  <1>6. HeldCached'
    BY <1>1, <1>2, <1>3 DEF PoolInv, HeldCached, Holding, Using
  <1>7. CacheSound'
    BY <1>1 DEF PoolInv, CacheSound
  <1>8. OwnServer'
    BY <1>1, <1>3 DEF PoolInv, OwnServer, Usable, SameSignature, Using
  <1>9. RowsPending'
    BY <1>1, <1>3 DEF PoolInv, RowsPending
  <1>10. QED
    BY <1>1, <1>3, <1>4, <1>5, <1>6, <1>7, <1>8, <1>9 DEF PoolInv, AllOrNothing

LEMMA OpenNewKeeps ==
  ASSUME PoolInv, NEW t \in Threads, OpenNew(t)
  PROVE  PoolInv'
  <1> DEFINE s == mine[t].sid
  <1>1. PICK c \in Conns :
            /\ ConnsWithout(s)[c].state = "free"
            /\ conn' = [ConnsWithout(s) EXCEPT ![c] = Opened(t)]
            /\ cache' = [cache EXCEPT ![s] = c]
            /\ Borrow(t, c)
    BY DEF OpenNew
  <1>2. /\ AtLock(t)
        /\ UNCHANGED <<cookie, registry, imported, work, mine, new, closing, after>>
    BY DEF OpenNew
  <1>3. /\ LocksHeld' /\ mine[t].sid \in Sessions /\ Using(t)'
        /\ \A u \in Threads : Holding(u) => u # t /\ mine[u].sid # mine[t].sid
        /\ \A u \in Threads \ {t} : pc'[u] = pc[u] /\ held'[u] = held[u]
        /\ held'[t] = c /\ pc'[t] = "use" /\ pc[t] = "lock"
    BY <1>1, <1>2, BorrowKeeps
  <1>4. Opened(t) \in Conn /\ Opened(t).state = "open" /\ Opened(t).profile = mine[t].profile
        /\ ~Opened(t).rows
    BY ConnTypes DEF Opened, Free, Conn, PoolInv, TypeOK, Cookie
  <1>5. ConnsWithout(s) \in [Conns -> Conn]
    BY ConnsWithoutType DEF PoolInv
  <1>6. conn'[c] = Opened(t) /\ conn' \in [Conns -> Conn]
    BY <1>1, <1>4, <1>5
  <1>7. TypeOK'
    BY <1>1, <1>2, <1>6 DEF Borrow, Goto, PoolInv, TypeOK, Points, registry
  <1>8. Route'
    BY <1>2, <1>3 DEF PoolInv, Route
  <1>9. HeldCached'
    <2>1. cache \in [Sessions -> Conns \cup {NoConn}]
      BY DEF PoolInv, TypeOK
    <2>2. QED
      BY <1>1, <1>2, <1>3, <2>1 DEF PoolInv, HeldCached, Holding, Using
  <1>10. CacheSound'
    BY <1>1, <1>3, <1>4, OpenedCache
  <1>11. OwnServer'
    <2>1. \A u \in Threads : Holding(u) /\ held[u] \in Conns /\ mine[u].sid # s =>
            conn'[held[u]] = conn[held[u]]
      BY <1>1, <1>3, <1>4, ElsewhereKept
    <2>2. QED
      BY <1>2, <1>3, <1>4, <1>6, <2>1 DEF PoolInv, OwnServer, HeldCached, Holding, Using
  <1>12. RowsPending'
    <2>1. ASSUME NEW d \in Conns, conn'[d].rows
          PROVE  ConnsWithout(s)[d].rows
      BY <1>1, <1>4, <1>5, <2>1
    <2>2. QED
      BY <1>3, <2>1, RowsElsewhere DEF RowsPending
  <1>13. QED
    BY <1>2, <1>3, <1>7, <1>8, <1>9, <1>10, <1>11, <1>12 DEF PoolInv, AllOrNothing

LEMMA OpenFailsKeeps ==
  ASSUME PoolInv, NEW t \in Threads, OpenFails(t)
  PROVE  PoolInv'
  <1> DEFINE s == mine[t].sid
  <1>1. /\ pc[t] = "lock" /\ lock[s] = NoThread /\ s \in Sessions
        /\ UNCHANGED <<cookie, registry, lock, imported, locals>>
    BY DEF OpenFails, AtLock, PoolInv, Route
  <1>2. PICK page \in {"clear", "reply"} : Goto(t, page)
    BY DEF OpenFails
  <1>3. \/ conn' = ConnsWithout(s) /\ cache' = [cache EXCEPT ![s] = NoConn]
        \/ \E c \in Conns :
             /\ ConnsWithout(s)[c].state = "free"
             /\ conn' = [ConnsWithout(s) EXCEPT ![c] = Lost]
             /\ cache' = [cache EXCEPT ![s] = c]
    BY DEF OpenFails
  <1>4. ConnsWithout(s) \in [Conns -> Conn]
    BY ConnsWithoutType DEF PoolInv
  <1>5. conn' \in [Conns -> Conn] /\ cache' \in [Sessions -> Conns \cup {NoConn}]
    BY <1>3, <1>4, ConnTypes DEF PoolInv, TypeOK
  <1>6. TypeOK'
    BY <1>1, <1>2, <1>5 DEF Goto, PoolInv, TypeOK, Points, registry, locals
  <1>7. ~Holding(t) /\ ~Holding(t)' /\ \A u \in Threads \ {t} : pc'[u] = pc[u]
    BY <1>1, <1>2 DEF Goto, PoolInv, TypeOK, Holding
  <1>8. Route'
    BY <1>1, <1>2 DEF Goto, PoolInv, TypeOK, Route, locals
  <1>9. LocksHeld'
    BY <1>1, <1>7, PoolAssumption DEF PoolInv, LocksHeld, TypeOK, Holding, locals
  <1>10. \A u \in Threads : Holding(u) => mine[u].sid \in Sessions /\ mine[u].sid # s
    BY <1>1, PoolAssumption DEF PoolInv, LocksHeld
  <1>11. HeldCached'
    <2>1. \A u \in Sessions \ {s} : cache'[u] = cache[u]
      BY <1>3 DEF PoolInv, TypeOK
    <2>2. QED
      BY <1>1, <1>7, <1>10, <2>1 DEF PoolInv, HeldCached, Holding, Using, locals
  <1>12. CacheSound'
    BY <1>1, <1>3, ClosedCache, OpenedCache, ConnTypes
  <1>13. OwnServer'
    <2>1. \A u \in Threads : Holding(u) /\ held[u] \in Conns /\ mine[u].sid # s =>
            conn'[held[u]] = conn[held[u]]
      BY <1>1, <1>3, ElsewhereKept, ConnTypes
    <2>2. QED
      BY <1>1, <1>7, <1>10, <2>1 DEF PoolInv, OwnServer, HeldCached, Holding, Using, locals
  <1>14. RowsPending'
    <2>1. ASSUME NEW d \in Conns, conn'[d].rows
          PROVE  ConnsWithout(s)[d].rows
      BY <1>3, <1>4, <2>1, ConnTypes
    <2>2. QED
      BY <1>1, <1>7, <2>1, RowsElsewhere DEF RowsPending, Holding, locals
  <1>15. QED
    BY <1>1, <1>6, <1>8, <1>9, <1>11, <1>12, <1>13, <1>14 DEF PoolInv, AllOrNothing

\* A statement on the borrowed connection: it stays there, open or lost, for the
\* profile it was opened for, and no other connection changes.
LEMMA StatementKeeps ==
  ASSUME PoolInv, NEW t \in Threads, Using(t), NEW next \in {"commit", "end"}, Goto(t, next),
         NEW r \in Conn, r.state = conn[held[t]].state, r.profile = conn[held[t]].profile,
         r.rows => next = "commit",
         conn' = [conn EXCEPT ![held[t]] = r],
         imported' \in {imported, imported \cup {"whole"}},
         UNCHANGED <<cookie, registry, cache, lock, locals>>
  PROVE  PoolInv'
  <1> DEFINE c == held[t]
  <1>1. c \in Conns /\ Holding(t)
    BY DEF PoolInv, HeldCached, Using, Holding
  <1>2. conn \in [Conns -> Conn]
    BY DEF PoolInv, TypeOK
  <1>3. conn' \in [Conns -> Conn] /\ conn'[c] = r
    BY <1>1, <1>2
  <1>4. \A d \in Conns : conn'[d].state = conn[d].state /\ conn'[d].profile = conn[d].profile
                         /\ (d # c => conn'[d] = conn[d])
    BY <1>1, <1>2, <1>3
  <1>5. pc'[t] = next /\ \A u \in Threads \ {t} : pc'[u] = pc[u]
    BY DEF Goto, PoolInv, TypeOK
  <1>6. Holding(t)' /\ \A u \in Threads : Holding(u)' = Holding(u) /\ (Using(u)' => Using(u))
    BY <1>1, <1>5 DEF Holding, Using
  <1>7. TypeOK'
    BY <1>3 DEF Goto, PoolInv, TypeOK, Points, registry, locals
  <1>8. Route'
    BY <1>5 DEF PoolInv, Route, locals
  <1>9. LocksHeld'
    BY <1>6, PoolAssumption DEF PoolInv, TypeOK, LocksHeld, locals
  <1>10. HeldCached'
    BY <1>6 DEF PoolInv, HeldCached, locals
  <1>11. CacheSound'
    BY <1>4 DEF PoolInv, CacheSound
  <1>12. OwnServer'
    BY <1>4, <1>6 DEF PoolInv, HeldCached, OwnServer, locals
  <1>13. RowsPending'
    <2>1. SUFFICES ASSUME NEW d \in Conns, conn'[d].rows
                   PROVE  \E u \in Threads : pc'[u] = "commit" /\ held'[u] = d
      BY DEF RowsPending
    <2>2. CASE d = c
      BY <1>3, <1>5, <2>1, <2>2 DEF locals
    <2>3. CASE d # c
      <3>1. PICK u \in Threads : pc[u] = "commit" /\ held[u] = d
        BY <1>4, <2>1, <2>3 DEF PoolInv, RowsPending
      <3>2. u # t
        BY <2>3, <3>1
      <3>3. QED
        BY <1>5, <3>1, <3>2 DEF locals
    <2>4. QED
      BY <2>2, <2>3
  <1>14. QED
    BY <1>7, <1>8, <1>9, <1>10, <1>11, <1>12, <1>13 DEF PoolInv, AllOrNothing, locals

LEMMA UseKeeps ==
  ASSUME PoolInv, NEW t \in Threads, Use(t)
  PROVE  PoolInv'
  <1> DEFINE c == held[t]
             r == [conn[c] EXCEPT !.engine = EngineAfter(t, c), !.rows = (work[t] = "import")]
             next == IF work[t] = "import" THEN "commit" ELSE "end"
  <1>1. Using(t) /\ c \in Conns /\ conn[c] \in Conn
    BY DEF Use, Using, PoolInv, TypeOK, HeldCached
  <1>2. EngineAfter(t, c) \in {"default", "off", "set"}
    BY <1>1 DEF EngineAfter, Conn
  <1>3. r \in Conn /\ r.state = conn[c].state /\ r.profile = conn[c].profile
        /\ r.rows = (work[t] = "import")
    BY <1>1, <1>2 DEF Conn
  <1>4. conn' = [conn EXCEPT ![c] = r]
    BY <1>1 DEF Use, PoolInv, TypeOK
  <1>5. Goto(t, next) /\ next \in {"commit", "end"} /\ (r.rows => next = "commit")
    BY <1>3 DEF Use
  <1>6. imported' \in {imported, imported \cup {"whole"}} /\ UNCHANGED <<cookie, registry, cache, lock, locals>>
    BY DEF Use
  <1> HIDE DEF c, r, next
  <1>7. QED
    BY <1>1, <1>3, <1>4, <1>5, <1>6, StatementKeeps DEF c

LEMMA CommitKeeps ==
  ASSUME PoolInv, NEW t \in Threads, Commit(t)
  PROVE  PoolInv'
  <1> DEFINE c == held[t]
             r == [conn[c] EXCEPT !.rows = FALSE]
  <1>1. Using(t) /\ c \in Conns /\ conn[c] \in Conn
    BY DEF Commit, Using, PoolInv, TypeOK, HeldCached
  <1>2. r \in Conn /\ r.state = conn[c].state /\ r.profile = conn[c].profile /\ ~r.rows
    BY <1>1 DEF Conn
  <1>3. conn' = [conn EXCEPT ![c] = r]
    BY <1>1 DEF Commit, PoolInv, TypeOK
  <1>4. Goto(t, "end") /\ imported' \in {imported, imported \cup {"whole"}}
        /\ UNCHANGED <<cookie, registry, cache, lock, locals>>
    BY DEF Commit
  <1> HIDE DEF c, r
  <1>5. QED
    BY <1>1, <1>2, <1>3, <1>4, StatementKeeps DEF c

\* A statement fails.  The connection stays, without what it had not committed,
\* or it does not answer and is closed.
LEMMA UseFailsKeeps ==
  ASSUME PoolInv, NEW t \in Threads, UseFails(t)
  PROVE  PoolInv'
  <1> DEFINE c == held[t]
             s == mine[t].sid
  <1>1. Using(t) /\ c \in Conns /\ conn[c] \in Conn /\ Goto(t, "end")
    BY DEF UseFails, Using, PoolInv, TypeOK, HeldCached
  <1>2. CASE ~(work[t] = "import" /\ conn[c].state = "lost")
    <2> DEFINE r == [conn[c] EXCEPT !.rows = FALSE]
    <2>1. r \in Conn /\ r.state = conn[c].state /\ r.profile = conn[c].profile /\ ~r.rows
      BY <1>1 DEF Conn
    <2>2. conn' = [conn EXCEPT ![c] = r]
      BY <1>1, <1>2 DEF UseFails, PoolInv, TypeOK
    <2>3. imported' = imported /\ UNCHANGED <<cookie, registry, cache, lock, locals>>
      BY <1>2 DEF UseFails, locals
    <2> HIDE DEF c, r
    <2>4. QED
      BY <1>1, <2>1, <2>2, <2>3, StatementKeeps DEF c
  <1>3. CASE work[t] = "import" /\ conn[c].state = "lost"
    <2>1. /\ conn' = ConnsWithout(s) /\ cache' = [cache EXCEPT ![s] = NoConn]
          /\ held' = [held EXCEPT ![t] = NoConn]
          /\ UNCHANGED <<cookie, registry, lock, imported, work, mine, new, closing, after>>
      BY <1>3 DEF UseFails
    <2>2. s \in Sessions /\ \A u \in Threads \ {t} : Holding(u) => mine[u].sid # s
      BY <1>1 DEF PoolInv, LocksHeld, Using, Holding
    <2>3. pc'[t] = "end" /\ held'[t] = NoConn
          /\ \A u \in Threads \ {t} : pc'[u] = pc[u] /\ held'[u] = held[u]
      BY <1>1, <2>1 DEF Goto, PoolInv, TypeOK
    <2>4. Holding(t) /\ Holding(t)' /\ ~Using(t)'
      BY <1>1, <2>3 DEF Holding, Using
    <2>5. TypeOK'
      <3>1. conn' \in [Conns -> Conn]
        BY <2>1, ConnsWithoutType DEF PoolInv
      <3>2. QED
        BY <1>1, <2>1, <3>1 DEF Goto, PoolInv, TypeOK, Points, registry
    <2>6. Route'
      BY <2>1, <2>3 DEF PoolInv, Route
    <2>7. LocksHeld'
      BY <2>1, <2>3, <2>4, PoolAssumption DEF PoolInv, TypeOK, LocksHeld, Holding
    <2>8. HeldCached'
      <3>1. \A u \in Sessions \ {s} : cache'[u] = cache[u]
        BY <2>1 DEF PoolInv, TypeOK
      <3>2. QED
        BY <2>1, <2>2, <2>3, <2>4, <3>1, PoolAssumption DEF PoolInv, LocksHeld, HeldCached, Holding, Using
    <2>9. CacheSound'
      BY <2>1, <2>2, ClosedCache
    <2>10. OwnServer'
      BY <2>1, <2>2, <2>3, <2>4, ElsewhereKept DEF PoolInv, OwnServer, HeldCached, Holding, Using
    <2>11. RowsPending'
      BY <2>1, <2>2, <2>3, RowsElsewhere DEF RowsPending
    <2>12. QED
      BY <2>1, <2>5, <2>6, <2>7, <2>8, <2>9, <2>10, <2>11 DEF PoolInv, AllOrNothing
  <1>4. QED
    BY <1>2, <1>3

\* Given back: released, and idle or closed.  Nothing is committed by switching
\* autocommit on, because the request is past its commit.
LEMMA GiveBackKeeps ==
  ASSUME PoolInv, NEW t \in Threads, GiveBack(t)
  PROVE  PoolInv'
  <1> DEFINE c == held[t]
             s == mine[t].sid
             alive == c # NoConn /\ conn[c].state = "open"
  <1>1. pc[t] = "end" /\ Holding(t) /\ ~Using(t) /\ s \in Sessions /\ lock[s] = t
    BY DEF GiveBack, Holding, Using, PoolInv, LocksHeld
  <1>2. /\ lock' = [lock EXCEPT ![s] = NoThread]
        /\ held' = [held EXCEPT ![t] = NoConn]
        /\ UNCHANGED <<cookie, registry, mine, new, closing, after>>
    BY DEF GiveBack, Unlock
  <1>3. /\ work' \in [Threads -> Parts]
        /\ \E page \in {"lookup", "clear", "reply"} : Goto(t, page)
    BY DEF GiveBack, PoolInv, TypeOK, Parts
  <1>4. /\ pc'[t] \in {"lookup", "clear", "reply"} /\ ~Holding(t)' /\ pc' \in [Threads -> Points]
        /\ \A u \in Threads \ {t} : pc'[u] = pc[u] /\ held'[u] = held[u]
    BY <1>2, <1>3 DEF Goto, PoolInv, TypeOK, Holding, Points
  <1>5. \A u \in Threads \ {t} : Holding(u) => mine[u].sid # s
    BY <1>1 DEF PoolInv, LocksHeld
  <1>6. c \in Conns => conn[c].rows = FALSE
    <2>1. SUFFICES ASSUME c \in Conns, conn[c].rows PROVE FALSE
      BY DEF PoolInv, TypeOK, Conn
    <2>2. PICK u \in Threads : pc[u] = "commit" /\ held[u] = c
      BY <2>1 DEF PoolInv, RowsPending
    <2>3. QED
      BY <1>1, <2>1, <2>2, Alone DEF Holding
  <1>7. imported' = imported
    BY <1>6 DEF GiveBack, PoolInv, TypeOK
  <1>8. \/ conn' = [conn EXCEPT ![c].rows = FALSE] /\ c \in Conns /\ cache' = cache
        \/ conn' = ConnsWithout(s) /\ cache' = [cache EXCEPT ![s] = NoConn]
    BY DEF GiveBack, PoolInv, TypeOK
  <1>9. \/ conn' = conn /\ cache' = cache
        \/ conn' = ConnsWithout(s) /\ cache' = [cache EXCEPT ![s] = NoConn]
    <2>1. CASE conn' = [conn EXCEPT ![c].rows = FALSE] /\ c \in Conns /\ cache' = cache
      <3>1. conn \in [Conns -> Conn] /\ conn[c] \in Conn
        BY <2>1 DEF PoolInv, TypeOK
      <3>2. [conn[c] EXCEPT !.rows = FALSE] = conn[c]
        BY <1>6, <2>1, <3>1 DEF Conn
      <3>3. QED
        BY <2>1, <3>1, <3>2
    <2>2. QED
      BY <1>8, <2>1
  <1>10. TypeOK'
    <2>1. conn' \in [Conns -> Conn] /\ cache' \in [Sessions -> Conns \cup {NoConn}]
      BY <1>9, ConnsWithoutType DEF PoolInv, TypeOK
    <2>2. QED
      BY <1>2, <1>3, <1>4, <1>7, <2>1 DEF PoolInv, TypeOK, registry
  <1>11. Route'
    BY <1>2, <1>4 DEF PoolInv, Route
  <1>12. LocksHeld'
    <2>1. \A u \in Threads : Holding(u)' => u # t /\ Holding(u) /\ mine[u].sid # s
      BY <1>4, <1>5 DEF Holding
    <2>2. \A u \in Sessions : lock'[u] # NoThread => u # s /\ lock'[u] = lock[u] /\ lock[u] # t
      BY <1>1, <1>2 DEF PoolInv, TypeOK, LocksHeld
    <2>3. QED
      BY <1>2, <1>4, <2>1, <2>2 DEF PoolInv, TypeOK, LocksHeld, Holding
  <1>13. HeldCached'
    <2>1. \A u \in Sessions \ {s} : cache'[u] = cache[u]
      BY <1>9 DEF PoolInv, TypeOK
    <2>2. QED
      BY <1>2, <1>4, <1>5, <2>1 DEF PoolInv, LocksHeld, HeldCached, Holding, Using
  <1>14. CacheSound'
    BY <1>1, <1>9, ClosedCache DEF PoolInv, CacheSound
  <1>15. OwnServer'
    <2>1. \A u \in Threads : Holding(u) /\ held[u] \in Conns /\ mine[u].sid # s =>
            conn'[held[u]] = conn[held[u]]
      BY <1>1, <1>9, ElsewhereKept
    <2>2. QED
      BY <1>2, <1>4, <1>5, <2>1 DEF PoolInv, OwnServer, HeldCached, Holding, Using
  <1>16. RowsPending'
    <2>1. SUFFICES ASSUME NEW d \in Conns, conn'[d].rows
                   PROVE  \E u \in Threads : pc'[u] = "commit" /\ held'[u] = d
      BY DEF RowsPending
    <2>2. \E u \in Threads : pc[u] = "commit" /\ held[u] = d
      BY <1>1, <1>9, <2>1, RowsElsewhere DEF PoolInv, RowsPending
    <2>3. QED
      BY <1>1, <1>4, <2>2
  <1>17. QED
    BY <1>7, <1>10, <1>11, <1>12, <1>13, <1>14, <1>15, <1>16 DEF PoolInv, AllOrNothing

\* A connection that is lost stays where it is cached, without pending rows.
LEMMA LoseKeeps ==
  ASSUME PoolInv, NEW c \in Conns, Lose(c)
  PROVE  PoolInv'
  <1>1. conn[c].state = "open" /\ conn' = [conn EXCEPT ![c] = Lost]
        /\ UNCHANGED <<cookie, registry, cache, lock, imported, pc, locals>>
    BY DEF Lose
  <1>2. conn' \in [Conns -> Conn] /\ conn'[c] = Lost
        /\ \A d \in Conns \ {c} : conn'[d] = conn[d]
    BY <1>1, ConnTypes DEF PoolInv, TypeOK
  <1>3. TypeOK' /\ Route' /\ LocksHeld' /\ HeldCached'
    <2> USE <1>1, <1>2 DEF PoolInv, registry, locals
    <2>1. TypeOK'
      BY DEF TypeOK
    <2>2. Route'
      BY DEF Route
    <2>3. LocksHeld' /\ HeldCached'
      BY DEF LocksHeld, HeldCached, Holding, Using
    <2>4. QED
      BY <2>1, <2>2, <2>3
  <1>4. \A d \in Conns : (conn'[d].state = "free") = (conn[d].state = "free")
    BY <1>1, <1>2, ConnTypes
  <1>5. CacheSound'
    BY <1>1, <1>4 DEF PoolInv, CacheSound
  <1>6. OwnServer'
    BY <1>1, <1>2, ConnTypes DEF PoolInv, OwnServer, HeldCached, Using, locals
  <1>7. RowsPending'
    BY <1>1, <1>2, ConnTypes DEF PoolInv, RowsPending, locals
  <1>8. QED
    BY <1>1, <1>3, <1>5, <1>6, <1>7 DEF PoolInv, AllOrNothing

\* Nothing but the idleness of a session changes.
LEMMA AgeKeeps ==
  ASSUME PoolInv, NEW s \in Sessions, Age(s)
  PROVE  PoolInv'
  <1>1. idle' = idle \cup {s} /\ s \in active
        /\ UNCHANGED <<cookie, active, pool, imported, pc, locals>>
    BY DEF Age
  <1>2. TypeOK'
    BY <1>1 DEF PoolInv, TypeOK, pool, locals
  <1>3. Route' /\ LocksHeld' /\ HeldCached'
    BY <1>1 DEF PoolInv, Route, LocksHeld, HeldCached, Holding, Using, pool, locals
  <1>4. CacheSound' /\ OwnServer' /\ RowsPending'
    BY <1>1 DEF PoolInv, CacheSound, OwnServer, RowsPending, Using, pool, locals
  <1>5. QED
    BY <1>1, <1>2, <1>3, <1>4 DEF PoolInv, AllOrNothing

LEMMA StutterKeeps == PoolInv /\ UNCHANGED vars => PoolInv'
  <1> SUFFICES ASSUME PoolInv, UNCHANGED vars PROVE PoolInv'
    OBVIOUS
  <1> USE DEF vars, registry, pool, locals
  <1>1. TypeOK'
    BY DEF PoolInv, TypeOK
  <1>2. Route' /\ LocksHeld' /\ HeldCached'
    BY DEF PoolInv, Route, LocksHeld, HeldCached, Holding, Using
  <1>3. CacheSound' /\ OwnServer' /\ RowsPending'
    BY DEF PoolInv, CacheSound, OwnServer, RowsPending, Using
  <1>4. QED
    BY <1>1, <1>2, <1>3 DEF PoolInv, AllOrNothing

LEMMA PoolStep == PoolInv /\ [Next]_vars => PoolInv'
  <1> SUFFICES ASSUME PoolInv, [Next]_vars PROVE PoolInv'
    OBVIOUS
  <1>1. ASSUME NEW t \in Threads,
               CleanUp(t) \/ Find(t) \/ Clear(t) \/ Create(t) \/ Reply(t)
                  \/ \E kind \in Works : Request(t, kind)
        PROVE  PoolInv'
    <2>1. Quiet(t) /\ TypeOK' /\ Route'
      BY <1>1, QuietSteps, RegistryTypes DEF PoolInv
    <2>2. QED
      BY <2>1, QuietKeeps DEF PoolInv
  <1>2. ASSUME NEW t \in Threads, ThreadStep(t)
        PROVE  PoolInv'
    BY <1>1, <1>2, CloseOneKeeps, ReuseKeeps, OpenNewKeeps, OpenFailsKeeps, UseKeeps, CommitKeeps,
       UseFailsKeeps, GiveBackKeeps DEF ThreadStep
  <1>3. QED
    BY <1>1, <1>2, AgeKeeps, LoseKeeps, StutterKeeps DEF Next

THEOREM PoolInvariant == Spec => []PoolInv
  <1>1. PoolInv /\ [Next]_vars => PoolInv'
    BY PoolStep
  <1>2. QED
    BY PoolStart, <1>1, PTL DEF Spec

-----------------------------------------------------------------------------
(* What the runs check, for every instance.                                *)

\* Registry, cookies, caches, locks and threads hold what they are declared to.
THEOREM PoolTypes == Spec => []TypeOK
  <1>1. PoolInv => TypeOK
    BY DEF PoolInv
  <1>2. QED
    BY <1>1, PoolInvariant, PTL

\* borrow_connection gives a connection to one request at a time, and nobody
\* closes or replaces it before that request gives it back.
THEOREM UseIsExclusive == Spec => []ExclusiveUse
  <1>1. PoolInv => ExclusiveUse
    <2> SUFFICES ASSUME PoolInv, NEW t \in Threads, Using(t)
                 PROVE  /\ held[t] \in Conns /\ conn[held[t]].state # "free"
                        /\ cache[mine[t].sid] = held[t]
                        /\ \A u \in Threads : Using(u) /\ held[u] = held[t] => u = t
      BY DEF ExclusiveUse
    <2>1. Holding(t) /\ held[t] \in Conns /\ cache[mine[t].sid] = held[t] /\ mine[t].sid \in Sessions
      BY DEF PoolInv, LocksHeld, HeldCached, Using, Holding
    <2>2. conn[held[t]].state # "free"
      BY <2>1 DEF PoolInv, CacheSound
    <2>3. \A u \in Threads : Using(u) /\ held[u] = held[t] => u = t
      BY <2>1, Alone DEF Using, Holding
    <2>4. QED
      BY <2>1, <2>2, <2>3
  <1>2. QED
    BY <1>1, PoolInvariant, PTL

\* A request's statements run on the server of the profile in its own cookie.
THEOREM ServerIsOwn == Spec => []OwnServer
  <1>1. PoolInv => OwnServer
    BY DEF PoolInv
  <1>2. QED
    BY <1>1, PoolInvariant, PTL

\* No connection is opened and forgotten: one entry caches it, and only one.
THEOREM NoneStray == Spec => []NoStrayConnection
  <1>1. PoolInv => NoStrayConnection
    <2> SUFFICES ASSUME PoolInv, NEW c \in Conns, conn[c].state # "free"
                 PROVE  Cardinality({s \in Sessions : cache[s] = c}) = 1
      BY DEF NoStrayConnection
    <2>1. PICK s \in Sessions : cache[s] = c
      BY DEF PoolInv, CacheSound
    <2>2. {u \in Sessions : cache[u] = c} = {s}
      BY <2>1 DEF PoolInv, CacheSound
    <2>3. Cardinality({s}) = 1
      BY FS_Singleton
    <2>4. QED
      BY <2>2, <2>3
  <1>2. QED
    BY <1>1, PoolInvariant, PTL

\* Switching autocommit on again at the end of an import never commits a part of
\* its rows: whatever failed before, none are pending then.
THEOREM ImportsAtomic == Spec => []AllOrNothing
  <1>1. PoolInv => AllOrNothing
    BY DEF PoolInv
  <1>2. QED
    BY <1>1, PoolInvariant, PTL
-----------------------------------------------------------------------------
(* LoginLimiter: what Recent computes, that a step leaves an entry which   *)
(* remembers the failures of its identity, and the bound on them.          *)

\* Every non-empty set of natural numbers has a least element: an induction over
\* the length of a sequence looks at the least length at which it would fail.
LEMMA LeastNat ==
  ASSUME NEW T, T \subseteq Nat, T # {}
  PROVE  \E m \in T : \A k \in T : m <= k
  <1> DEFINE R == OpToRel(<, Nat)
  <1>1. IsWellFoundedOn(R, Nat)
    BY NatLessThanWellFounded
  <1>2. \A x, y \in Nat : x < y => <<x, y>> \in R
    BY DEF OpToRel
  <1> HIDE DEF R
  <1>3. PICK x \in T : \A y \in T : ~(<<y, x>> \in R)
    BY <1>1, WFMin
  <1>4. \A y \in T : ~(y < x)
    BY <1>2, <1>3
  <1>5. \A y \in T : x <= y
    BY <1>4
  <1> QED  BY <1>5


USE LimiterAssumption

\* What Recent computes at a moment n, as far as the first m times: f is its function.
Recalling(f, times, n, m) ==
    f = [i \in 0 .. m |->
           IF i = 0 THEN <<>>
           ELSE IF n - times[i] < Window THEN Append(f[i - 1], times[i]) ELSE f[i - 1]]

LEMMA RecallingExists ==
  ASSUME NEW times \in Seq(Nat), NEW n \in Nat
  PROVE  \A m \in 0 .. Len(times) : \E f : Recalling(f, times, n, m)
  <1> DEFINE T == {m \in 0 .. Len(times) : ~\E f : Recalling(f, times, n, m)}
  <1>1. SUFFICES ASSUME T # {} PROVE FALSE
    OBVIOUS
  <1>2. T \subseteq Nat /\ Len(times) \in Nat
    OBVIOUS
  <1>3. PICK m \in T : \A k \in T : m <= k
    BY <1>1, <1>2, LeastNat
  <1>4. m \in 0 .. Len(times) /\ ~\E f : Recalling(f, times, n, m)
    OBVIOUS
  <1>5. CASE m = 0
    <2> DEFINE f == [i \in 0 .. 0 |-> <<>>]
    <2>1. f = [i \in 0 .. 0 |->
                 IF i = 0 THEN <<>>
                 ELSE IF n - times[i] < Window THEN Append(f[i - 1], times[i]) ELSE f[i - 1]]
      OBVIOUS
    <2>2. Recalling(f, times, n, m)
      BY <1>5, <2>1 DEF Recalling
    <2> QED  BY <1>4, <2>2
  <1>6. CASE m # 0
    <2>1. m - 1 \in 0 .. Len(times) /\ m - 1 \in Nat /\ m \in Nat
      BY <1>2, <1>4, <1>6
    <2>2. m - 1 \notin T
      <3> HIDE DEF T
      <3>1. SUFFICES ASSUME m - 1 \in T PROVE FALSE
        OBVIOUS
      <3>2. m <= m - 1
        BY <1>3, <3>1
      <3> QED  BY <2>1, <3>2
    <2>3. PICK g : Recalling(g, times, n, m - 1)
      BY <2>1, <2>2
    <2> HIDE DEF T
    <2> DEFINE f == [i \in 0 .. m |->
                       IF i = m THEN (IF n - times[m] < Window THEN Append(g[m - 1], times[m]) ELSE g[m - 1])
                       ELSE g[i]]
    <2>4. \A i \in 0 .. m - 1 :
             /\ f[i] = g[i]
             /\ g[i] = IF i = 0 THEN <<>>
                       ELSE IF n - times[i] < Window THEN Append(g[i - 1], times[i]) ELSE g[i - 1]
      <3>1. \A i \in 0 .. m - 1 : f[i] = g[i]
        BY <2>1
      <3> HIDE DEF f
      <3>2. \A i \in 0 .. m - 1 :
               g[i] = IF i = 0 THEN <<>>
                      ELSE IF n - times[i] < Window THEN Append(g[i - 1], times[i]) ELSE g[i - 1]
        BY <2>3 DEF Recalling
      <3> QED  BY <3>1, <3>2
    <2>5. f[m] = IF n - times[m] < Window THEN Append(f[m - 1], times[m]) ELSE f[m - 1]
      BY <1>6, <2>1
    <2>6. \A i \in 0 .. m : f[i] = IF i = 0 THEN <<>>
                                   ELSE IF n - times[i] < Window THEN Append(f[i - 1], times[i]) ELSE f[i - 1]
      <3> SUFFICES ASSUME NEW i \in 0 .. m
                   PROVE  f[i] = IF i = 0 THEN <<>>
                                 ELSE IF n - times[i] < Window THEN Append(f[i - 1], times[i]) ELSE f[i - 1]
        OBVIOUS
      <3>1. CASE i = m
        BY <1>6, <2>5, <3>1
      <3>2. CASE i # m
        <4>1. i \in 0 .. m - 1 /\ (i # 0 => i - 1 \in 0 .. m - 1)
          BY <2>1, <3>2
        <4> HIDE DEF f
        <4> QED  BY <2>4, <4>1
      <3> QED  BY <3>1, <3>2
    <2>7. f = [i \in 0 .. m |-> f[i]]
      OBVIOUS
    <2> HIDE DEF f
    <2>8. Recalling(f, times, n, m)
      BY <2>6, <2>7 DEF Recalling
    <2> QED  BY <1>4, <2>8
  <1> QED  BY <1>5, <1>6

\* Recent at a moment n.
RecentAt(times, n) ==
    LET recent[i \in 0 .. Len(times)] ==
          IF i = 0 THEN <<>>
          ELSE IF n - times[i] < Window THEN Append(recent[i - 1], times[i]) ELSE recent[i - 1]
    IN recent[Len(times)]

LEMMA RecentNow ==
  /\ \A times : Recent(times) = RecentAt(times, now)
  /\ (\A times : Recent(times) = RecentAt(times, now))'
  BY DEF Recent, RecentAt

\* Times in their order, none of them to come.
Past(times, n) ==
    /\ times \in Seq(Nat)
    /\ \A i \in 1 .. Len(times) : times[i] <= n /\ \A j \in 1 .. i : times[j] <= times[i]

\* Without the first d of the first m times.
Rest(s, times, d, m) ==
    /\ s \in Seq(Nat) /\ Len(s) = m - d
    /\ \A j \in 1 .. m - d : s[j] = times[d + j]

Cut(times, n, d, m) ==
    /\ \A j \in 1 .. d : n - times[j] >= Window
    /\ \A j \in d + 1 .. m : n - times[j] < Window

\* Recent leaves out a first part of the times.
LEMMA RecentIs ==
  ASSUME NEW n \in Nat, NEW times, Past(times, n)
  PROVE  \E d \in 0 .. Len(times) :
            Cut(times, n, d, Len(times)) /\ Rest(RecentAt(times, n), times, d, Len(times))
  <1> DEFINE l == Len(times)
             g == CHOOSE f : f = [i \in 0 .. Len(times) |->
                     IF i = 0 THEN <<>>
                     ELSE IF n - times[i] < Window THEN Append(f[i - 1], times[i]) ELSE f[i - 1]]
  <1>1. times \in Seq(Nat) /\ l \in Nat /\ \A i \in 1 .. l : times[i] \in Nat
    BY DEF Past
  <1>2. RecentAt(times, n) = g[l]
    BY DEF RecentAt
  <1>3. \E f : Recalling(f, times, n, l)
    <2>1. l \in 0 .. Len(times)
      BY <1>1
    <2> QED  BY <1>1, <2>1, RecallingExists
  <1>4. Recalling(g, times, n, l)
    BY <1>3 DEF Recalling
  <1> HIDE DEF g
  <1>5. \A i \in 0 .. l : g[i] = IF i = 0 THEN <<>>
                                 ELSE IF n - times[i] < Window THEN Append(g[i - 1], times[i]) ELSE g[i - 1]
    BY <1>4 DEF Recalling
  <1> DEFINE Right(i) == \E d \in 0 .. i : Cut(times, n, d, i) /\ Rest(g[i], times, d, i)
  <1>6. Right(0)
    <2>1. g[0] = <<>>
      BY <1>1, <1>5
    <2>2. Cut(times, n, 0, 0) /\ Rest(g[0], times, 0, 0)
      BY <2>1 DEF Cut, Rest
    <2> QED  BY <2>2
  <1>7. ASSUME NEW i \in 1 .. l, Right(i - 1)
        PROVE  Right(i)
    <2>1. i \in Nat /\ i - 1 \in Nat /\ i \in 0 .. l /\ i # 0 /\ times[i] \in Nat
      BY <1>1
    <2>2. PICK d \in 0 .. i - 1 : Cut(times, n, d, i - 1) /\ Rest(g[i - 1], times, d, i - 1)
      BY <1>7
    <2>3. d \in Nat /\ d <= i - 1
      BY <2>1
    <2>4. CASE n - times[i] < Window
      <3>1. g[i] = Append(g[i - 1], times[i])
        BY <1>5, <2>1, <2>4
      <3> DEFINE s == g[i - 1]
      <3>2. s \in Seq(Nat) /\ Len(s) = (i - 1) - d /\ \A j \in 1 .. (i - 1) - d : s[j] = times[d + j]
        BY <2>2 DEF Rest
      <3> HIDE DEF s
      <3>3. Append(s, times[i]) \in Seq(Nat) /\ Len(Append(s, times[i])) = i - d
            /\ \A j \in 1 .. (i - 1) - d : Append(s, times[i])[j] = s[j]
            /\ Append(s, times[i])[i - d] = times[i]
        BY <2>1, <2>3, <3>2
      <3>4. Rest(Append(s, times[i]), times, d, i)
        <4>1. \A j \in 1 .. i - d : j \in 1 .. (i - 1) - d \/ (j = i - d /\ d + j = i)
          BY <2>1, <2>3
        <4> QED  BY <3>2, <3>3, <4>1 DEF Rest
      <3>5. Cut(times, n, d, i)
        <4>1. \A j \in d + 1 .. i : j \in d + 1 .. i - 1 \/ j = i
          BY <2>1, <2>3
        <4> QED  BY <2>2, <2>4, <4>1 DEF Cut
      <3>6. d \in 0 .. i
        BY <2>1, <2>3
      <3> QED  BY <3>1, <3>4, <3>5, <3>6 DEF s
    <2>5. CASE ~(n - times[i] < Window)
      <3>1. g[i] = g[i - 1]
        BY <1>5, <2>1, <2>5
      <3>2. \A j \in 1 .. i : times[j] \in Nat /\ times[j] <= times[i]
        BY <1>1 DEF Past
      <3>3. \A j \in 1 .. i : n - times[j] >= Window
        BY <2>1, <2>5, <3>2
      <3>4. d = i - 1
        <4>1. SUFFICES ASSUME d # i - 1 PROVE FALSE
          OBVIOUS
        <4>2. i - 1 \in d + 1 .. i - 1 /\ i - 1 \in 1 .. i
          BY <2>1, <2>3, <4>1
        <4>3. n - times[i - 1] < Window
          BY <2>2, <4>2 DEF Cut
        <4>4. n - times[i - 1] >= Window /\ times[i - 1] \in Nat
          BY <3>2, <3>3, <4>2
        <4> QED  BY <4>3, <4>4
      <3>5. Rest(g[i], times, i, i)
        BY <2>1, <2>2, <3>1, <3>4 DEF Rest
      <3>6. Cut(times, n, i, i)
        BY <2>1, <3>3 DEF Cut
      <3> QED  BY <2>1, <3>5, <3>6
    <2> QED  BY <2>4, <2>5
  <1> DEFINE T == {i \in 0 .. l : ~Right(i)}
  <1>8. T = {}
    <2> HIDE DEF Right
    <2>1. SUFFICES ASSUME T # {} PROVE FALSE
      OBVIOUS
    <2>2. T \subseteq Nat
      BY <1>1
    <2>3. PICK m \in T : \A k \in T : m <= k
      BY <2>1, <2>2, LeastNat
    <2>4. m \in 1 .. l
      BY <1>1, <1>6, <2>3
    <2>5. m - 1 \in 0 .. l /\ m - 1 \notin T
      BY <1>1, <2>3, <2>4
    <2> QED  BY <1>7, <2>3, <2>4, <2>5
  <1>9. Right(l)
    <2> HIDE DEF Right
    <2>1. l \in 0 .. l
      BY <1>1
    <2> QED  BY <1>8, <2>1
  <1> QED  BY <1>2, <1>9

\* The times that are left are themselves in their order.
LEMMA RecentPast ==
  ASSUME NEW n \in Nat, NEW times, Past(times, n)
  PROVE  Past(RecentAt(times, n), n)
  <1> DEFINE s == RecentAt(times, n)
  <1>1. PICK d \in 0 .. Len(times) : Rest(s, times, d, Len(times))
    BY RecentIs
  <1>2. times \in Seq(Nat) /\ Len(times) \in Nat /\ d \in Nat /\ d <= Len(times)
    BY DEF Past
  <1> HIDE DEF s
  <1>3. ASSUME NEW i \in 1 .. Len(s)
        PROVE  s[i] <= n /\ \A j \in 1 .. i : s[j] <= s[i]
    <2>1. i \in 1 .. Len(times) - d
      BY <1>1 DEF Rest
    <2>2. d + i \in 1 .. Len(times) /\ s[i] = times[d + i]
      BY <1>1, <1>2, <2>1 DEF Rest
    <2>3. \A j \in 1 .. i : d + j \in 1 .. d + i /\ s[j] = times[d + j]
      <3> SUFFICES ASSUME NEW j \in 1 .. i PROVE d + j \in 1 .. d + i /\ s[j] = times[d + j]
        OBVIOUS
      <3>1. j \in 1 .. Len(times) - d /\ d + j \in 1 .. d + i
        BY <1>2, <2>1
      <3> QED  BY <1>1, <3>1 DEF Rest
    <2> QED  BY <2>2, <2>3 DEF Past
  <1> QED  BY <1>1, <1>3 DEF Past, Rest, s

\* What is recent later is recent now.
LEMMA RecentAgain ==
  ASSUME NEW n \in Nat, NEW u \in Nat, n <= u, NEW times, Past(times, n)
  PROVE  RecentAt(RecentAt(times, n), u) = RecentAt(times, u)
  <1> DEFINE l == Len(times)
             s == RecentAt(times, n)
             r == RecentAt(s, u)
             t == RecentAt(times, u)
  <1>1. times \in Seq(Nat) /\ l \in Nat /\ \A i \in 1 .. l : times[i] \in Nat
    BY DEF Past
  <1>2. Past(times, u)
    BY <1>1 DEF Past
  <1>3. Past(s, n)
    BY RecentPast
  <1>4. Past(s, u)
    <2> HIDE DEF s
    <2>1. \A i \in 1 .. Len(s) : s[i] \in Nat
      BY <1>3 DEF Past
    <2> QED  BY <1>3, <2>1 DEF Past
  <1>5. PICK d \in 0 .. l : Cut(times, n, d, l) /\ Rest(s, times, d, l)
    BY RecentIs
  <1>6. PICK e \in 0 .. Len(s) : Cut(s, u, e, Len(s)) /\ Rest(r, s, e, Len(s))
    BY <1>4, RecentIs
  <1>7. PICK c \in 0 .. l : Cut(times, u, c, l) /\ Rest(t, times, c, l)
    BY <1>2, RecentIs
  <1> HIDE DEF s, r, t, l
  <1>8. /\ d \in Nat /\ d <= l /\ Len(s) = l - d /\ e \in Nat /\ e <= l - d /\ c \in Nat /\ c <= l
        /\ \A j \in 1 .. l - d : s[j] = times[d + j]
    BY <1>1, <1>5, <1>6, <1>7 DEF Rest
  <1>9. \A j \in 1 .. d + e : u - times[j] >= Window
    <2> SUFFICES ASSUME NEW j \in 1 .. d + e PROVE u - times[j] >= Window
      OBVIOUS
    <2>1. CASE j <= d
      <3>1. j \in 1 .. d /\ j \in 1 .. l
        BY <1>1, <1>8, <2>1
      <3>2. n - times[j] >= Window /\ times[j] \in Nat
        BY <1>1, <1>5, <3>1 DEF Cut
      <3> QED  BY <3>2
    <2>2. CASE j > d
      <3>1. j - d \in 1 .. e /\ j - d \in 1 .. l - d /\ d + (j - d) = j
        BY <1>1, <1>8, <2>2
      <3>2. u - s[j - d] >= Window
        BY <1>6, <3>1 DEF Cut
      <3> QED  BY <1>8, <3>1, <3>2
    <2> QED  BY <1>8, <2>1, <2>2
  <1>10. \A j \in (d + e) + 1 .. l : u - times[j] < Window
    <2> SUFFICES ASSUME NEW j \in (d + e) + 1 .. l PROVE u - times[j] < Window
      OBVIOUS
    <2>1. j - d \in e + 1 .. l - d /\ j - d \in 1 .. l - d /\ d + (j - d) = j
      BY <1>1, <1>8
    <2>2. u - s[j - d] < Window
      BY <1>6, <1>8, <2>1 DEF Cut
    <2> QED  BY <1>8, <2>1, <2>2
  <1>11. c = d + e
    <2>1. ~(c < d + e)
      <3>1. SUFFICES ASSUME c < d + e PROVE FALSE
        OBVIOUS
      <3>2. c + 1 \in 1 .. d + e /\ c + 1 \in c + 1 .. l /\ c + 1 \in 1 .. l
        BY <1>1, <1>8, <3>1
      <3>3. u - times[c + 1] >= Window /\ u - times[c + 1] < Window /\ times[c + 1] \in Nat
        BY <1>1, <1>7, <1>9, <3>2 DEF Cut
      <3> QED  BY <3>3
    <2>2. ~(c > d + e)
      <3>1. SUFFICES ASSUME c > d + e PROVE FALSE
        OBVIOUS
      <3>2. c \in (d + e) + 1 .. l /\ c \in 1 .. c /\ c \in 1 .. l
        BY <1>1, <1>8, <3>1
      <3>3. u - times[c] >= Window /\ u - times[c] < Window /\ times[c] \in Nat
        BY <1>1, <1>7, <1>10, <3>2 DEF Cut
      <3> QED  BY <3>3
    <2> QED  BY <1>8, <2>1, <2>2
  <1>12. r \in Seq(Nat) /\ t \in Seq(Nat) /\ Len(r) = l - (d + e) /\ Len(t) = l - (d + e)
    <2>1. r \in Seq(Nat) /\ Len(r) = Len(s) - e /\ t \in Seq(Nat) /\ Len(t) = l - c
      BY <1>6, <1>7 DEF Rest
    <2>2. (l - d) - e = l - (d + e)
      BY <1>1, <1>8
    <2> QED  BY <1>8, <1>11, <2>1, <2>2
  <1>13. \A j \in 1 .. l - (d + e) : r[j] = t[j]
    <2> SUFFICES ASSUME NEW j \in 1 .. l - (d + e) PROVE r[j] = t[j]
      OBVIOUS
    <2>1. j \in 1 .. (l - d) - e /\ e + j \in 1 .. l - d /\ d + (e + j) = c + j /\ j \in 1 .. l - c
      BY <1>1, <1>8, <1>11
    <2>2. r[j] = s[e + j] /\ t[j] = times[c + j]
      BY <1>6, <1>7, <1>8, <2>1 DEF Rest
    <2> QED  BY <1>8, <2>1, <2>2
  <1>14. r = t
    BY <1>12, <1>13
  <1> QED  BY <1>14 DEF r, t, s

LEMMA RecentOfNone ==
  ASSUME NEW n \in Nat
  PROVE  Past(<<>>, n) /\ RecentAt(<<>>, n) = <<>>
  <1>1. Past(<<>>, n)
    BY DEF Past
  <1>2. PICK d \in 0 .. Len(<<>>) : Rest(RecentAt(<<>>, n), <<>>, d, Len(<<>>))
    BY <1>1, RecentIs
  <1>3. Len(<<>>) = 0 /\ d = 0
    OBVIOUS
  <1> DEFINE r == RecentAt(<<>>, n)
  <1> HIDE DEF r
  <1>4. r \in Seq(Nat) /\ Len(r) = 0
    BY <1>2, <1>3 DEF Rest, r
  <1>5. r = <<>>
    BY <1>4
  <1> QED  BY <1>1, <1>5 DEF r

\* When the last time is too old, all are.
LEMMA RecentOfStale ==
  ASSUME NEW n \in Nat, NEW times, Past(times, n),
         times # <<>> => n - times[Len(times)] >= Window
  PROVE  RecentAt(times, n) = <<>>
  <1>1. CASE times = <<>>
    BY <1>1, RecentOfNone
  <1>2. CASE times # <<>>
    <2> DEFINE l == Len(times)
               r == RecentAt(times, n)
    <2>1. times \in Seq(Nat) /\ l \in Nat /\ l >= 1 /\ l \in 1 .. l
      BY <1>2 DEF Past
    <2>2. PICK d \in 0 .. l : Cut(times, n, d, l) /\ Rest(r, times, d, l)
      BY RecentIs
    <2> HIDE DEF l, r
    <2>3. d = l
      <3>1. SUFFICES ASSUME d # l PROVE FALSE
        OBVIOUS
      <3>2. l \in d + 1 .. l
        BY <2>1, <3>1
      <3>3. times[l] \in Nat
        BY <2>1 DEF l
      <3> QED  BY <1>2, <2>2, <3>2, <3>3 DEF Cut, l
    <2>4. r \in Seq(Nat) /\ Len(r) = 0
      BY <2>1, <2>2, <2>3 DEF Rest
    <2>5. r = <<>>
      BY <2>4
    <2> QED  BY <2>5 DEF r
  <1> QED  BY <1>1, <1>2

InFlight == Cardinality(Attempts)

\* Of the failures f that block, as many as attempts can be in flight come before the
\* end of the block that the first of them begins; as long as that lasts, the entry is
\* blocked, and there are m attempts in flight.
Dense(n, until, f, m) ==
    \A i \in MaxFailures .. Len(f) :
        /\ i + InFlight <= Len(f) => f[i + InFlight] >= f[i] + Block
        /\ n < f[i] + Block => until >= f[i] + Block /\ (Len(f) - i) + 1 + m <= InFlight

Entries == [failures : Seq(Nat), blocked_until : Nat, there : BOOLEAN]

\* The entry e remembers the failures f of an identity, of which m attempts are in flight.
Remembers(n, e, f, m) ==
    /\ e \in Entries /\ m \in Nat
    /\ Past(e.failures, n) /\ Past(f, n)
    /\ RecentAt(e.failures, n) = RecentAt(f, n)
    /\ Dense(n, e.blocked_until, f, m)

LEMMA InFlightIs == InFlight \in Nat
  BY FS_CardinalityType DEF InFlight

LEMMA FailuresIs ==
  ASSUME NEW s \in Seq(Nat), NEW u \in Nat
  PROVE  /\ Failures(s, u) \in Entries /\ Failures(s, u).failures = s
         /\ Failures(s, u).blocked_until = u
  BY DEF Failures, Entries

LEMMA NoFailuresIs ==
  NoFailures \in Entries /\ NoFailures.failures = <<>> /\ NoFailures.blocked_until = 0
  <1>1. <<>> \in Seq(Nat)
    OBVIOUS
  <1> QED  BY <1>1 DEF NoFailures, Entries

LEMMA RemembersNone ==
  ASSUME NEW n \in Nat, NEW m \in Nat
  PROVE  Remembers(n, NoFailures, <<>>, m)
  <1>1. MaxFailures .. Len(<<>>) = {}
    OBVIOUS
  <1> QED  BY <1>1, NoFailuresIs, RecentOfNone DEF Remembers, Dense

LEMMA RemembersFewer ==
  ASSUME NEW n \in Nat, NEW e, NEW f, NEW m, Remembers(n, e, f, m), NEW k \in Nat, k <= m
  PROVE  Remembers(n, e, f, k)
  <1>1. m \in Nat /\ f \in Seq(Nat) /\ InFlight \in Nat
    BY InFlightIs DEF Remembers, Past
  <1>2. \A i \in MaxFailures .. Len(f) : (Len(f) - i) + 1 + m <= InFlight => (Len(f) - i) + 1 + k <= InFlight
    BY <1>1
  <1> QED  BY <1>2 DEF Remembers, Dense

LEMMA RemembersLater ==
  ASSUME NEW n \in Nat, NEW e, NEW f, NEW m, Remembers(n, e, f, m)
  PROVE  Remembers(n + 1, e, f, m)
  <1>1. n + 1 \in Nat /\ n <= n + 1
    OBVIOUS
  <1>2. ASSUME NEW s, Past(s, n)
        PROVE  Past(s, n + 1)
    <2>1. \A i \in 1 .. Len(s) : s[i] \in Nat /\ s[i] <= n
      BY <1>2 DEF Past
    <2>2. \A i \in 1 .. Len(s) : s[i] <= n + 1
      BY <2>1
    <2> QED  BY <1>2, <2>2 DEF Past
  <1>3. RecentAt(e.failures, n + 1) = RecentAt(f, n + 1)
    <2>1. RecentAt(RecentAt(e.failures, n), n + 1) = RecentAt(e.failures, n + 1)
      BY <1>1, RecentAgain DEF Remembers
    <2>2. RecentAt(RecentAt(f, n), n + 1) = RecentAt(f, n + 1)
      BY <1>1, RecentAgain DEF Remembers
    <2> QED  BY <2>1, <2>2 DEF Remembers
  <1>4. Dense(n + 1, e.blocked_until, f, m)
    <2>1. f \in Seq(Nat) /\ \A i \in MaxFailures .. Len(f) : f[i] \in Nat /\ i \in 1 .. Len(f)
      BY DEF Remembers, Past
    <2>2. \A i \in MaxFailures .. Len(f) : n + 1 < f[i] + Block => n < f[i] + Block
      BY <2>1
    <2> QED  BY <2>2 DEF Remembers, Dense
  <1> QED  BY <1>2, <1>3, <1>4 DEF Remembers

\* A login is tried: the entry is not blocked.
LEMMA RemembersTried ==
  ASSUME NEW n \in Nat, NEW e, NEW f, NEW m, Remembers(n, e, f, m), e.blocked_until <= n, NEW k \in Nat
  PROVE  Remembers(n, Failures(RecentAt(e.failures, n), 0), f, k)
  <1> DEFINE s == RecentAt(e.failures, n)
  <1>1. Past(s, n) /\ RecentAt(s, n) = s /\ s = RecentAt(f, n)
    BY RecentPast, RecentAgain DEF Remembers
  <1> HIDE DEF s
  <1>2. s \in Seq(Nat)
    BY <1>1 DEF Past
  <1>3. Dense(n, 0, f, k)
    <2>1. e.blocked_until \in Nat /\ f \in Seq(Nat)
          /\ \A i \in MaxFailures .. Len(f) : f[i] \in Nat
      BY DEF Remembers, Past, Entries
    <2>2. \A i \in MaxFailures .. Len(f) : ~(n < f[i] + Block)
      BY <2>1 DEF Remembers, Dense
    <2> QED  BY <2>2 DEF Remembers, Dense
  <1>4. Remembers(n, Failures(s, 0), f, k)
    BY <1>1, <1>2, <1>3, FailuresIs DEF Remembers
  <1> QED  BY <1>4 DEF s

StaleAt(e, n) == e.failures = <<>> \/ n - Last(e.failures) >= Window

\* A stale entry is removed.
LEMMA RemembersStale ==
  ASSUME NEW n \in Nat, NEW e, NEW f, NEW m, Remembers(n, e, f, m), StaleAt(e, n)
  PROVE  Remembers(n, NoFailures, f, m)
  <1>1. RecentAt(e.failures, n) = <<>>
    BY RecentOfStale DEF StaleAt, Last, Remembers
  <1>2. RecentAt(f, n) = <<>> /\ RecentAt(<<>>, n) = <<>> /\ Past(<<>>, n)
    BY <1>1, RecentOfNone DEF Remembers
  <1>3. \A i \in 1 .. Len(f) : f[i] \in Nat /\ n - f[i] >= Window
    <2>1. PICK d \in 0 .. Len(f) : Cut(f, n, d, Len(f)) /\ Rest(RecentAt(f, n), f, d, Len(f))
      BY RecentIs DEF Remembers
    <2>2. d = Len(f)
      <3>1. Len(<<>>) = Len(f) - d
        BY <1>2, <2>1 DEF Rest
      <3>2. f \in Seq(Nat)
        BY DEF Remembers, Past
      <3> QED  BY <3>1, <3>2
    <2> QED  BY <2>1, <2>2 DEF Cut, Remembers, Past
  <1>4. Dense(n, 0, f, m)
    <2>1. f \in Seq(Nat) /\ \A i \in MaxFailures .. Len(f) : i \in 1 .. Len(f)
      BY DEF Remembers, Past
    <2>2. \A i \in MaxFailures .. Len(f) : ~(n < f[i] + Block)
      BY <1>3, <2>1
    <2> QED  BY <2>2 DEF Remembers, Dense
  <1> QED  BY <1>2, <1>4, NoFailuresIs DEF Remembers

UntilAt(times, n) == IF Len(times) >= MaxFailures THEN n + Block ELSE 0

\* One of the attempts in flight fails.
LEMMA RemembersFailed ==
  ASSUME NEW n \in Nat, NEW e, NEW f, NEW m, Remembers(n, e, f, m), m >= 1, m <= InFlight
  PROVE  LET times == Append(RecentAt(e.failures, n), n)
         IN Remembers(n, Failures(times, UntilAt(times, n)), Append(RecentAt(f, n), n), m - 1)
  <1> DEFINE r == RecentAt(f, n)
             g == Append(r, n)
             l == Len(r)
  <1>1. RecentAt(e.failures, n) = r /\ m \in Nat /\ Past(f, n)
    BY DEF Remembers
  <1>2. PICK d \in 0 .. Len(f) : Rest(r, f, d, Len(f))
    BY <1>1, RecentIs
  <1>3. Past(r, n)
    BY <1>1, RecentPast
  <1> HIDE DEF r
  <1>4. /\ r \in Seq(Nat) /\ l \in Nat /\ g \in Seq(Nat) /\ Len(g) = l + 1 /\ g[l + 1] = n
        /\ \A i \in 1 .. l : g[i] = r[i] /\ g[i] \in Nat
    BY <1>3 DEF Past
  <1>5. f \in Seq(Nat) /\ d \in Nat /\ Len(f) = d + l /\ \A i \in 1 .. l : r[i] = f[d + i]
    BY <1>1, <1>2, <1>4 DEF Past, Rest
  <1> HIDE DEF g, l
  <1>6. \A i \in 1 .. l + 1 : i \in 1 .. l \/ i = l + 1
    BY <1>4
  <1>7. Past(g, n)
    <2>1. ASSUME NEW i \in 1 .. l + 1
          PROVE  g[i] <= n /\ \A j \in 1 .. i : g[j] <= g[i]
      <3>1. \A j \in 1 .. l : r[j] \in Nat /\ r[j] <= n
        BY <1>3, <1>4 DEF Past, l
      <3>2. CASE i \in 1 .. l
        <4>1. \A j \in 1 .. i : j \in 1 .. l
          BY <1>4, <3>2
        <4> QED  BY <1>3, <1>4, <3>1, <3>2, <4>1 DEF Past, l
      <3>3. CASE i = l + 1
        <4>1. g[l + 1] <= n /\ \A j \in 1 .. l : g[j] <= n
          <5>1. \A j \in 1 .. l : g[j] = r[j]
            BY <1>4
          <5>2. g[l + 1] = n
            BY <1>4
          <5> QED  BY <3>1, <5>1, <5>2
        <4>2. \A j \in 1 .. l + 1 : g[j] <= n
          BY <1>6, <4>1
        <4> QED  BY <1>4, <3>3, <4>2
      <3> QED  BY <1>6, <3>2, <3>3
    <2> QED  BY <1>4, <2>1 DEF Past
  <1>8. UntilAt(g, n) \in Nat
    BY DEF UntilAt
  <1>9. Dense(n, UntilAt(g, n), g, m - 1)
    <2> SUFFICES ASSUME NEW i \in MaxFailures .. Len(g)
                 PROVE  /\ i + InFlight <= Len(g) => g[i + InFlight] >= g[i] + Block
                        /\ n < g[i] + Block => /\ UntilAt(g, n) >= g[i] + Block
                                               /\ (Len(g) - i) + 1 + (m - 1) <= InFlight
      BY DEF Dense
    <2>1. i \in 1 .. l + 1 /\ i \in Nat /\ Len(g) >= MaxFailures /\ InFlight \in Nat /\ Block \in Nat
      BY <1>4, InFlightIs
    <2>2. g[i] \in Nat /\ g[i] <= n
      BY <1>4, <1>6, <1>7, <2>1 DEF Past
    <2>3. UntilAt(g, n) >= g[i] + Block
      BY <2>1, <2>2 DEF UntilAt
    <2>4. CASE i = l + 1
      <3>1. ~(i + InFlight <= Len(g)) /\ (Len(g) - i) + 1 + (m - 1) = m
        BY <1>1, <1>4, <2>1, <2>4
      <3> QED  BY <2>3, <3>1
    <2>5. CASE i \in 1 .. l
      <3>1. d + i \in MaxFailures .. Len(f) /\ d + i \in Nat /\ g[i] = f[d + i]
        BY <1>4, <1>5, <2>1, <2>5
      <3> DEFINE x == f[d + i]
      <3>2. /\ (d + i) + InFlight <= Len(f) => f[(d + i) + InFlight] >= x + Block
            /\ n < x + Block => (Len(f) - (d + i)) + 1 + m <= InFlight
        BY <3>1 DEF Remembers, Dense
      <3>3. Len(f) - (d + i) = l - i /\ Len(g) - i = (l - i) + 1
        BY <1>4, <1>5, <2>1
      <3> HIDE DEF x
      <3>4. x \in Nat /\ x = g[i]
        BY <2>2, <3>1 DEF x
      <3>5. n < x + Block => (Len(g) - i) + 1 + (m - 1) <= InFlight
        BY <1>1, <1>4, <2>1, <3>2, <3>3
      <3>6. ASSUME i + InFlight <= Len(g)
            PROVE  g[i + InFlight] >= x + Block
        <4>1. CASE i + InFlight <= l
          <5>1. i + InFlight \in 1 .. l /\ d + (i + InFlight) = (d + i) + InFlight
                /\ (d + i) + InFlight <= Len(f)
            BY <1>4, <1>5, <2>1, <4>1
          <5>2. g[i + InFlight] = f[(d + i) + InFlight]
            BY <1>4, <1>5, <5>1
          <5> QED  BY <3>2, <5>1, <5>2
        <4>2. CASE i + InFlight = l + 1
          <5>1. ~(n < x + Block)
            BY <1>1, <1>4, <2>1, <3>2, <3>3, <4>2
          <5> QED  BY <1>4, <2>1, <3>4, <4>2, <5>1
        <4> QED  BY <1>4, <2>1, <3>6, <4>1, <4>2
      <3> QED  BY <2>3, <3>4, <3>5, <3>6
    <2> QED  BY <1>6, <2>1, <2>4, <2>5
  <1>10. m - 1 \in Nat
    BY <1>1
  <1>11. Remembers(n, Failures(g, UntilAt(g, n)), g, m - 1)
    BY <1>4, <1>7, <1>8, <1>9, <1>10, FailuresIs DEF Remembers
  <1> QED  BY <1>1, <1>11 DEF g, r

LEMMA BlocksCoverWindow ==
  LET blocks == (Window + Block - 1) \div Block
  IN blocks \in Nat /\ blocks * Block >= Window
  <1>1. Window \in Nat /\ Block \in Nat /\ Block >= 1
    OBVIOUS
  <1> QED  BY <1>1

\* As many failures later as can be in flight, a block later.
LEMMA BlocksApart ==
  ASSUME NEW r \in Seq(Nat),
         \A i \in MaxFailures .. Len(r) : i + InFlight <= Len(r) => r[i + InFlight] >= r[i] + Block
  PROVE  \A b \in Nat : MaxFailures + b * InFlight <= Len(r) =>
            r[MaxFailures + b * InFlight] >= r[MaxFailures] + b * Block
  <1> DEFINE Apart(b) == MaxFailures + b * InFlight <= Len(r) =>
                           r[MaxFailures + b * InFlight] >= r[MaxFailures] + b * Block
             T == {b \in Nat : ~Apart(b)}
  <1>1. /\ InFlight \in Nat /\ MaxFailures \in Nat /\ MaxFailures >= 1 /\ Block \in Nat /\ Len(r) \in Nat
        /\ \A i \in 1 .. Len(r) : r[i] \in Nat
    BY InFlightIs
  <1>2. Apart(0)
    <2>1. MaxFailures + 0 * InFlight = MaxFailures /\ 0 * Block = 0
      BY <1>1
    <2>2. MaxFailures <= Len(r) => r[MaxFailures] \in Nat
      BY <1>1
    <2> QED  BY <2>1, <2>2
  <1>3. ASSUME NEW b \in Nat, Apart(b)
        PROVE  Apart(b + 1)
    <2> DEFINE i == MaxFailures + b * InFlight
               x == r[MaxFailures]
    <2>1. /\ i \in Nat /\ i >= MaxFailures /\ MaxFailures + (b + 1) * InFlight = i + InFlight
          /\ b * Block \in Nat /\ (b + 1) * Block = b * Block + Block
      BY <1>1
    <2> HIDE DEF i
    <2>2. SUFFICES ASSUME i + InFlight <= Len(r)
                   PROVE  r[i + InFlight] >= x + (b + 1) * Block
      BY <2>1
    <2>3. /\ i <= Len(r) /\ i \in MaxFailures .. Len(r) /\ i \in 1 .. Len(r) /\ MaxFailures \in 1 .. Len(r)
          /\ i + InFlight \in 1 .. Len(r)
      BY <1>1, <2>1, <2>2
    <2>4. r[i] >= x + b * Block
      BY <1>3, <2>3 DEF i
    <2>5. r[i + InFlight] >= r[i] + Block
      BY <2>2, <2>3
    <2>6. x \in Nat /\ r[i] \in Nat /\ r[i + InFlight] \in Nat
      BY <1>1, <2>3
    <2> HIDE DEF x
    <2> QED  BY <1>1, <2>1, <2>4, <2>5, <2>6
  <1>4. T = {}
    <2> HIDE DEF Apart
    <2>1. SUFFICES ASSUME T # {} PROVE FALSE
      OBVIOUS
    <2>2. T \subseteq Nat
      OBVIOUS
    <2>3. PICK b \in T : \A k \in T : b <= k
      BY <2>1, <2>2, LeastNat
    <2>4. b \in Nat /\ ~Apart(b) /\ b # 0
      BY <1>2, <2>3
    <2>5. b - 1 \in Nat /\ (b - 1) + 1 = b
      BY <2>4
    <2>6. b - 1 \notin T
      <3> HIDE DEF T
      <3>1. SUFFICES ASSUME b - 1 \in T PROVE FALSE
        OBVIOUS
      <3>2. b <= b - 1
        BY <2>3, <3>1
      <3> QED  BY <2>4, <3>2
    <2>7. Apart(b - 1)
      BY <2>5, <2>6
    <2>8. Apart((b - 1) + 1)
      BY <1>3, <2>5, <2>7
    <2> QED  BY <2>4, <2>5, <2>8
  <1> QED  BY <1>4

LEMMA RemembersBounded ==
  ASSUME NEW n \in Nat, NEW e, NEW f, NEW m, Remembers(n, e, f, m)
  PROVE  Len(RecentAt(f, n)) <= (MaxFailures - 1) + InFlight * ((Window + Block - 1) \div Block)
  <1> DEFINE r == RecentAt(f, n)
             l == Len(r)
             blocks == (Window + Block - 1) \div Block
             i == MaxFailures + blocks * InFlight
  <1>1. Past(f, n)
    BY DEF Remembers
  <1>2. PICK d \in 0 .. Len(f) : Cut(f, n, d, Len(f)) /\ Rest(r, f, d, Len(f))
    BY <1>1, RecentIs
  <1> HIDE DEF r
  <1>3. r \in Seq(Nat) /\ l \in Nat /\ l = Len(f) - d /\ \A j \in 1 .. l : r[j] = f[d + j]
    <2>1. r \in Seq(Nat) /\ l = Len(f) - d
      BY <1>2 DEF Rest
    <2>2. \A j \in 1 .. Len(f) - d : r[j] = f[d + j]
      BY <1>2 DEF Rest
    <2> QED  BY <2>1, <2>2
  <1>4. f \in Seq(Nat) /\ d \in Nat /\ Len(f) = d + l /\ \A j \in 1 .. d + l : f[j] \in Nat /\ f[j] <= n
    BY <1>1, <1>3 DEF Past
  <1>5. blocks \in Nat /\ blocks * Block >= Window
    BY BlocksCoverWindow
  <1> HIDE DEF l, blocks
  <1>6. InFlight \in Nat /\ MaxFailures \in Nat /\ MaxFailures >= 1 /\ Block \in Nat /\ Window \in Nat
    BY InFlightIs
  <1>7. \A k \in MaxFailures .. l : k + InFlight <= l => r[k + InFlight] >= r[k] + Block
    <2> SUFFICES ASSUME NEW k \in MaxFailures .. l, k + InFlight <= l
                 PROVE  r[k + InFlight] >= r[k] + Block
      OBVIOUS
    <2>1. /\ d + k \in MaxFailures .. Len(f) /\ (d + k) + InFlight <= Len(f)
          /\ k \in 1 .. l /\ k + InFlight \in 1 .. l /\ d + (k + InFlight) = (d + k) + InFlight
      BY <1>3, <1>4, <1>6
    <2>2. f[(d + k) + InFlight] >= f[d + k] + Block
      BY <2>1 DEF Remembers, Dense
    <2> QED  BY <1>3, <2>1, <2>2
  <1>8. ~(i <= l)
    <2>1. SUFFICES ASSUME i <= l PROVE FALSE
      OBVIOUS
    <2>2. r[i] >= r[MaxFailures] + blocks * Block
      BY <1>3, <1>5, <1>7, <2>1, BlocksApart DEF l
    <2>3. blocks * InFlight \in Nat /\ blocks * Block \in Nat
      BY <1>5, <1>6
    <2>4. i \in 1 .. l /\ MaxFailures \in 1 .. l
      BY <1>3, <1>6, <2>1, <2>3
    <2> HIDE DEF i
    <2>5. d + i \in 1 .. d + l /\ d + MaxFailures \in d + 1 .. Len(f) /\ d + MaxFailures \in 1 .. d + l
      BY <1>3, <1>4, <1>6, <2>4
    <2>6. f[d + i] <= n /\ f[d + i] \in Nat /\ f[d + MaxFailures] \in Nat /\ n - f[d + MaxFailures] < Window
      BY <1>2, <1>4, <2>5 DEF Cut
    <2>7. r[i] = f[d + i] /\ r[MaxFailures] = f[d + MaxFailures]
      BY <1>3, <2>4
    <2> QED  BY <1>5, <1>6, <2>2, <2>3, <2>6, <2>7
  <1>9. blocks * InFlight = InFlight * blocks /\ InFlight * blocks \in Nat
    BY <1>5, <1>6
  <1>10. l <= (MaxFailures - 1) + InFlight * blocks
    <2> DEFINE p == InFlight * blocks
    <2>1. p \in Nat /\ ~(MaxFailures + p <= l)
      BY <1>8, <1>9
    <2> HIDE DEF p
    <2>2. l <= (MaxFailures - 1) + p
      BY <1>3, <1>6, <2>1
    <2> QED  BY <2>2 DEF p
  <1> QED  BY <1>10 DEF l, r, blocks

AnyAttempt == {NoAttempt} \cup [at : {"trying", "connected"}, identity : Identities]

\* The attempts that may still fail for an identity.
For(attempts, k) == {a \in Attempts : attempts[a] # NoAttempt /\ attempts[a].identity = k}

LimiterInv ==
    /\ now \in Nat
    /\ login_failures \in [Identities -> Entries]
    /\ attempt \in [Attempts -> AnyAttempt]
    /\ failed \in [Identities -> Seq(Nat)]
    /\ \A k \in Identities : Remembers(now, login_failures[k], failed[k], Cardinality(For(attempt, k)))

LEMMA NoAttemptIs ==
  /\ NoAttempt \in AnyAttempt /\ NoAttempt.at = "idle"
  /\ \A x \in AnyAttempt : x.at # "idle" => x # NoAttempt /\ x.identity \in Identities
  /\ \A x \in AnyAttempt : x.at = "idle" => x = NoAttempt
  BY DEF NoAttempt, AnyAttempt

LEMMA LimiterBegins == ASSUME LimiterInit PROVE LimiterInv
  <1>1. \A k \in Identities : For(attempt, k) = {}
    BY DEF LimiterInit, For
  <1>2. Cardinality({}) = 0
    BY FS_EmptySet
  <1>3. <<>> \in Seq(Nat)
    OBVIOUS
  <1>4. \A k \in Identities : Remembers(0, NoFailures, <<>>, Cardinality(For(attempt, k)))
    BY <1>1, <1>2, RemembersNone
  <1> QED  BY <1>3, <1>4, NoAttemptIs, NoFailuresIs DEF LimiterInit, LimiterInv

LEMMA ForIs ==
  ASSUME NEW attempts, NEW k
  PROVE  /\ IsFiniteSet(For(attempts, k)) /\ Cardinality(For(attempts, k)) \in Nat
         /\ Cardinality(For(attempts, k)) <= InFlight
  <1>1. For(attempts, k) \subseteq Attempts
    BY DEF For
  <1> QED  BY <1>1, FS_Subset, FS_CardinalityType DEF InFlight

\* An attempt that ends is in flight for its identity no more.
LEMMA AttemptEnds ==
  ASSUME LimiterInv, NEW a \in Attempts, attempt[a].at # "idle",
         attempt' = [attempt EXCEPT ![a] = NoAttempt]
  PROVE  LET k == attempt[a].identity
         IN /\ k \in Identities /\ attempt' \in [Attempts -> AnyAttempt]
            /\ Cardinality(For(attempt, k)) >= 1
            /\ Cardinality(For(attempt', k)) = Cardinality(For(attempt, k)) - 1
            /\ \A i \in Identities \ {k} : For(attempt', i) = For(attempt, i)
  <1> DEFINE k == attempt[a].identity
  <1>1. attempt \in [Attempts -> AnyAttempt] /\ attempt[a] # NoAttempt /\ k \in Identities
    BY NoAttemptIs DEF LimiterInv
  <1>2. attempt' \in [Attempts -> AnyAttempt] /\ attempt'[a] = NoAttempt
        /\ \A b \in Attempts \ {a} : attempt'[b] = attempt[b]
    BY <1>1, NoAttemptIs
  <1>3. a \in For(attempt, k) /\ For(attempt', k) = For(attempt, k) \ {a}
    BY <1>1, <1>2 DEF For
  <1>4. \A i \in Identities \ {k} : For(attempt', i) = For(attempt, i)
    BY <1>1, <1>2 DEF For
  <1>5. Cardinality(For(attempt, k) \ {a}) = Cardinality(For(attempt, k)) - 1 /\ Cardinality(For(attempt, k)) \in Nat
        /\ Cardinality(For(attempt, k) \ {a}) \in Nat
    <2>1. IsFiniteSet(For(attempt, k)) /\ IsFiniteSet(For(attempt, k) \ {a})
      BY <1>1, ForIs, FS_RemoveElement
    <2> QED  BY <1>3, <2>1, FS_RemoveElement, FS_CardinalityType
  <1>6. Cardinality(For(attempt, k)) >= 1
    <2> DEFINE c == Cardinality(For(attempt, k))
    <2>1. c \in Nat /\ c - 1 \in Nat
      BY <1>5
    <2> HIDE DEF c
    <2>2. c >= 1
      BY <2>1
    <2> QED  BY <2>2 DEF c
  <1> QED  BY <1>1, <1>2, <1>3, <1>4, <1>5, <1>6

LEMMA TryKeeps ==
  ASSUME LimiterInv, NEW a \in Attempts, NEW k \in Identities, TryLogin(a, k)
  PROVE  LimiterInv'
  <1>1. /\ now' = now /\ failed' = failed /\ login_failures[k].blocked_until <= now
        /\ login_failures' = [login_failures EXCEPT ![k] = Enforced(k)]
        /\ attempt' = [attempt EXCEPT ![a] = [at |-> "trying", identity |-> k]]
    <2>1. login_failures[k].blocked_until \in Nat /\ now \in Nat
      BY DEF LimiterInv, Entries
    <2> QED  BY <2>1 DEF TryLogin, Blocked
  <1> DEFINE e == Enforced(k)
             x == [at |-> "trying", identity |-> k]
  <1>2. e = Failures(RecentAt(login_failures[k].failures, now), 0)
    BY RecentNow DEF Enforced
  <1>3. Remembers(now, e, failed[k], Cardinality(For(attempt', k)))
    BY <1>1, <1>2, ForIs, RemembersTried DEF LimiterInv
  <1>4. e \in Entries
    BY <1>3 DEF Remembers
  <1>5. x \in AnyAttempt
    BY DEF AnyAttempt
  <1>6. x # NoAttempt /\ x.identity = k
    BY DEF NoAttempt
  <1> HIDE DEF e, x
  <1>7. attempt' \in [Attempts -> AnyAttempt] /\ attempt'[a] = x
        /\ \A b \in Attempts \ {a} : attempt'[b] = attempt[b]
    BY <1>1, <1>5 DEF LimiterInv, x
  <1>8. login_failures' \in [Identities -> Entries] /\ login_failures'[k] = e
        /\ \A i \in Identities \ {k} : login_failures'[i] = login_failures[i]
    BY <1>1, <1>4 DEF LimiterInv, e
  <1>9. \A i \in Identities \ {k} : For(attempt', i) = For(attempt, i)
    <2>1. attempt[a] = NoAttempt
      BY NoAttemptIs DEF TryLogin, LimiterInv
    <2> QED  BY <1>6, <1>7, <2>1 DEF For
  <1>10. \A i \in Identities : Remembers(now, login_failures'[i], failed[i], Cardinality(For(attempt', i)))
    BY <1>3, <1>8, <1>9 DEF LimiterInv
  <1> QED  BY <1>1, <1>7, <1>8, <1>10 DEF LimiterInv

\* An attempt ends and leaves the entries as they are.
LEMMA EndKeeps ==
  ASSUME LimiterInv, NEW a \in Attempts, attempt[a].at # "idle",
         attempt' = [attempt EXCEPT ![a] = NoAttempt], UNCHANGED <<now, login_failures, failed>>
  PROVE  LimiterInv'
  <1> DEFINE k == attempt[a].identity
  <1>1. /\ k \in Identities /\ attempt' \in [Attempts -> AnyAttempt]
        /\ Cardinality(For(attempt', k)) = Cardinality(For(attempt, k)) - 1
        /\ \A i \in Identities \ {k} : For(attempt', i) = For(attempt, i)
    BY AttemptEnds
  <1> HIDE DEF k
  <1>2. Cardinality(For(attempt', k)) \in Nat /\ Cardinality(For(attempt, k)) \in Nat
    BY <1>1, ForIs
  <1>3. Remembers(now, login_failures[k], failed[k], Cardinality(For(attempt', k)))
    <2>1. Cardinality(For(attempt', k)) <= Cardinality(For(attempt, k))
      BY <1>1, <1>2
    <2> QED  BY <1>1, <1>2, <2>1, RemembersFewer DEF LimiterInv
  <1>4. \A i \in Identities : Remembers(now, login_failures[i], failed[i], Cardinality(For(attempt', i)))
    BY <1>1, <1>3 DEF LimiterInv
  <1> QED  BY <1>1, <1>4 DEF LimiterInv

LEMMA ConnectKeeps ==
  ASSUME LimiterInv, NEW a \in Attempts, LoginConnects(a)
  PROVE  LimiterInv'
  <1> DEFINE k == attempt[a].identity
  <1>1. /\ now' = now /\ login_failures' = [login_failures EXCEPT ![k] = NoFailures]
        /\ failed' = [failed EXCEPT ![k] = <<>>]
        /\ attempt' = [attempt EXCEPT ![a].at = "connected"]
        /\ attempt[a].at = "trying"
    BY DEF LoginConnects
  <1>2. attempt[a] \in [at : {"trying", "connected"}, identity : Identities]
    <2>1. attempt[a] \in AnyAttempt /\ attempt[a] # NoAttempt
      BY <1>1, NoAttemptIs DEF LimiterInv
    <2> QED  BY <2>1 DEF AnyAttempt
  <1> DEFINE x == [attempt[a] EXCEPT !.at = "connected"]
  <1>3. x \in [at : {"trying", "connected"}, identity : Identities] /\ x.identity = k /\ x.at = "connected"
    BY <1>2
  <1>4. attempt' = [attempt EXCEPT ![a] = x]
    BY <1>1
  <1>5. k \in Identities
    BY <1>2
  <1> HIDE DEF x
  <1>6. x \in AnyAttempt /\ x # NoAttempt /\ attempt[a] # NoAttempt
    BY <1>1, <1>3, NoAttemptIs DEF AnyAttempt
  <1>7. attempt' \in [Attempts -> AnyAttempt] /\ attempt'[a] = x
        /\ \A b \in Attempts \ {a} : attempt'[b] = attempt[b]
    BY <1>4, <1>6 DEF LimiterInv
  <1>8. \A i \in Identities : For(attempt', i) = For(attempt, i)
    BY <1>3, <1>6, <1>7 DEF For
  <1> HIDE DEF k
  <1>9. login_failures' \in [Identities -> Entries] /\ login_failures'[k] = NoFailures
        /\ \A i \in Identities \ {k} : login_failures'[i] = login_failures[i]
    BY <1>1, <1>5, NoFailuresIs DEF LimiterInv
  <1>10. failed' \in [Identities -> Seq(Nat)] /\ failed'[k] = <<>>
         /\ \A i \in Identities \ {k} : failed'[i] = failed[i]
    BY <1>1, <1>5 DEF LimiterInv
  <1>11. Remembers(now, NoFailures, <<>>, Cardinality(For(attempt, k)))
    BY <1>5, ForIs, RemembersNone DEF LimiterInv
  <1>12. \A i \in Identities : Remembers(now, login_failures'[i], failed'[i], Cardinality(For(attempt', i)))
    BY <1>8, <1>9, <1>10, <1>11 DEF LimiterInv
  <1> QED  BY <1>1, <1>7, <1>9, <1>10, <1>12 DEF LimiterInv

LEMMA FailKeeps ==
  ASSUME LimiterInv, NEW a \in Attempts, LoginFails(a)
  PROVE  LimiterInv'
  <1> DEFINE k == attempt[a].identity
             times == Append(RecentAt(login_failures[k].failures, now), now)
             e == Failures(times, UntilAt(times, now))
             g == Append(RecentAt(failed[k], now), now)
             said == [login_failures EXCEPT ![k] = e]
             crowded == Cardinality({i \in Identities : said[i].there}) > MaxIdentities
  <1>1. /\ now' = now /\ failed' = [failed EXCEPT ![k] = g]
        /\ attempt' = [attempt EXCEPT ![a] = NoAttempt] /\ attempt[a].at # "idle"
    BY RecentNow DEF LoginFails
  <1>2. login_failures' = [i \in Identities |->
                             IF crowded /\ said[i].there /\ Stale(said[i]) THEN NoFailures ELSE said[i]]
    BY RecentNow DEF LoginFails, Record, Until, UntilAt
  <1>3. /\ k \in Identities /\ attempt' \in [Attempts -> AnyAttempt]
        /\ Cardinality(For(attempt, k)) >= 1 /\ Cardinality(For(attempt', k)) = Cardinality(For(attempt, k)) - 1
        /\ \A i \in Identities \ {k} : For(attempt', i) = For(attempt, i)
    BY <1>1, AttemptEnds
  <1>4. Remembers(now, e, g, Cardinality(For(attempt', k)))
    BY <1>3, ForIs, RemembersFailed DEF LimiterInv
  <1> HIDE DEF k, times, e, g
  <1>5. e \in Entries /\ g \in Seq(Nat)
    BY <1>4 DEF Remembers, Past
  <1>6. failed' \in [Identities -> Seq(Nat)] /\ failed'[k] = g
        /\ \A i \in Identities \ {k} : failed'[i] = failed[i]
    BY <1>1, <1>3, <1>5 DEF LimiterInv
  <1>7. said \in [Identities -> Entries] /\ said[k] = e
        /\ \A i \in Identities \ {k} : said[i] = login_failures[i]
    BY <1>3, <1>5 DEF LimiterInv
  <1> HIDE DEF said, crowded
  <1>8. \A i \in Identities : Remembers(now, said[i], failed'[i], Cardinality(For(attempt', i)))
    BY <1>3, <1>4, <1>6, <1>7 DEF LimiterInv
  <1>9. \A i \in Identities : Remembers(now, login_failures'[i], failed'[i], Cardinality(For(attempt', i)))
    <2> SUFFICES ASSUME NEW i \in Identities
                 PROVE  Remembers(now, login_failures'[i], failed'[i], Cardinality(For(attempt', i)))
      OBVIOUS
    <2>1. CASE login_failures'[i] = said[i]
      BY <1>8, <2>1
    <2>2. CASE login_failures'[i] = NoFailures /\ Stale(said[i])
      <3>1. StaleAt(said[i], now)
        BY <2>2 DEF Stale, StaleAt
      <3> QED  BY <1>8, <2>2, <3>1, RemembersStale DEF LimiterInv
    <2> QED  BY <1>2, <2>1, <2>2
  <1>10. login_failures' \in [Identities -> Entries]
    BY <1>2, <1>7, NoFailuresIs
  <1> QED  BY <1>1, <1>3, <1>6, <1>9, <1>10 DEF LimiterInv

LEMMA TimeKeeps ==
  ASSUME LimiterInv, TimePasses
  PROVE  LimiterInv'
  <1>1. now' = now + 1 /\ now \in Nat /\ UNCHANGED <<login_failures, attempt, failed>>
    BY DEF TimePasses, LimiterInv
  <1>2. \A k \in Identities : Remembers(now + 1, login_failures[k], failed[k], Cardinality(For(attempt, k)))
    BY RemembersLater DEF LimiterInv
  <1>3. \A k \in Identities : For(attempt', k) = For(attempt, k)
    BY <1>1 DEF For
  <1> QED  BY <1>1, <1>2, <1>3 DEF LimiterInv

LEMMA LimiterSteps ==
  ASSUME LimiterInv, [LimiterNext]_limiterVars
  PROVE  LimiterInv'
  <1>1. CASE UNCHANGED limiterVars
    BY <1>1 DEF LimiterInv, limiterVars, For
  <1>2. ASSUME NEW a \in Attempts, RefuseForm(a) \/ LoginDone(a)
        PROVE  LimiterInv'
    BY <1>2, EndKeeps DEF RefuseForm, LoginDone
  <1> QED  BY <1>1, <1>2, TryKeeps, ConnectKeeps, FailKeeps, TimeKeeps DEF LimiterNext

\* For any numbers of identities and attempts, and any limit, window and block: the
\* limiter remembers every failure of the last window, and however logins overlap, an
\* identity has no more of them than the limit lets through and, for each block, as many
\* as can be in flight together.
THEOREM GuessesAlwaysCounted == LimiterSpec => []GuessesCounted
<1>1. LimiterInit => LimiterInv
  BY LimiterBegins
<1>2. LimiterInv /\ [LimiterNext]_limiterVars => LimiterInv'
  BY LimiterSteps
<1>3. LimiterInv => GuessesCounted
  <2> SUFFICES ASSUME LimiterInv PROVE GuessesCounted
    OBVIOUS
  <2>1. FailuresRemembered
    BY RecentNow DEF LimiterInv, Remembers, FailuresRemembered
  <2>2. GuessesBounded
    BY RecentNow, RemembersBounded DEF LimiterInv, GuessesBounded, InFlight
  <2> QED  BY <2>1, <2>2 DEF GuessesCounted
<1> QED  BY <1>1, <1>2, <1>3, PTL DEF LimiterSpec
=============================================================================
