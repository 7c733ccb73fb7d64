---------------------------- MODULE SessionPool ----------------------------
(***************************************************************************)
(* Server sessions and their MySQL connections (modules/session_util.py,   *)
(* mysql_util.py), as the pages of app.py use them.                        *)
(*                                                                         *)
(* A registry maps the session id of the browser's cookie to an entry with *)
(* the credentials and one cached connection.  Entries leave the registry  *)
(* under its lock and are closed after that; a request that has looked an  *)
(* entry up borrows its connection under the entry's own lock, whether or  *)
(* not the entry is still registered.  Cookies live in the browser: a      *)
(* request works on the copy it came with, and the last answer wins.       *)
(***************************************************************************)
EXTENDS Integers, FiniteSets

CONSTANTS
    Threads,       \* web threads, one of which may serve as cleanup thread
    Sessions,      \* server session ids
    Conns,         \* connections that can be open at once
    Profiles,      \* connection profiles
    NoThread, NoSession, NoConn,
    Works,         \* the requests that occur in this instance
    Faults         \* the failures that occur in this instance

AllWorks == {"page", "execute", "explain", "import", "edit", "login", "logout", "cleanup"}
PoolFaults == {"lost", "refused", "query_error"}

ASSUME PoolAssumption ==
    /\ NoSession \notin Sessions /\ NoConn \notin Conns /\ NoThread \notin Threads
    /\ Profiles # {}
    /\ Works \subseteq AllWorks
    /\ Faults \subseteq PoolFaults

Cookie == [sid : Sessions \cup {NoSession}, profile : Profiles]
\* A connection: whose profile it was opened for, the session value of
\* use_secondary_engine ("set" is ON or FORCED), and uncommitted rows.
Conn == [state : {"free", "open", "lost"}, profile : Profiles,
         engine : {"default", "off", "set"}, rows : BOOLEAN]

VARIABLES
    cookie,    \* the browser's cookie
    active,    \* the sessions in the registry
    idle,      \* of these, the ones past their time to live
    cache,     \* [Sessions -> Conns or NoConn]: the connection cached in the entry
    lock,      \* [Sessions -> Threads or NoThread]: the entry's lock
    conn,      \* [Conns -> Conn]
    imported,  \* outcomes of imports: what has been committed
    pc,        \* [Threads -> Points]
    work,      \* [Threads -> ...]: the request, or the part of it being served
    mine,      \* [Threads -> Cookie]: the request's copy of the cookie
    new,       \* [Threads -> Sessions or NoSession]: the session id of a login
    held,      \* [Threads -> Conns or NoConn]: the borrowed connection
    closing,   \* [Threads -> SUBSET Sessions]: entries popped, to be closed
    after      \* [Threads -> Points]: where to go when they are

registry == <<active, idle>>
pool == <<cache, lock, conn>>
locals == <<work, mine, new, held, closing, after>>
vars == <<cookie, registry, pool, imported, pc, locals>>

Points == {"idle", "lookup", "close", "find", "lock", "use", "commit",
           "end", "clear", "create", "reply"}
Parts == AllWorks \cup {"inventory"}
AnyProfile == CHOOSE p \in Profiles : TRUE

Free == [state |-> "free", profile |-> AnyProfile, engine |-> "default", rows |-> FALSE]

\* A connection that no longer answers; nothing else matters of it.
Lost == [Free EXCEPT !.state = "lost"]

Init ==
    /\ cookie = [sid |-> NoSession, profile |-> AnyProfile]
    /\ active = {} /\ idle = {}
    /\ cache = [s \in Sessions |-> NoConn]
    /\ lock = [s \in Sessions |-> NoThread]
    /\ conn = [c \in Conns |-> Free]
    /\ imported = {}
    /\ pc = [t \in Threads |-> "idle"]
    /\ work = [t \in Threads |-> "page"]
    /\ mine = [t \in Threads |-> cookie]
    /\ new = [t \in Threads |-> NoSession]
    /\ held = [t \in Threads |-> NoConn]
    /\ closing = [t \in Threads |-> {}]
    /\ after = [t \in Threads |-> "idle"]

Goto(t, point) == pc' = [pc EXCEPT ![t] = point]

\* The end of a request; what a thread knew is forgotten.
Done(t) ==
    /\ Goto(t, "idle")
    /\ work' = [work EXCEPT ![t] = "page"]
    /\ mine' = [mine EXCEPT ![t] = [sid |-> NoSession, profile |-> AnyProfile]]
    /\ new' = [new EXCEPT ![t] = NoSession]
    /\ held' = [held EXCEPT ![t] = NoConn]
    /\ UNCHANGED <<closing, after>>

-----------------------------------------------------------------------------
(* Requests and the registry.                                              *)

\* uuid4: an id nobody knows of.
Unknown(s) ==
    /\ s \notin active /\ cache[s] = NoConn /\ lock[s] = NoThread /\ cookie.sid # s
    /\ \A t \in Threads : mine[t].sid # s /\ new[t] # s /\ s \notin closing[t]

Entry(kind) ==
    IF kind \in {"login", "logout"} THEN "clear" ELSE "lookup"

Request(t, kind) ==
    /\ pc[t] = "idle"
    /\ work' = [work EXCEPT ![t] = kind]
    /\ mine' = [mine EXCEPT ![t] = cookie]
    /\ IF kind = "login"
       THEN \E s \in Sessions : Unknown(s) /\ new' = [new EXCEPT ![t] = s]
       ELSE new' = new
    /\ Goto(t, Entry(kind))
    /\ UNCHANGED <<cookie, registry, pool, imported, held, closing, after>>

\* Mutant of Pop: what has left the registry is still looked at.
PopKeepingIdle(t, popped, next) ==
    /\ active' = active \ popped
    /\ idle' = idle
    /\ closing' = [closing EXCEPT ![t] = popped]
    /\ IF popped = {} THEN after' = after /\ Goto(t, next)
       ELSE after' = [after EXCEPT ![t] = next] /\ Goto(t, "close")

\* Pop entries from the registry; they are closed after its lock is released.
Pop(t, popped, next) ==
    /\ active' = active \ popped
    /\ idle' = idle \ popped
    /\ closing' = [closing EXCEPT ![t] = popped]
    /\ IF popped = {} THEN after' = after /\ Goto(t, next)
       ELSE after' = [after EXCEPT ![t] = next] /\ Goto(t, "close")

\* cleanup_expired_server_sessions, before every lookup and every minute.
CleanUp(t) ==
    /\ pc[t] = "lookup"
    /\ Pop(t, idle, IF work[t] = "cleanup" THEN "reply" ELSE "find")
    /\ UNCHANGED <<cookie, pool, imported, work, mine, new, held>>

\* Mutant of ConnsWithout: the connection that is replaced is not closed.
ConnsKeeping(s) == conn

\* The connections once the one cached in the entry of s is closed.
ConnsWithout(s) == [c \in Conns |-> IF c = cache[s] THEN Free ELSE conn[c]]

\* Mutant of Closable: it does not wait for the request that has the lock.
ClosableAtOnce(s) == TRUE

Closable(s) == lock[s] = NoThread

\* close_cached_connection of one popped entry.
CloseOne(t) ==
    /\ pc[t] = "close"
    /\ \E s \in closing[t] :
        /\ Closable(s)
        /\ conn' = ConnsWithout(s)
        /\ cache' = [cache EXCEPT ![s] = NoConn]
        /\ closing' = [closing EXCEPT ![t] = @ \ {s}]
        /\ IF closing[t] = {s}
           THEN Goto(t, after[t]) /\ after' = [after EXCEPT ![t] = "idle"]
           ELSE UNCHANGED <<pc, after>>
    /\ UNCHANGED <<cookie, registry, lock, imported, work, mine, new, held>>

\* get_server_session_entry: found, and its activity noted, or back to the login
\* page.
Find(t) ==
    LET s == mine[t].sid IN
    /\ pc[t] = "find"
    /\ IF s \in active
       THEN idle' = idle \ {s} /\ Goto(t, IF work[t] = "edit" THEN "reply" ELSE "lock")
       ELSE idle' = idle /\ Goto(t, "clear")
    /\ IF s \in active /\ work[t] = "edit"
       THEN \E p \in Profiles : mine' = [mine EXCEPT ![t].profile = p]
       ELSE mine' = mine
    /\ UNCHANGED <<cookie, active, pool, imported, work, new, held, closing, after>>

\* clear_login_state.
Clear(t) ==
    /\ pc[t] = "clear"
    /\ Pop(t, active \cap {mine[t].sid}, IF new[t] \in Sessions THEN "create" ELSE "reply")
    /\ mine' = [mine EXCEPT ![t].sid = NoSession]
    /\ UNCHANGED <<cookie, pool, imported, work, new, held>>

\* set_session_profile and set_session_credentials of a login.
Create(t) ==
    /\ pc[t] = "create"
    /\ active' = active \cup {new[t]}
    /\ \E p \in Profiles : mine' = [mine EXCEPT ![t] = [sid |-> new[t], profile |-> p]]
    /\ new' = [new EXCEPT ![t] = NoSession]
    /\ Goto(t, "lookup")
    /\ UNCHANGED <<cookie, idle, pool, imported, work, held, closing, after>>

\* The answer: a changed cookie replaces the browser's.
Reply(t) ==
    /\ pc[t] = "reply"
    /\ cookie' = IF work[t] \in {"edit", "login", "logout"} \/ mine[t].sid = NoSession
                 THEN mine[t] ELSE cookie
    /\ Done(t)
    /\ UNCHANGED <<registry, pool, imported>>

-----------------------------------------------------------------------------
(* borrow_connection.  Taking the lock of the entry and finding or opening *)
(* the connection are one step: no step of others in between sees a        *)
(* difference, because they, too, wait for the lock.                       *)

\* Mutant of SameSignature: whatever is cached will do.
AnySignature(t, c) == c # NoConn

SameSignature(t, c) == c # NoConn /\ conn[c].profile = mine[t].profile

AtLock(t) == pc[t] = "lock" /\ lock[mine[t].sid] = NoThread

Usable(t, c) == SameSignature(t, c) /\ conn[c].state = "open"

Borrow(t, c) ==
    /\ lock' = [lock EXCEPT ![mine[t].sid] = t]
    /\ held' = [held EXCEPT ![t] = c]
    /\ Goto(t, "use")

\* prepare_connection_for_use of the cached connection.
Reuse(t) ==
    LET c == cache[mine[t].sid] IN
    /\ AtLock(t)
    /\ Usable(t, c)
    /\ Borrow(t, c)
    /\ UNCHANGED <<cookie, registry, cache, conn, imported, work, mine, new, closing, after>>

Opened(t) == [Free EXCEPT !.state = "open", !.profile = mine[t].profile]

\* A cached connection that does not match or does not answer is closed, and
\* another one opened.
OpenNew(t) ==
    LET s == mine[t].sid
        rest == ConnsWithout(s) IN
    /\ AtLock(t)
    /\ ~Usable(t, cache[s])
    /\ \E c \in Conns :
        /\ rest[c].state = "free"
        /\ conn' = [rest EXCEPT ![c] = Opened(t)]
        /\ cache' = [cache EXCEPT ![s] = c]
        /\ Borrow(t, c)
    /\ UNCHANGED <<cookie, registry, imported, work, mine, new, closing, after>>

Unlock(t) == lock' = [lock EXCEPT ![mine[t].sid] = NoThread]

\* The second attempt, too, fails to connect, or its connection fails the test
\* and stays in the cache.
OpenFails(t) ==
    LET s == mine[t].sid
        rest == ConnsWithout(s) IN
    /\ "refused" \in Faults
    /\ AtLock(t)
    /\ ~Usable(t, cache[s])
    /\ \/ conn' = rest /\ cache' = [cache EXCEPT ![s] = NoConn]
       \/ \E c \in Conns :
            /\ rest[c].state = "free"
            /\ conn' = [rest EXCEPT ![c] = Lost]
            /\ cache' = [cache EXCEPT ![s] = c]
    /\ \E page \in {"clear", "reply"} : Goto(t, IF work[t] = "login" THEN "clear" ELSE page)
    /\ UNCHANGED <<cookie, registry, lock, imported, locals>>

\* The statements a request runs on its connection.  execute resets the engine
\* when it is done, explain and the other reports do not; the SQL Workspace
\* page then lists the databases with the engine off.  A login runs no statement.
EngineAfter(t, c) ==
    CASE work[t] = "explain" -> "set"
      [] work[t] \in {"execute", "inventory"} -> "off"
      [] OTHER -> conn[c].engine

Use(t) ==
    LET c == held[t] IN
    /\ pc[t] = "use"
    /\ work[t] = "login" \/ conn[c].state = "open"
    /\ conn' = [conn EXCEPT ![c].engine = EngineAfter(t, c),
                            ![c].rows = (work[t] = "import")]
    /\ Goto(t, IF work[t] = "import" THEN "commit" ELSE "end")
    /\ UNCHANGED <<cookie, registry, cache, lock, imported, locals>>

Commit(t) ==
    LET c == held[t] IN
    /\ pc[t] = "commit" /\ conn[c].state = "open"
    /\ conn' = [conn EXCEPT ![c].rows = FALSE]
    /\ imported' = imported \cup {"whole"}
    /\ Goto(t, "end")
    /\ UNCHANGED <<cookie, registry, cache, lock, locals>>

\* Mutant of UseFails: no rollback.
UseFailsNoRollback(t) ==
    LET c == held[t] IN
    /\ pc[t] \in {"use", "commit"} /\ work[t] # "login"
    /\ "query_error" \in Faults \/ conn[c].state = "lost"
    /\ Goto(t, "end")
    /\ UNCHANGED <<cookie, registry, pool, imported, locals>>

\* A statement or the commit fails: roll back an import, and when that fails as
\* well, close.
UseFails(t) ==
    LET c == held[t]
        s == mine[t].sid IN
    /\ pc[t] \in {"use", "commit"} /\ work[t] # "login"
    /\ "query_error" \in Faults \/ conn[c].state = "lost"
    /\ IF work[t] = "import" /\ conn[c].state = "lost"
       THEN /\ conn' = ConnsWithout(s)
            /\ cache' = [cache EXCEPT ![s] = NoConn]
            /\ held' = [held EXCEPT ![t] = NoConn]
       ELSE /\ conn' = [conn EXCEPT ![c].rows = FALSE]
            /\ cache' = cache /\ held' = held
    /\ Goto(t, "end")
    /\ UNCHANGED <<cookie, registry, lock, imported, work, mine, new, closing, after>>

\* The finally block: SET autocommit = 1, which commits what is pending, or close.
GiveBack(t) ==
    LET c == held[t]
        s == mine[t].sid
        alive == c # NoConn /\ conn[c].state = "open" IN
    /\ pc[t] = "end"
    /\ IF alive
       THEN /\ conn' = [conn EXCEPT ![c].rows = FALSE]
            /\ cache' = cache
            /\ imported' = imported \cup (IF conn[c].rows THEN {"part"} ELSE {})
       ELSE /\ conn' = ConnsWithout(s)
            /\ cache' = [cache EXCEPT ![s] = NoConn]
            /\ imported' = imported
    /\ Unlock(t)
    /\ held' = [held EXCEPT ![t] = NoConn]
    /\ IF work[t] \in {"explain", "execute"}
       THEN work' = [work EXCEPT ![t] = "inventory"] /\ Goto(t, "lookup")
       ELSE work' = work /\ \E page \in {"clear", "reply"} :
                Goto(t, IF alive \/ work[t] = "login" THEN "reply" ELSE page)
    /\ UNCHANGED <<cookie, registry, mine, new, closing, after>>

-----------------------------------------------------------------------------
(* The environment.                                                        *)

\* Nobody has used the session for its time to live.
Age(s) ==
    /\ s \in active \ idle
    /\ idle' = idle \cup {s}
    /\ UNCHANGED <<cookie, active, pool, imported, pc, locals>>

\* MySQL or the tunnel drops a connection, and what it had not committed.
Lose(c) ==
    /\ "lost" \in Faults
    /\ conn[c].state = "open"
    /\ conn' = [conn EXCEPT ![c] = Lost]
    /\ UNCHANGED <<cookie, registry, cache, lock, imported, pc, locals>>

ThreadStep(t) ==
    \/ CleanUp(t) \/ CloseOne(t) \/ Find(t) \/ Clear(t) \/ Create(t) \/ Reply(t)
    \/ Reuse(t) \/ OpenNew(t) \/ OpenFails(t)
    \/ Use(t) \/ Commit(t) \/ UseFails(t) \/ GiveBack(t)

Next ==
    \/ \E t \in Threads : ThreadStep(t) \/ \E kind \in Works : Request(t, kind)
    \/ \E s \in Sessions : Age(s)
    \/ \E c \in Conns : Lose(c)

Spec == Init /\ [][Next]_vars

-----------------------------------------------------------------------------
(* Properties.                                                             *)

\* Registry, cookies, caches, locks and threads hold what they are declared to.
TypeOK ==
    /\ cookie \in Cookie
    /\ active \subseteq Sessions /\ idle \subseteq active
    /\ cache \in [Sessions -> Conns \cup {NoConn}]
    /\ lock \in [Sessions -> Threads \cup {NoThread}]
    /\ conn \in [Conns -> Conn]
    /\ imported \subseteq {"part", "whole"}
    /\ pc \in [Threads -> Points]
    /\ work \in [Threads -> Parts]
    /\ mine \in [Threads -> Cookie]
    /\ new \in [Threads -> Sessions \cup {NoSession}]
    /\ held \in [Threads -> Conns \cup {NoConn}]
    /\ closing \in [Threads -> SUBSET Sessions]
    /\ after \in [Threads -> Points]

Using(t) == pc[t] \in {"use", "commit"}

\* "concurrent requests from the same session cannot use Connector/Python
\* concurrently" and "connection cleanup wait[s] for an in-progress request":
\* a borrowed connection is nobody else's, and open until it is given back,
\* whoever logs out, logs in again or cleans up meanwhile.
ExclusiveUse ==
    \A t \in Threads : Using(t) =>
        /\ held[t] \in Conns /\ conn[held[t]].state # "free"
        /\ cache[mine[t].sid] = held[t]
        /\ \A u \in Threads : Using(u) /\ held[u] = held[t] => u = t

\* A request runs its statements on the server of the profile in its own cookie,
\* although another request of the same session may have edited the profile.
OwnServer ==
    \A t \in Threads : Using(t) /\ conn[held[t]].state = "open" =>
        conn[held[t]].profile = mine[t].profile

\* Every open connection is in the cache of one entry: retries, mismatches and
\* failures never leave one behind, and two entries never share one.  The next request
\* or close_cached_connection finds it there, unless the entry was popped while the
\* connection was being opened: then nothing closes it.
NoStrayConnection ==
    \A c \in Conns : conn[c].state # "free" =>
        Cardinality({s \in Sessions : cache[s] = c}) = 1

\* An import commits all its rows or none, wherever it fails and although the
\* connection's autocommit is switched on again at the end.
AllOrNothing == "part" \notin imported

-----------------------------------------------------------------------------
(* A statement of the source that its behaviours contradict.               *)

\* "cached MySQL connections do not carry ON or FORCED into later application
\* queries" (version_history.md, 1.0.3s).
EngineNotCarried ==
    \A t \in Threads : Using(t) /\ work[t] = "page" => conn[held[t]].engine # "set"

=============================================================================
