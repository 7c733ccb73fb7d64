----------------------------- MODULE SqlWorkspace -----------------------------
(* The SQL workspace page: a script runs statement by statement on the cached  *)
(* connection of the session, an Explain runs two queries, and each request    *)
(* puts an entry on the history that the browser's session cookie carries.     *)
(* The tabs of one browser send the same cookie, and the last response to      *)
(* arrive decides what it holds.  How a text becomes statements is SqlText,    *)
(* who holds the connection is SessionPool; every statement commits by itself. *)
EXTENDS Naturals, Sequences, FiniteSets

CONSTANTS WorkTabs,       \* tabs of one browser
          HistoryLimit,   \* 20 in the code
          MaxScript,      \* bound: statements of one script
          MaxEntries      \* bound: entries made in a run

ASSUME WorkspaceAssumption == {HistoryLimit, MaxScript, MaxEntries} \subseteq Nat \ {0}

\* "nl_sql" is a call of sys.NL_SQL that the scan of its text recognizes: it begins
\* with CALL, names the procedure and opens its parenthesis without quotes or
\* comments, spells out "execute": true and names a variable for the output.  Every
\* other statement is "sql", calls that ask for execution in another way or by
\* default among them: the server runs it, and with it whatever it generates.
Statements == {"sql", "nl_sql"}
\* What NL_SQL may come up with: a WITH may begin a DELETE.
GeneratedKinds == {"select", "with_select", "with_delete", "delete", "nothing"}

VARIABLES cookie,     \* the history in the browser, newest entry first
          work,       \* what each tab waits for
          entries     \* everything the requests came to, in the order of executed_at
workspaceVars == <<cookie, work, entries>>

Idle == [pc |-> "idle"]
Request(action, script, checkbox) ==
  [pc |-> "running", action |-> action, script |-> script, checkbox |-> checkbox,
   ran |-> 0, error |-> FALSE, partial |-> FALSE, history |-> cookie]
Scripts == UNION {[1..n -> Statements] : n \in 1..MaxScript}

WorkspaceInit ==
  /\ cookie = <<>> /\ entries = <<>>
  /\ work = [t \in WorkTabs |-> Idle]

Running(t, action) == work[t].pc = "running" /\ work[t].action = action /\ ~work[t].error
Left(t) == work[t].ran < Len(work[t].script)
Current(t) == work[t].script[work[t].ran + 1]

SubmitText(t) ==
  /\ work[t].pc = "idle"
  /\ \/ \E s \in Scripts, checkbox \in BOOLEAN : work' = [work EXCEPT ![t] = Request("Execute", s, checkbox)]
     \/ work' = [work EXCEPT ![t] = Request("Explain", <<"sql", "sql">>, FALSE)]
  /\ UNCHANGED <<cookie, entries>>

\* The text is empty or unterminated, or Explain is given more than one statement.
ExplainRefused(t) ==
  /\ work[t].pc = "running" /\ work[t].ran = 0 /\ ~work[t].error
  /\ work' = [work EXCEPT ![t].error = TRUE]
  /\ UNCHANGED <<cookie, entries>>

\* Only a checked box and a call that is recognized change the way of a statement.
ByWorkspace(t) == work[t].checkbox /\ Current(t) = "nl_sql"

Execute(t) ==
  /\ Running(t, "Execute") /\ Left(t) /\ ~ByWorkspace(t)
  /\ work' = [work EXCEPT ![t].ran = @ + 1]
  /\ UNCHANGED <<cookie, entries>>

\* The server refuses the statement, or runs it and fails to return its results.
StatementFails(t) ==
  /\ Running(t, "Execute") /\ Left(t)
  /\ \E n \in 0..1 : work' = [work EXCEPT ![t].error = TRUE, ![t].ran = @ + n]
  /\ UNCHANGED <<cookie, entries>>

ReadOnly(g) == g \in {"select", "with_select", "with_delete"}

\* The call goes out with execute=false, the variable is read, and the workspace
\* runs what it holds if it begins like a query.
ExecuteGenerated(t) ==
  /\ Running(t, "Execute") /\ Left(t) /\ ByWorkspace(t)
  /\ \E g \in GeneratedKinds :
       work' = IF ReadOnly(g) THEN [work EXCEPT ![t].ran = @ + 1] ELSE [work EXCEPT ![t].error = TRUE]
  /\ UNCHANGED <<cookie, entries>>

\* Mutant of Explain: the failure of the JSON plan is not told.
ExplainSilently(t) ==
  /\ Running(t, "Explain") /\ Left(t)
  /\ \/ work' = [work EXCEPT ![t].ran = @ + 1]
     \/ work[t].ran = 0 /\ work' = [work EXCEPT ![t].error = TRUE]
     \/ work[t].ran = 1 /\ work' = [work EXCEPT ![t].script = <<"sql">>]
  /\ UNCHANGED <<cookie, entries>>

\* The text plan and the JSON plan: without the second the result is partial.
Explain(t) ==
  /\ Running(t, "Explain") /\ Left(t)
  /\ \/ work' = [work EXCEPT ![t].ran = @ + 1]
     \/ work[t].ran = 0 /\ work' = [work EXCEPT ![t].error = TRUE]
     \/ work[t].ran = 1 /\ work' = [work EXCEPT ![t].partial = TRUE, ![t].script = <<"sql">>]
  /\ UNCHANGED <<cookie, entries>>

\* Mutant of AppendHistory: the entry goes to the end.
AppendHistoryAtEnd(history, e) == SubSeq(Append(history, e), 1, IF Len(history) < HistoryLimit
                                                                THEN Len(history) + 1 ELSE HistoryLimit)

AppendHistory(history, e) ==
  SubSeq(<<e>> \o history, 1, IF Len(history) < HistoryLimit THEN Len(history) + 1 ELSE HistoryLimit)

Status(t) == CASE work[t].error -> "error" [] work[t].partial -> "partial" [] OTHER -> "success"

\* Results are shown only when every statement ran.
FinishRequest(t) ==
  /\ work[t].pc = "running" /\ (work[t].error \/ ~Left(t)) /\ Len(entries) < MaxEntries
  /\ entries' = Append(entries, [status |-> Status(t), action |-> work[t].action, ran |-> work[t].ran,
                                 asked |-> IF work[t].action = "Explain" THEN 2 ELSE Len(work[t].script),
                                 shown |-> IF work[t].error THEN 0 ELSE work[t].ran])
  /\ work' = [work EXCEPT ![t] = [pc |-> "answered",
                                  history |-> AppendHistory(work[t].history, Len(entries) + 1)]]
  /\ UNCHANGED cookie

ClearHistory(t) ==
  /\ work[t].pc = "idle"
  /\ work' = [work EXCEPT ![t] = [pc |-> "answered", history |-> <<>>]]
  /\ UNCHANGED <<cookie, entries>>

\* The browser takes the cookie of a response when it arrives.
Arrive(t) ==
  /\ work[t].pc = "answered"
  /\ cookie' = work[t].history
  /\ work' = [work EXCEPT ![t] = Idle]
  /\ UNCHANGED entries

WorkspaceNext == \E t \in WorkTabs :
  \/ SubmitText(t) \/ ExplainRefused(t) \/ Execute(t) \/ StatementFails(t) \/ ExecuteGenerated(t)
  \/ Explain(t) \/ FinishRequest(t) \/ ClearHistory(t) \/ Arrive(t)
WorkspaceSpec == WorkspaceInit /\ [][WorkspaceNext]_workspaceVars
-----------------------------------------------------------------------------
\* Whatever the tabs do, the history in the browser lists each request once and
\* the newest first, and no more of them than the limit.
NewestFirst ==
  /\ Len(cookie) <= HistoryLimit
  /\ \A i, j \in DOMAIN cookie : i < j => cookie[i] > cookie[j]

\* "success" says that every statement was run to its end and its result shown,
\* "partial" that only the text plan was; whatever else happened is an "error".
HistoryTruthful ==
  \A i \in DOMAIN cookie : LET e == entries[cookie[i]] IN
    /\ e.status = "success" <=> e.ran = e.asked /\ e.shown = e.asked
    /\ e.status = "partial" <=> e.action = "Explain" /\ e.ran = 1

\* The history tells what ran, once and the newest first, although the tabs answer
\* in any order with the history they each started from.
HistorySound == NewestFirst /\ HistoryTruthful
=============================================================================
