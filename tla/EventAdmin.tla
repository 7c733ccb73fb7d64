------------------------------ MODULE EventAdmin ------------------------------
(* DB Admin, scheduled events (modules/db_admin_queries.py): a page lists the  *)
(* events, and a request enables, disables or deletes the ones selected on it, *)
(* one statement after the other, while other administrators do the same.     *)
EXTENDS Naturals, Sequences, SequencesExt

CONSTANTS EventAdmins,
          Events,
          SystemEvents,    \* those of a system schema
          NoEvent,
          MaxSelected      \* bound of this instance on the keys of a request

ASSUME EventAssumption ==
  SystemEvents \subseteq Events /\ NoEvent \notin Events /\ MaxSelected \in Nat

VARIABLES event,     \* [Events -> "none", "enabled" or "disabled"]
          listed,    \* the events that each administrator's page shows
          serving,   \* the request of each administrator
          answered   \* its answer: the status, the event that failed, what was done
eventVars == <<event, listed, serving, answered>>

NotServing == [do |-> "none", keys |-> <<>>, left |-> <<>>, took |-> {}]
NoAnswer == [status |-> "none", at |-> NoEvent, keys |-> <<>>, took |-> {}]

EventInit ==
  /\ event \in [Events -> {"none", "enabled"}]
  /\ listed = [a \in EventAdmins |-> {}]
  /\ serving = [a \in EventAdmins |-> NotServing]
  /\ answered = [a \in EventAdmins |-> NoAnswer]

AtRest(a) == serving[a].do = "none"

\* The answer leads back to the page, which lists the events of the moment.
ListEvents(a) ==
  /\ AtRest(a)
  /\ listed' = [listed EXCEPT ![a] = {e \in Events \ SystemEvents : event[e] # "none"}]
  /\ answered' = [answered EXCEPT ![a] = NoAnswer]
  /\ UNCHANGED <<event, serving>>

\* Mutant of EventKeys: a key that comes twice is taken twice.
EventKeysAll(raw) == raw

\* _parse_selected_event_keys: each key once, in the order of the form.
EventKeys(raw) ==
  LET keys[i \in 0 .. Len(raw)] ==
        IF i = 0 THEN <<>>
        ELSE IF raw[i] \in ToSet(keys[i - 1]) THEN keys[i - 1] ELSE Append(keys[i - 1], raw[i])
  IN keys[Len(raw)]

\* The form sends what is ticked on the page, however old the page is; nothing
\* keeps a request from naming an event twice or one of a system schema.
SubmitSelection(a) ==
  /\ AtRest(a) /\ answered[a] = NoAnswer
  /\ \E do \in {"enabled", "disabled", "delete"}, n \in 1 .. MaxSelected :
     \E raw \in [1..n -> listed[a] \cup SystemEvents] :
       serving' = [serving EXCEPT ![a] = [do |-> do, keys |-> raw, left |-> EventKeys(raw), took |-> {}]]
  /\ listed' = [listed EXCEPT ![a] = {}]
  /\ UNCHANGED <<event, answered>>

Answers(a, status, at) ==
  /\ answered' = [answered EXCEPT ![a] = [status |-> status, at |-> at, keys |-> serving[a].keys,
                                          took |-> serving[a].took]]
  /\ serving' = [serving EXCEPT ![a] = NotServing]

\* Mutant of Alters: a statement that fails is passed over.
AltersAnyway(a, e) == e \notin SystemEvents

\* ALTER EVENT and DROP EVENT need the event to be there.
Alters(a, e) == e \notin SystemEvents /\ event[e] # "none"

AlterEvent(a) ==
  /\ ~AtRest(a) /\ serving[a].left # <<>>
  /\ LET e == Head(serving[a].left)
         do == serving[a].do
     IN IF Alters(a, e)
        THEN /\ event' = [event EXCEPT ![e] = IF do = "delete" THEN "none" ELSE IF @ = "none" THEN @ ELSE do]
             /\ serving' = [serving EXCEPT ![a] =
                  [do |-> do, keys |-> @.keys, left |-> Tail(@.left),
                   took |-> IF event[e] # "none" THEN @.took \cup {e} ELSE @.took]]
             /\ UNCHANGED <<listed, answered>>
        ELSE Answers(a, "error", e) /\ UNCHANGED <<event, listed>>

AnswerEvents(a) ==
  /\ ~AtRest(a) /\ serving[a].left = <<>>
  /\ Answers(a, "success", NoEvent)
  /\ UNCHANGED <<event, listed>>

\* create_db_admin_event: enabled, and preserved when it has been executed.
CreateEvent(a) ==
  /\ AtRest(a)
  /\ \E e \in Events \ SystemEvents : event[e] = "none" /\ event' = [event EXCEPT ![e] = "enabled"]
  /\ UNCHANGED <<listed, serving, answered>>

\* A one-time event has been executed.
EventFires == /\ \E e \in Events : event[e] = "enabled" /\ event' = [event EXCEPT ![e] = "disabled"]
              /\ UNCHANGED <<listed, serving, answered>>

EventNext ==
  \/ EventFires
  \/ \E a \in EventAdmins : \/ ListEvents(a) \/ SubmitSelection(a) \/ AlterEvent(a)
                            \/ AnswerEvents(a) \/ CreateEvent(a)
EventSpec == EventInit /\ [][EventNext]_eventVars
-----------------------------------------------------------------------------
\* A request that answers success has itself changed every event it was given; one
\* that fails has changed exactly those before the event it names, and never fails
\* over an event that it has changed itself.
EventsAnswered ==
  \A a \in EventAdmins : LET r == answered[a] IN
    /\ r.status = "success" => r.took = ToSet(r.keys)
    /\ r.status = "error" =>
         \E i \in DOMAIN r.keys : /\ r.keys[i] = r.at /\ r.took = {r.keys[j] : j \in 1..(i - 1)}
                                  /\ r.at \notin r.took
=============================================================================
