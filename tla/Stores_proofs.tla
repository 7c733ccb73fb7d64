---------------------------- MODULE Stores_proofs ----------------------------
(***************************************************************************)
(* Proofs about what administrators change, for any numbers of them: the   *)
(* tables and foreign keys of SchemaAdmin, the profiles of ConfigStores,   *)
(* the events of EventAdmin.                                               *)
(*                                                                         *)
(* SchemaAdmin: what a sequence of DDL leaves half-done is accounted for,  *)
(* joined columns keep one character set, and a fix keeps the key that     *)
(* somebody else has added.  The statements that a request has left are a  *)
(* plan, and everything rests on what a plan looks like (Planned): each    *)
(* statement belongs to the request's work, a foreign key that will be     *)
(* dropped is recreated later, and the engine is configured only just      *)
(* before the load.                                                        *)
(*                                                                         *)
(* ConfigStores: the files stay consistent however edits overlap           *)
(* (StoresInv: what each request has read is itself a consistent file),    *)
(* and as long as they do not overlap, they say what was answered last     *)
(* (KeptInv).                                                              *)
(*                                                                         *)
(* EventAdmin: a request has done exactly the first of its keys, each once *)
(* (Done).                                                                 *)
(*                                                                         *)
(* What Dropping and EventKeys compute is shown by an induction over the   *)
(* length of their argument, written with LeastNat.                        *)
(***************************************************************************)
EXTENDS SchemaAdmin, ConfigStores, EventAdmin, FiniteSetTheorems, SequenceTheorems, WellFoundedInduction, TLAPS

USE SchemaAssumption

\* The work whose plans have statements of this kind.
WorkOf(do) ==
    CASE do \in {"drop_fk", "convert", "add_fk"} -> "convert"
      [] do = "drop_table" -> "drop_tables"
      [] do \in {"check_key", "key_auto", "key_row_id"} -> "fix"
      [] do \in {"key_add", "key_replace", "key_drop"} -> "modify"
      [] do \in {"rapid", "load"} -> "load"
      [] do = "unload" -> "unload"

\* Every foreign key that p drops is recreated later on.
Recreates(p) ==
    \A i \in DOMAIN p : p[i][1] = "drop_fk" =>
        \E j \in DOMAIN p : j > i /\ p[j] = <<"add_fk", p[i][2]>>

\* An engine is configured right before its table is loaded.
LoadsNext(p) ==
    \A i \in DOMAIN p : p[i][1] = "rapid" => p = << <<"rapid", p[i][2]>>, <<"load", p[i][2]>> >>

Planned(p, work) ==
    /\ \A i \in DOMAIN p : WorkOf(p[i][1]) = work
    /\ Recreates(p)
    /\ LoadsNext(p)

\* What is so of each request at any time.
RequestInv(a) ==
    /\ asked[a].work = "none" => asked[a] = NoRequest /\ plan[a] = <<>>
    /\ ~checks[a] => asked[a].off
    /\ asked[a].work # "convert" => asked[a].dropped = {}
    /\ Planned(plan[a], asked[a].work)

\* The request of a is about to load x, and nothing else.
AboutToLoad(a, x) == asked[a].work = "load" /\ plan[a] = << <<"load", x>> >>

LoadsInv ==
    \A x \in there : table[x].engine = "rapid" =>
        <<"load", x>> \in told \cup cut \/ \E a \in Admins : AboutToLoad(a, x)

SchemaInv ==
    /\ SchemaTypeOK
    /\ \A a \in Admins : RequestInv(a)
    /\ ForeignKeysAccounted
    /\ KeysCompatible
    /\ LoadsInv

-----------------------------------------------------------------------------
(* Sequences.                                                              *)

\* SetToSeq of a finite set is a sequence of its members.
LEMMA SetToSeqIs ==
  ASSUME NEW S, IsFiniteSet(S)
  PROVE  SetToSeq(S) \in Seq(S)
  <1>1. Cardinality(S) \in Nat /\ ExistsBijection(1 .. Cardinality(S), S)
    BY FS_CardinalityType
  <1>2. PICK f \in [1 .. Cardinality(S) -> S] : IsInjective(f)
    BY <1>1 DEF ExistsBijection, Bijection, Injection, IsInjective
  <1>3. SetToSeq(S) \in [1 .. Cardinality(S) -> S]
    BY <1>2 DEF SetToSeq
  <1> QED  BY <1>1, <1>3

\* Each(do, S) is a plan that does the same to members of S; two such plans
\* go through S in the same order.
LEMMA EachIs ==
  ASSUME NEW S, IsFiniteSet(S), NEW do
  PROVE  /\ Each(do, S) \in Seq({do} \X S)
         /\ Len(Each(do, S)) = Len(SetToSeq(S))
         /\ \A i \in 1 .. Len(SetToSeq(S)) :
               SetToSeq(S)[i] \in S /\ Each(do, S)[i] = <<do, SetToSeq(S)[i]>>
  <1> DEFINE s == SetToSeq(S)
  <1>1. s \in Seq(S)
    BY SetToSeqIs
  <1> HIDE DEF s
  <1>2. /\ Len(s) \in Nat
        /\ \A i \in 1 .. Len(s) : s[i] \in S
    BY <1>1
  <1>3. Each(do, S) = [i \in 1 .. Len(s) |-> <<do, s[i]>>]
    BY DEF Each, s
  <1>4. Each(do, S) \in [1 .. Len(s) -> {do} \X S]
    BY <1>2, <1>3
  <1>5. Each(do, S) \in Seq({do} \X S)
    BY <1>2, <1>4
  <1>6. Len(Each(do, S)) = Len(s)
    BY <1>2, <1>3, <1>5
  <1> QED  BY <1>2, <1>3, <1>5, <1>6 DEF s

\* What is left of a sequence once its head is off.
LEMMA TailIs ==
  ASSUME NEW T, NEW p \in Seq(T), p # <<>>
  PROVE  /\ Head(p) = p[1] /\ Head(p) \in T /\ 1 \in DOMAIN p
         /\ Tail(p) \in Seq(T) /\ Tail(p) # p
         /\ DOMAIN Tail(p) = 1 .. (Len(p) - 1)
         /\ \A i \in DOMAIN Tail(p) : i + 1 \in DOMAIN p /\ Tail(p)[i] = p[i + 1]
         /\ \A i \in DOMAIN p : i # 1 => i - 1 \in DOMAIN Tail(p) /\ p[i] = Tail(p)[i - 1]
  <1>1. /\ Len(p) \in Nat /\ Len(p) > 0 /\ DOMAIN p = 1 .. Len(p)
        /\ Tail(p) \in Seq(T) /\ Len(Tail(p)) = Len(p) - 1
        /\ \A i \in 1 .. Len(p) - 1 : Tail(p)[i] = p[i + 1]
    OBVIOUS
  <1>2. Tail(p) # p
    <2>1. \A n \in Nat : n - 1 # n
      OBVIOUS
    <2>2. Len(p) - 1 # Len(p)
      BY <1>1, <2>1, Zenon
    <2> QED  BY <1>1, <2>2, Zenon
  <1>3. DOMAIN Tail(p) = 1 .. (Len(p) - 1)
    BY <1>1
  <1>4. Head(p) = p[1] /\ 1 \in DOMAIN p
    BY <1>1
  <1>5. Head(p) \in T
    OBVIOUS
  <1>6. \A i \in DOMAIN Tail(p) : i + 1 \in DOMAIN p /\ Tail(p)[i] = p[i + 1]
    BY <1>1, <1>3
  <1>7. ASSUME NEW i \in DOMAIN p, i # 1
        PROVE  i - 1 \in DOMAIN Tail(p) /\ p[i] = Tail(p)[i - 1]
    <2>1. i - 1 \in 1 .. Len(p) - 1 /\ (i - 1) + 1 = i
      BY <1>1, <1>7
    <2> QED  BY <1>1, <1>3, <2>1
  <1> QED  BY <1>1, <1>2, <1>3, <1>4, <1>5, <1>6, <1>7

\* What is in a sequence and not its head is in its tail.
LEMMA StillAhead ==
  ASSUME NEW T, NEW p \in Seq(T), p # <<>>, NEW s \in ToSet(p), s # Head(p)
  PROVE  s \in ToSet(Tail(p))
  <1>1. PICK i \in DOMAIN p : s = p[i]
    BY DEF ToSet
  <1>2. i # 1
    BY <1>1, TailIs
  <1>3. i - 1 \in DOMAIN Tail(p) /\ p[i] = Tail(p)[i - 1]
    BY <1>1, <1>2, TailIs
  <1> QED  BY <1>1, <1>3 DEF ToSet

\* Dropping the head leaves a plan planned.
LEMMA TailPlanned ==
  ASSUME NEW work, NEW p \in Seq(Statement), p # <<>>, Planned(p, work)
  PROVE  Planned(Tail(p), work)
  <1>1. \A i \in DOMAIN Tail(p) : WorkOf(Tail(p)[i][1]) = work
    BY TailIs DEF Planned
  <1>2. Recreates(Tail(p))
    <2> SUFFICES ASSUME NEW i \in DOMAIN Tail(p), Tail(p)[i][1] = "drop_fk"
                 PROVE  \E j \in DOMAIN Tail(p) : j > i /\ Tail(p)[j] = <<"add_fk", Tail(p)[i][2]>>
      BY DEF Recreates
    <2>1. i \in Nat /\ i > 0 /\ i + 1 \in DOMAIN p /\ Tail(p)[i] = p[i + 1]
      BY TailIs
    <2>2. PICK k \in DOMAIN p : k > i + 1 /\ p[k] = <<"add_fk", p[i + 1][2]>>
      BY <2>1 DEF Planned, Recreates
    <2>3. k \in Nat
      BY TailIs
    <2>4. k - 1 \in DOMAIN Tail(p) /\ p[k] = Tail(p)[k - 1]
      BY <2>1, <2>2, <2>3, TailIs
    <2> QED  BY <2>1, <2>2, <2>3, <2>4
  <1>3. LoadsNext(Tail(p))
    <2> SUFFICES ASSUME NEW i \in DOMAIN Tail(p), Tail(p)[i][1] = "rapid"
                 PROVE  FALSE
      BY DEF LoadsNext
    <2>1. i \in Nat /\ i > 0 /\ i + 1 \in DOMAIN p /\ Tail(p)[i] = p[i + 1] /\ DOMAIN p = 1 .. Len(p)
      BY TailIs
    <2>2. p = << <<"rapid", p[i + 1][2]>>, <<"load", p[i + 1][2]>> >>
      BY <2>1 DEF Planned, LoadsNext
    <2>3. Len(p) = 2
      BY <2>2
    <2>4. i = 1
      BY <2>1, <2>3
    <2>5. p[2] = <<"load", p[2][2]>>
      BY <2>2, <2>4
    <2> QED  BY <2>1, <2>4, <2>5
  <1> QED  BY <1>1, <1>2, <1>3 DEF Planned

LEMMA EmptyPlanned ==
  ASSUME NEW work
  PROVE  <<>> \in Seq(Statement) /\ Planned(<<>>, work)
  BY DEF Planned, Recreates, LoadsNext

-----------------------------------------------------------------------------
(* Plans, and the requests that make them.                                 *)

\* A plan that does one thing to many tables or keys.
LEMMA EachPlanned ==
  ASSUME NEW S, IsFiniteSet(S), NEW do, {do} \X S \subseteq Statement,
         do \notin {"drop_fk", "rapid"}
  PROVE  Each(do, S) \in Seq(Statement) /\ Planned(Each(do, S), WorkOf(do))
  <1> DEFINE p == Each(do, S)
  <1>0. p \in Seq({do} \X S)
    BY EachIs
  <1> HIDE DEF p
  <1>1. /\ p \in Seq(Statement)
        /\ \A i \in DOMAIN p : p[i][1] = do
    BY <1>0
  <1>2. Planned(p, WorkOf(do))
    BY <1>1, Zenon DEF Planned, Recreates, LoadsNext
  <1> QED  BY <1>1, <1>2 DEF p

\* The plan of a conversion recreates what it drops.
LEMMA ConversionPlanned ==
  ASSUME NEW X \in SUBSET Tables, NEW drop \in BOOLEAN, constraints \subseteq ForeignKeys
  PROVE  /\ ConversionPlan(X, drop) \in Seq(Statement)
         /\ Planned(ConversionPlan(X, drop), "convert")
  <1> DEFINE fks == IF drop THEN Outgoing(X) ELSE {}
             d == Each("drop_fk", fks)
             c == Each("convert", X)
             r == Each("add_fk", fks)
             s == SetToSeq(fks)
             p == d \o c \o r
  <1>1. fks \subseteq ForeignKeys /\ IsFiniteSet(fks) /\ IsFiniteSet(X)
    BY FS_Subset DEF Outgoing, SchemaAssumption
  <1>2. /\ d \in Seq({"drop_fk"} \X fks) /\ r \in Seq({"add_fk"} \X fks)
        /\ c \in Seq({"convert"} \X X)
        /\ Len(d) = Len(s) /\ Len(r) = Len(s)
        /\ \A i \in 1 .. Len(s) : d[i] = <<"drop_fk", s[i]>> /\ r[i] = <<"add_fk", s[i]>>
    <2> HIDE DEF fks
    <2> QED  BY <1>1, EachIs
  <1> HIDE DEF fks
  <1>3. d \in Seq(Statement) /\ c \in Seq(Statement) /\ r \in Seq(Statement)
    BY <1>1, <1>2 DEF Statement
  <1>4. /\ \A i \in 1 .. Len(d) : d[i] = <<"drop_fk", d[i][2]>>
        /\ \A i \in 1 .. Len(c) : c[i] = <<"convert", c[i][2]>>
        /\ \A i \in 1 .. Len(r) : r[i] = <<"add_fk", r[i][2]>>
    BY <1>2
  <1>5. /\ Len(d) = Len(r)
        /\ \A i \in 1 .. Len(d) : r[i] = <<"add_fk", d[i][2]>>
    BY <1>2
  <1> HIDE DEF d, c, r
  <1>6. /\ p \in Seq(Statement) /\ Len(d) \in Nat /\ Len(c) \in Nat /\ Len(r) \in Nat
        /\ Len(p) = Len(d) + Len(c) + Len(r) /\ DOMAIN p = 1 .. Len(p)
        /\ \A i \in 1 .. Len(d) : p[i] = d[i]
        /\ \A i \in 1 .. Len(c) : p[Len(d) + i] = c[i]
        /\ \A i \in 1 .. Len(r) : p[Len(d) + Len(c) + i] = r[i]
    BY <1>3
  <1>7. ASSUME NEW i \in DOMAIN p
        PROVE  /\ p[i][1] \in {"drop_fk", "convert", "add_fk"}
               /\ p[i][1] = "drop_fk" => i \in 1 .. Len(d)
    <2>1. CASE i \in 1 .. Len(d)
      BY <1>4, <1>6, <2>1
    <2>2. CASE i - Len(d) \in 1 .. Len(c)
      <3>1. i = Len(d) + (i - Len(d)) /\ i \notin 1 .. Len(d)
        BY <1>6, <2>2
      <3>2. p[i] = c[i - Len(d)]
        BY <1>6, <2>2, <3>1
      <3> QED  BY <1>4, <2>2, <3>1, <3>2
    <2>3. CASE i - (Len(d) + Len(c)) \in 1 .. Len(r)
      <3>1. i = Len(d) + Len(c) + (i - (Len(d) + Len(c))) /\ i \notin 1 .. Len(d)
        BY <1>6, <2>3
      <3>2. p[i] = r[i - (Len(d) + Len(c))]
        BY <1>6, <2>3, <3>1
      <3> QED  BY <1>4, <2>3, <3>1, <3>2
    <2> QED  BY <1>6, <1>7, <2>1, <2>2, <2>3
  <1>8. Recreates(p)
    <2> SUFFICES ASSUME NEW i \in DOMAIN p, p[i][1] = "drop_fk"
                 PROVE  \E j \in DOMAIN p : j > i /\ p[j] = <<"add_fk", p[i][2]>>
      BY DEF Recreates
    <2>1. i \in 1 .. Len(d) /\ p[i] = d[i]
      BY <1>6, <1>7
    <2>2. p[Len(d) + Len(c) + i] = <<"add_fk", p[i][2]>>
      BY <1>5, <1>6, <2>1
    <2>3. Len(d) + Len(c) + i \in DOMAIN p /\ Len(d) + Len(c) + i > i
      BY <1>5, <1>6, <2>1
    <2> QED  BY <2>2, <2>3
  <1>9. Planned(p, "convert")
    <2>1. \A i \in DOMAIN p : p[i][1] \in {"drop_fk", "convert", "add_fk"}
      BY <1>7
    <2>2. \A i \in DOMAIN p : WorkOf(p[i][1]) = "convert" /\ p[i][1] # "rapid"
      BY <2>1 DEF WorkOf
    <2> QED  BY <1>8, <2>2 DEF Planned, LoadsNext
  <1> QED  BY <1>6, <1>9 DEF ConversionPlan, fks, d, c, r

\* What the requests know and have to do is well-formed.
RequestsOK ==
    /\ checks \in [Admins -> BOOLEAN] /\ asked \in [Admins -> AnyRequest]
    /\ plan \in [Admins -> Seq(Statement)]

\* Nothing but the request of a changes, among requests.
OnlyRequest(a) ==
    \A b \in Admins \ {a} : asked'[b] = asked[b] /\ plan'[b] = plan[b] /\ checks'[b] = checks[b]

\* A request of a begins: nothing of the server changes.
Begins(a, work, p) ==
    /\ asked[a].work = "none" /\ work \in SchemaWorks
    /\ RequestsOK' /\ OnlyRequest(a)
    /\ asked'[a].work = work /\ asked'[a].dropped = {}
    /\ ~checks'[a] => asked'[a].off
    /\ p \in Seq(Statement) /\ Planned(p, work) /\ plan'[a] = p
    /\ UNCHANGED <<server, history>>

Plans(a) ==
    \/ PlanConversion(a) \/ PlanDropTables(a) \/ PlanFixes(a) \/ PlanModify(a)
    \/ PlanLoad(a) \/ PlanUnload(a)

LEMMA StartBegins ==
  ASSUME SchemaInv, NEW a \in Admins, NEW work, NEW p \in Seq(Statement), Planned(p, work),
         Start(a, work, p)
  PROVE  Begins(a, work, p)
  <1>1. /\ asked[a].work = "none" /\ RequestInv(a) /\ RequestsOK
        /\ work \in SchemaWorks
    BY DEF Start, SchemaInv, SchemaTypeOK, RequestsOK
  <1>2. asked[a].dropped = {} /\ (~checks[a] => asked[a].off)
    BY <1>1 DEF RequestInv
  <1>3. /\ asked' = [asked EXCEPT ![a].work = work]
        /\ plan' = [plan EXCEPT ![a] = p] /\ checks' = checks
        /\ UNCHANGED <<server, history>>
    BY DEF Start
  <1>4. /\ asked' \in [Admins -> AnyRequest]
        /\ asked'[a].work = work /\ asked'[a].dropped = asked[a].dropped
        /\ asked'[a].off = asked[a].off
        /\ \A b \in Admins \ {a} : asked'[b] = asked[b]
    BY <1>1, <1>3 DEF RequestsOK, AnyRequest
  <1>5. /\ plan' \in [Admins -> Seq(Statement)] /\ plan'[a] = p
        /\ \A b \in Admins \ {a} : plan'[b] = plan[b]
    BY <1>1, <1>3 DEF RequestsOK
  <1> QED  BY <1>1, <1>2, <1>3, <1>4, <1>5 DEF Begins, RequestsOK, OnlyRequest, RequestInv, NoRequest

\* Every request that makes a plan begins with one that is planned.
LEMMA PlansBegin ==
  ASSUME SchemaInv, NEW a \in Admins, Plans(a)
  PROVE  \E work, p : Begins(a, work, p)
  <1>1. there \subseteq Tables /\ constraints \subseteq ForeignKeys
    BY DEF SchemaInv, SchemaTypeOK
  <1>2. CASE PlanConversion(a)
    <2>1. PICK X \in SUBSET there \ {{}}, drop \in BOOLEAN, off \in BOOLEAN :
             /\ asked[a].work = "none" /\ "convert" \in SchemaWorks
             /\ asked' = [asked EXCEPT ![a].work = "convert", ![a].off = off]
             /\ plan' = [plan EXCEPT ![a] = ConversionPlan(X, drop)]
             /\ checks' = [checks EXCEPT ![a] = @ /\ ~off]
             /\ UNCHANGED <<server, history>>
      BY <1>2 DEF PlanConversion
    <2>2. ConversionPlan(X, drop) \in Seq(Statement) /\ Planned(ConversionPlan(X, drop), "convert")
      BY <1>1, <2>1, ConversionPlanned
    <2>3. RequestsOK /\ RequestInv(a)
      BY DEF SchemaInv, SchemaTypeOK, RequestsOK
    <2>4. asked[a] = NoRequest /\ checks[a] = TRUE
      BY <2>1, <2>3 DEF RequestInv, NoRequest, RequestsOK
    <2>5. /\ asked' \in [Admins -> AnyRequest]
          /\ asked'[a].work = "convert" /\ asked'[a].dropped = asked[a].dropped
          /\ asked'[a].off = off
          /\ \A b \in Admins \ {a} : asked'[b] = asked[b]
      BY <2>1, <2>3 DEF RequestsOK, AnyRequest
    <2>6. /\ plan' \in [Admins -> Seq(Statement)] /\ plan'[a] = ConversionPlan(X, drop)
          /\ \A b \in Admins \ {a} : plan'[b] = plan[b]
      BY <2>1, <2>2, <2>3 DEF RequestsOK
    <2>7. /\ checks' \in [Admins -> BOOLEAN] /\ (~checks'[a] => off)
          /\ \A b \in Admins \ {a} : checks'[b] = checks[b]
      BY <2>1, <2>3, <2>4 DEF RequestsOK
    <2>8. Begins(a, "convert", ConversionPlan(X, drop))
      BY <2>1, <2>2, <2>4, <2>5, <2>6, <2>7 DEF Begins, RequestsOK, OnlyRequest, NoRequest
    <2> QED  BY <2>8
  <1>3. CASE PlanDropTables(a)
    <2>1. PICK X \in SUBSET there \ {{}} : Start(a, "drop_tables", Each("drop_table", X))
      BY <1>3 DEF PlanDropTables
    <2>2. IsFiniteSet(X) /\ {"drop_table"} \X X \subseteq Statement
      BY <1>1, <2>1, FS_Subset DEF Statement, SchemaAssumption
    <2>3. Each("drop_table", X) \in Seq(Statement) /\ Planned(Each("drop_table", X), "drop_tables")
      BY <2>2, EachPlanned DEF WorkOf
    <2> QED  BY <2>1, <2>3, StartBegins
  <1>4. CASE PlanFixes(a)
    <2>1. PICK X \in SUBSET Fixable : Start(a, "fix", Each("check_key", X))
      BY <1>4 DEF PlanFixes
    <2>2. IsFiniteSet(X) /\ {"check_key"} \X X \subseteq Statement
      BY <1>1, <2>1, FS_Subset DEF Statement, SchemaAssumption, Fixable
    <2>3. Each("check_key", X) \in Seq(Statement) /\ Planned(Each("check_key", X), "fix")
      BY <2>2, EachPlanned DEF WorkOf
    <2> QED  BY <2>1, <2>3, StartBegins
  <1>5. CASE PlanModify(a)
    <2>1. PICK x \in there, clause \in {"key_add", "key_replace", "key_drop"} :
             Start(a, "modify", << <<clause, x>> >>)
      BY <1>5 DEF PlanModify
    <2>2. << <<clause, x>> >> \in Seq(Statement) /\ Planned(<< <<clause, x>> >>, "modify")
      BY <1>1, <2>1 DEF Statement, Planned, Recreates, LoadsNext, WorkOf
    <2> QED  BY <2>1, <2>2, StartBegins
  <1>6. CASE PlanLoad(a)
    <2>1. PICK x \in there : \/ Start(a, "load", << <<"rapid", x>>, <<"load", x>> >>)
                            \/ Start(a, "load", << <<"load", x>> >>)
      BY <1>6 DEF PlanLoad
    <2>2. <<"rapid", x>> \in Statement /\ <<"load", x>> \in Statement
      BY <1>1, <2>1 DEF Statement
    <2>3. /\ << <<"rapid", x>>, <<"load", x>> >> \in Seq(Statement)
          /\ Planned(<< <<"rapid", x>>, <<"load", x>> >>, "load")
      BY <2>2 DEF Planned, Recreates, LoadsNext, WorkOf
    <2>4. << <<"load", x>> >> \in Seq(Statement) /\ Planned(<< <<"load", x>> >>, "load")
      BY <2>2 DEF Planned, Recreates, LoadsNext, WorkOf
    <2> QED  BY <2>1, <2>3, <2>4, StartBegins
  <1>7. CASE PlanUnload(a)
    <2>1. PICK x \in there : Start(a, "unload", << <<"unload", x>> >>)
      BY <1>7 DEF PlanUnload
    <2>2. << <<"unload", x>> >> \in Seq(Statement) /\ Planned(<< <<"unload", x>> >>, "unload")
      BY <1>1, <2>1 DEF Statement, Planned, Recreates, LoadsNext, WorkOf
    <2> QED  BY <2>1, <2>2, StartBegins
  <1> QED  BY <1>2, <1>3, <1>4, <1>5, <1>6, <1>7 DEF Plans

-----------------------------------------------------------------------------
(* One statement.                                                          *)

\* The statements, by what they change: foreign keys, the character set, the
\* table itself, its key, its engine.
SetsKey(a, s) ==
    /\ Alterable(s[2]) /\ s[2] \in Tables
    /\ \/ /\ s[1] \in {"key_auto", "key_row_id"} /\ table[s[2]].key = "none"
          /\ \E kind \in {"auto", "row_id"} : AddKey(a, s[2], kind)
       \/ /\ s[1] = "key_add" /\ table[s[2]].key = "none"
          /\ SetTable(s[2], "key", "chosen") /\ asked' = asked
       \/ /\ s[1] \in {"key_replace", "key_drop"}
          /\ \E new \in {"chosen", "none"} : SetTable(s[2], "key", new)
          /\ asked' = asked
    /\ UNCHANGED <<there, constraints, unchecked>>

SetsEngine(s) ==
    /\ s[2] \in Tables
    /\ \/ s[1] \in {"rapid", "unload"} /\ SetTable(s[2], "engine", "rapid")
       \/ s[1] = "load" /\ SetTable(s[2], "engine", "loaded")
    /\ UNCHANGED <<there, constraints, asked, unchecked>>

LEMMA StatementIs ==
  ASSUME NEW s \in Statement
  PROVE  /\ s = <<s[1], s[2]>>
         /\ s[1] \in {"drop_fk", "add_fk"} => s[2] \in ForeignKeys
         /\ s[1] \notin {"drop_fk", "add_fk"} => s[2] \in Tables
  BY DEF Statement

LEMMA DoIs ==
  ASSUME SchemaInv, NEW a \in Admins, NEW s \in Statement, Do(a, s[1], s[2])
  PROVE  \/ s[1] = "drop_fk" /\ s[2] \in ForeignKeys /\ DropForeignKey(a, s[2])
         \/ s[1] = "add_fk" /\ s[2] \in ForeignKeys /\ AddForeignKey(a, s[2])
         \/ s[1] = "convert" /\ s[2] \in Tables /\ Convert(a, s[2])
         \/ s[1] = "drop_table" /\ s[2] \in Tables /\ DropTable(a, s[2])
         \/ SetsKey(a, s)
         \/ SetsEngine(s)
  <1>1. CASE s[1] \in {"drop_fk", "add_fk", "convert", "drop_table"}
    BY <1>1, StatementIs DEF Do
  <1>2. CASE s[1] \in {"key_auto", "key_row_id"}
    BY <1>2, StatementIs DEF Do, SetsKey, AddKey
  <1>3. CASE s[1] \in {"key_add", "key_replace", "key_drop"}
    BY <1>3, StatementIs DEF Do, SetsKey, ChangeKey
  <1>4. CASE s[1] \in {"rapid", "load", "unload"}
    BY <1>4, StatementIs DEF Do, SetsEngine, ChangeEngine
  <1> QED  BY <1>1, <1>2, <1>3, <1>4 DEF Do

\* The server stays well-formed.
ServerOK ==
    /\ there \subseteq Tables /\ table \in [Tables -> Table]
    /\ constraints \subseteq ForeignKeys /\ unchecked \subseteq ForeignKeys

LEMMA SetTableIs ==
  ASSUME table \in [Tables -> Table], NEW x \in Tables,
         NEW field \in {"charset", "key", "engine"}, NEW value,
         [table[x] EXCEPT ![field] = value] \in Table, SetTable(x, field, value)
  PROVE  /\ table' \in [Tables -> Table]
         /\ \A y \in Tables : y # x => table'[y] = table[y]
         /\ table'[x][field] = value
         /\ field # "charset" => table'[x].charset = table[x].charset
         /\ field # "key" => table'[x].key = table[x].key
         /\ field # "engine" => table'[x].engine = table[x].engine
  <1>1. /\ table' = [table EXCEPT ![x] = [table[x] EXCEPT ![field] = value]]
        /\ table[x] \in Table
    BY DEF SetTable
  <1>2. /\ table' \in [Tables -> Table] /\ table'[x] = [table[x] EXCEPT ![field] = value]
        /\ \A y \in Tables : y # x => table'[y] = table[y]
    BY <1>1
  <1>3. CASE field = "charset"
    BY <1>1, <1>2, <1>3 DEF Table
  <1>4. CASE field = "key"
    BY <1>1, <1>2, <1>4 DEF Table
  <1>5. CASE field = "engine"
    BY <1>1, <1>2, <1>5 DEF Table
  <1> QED  BY <1>2, <1>3, <1>4, <1>5

\* What becomes of the tables: character sets, keys and engines.
SameCharsets == \A y \in Tables : table'[y].charset = table[y].charset
SameKeys == \A y \in Tables : table'[y].key = table[y].key
SameEngines == \A y \in Tables : table'[y].engine = table[y].engine

LEMMA ConvertTable ==
  ASSUME ServerOK, NEW a, NEW x \in Tables, Convert(a, x)
  PROVE  /\ table' \in [Tables -> Table] /\ SameKeys /\ SameEngines
         /\ \A y \in Tables : y # x => table'[y].charset = table[y].charset
  <1>1. [table[x] EXCEPT !["charset"] = "new"] \in Table
    BY DEF ServerOK, Table
  <1>2. SetTable(x, "charset", "new")
    BY DEF Convert, SetTable
  <1> QED  BY <1>1, <1>2, SetTableIs DEF ServerOK, SameKeys, SameEngines

LEMMA KeyTable ==
  ASSUME ServerOK, NEW a, NEW s, SetsKey(a, s)
  PROVE  /\ table' \in [Tables -> Table] /\ SameCharsets /\ SameEngines
         /\ s[1] \notin {"key_replace", "key_drop"} =>
               \A y \in Tables : table[y].key # "none" => table'[y].key = table[y].key
  <1>0. s[2] \in Tables /\ table \in [Tables -> Table]
    BY DEF ServerOK, SetsKey
  <1>1. CASE table[s[2]].key = "none" /\ (\E kind \in {"auto", "row_id"} : AddKey(a, s[2], kind))
    <2>1. PICK kind \in {"auto", "row_id"} : AddKey(a, s[2], kind)
      BY <1>1
    <2> DEFINE row == table[s[2]].row_id \/ kind = "row_id"
               new == [table[s[2]] EXCEPT !.key = kind, !.row_id = row]
    <2>2. table' = [table EXCEPT ![s[2]] = new]
      BY <2>1 DEF AddKey
    <2>3. /\ new \in Table /\ new.charset = table[s[2]].charset /\ new.engine = table[s[2]].engine
      <3>1. table[s[2]] \in Table /\ row \in BOOLEAN
        BY <1>0, <2>1 DEF Table
      <3> HIDE DEF row
      <3> QED  BY <2>1, <3>1 DEF Table
    <2> HIDE DEF new
    <2> QED  BY <1>0, <1>1, <2>2, <2>3 DEF SameCharsets, SameEngines
  <1>2. CASE \E new \in {"chosen", "none"} : SetTable(s[2], "key", new)
    <2>1. PICK new \in {"chosen", "none"} : SetTable(s[2], "key", new)
      BY <1>2
    <2>2. [table[s[2]] EXCEPT !["key"] = new] \in Table
      BY <1>0 DEF Table
    <2>3. /\ table' \in [Tables -> Table] /\ SameCharsets /\ SameEngines
          /\ \A y \in Tables : y # s[2] => table'[y] = table[y]
      BY <1>0, <2>1, <2>2, SetTableIs DEF SameCharsets, SameEngines
    <2> QED  BY <2>3, <1>0 DEF SetsKey
  <1> QED  BY <1>1, <1>2 DEF SetsKey

LEMMA EngineTable ==
  ASSUME ServerOK, NEW s, SetsEngine(s)
  PROVE  /\ table' \in [Tables -> Table] /\ SameCharsets /\ SameKeys
         /\ \A y \in Tables : table'[y].engine = "rapid" =>
               \/ y = s[2] /\ s[1] \in {"rapid", "unload"}
               \/ table[y].engine = "rapid" /\ ~(y = s[2] /\ s[1] = "load")
  <1>0. s[2] \in Tables /\ table \in [Tables -> Table]
    BY DEF ServerOK, SetsEngine
  <1>1. PICK new \in {"rapid", "loaded"} :
           /\ SetTable(s[2], "engine", new)
           /\ new = "rapid" => s[1] \in {"rapid", "unload"}
           /\ new = "loaded" => s[1] = "load"
    BY DEF SetsEngine
  <1>2. [table[s[2]] EXCEPT !["engine"] = new] \in Table
    BY <1>0 DEF Table
  <1>3. /\ table' \in [Tables -> Table] /\ SameCharsets /\ SameKeys
        /\ \A y \in Tables : y # s[2] => table'[y] = table[y]
        /\ table'[s[2]].engine = new
    BY <1>0, <1>1, <1>2, SetTableIs DEF SameCharsets, SameKeys
  <1> QED  BY <1>0, <1>1, <1>3

\* What a statement of a's plan does to the server and to what a knows.
LEMMA DoKeepsServer ==
  ASSUME SchemaInv, NEW a \in Admins, NEW s \in Statement, Do(a, s[1], s[2])
  PROVE  ServerOK' /\ there' \subseteq there
  <1>0. ServerOK
    BY DEF SchemaInv, SchemaTypeOK, ServerOK
  <1>1. CASE s[2] \in ForeignKeys /\ (DropForeignKey(a, s[2]) \/ AddForeignKey(a, s[2]))
    BY <1>0, <1>1 DEF DropForeignKey, AddForeignKey, ServerOK
  <1>2. CASE s[2] \in Tables /\ Convert(a, s[2])
    <2>1. there' = there /\ constraints' = constraints /\ unchecked' \subseteq unchecked \cup constraints
      BY <1>2 DEF Convert, Touching
    <2> QED  BY <1>0, <1>2, <2>1, ConvertTable DEF ServerOK
  <1>3. CASE s[2] \in Tables /\ DropTable(a, s[2])
    BY <1>0, <1>3 DEF DropTable, ServerOK
  <1>4. CASE SetsKey(a, s)
    BY <1>0, <1>4, KeyTable DEF SetsKey, ServerOK
  <1>5. CASE SetsEngine(s)
    BY <1>0, <1>5, EngineTable DEF SetsEngine, ServerOK
  <1> QED  BY <1>1, <1>2, <1>3, <1>4, <1>5, DoIs

LEMMA DoKeepsRequest ==
  ASSUME SchemaInv, NEW a \in Admins, NEW s \in Statement, Do(a, s[1], s[2])
  PROVE  /\ asked' \in [Admins -> AnyRequest]
         /\ asked'[a].work = asked[a].work /\ asked'[a].off = asked[a].off
         /\ s[1] \notin {"drop_fk", "add_fk"} => asked'[a].dropped = asked[a].dropped
         /\ \A b \in Admins \ {a} : asked'[b] = asked[b]
  <1>0. asked \in [Admins -> AnyRequest] /\ constraints \subseteq ForeignKeys
    BY DEF SchemaInv, SchemaTypeOK
  <1>1. CASE s[2] \in ForeignKeys /\ s[1] = "drop_fk" /\ DropForeignKey(a, s[2])
    BY <1>0, <1>1 DEF DropForeignKey, AnyRequest
  <1>2. CASE s[2] \in ForeignKeys /\ s[1] = "add_fk" /\ AddForeignKey(a, s[2])
    BY <1>0, <1>2 DEF AddForeignKey, AnyRequest
  <1>3. CASE Convert(a, s[2]) \/ DropTable(a, s[2])
    BY <1>0, <1>3 DEF Convert, DropTable
  <1>4. CASE SetsKey(a, s)
    <2>1. CASE asked' = asked
      BY <1>0, <2>1
    <2>2. CASE s[2] \in Tables /\ asked' = [asked EXCEPT ![a].fixed = @ \cup {s[2]}]
      BY <1>0, <2>2 DEF AnyRequest
    <2> QED  BY <1>4, <2>1, <2>2 DEF SetsKey, AddKey
  <1>5. CASE SetsEngine(s)
    BY <1>0, <1>5 DEF SetsEngine
  <1> QED  BY <1>1, <1>2, <1>3, <1>4, <1>5, DoIs

\* Foreign keys disappear only with a note of who recreates them, or with a
\* table; they are forgotten only when they are back.
LEMMA DoForeignKeys ==
  ASSUME SchemaInv, NEW a \in Admins, NEW s \in Statement, Do(a, s[1], s[2]),
         NEW f \in ForeignKeys
  PROVE  /\ f \in constraints /\ f \notin constraints' =>
               \/ s = <<"drop_fk", f>> /\ f \in asked'[a].dropped
               \/ ~({ChildOf[f], ParentOf[f]} \subseteq there')
         /\ f \in asked[a].dropped /\ f \notin asked'[a].dropped => f \in constraints'
         /\ s = <<"add_fk", f>> => f \in constraints'
  <1>0. asked \in [Admins -> AnyRequest] /\ s = <<s[1], s[2]>>
    BY StatementIs DEF SchemaInv, SchemaTypeOK
  <1>1. CASE s[2] \in ForeignKeys /\ s[1] = "drop_fk" /\ DropForeignKey(a, s[2])
    BY <1>0, <1>1 DEF DropForeignKey, AnyRequest
  <1>2. CASE s[2] \in ForeignKeys /\ s[1] = "add_fk" /\ AddForeignKey(a, s[2])
    BY <1>0, <1>2 DEF AddForeignKey, AnyRequest
  <1>3. CASE s[2] \in Tables /\ s[1] = "drop_table" /\ DropTable(a, s[2])
    BY <1>0, <1>3 DEF DropTable
  <1>4. CASE s[1] \notin {"drop_fk", "add_fk"} /\ constraints' = constraints
    BY <1>0, <1>4, DoKeepsRequest
  <1> QED  BY <1>1, <1>2, <1>3, <1>4, DoIs DEF Convert, SetsKey, SetsEngine

\* A foreign key that is added or altered joins columns of one character set,
\* or its request has no checks.
LEMMA DoCharsets ==
  ASSUME SchemaInv, NEW a \in Admins, NEW s \in Statement, Do(a, s[1], s[2])
  PROVE  KeysCompatible'
  <1>0. ServerOK /\ KeysCompatible /\ RequestInv(a)
    BY DEF SchemaInv, SchemaTypeOK, ServerOK
  <1> SUFFICES ASSUME NEW f \in constraints' \ unchecked'
               PROVE  table'[ChildOf[f]].charset = table'[ParentOf[f]].charset
    BY DEF KeysCompatible
  <1>1. f \in ForeignKeys /\ ChildOf[f] \in Tables /\ ParentOf[f] \in Tables
    BY DoKeepsServer DEF ServerOK, SchemaAssumption
  <1>2. CASE constraints' \subseteq constraints /\ unchecked' = unchecked /\ SameCharsets
    BY <1>0, <1>1, <1>2 DEF KeysCompatible, SameCharsets
  <1>3. CASE AddForeignKey(a, s[2])
    BY <1>0, <1>1, <1>3 DEF AddForeignKey, KeysCompatible
  <1>4. CASE s[2] \in Tables /\ Convert(a, s[2])
    <2>1. f \in constraints /\ f \notin unchecked
      BY <1>4 DEF Convert
    <2>2. f \notin Touching(s[2])
      BY <1>0, <1>4 DEF Convert, RequestInv
    <2>3. ChildOf[f] # s[2] /\ ParentOf[f] # s[2]
      BY <2>1, <2>2 DEF Touching
    <2> QED  BY <1>0, <1>1, <1>4, <2>1, <2>3, ConvertTable DEF KeysCompatible
  <1>5. CASE DropForeignKey(a, s[2]) \/ DropTable(a, s[2])
    BY <1>2, <1>5 DEF DropForeignKey, DropTable, SameCharsets
  <1>6. CASE SetsKey(a, s)
    BY <1>0, <1>2, <1>6, KeyTable DEF SetsKey
  <1>7. CASE SetsEngine(s)
    BY <1>0, <1>2, <1>7, EngineTable DEF SetsEngine
  <1> QED  BY <1>3, <1>4, <1>5, <1>6, <1>7, DoIs

\* A table comes to have the engine without its data by two statements only.
LEMMA DoEngines ==
  ASSUME SchemaInv, NEW a \in Admins, NEW s \in Statement, Do(a, s[1], s[2]),
         NEW x \in Tables, table'[x].engine = "rapid"
  PROVE  \/ s \in {<<"rapid", x>>, <<"unload", x>>}
         \/ table[x].engine = "rapid" /\ s # <<"load", x>>
  <1>0. ServerOK /\ s = <<s[1], s[2]>>
    BY StatementIs DEF SchemaInv, SchemaTypeOK, ServerOK
  <1>1. CASE SetsEngine(s)
    BY <1>0, <1>1, EngineTable
  <1>2. CASE SameEngines /\ s[1] # "load"
    BY <1>2 DEF SameEngines
  <1>3. CASE s[2] \in Tables /\ s[1] = "convert" /\ Convert(a, s[2])
    BY <1>0, <1>2, <1>3, ConvertTable
  <1>4. CASE SetsKey(a, s)
    BY <1>0, <1>2, <1>4, KeyTable DEF SetsKey
  <1>5. CASE table' = table /\ s[1] # "load"
    BY <1>2, <1>5 DEF SameEngines
  <1> QED  BY <1>1, <1>3, <1>4, <1>5, DoIs DEF DropForeignKey, AddForeignKey, DropTable

\* Only a change of columns takes or replaces a key.
LEMMA DoKeys ==
  ASSUME SchemaInv, NEW a \in Admins, NEW s \in Statement, Do(a, s[1], s[2]),
         NEW x \in Tables, table[x].key # "none", table'[x].key # table[x].key
  PROVE  s[1] \in {"key_replace", "key_drop"}
  <1>0. ServerOK
    BY DEF SchemaInv, SchemaTypeOK, ServerOK
  <1>1. CASE SetsKey(a, s)
    BY <1>0, <1>1, KeyTable
  <1>2. CASE SameKeys
    BY <1>2 DEF SameKeys
  <1>3. CASE SetsEngine(s)
    BY <1>0, <1>2, <1>3, EngineTable
  <1>4. CASE s[2] \in Tables /\ Convert(a, s[2])
    BY <1>0, <1>2, <1>4, ConvertTable
  <1>5. CASE table' = table
    BY <1>2, <1>5 DEF SameKeys
  <1> QED  BY <1>1, <1>3, <1>4, <1>5, DoIs DEF DropForeignKey, AddForeignKey, DropTable

-----------------------------------------------------------------------------
(* Every step keeps the invariant.                                         *)

LEMMA InitEstablishes ==
  ASSUME SchemaInit
  PROVE  SchemaInv
  <1>1. SchemaTypeOK
    <2>1. NoRequest \in AnyRequest
      BY DEF NoRequest, AnyRequest
    <2> QED  BY <2>1, EmptyPlanned DEF SchemaInit, SchemaTypeOK, Table
  <1>2. ASSUME NEW a \in Admins
        PROVE  RequestInv(a)
    <2>1. checks[a] = TRUE /\ asked[a] = NoRequest /\ plan[a] = <<>>
      BY DEF SchemaInit
    <2> QED  BY <2>1, EmptyPlanned DEF RequestInv, NoRequest
  <1>3. ForeignKeysAccounted /\ LoadsInv
    BY DEF SchemaInit, ForeignKeysAccounted, LoadsInv
  <1>4. KeysCompatible
    BY DEF SchemaInit, KeysCompatible, SchemaAssumption
  <1> QED  BY <1>1, <1>2, <1>3, <1>4 DEF SchemaInv

\* What a request is not about to do it does not owe.
LEMMA Idle ==
  ASSUME SchemaInv, NEW a \in Admins
  PROVE  /\ asked[a].work # "convert" => asked[a].dropped = {}
         /\ asked[a].work # "load" => \A x : ~AboutToLoad(a, x)
         /\ asked[a].work = "none" => asked[a].dropped = {} /\ plan[a] = <<>>
  BY DEF SchemaInv, RequestInv, AboutToLoad, NoRequest

\* The accounts hold as long as the server, what was told and the requests
\* that owe something stay.
LEMMA AccountsKept ==
  ASSUME SchemaInv, UNCHANGED server, told \subseteq told', cut \subseteq cut',
         \A a \in Admins : \A f \in asked[a].dropped :
             <<"add_fk", f>> \in ToSet(plan[a]) =>
                 \/ f \in asked'[a].dropped /\ <<"add_fk", f>> \in ToSet(plan'[a])
                 \/ <<"add_fk", f>> \in told' \cup cut',
         \A a \in Admins : \A x : AboutToLoad(a, x) =>
             AboutToLoad(a, x)' \/ <<"load", x>> \in told' \cup cut'
  PROVE  ForeignKeysAccounted' /\ LoadsInv'
  <1>1. ForeignKeysAccounted /\ LoadsInv
    BY DEF SchemaInv
  <1>2. ForeignKeysAccounted'
    BY <1>1 DEF ForeignKeysAccounted, server
  <1>3. LoadsInv'
    BY <1>1 DEF LoadsInv, server
  <1> QED  BY <1>2, <1>3

LEMMA BeginsKeeps ==
  ASSUME SchemaInv, NEW a \in Admins, NEW work, NEW p, Begins(a, work, p)
  PROVE  SchemaInv'
  <1>0. /\ SchemaTypeOK /\ KeysCompatible /\ UNCHANGED <<server, history>> /\ work # "none"
        /\ \A b \in Admins : RequestInv(b)
    BY DEF SchemaInv, Begins, SchemaAssumption, AllSchemaWorks
  <1>1. SchemaTypeOK'
    BY <1>0 DEF SchemaTypeOK, Begins, RequestsOK, server, history
  <1>2. ASSUME NEW b \in Admins
        PROVE  RequestInv(b)'
    <2>1. CASE b = a
      BY <1>0, <2>1 DEF Begins, RequestInv
    <2>2. CASE b # a
      BY <1>0, <2>2 DEF Begins, OnlyRequest, RequestInv
    <2> QED  BY <2>1, <2>2
  <1>3. KeysCompatible'
    BY <1>0 DEF KeysCompatible, server, history
  <1>4. asked[a].dropped = {} /\ \A x : ~AboutToLoad(a, x)
    BY Idle DEF Begins
  <1>5. ForeignKeysAccounted' /\ LoadsInv'
    <2>1. \A b \in Admins \ {a} : asked'[b] = asked[b] /\ plan'[b] = plan[b]
      BY DEF Begins, OnlyRequest
    <2> QED  BY <1>0, <1>4, <2>1, AccountsKept DEF AboutToLoad, history
  <1> QED  BY <1>1, <1>2, <1>3, <1>5 DEF SchemaInv

\* HalfDone(a) is made of statements.
LEMMA HalfDoneIs ==
  ASSUME SchemaTypeOK, NEW a \in Admins
  PROVE  HalfDone(a) \subseteq Statement
  <1>1. asked[a].dropped \subseteq ForeignKeys /\ plan[a] \in Seq(Statement)
    BY DEF SchemaTypeOK, AnyRequest
  <1>2. ToSet(plan[a]) \subseteq Statement
    BY <1>1 DEF ToSet
  <1>3. \A f \in ForeignKeys : <<"add_fk", f>> \in Statement
    BY DEF Statement
  <1> QED  BY <1>1, <1>2, <1>3 DEF HalfDone

\* It is what the accounts need if the request of a ends.
LEMMA HalfDoneTells ==
  ASSUME NEW a \in Admins
  PROVE  /\ \A f \in asked[a].dropped : <<"add_fk", f>> \in HalfDone(a)
         /\ \A x : AboutToLoad(a, x) => <<"load", x>> \in HalfDone(a)
  BY DEF HalfDone, AboutToLoad, ToSet

LEMMA EndOfRequest ==
  ASSUME SchemaInv, NEW a \in Admins, Reset(a), plan'[a] = <<>>,
         plan' \in [Admins -> Seq(Statement)],
         \A b \in Admins \ {a} : plan'[b] = plan[b]
  PROVE  RequestsOK' /\ OnlyRequest(a) /\ \A b \in Admins : RequestInv(b)'
  <1>0. RequestsOK /\ NoRequest \in AnyRequest /\ \A b \in Admins : RequestInv(b)
    BY DEF SchemaInv, SchemaTypeOK, RequestsOK, NoRequest, AnyRequest
  <1>1. RequestsOK' /\ OnlyRequest(a)
    BY <1>0 DEF RequestsOK, OnlyRequest, Reset
  <1>2. asked'[a] = NoRequest /\ checks'[a] = TRUE
    BY <1>0 DEF RequestsOK, Reset
  <1>3. RequestInv(a)'
    BY <1>2, EmptyPlanned DEF RequestInv, NoRequest
  <1>4. \A b \in Admins \ {a} : RequestInv(b)'
    BY <1>0, <1>1 DEF OnlyRequest, RequestInv
  <1> QED  BY <1>1, <1>3, <1>4

LEMMA FailKeeps ==
  ASSUME SchemaInv, NEW a \in Admins, Fail(a)
  PROVE  SchemaInv'
  <1>0. /\ SchemaTypeOK /\ KeysCompatible /\ Reset(a) /\ UNCHANGED <<server, cut, unchecked>>
        /\ told' = told \cup HalfDone(a)
        /\ plan' \in [Admins -> Seq(Statement)] /\ plan'[a] = <<>>
        /\ \A b \in Admins \ {a} : plan'[b] = plan[b]
    BY EmptyPlanned DEF SchemaInv, SchemaTypeOK, Fail
  <1>1. RequestsOK' /\ OnlyRequest(a) /\ \A b \in Admins : RequestInv(b)'
    BY <1>0, EndOfRequest
  <1>2. SchemaTypeOK'
    BY <1>0, <1>1, HalfDoneIs DEF SchemaTypeOK, RequestsOK, server
  <1>3. KeysCompatible'
    BY <1>0 DEF KeysCompatible, server
  <1>4. ForeignKeysAccounted' /\ LoadsInv'
    <2>1. \A b \in Admins \ {a} : asked'[b] = asked[b] /\ plan'[b] = plan[b]
      BY <1>1 DEF OnlyRequest
    <2> QED  BY <1>0, <2>1, HalfDoneTells, AccountsKept DEF AboutToLoad
  <1> QED  BY <1>1, <1>2, <1>3, <1>4 DEF SchemaInv

LEMMA AnswerKeeps ==
  ASSUME SchemaInv, NEW a \in Admins, Answer(a)
  PROVE  SchemaInv'
  <1>0. /\ SchemaTypeOK /\ KeysCompatible /\ Reset(a) /\ UNCHANGED <<server, plan, history>>
        /\ plan \in [Admins -> Seq(Statement)] /\ plan[a] = <<>>
    BY DEF SchemaInv, SchemaTypeOK, Answer
  <1>1. RequestsOK' /\ OnlyRequest(a) /\ \A b \in Admins : RequestInv(b)'
    BY <1>0, EndOfRequest
  <1>2. SchemaTypeOK'
    BY <1>0, <1>1 DEF SchemaTypeOK, RequestsOK, server, history
  <1>3. KeysCompatible'
    BY <1>0 DEF KeysCompatible, server, history
  <1>4. ForeignKeysAccounted' /\ LoadsInv'
    <2>1. \A b \in Admins \ {a} : asked'[b] = asked[b] /\ plan'[b] = plan[b]
      BY <1>1 DEF OnlyRequest
    <2>2. ToSet(plan[a]) = {} /\ \A x : ~AboutToLoad(a, x)
      BY <1>0 DEF ToSet, AboutToLoad
    <2> QED  BY <1>0, <2>1, <2>2, AccountsKept DEF AboutToLoad, history
  <1> QED  BY <1>1, <1>2, <1>3, <1>4 DEF SchemaInv

LEMMA ProcessEndsKeeps ==
  ASSUME SchemaInv, ProcessEnds
  PROVE  SchemaInv'
  <1>0. /\ SchemaTypeOK /\ KeysCompatible /\ UNCHANGED <<server, told, unchecked>>
        /\ cut' = cut \cup UNION {HalfDone(a) : a \in Admins}
        /\ \A a \in Admins : asked'[a] = NoRequest /\ plan'[a] = <<>> /\ checks'[a] = TRUE
    BY DEF SchemaInv, ProcessEnds
  <1>1. NoRequest \in AnyRequest
    BY DEF NoRequest, AnyRequest
  <1>2. SchemaTypeOK'
    <2>1. UNION {HalfDone(a) : a \in Admins} \subseteq Statement
      BY <1>0, HalfDoneIs
    <2> QED  BY <1>0, <1>1, <2>1, EmptyPlanned DEF ProcessEnds, SchemaTypeOK, server
  <1>3. \A a \in Admins : RequestInv(a)'
    BY <1>0, EmptyPlanned DEF RequestInv, NoRequest
  <1>4. KeysCompatible'
    BY <1>0 DEF KeysCompatible, server
  <1>5. ForeignKeysAccounted' /\ LoadsInv'
    <2>1. \A a \in Admins : HalfDone(a) \subseteq cut'
      BY <1>0
    <2> QED  BY <1>0, <2>1, HalfDoneTells, AccountsKept
  <1> QED  BY <1>2, <1>3, <1>4, <1>5 DEF SchemaInv

\* The plan of a fix goes on: its request owes nothing.
LEMMA FixGoesOn ==
  ASSUME SchemaInv, NEW a \in Admins, asked[a].work = "fix", NEW p \in Seq(Statement),
         Planned(p, "fix"), plan' = [plan EXCEPT ![a] = p],
         UNCHANGED <<server, checks, asked, history>>
  PROVE  SchemaInv'
  <1>0. /\ SchemaTypeOK /\ KeysCompatible
        /\ \A b \in Admins : RequestInv(b)
    BY DEF SchemaInv
  <1>1. plan' \in [Admins -> Seq(Statement)] /\ plan'[a] = p
        /\ \A b \in Admins \ {a} : plan'[b] = plan[b]
    BY <1>0 DEF SchemaTypeOK
  <1>2. SchemaTypeOK'
    BY <1>0, <1>1 DEF SchemaTypeOK, server, history
  <1>3. \A b \in Admins : RequestInv(b)'
    BY <1>0, <1>1 DEF RequestInv
  <1>4. KeysCompatible'
    BY <1>0 DEF KeysCompatible, server, history
  <1>5. ForeignKeysAccounted' /\ LoadsInv'
    <2>1. asked[a].dropped = {} /\ \A x : ~AboutToLoad(a, x)
      BY Idle
    <2> QED  BY <1>1, <2>1, AccountsKept DEF AboutToLoad, history
  <1> QED  BY <1>2, <1>3, <1>4, <1>5 DEF SchemaInv

LEMMA FixFailsKeeps ==
  ASSUME SchemaInv, NEW a \in Admins, FixFails(a)
  PROVE  SchemaInv'
  <1>1. /\ plan[a] \in Seq(Statement) /\ plan[a] # <<>> /\ Planned(plan[a], "fix")
        /\ asked[a].work = "fix"
    BY DEF SchemaInv, SchemaTypeOK, RequestInv, FixFails
  <1>2. Tail(plan[a]) \in Seq(Statement) /\ Planned(Tail(plan[a]), "fix")
    BY <1>1, TailIs, TailPlanned
  <1>3. plan' = [plan EXCEPT ![a] = Tail(plan[a])]
    BY DEF FixFails
  <1> QED  BY <1>1, <1>2, <1>3, FixGoesOn DEF FixFails

\* Any sequence of the statements of a fix is planned.
LEMMA FixPlanned ==
  ASSUME NEW p, \A i \in DOMAIN p : WorkOf(p[i][1]) = "fix"
  PROVE  Planned(p, "fix")
  BY DEF Planned, Recreates, LoadsNext, WorkOf

LEMMA CheckKeyKeeps ==
  ASSUME SchemaInv, NEW a \in Admins, CheckKey(a)
  PROVE  SchemaInv'
  <1> DEFINE s == Head(plan[a])
             rest == Tail(plan[a])
  <1>1. /\ plan[a] \in Seq(Statement) /\ plan[a] # <<>> /\ s[1] = "check_key"
        /\ Planned(plan[a], asked[a].work)
    BY DEF SchemaInv, SchemaTypeOK, RequestInv, CheckKey
  <1>2. s \in Statement /\ asked[a].work = "fix"
    BY <1>1, TailIs DEF Planned, WorkOf
  <1>3. s[2] \in Tables
    BY <1>1, <1>2, StatementIs
  <1>4. rest \in Seq(Statement) /\ \A i \in DOMAIN rest : WorkOf(rest[i][1]) = "fix"
    BY <1>1, <1>2, TailIs, TailPlanned DEF Planned
  <1>5. PICK kind \in {"key_auto", "key_row_id"} :
           \/ plan' = [plan EXCEPT ![a] = <<>> \o rest]
           \/ plan' = [plan EXCEPT ![a] = << <<kind, s[2]>> >> \o rest]
    BY DEF CheckKey
  <1>6. <<kind, s[2]>> \in Statement /\ WorkOf(kind) = "fix"
    BY <1>3, <1>5 DEF Statement, WorkOf
  <1> HIDE DEF s, rest
  <1> DEFINE k == <<kind, s[2]>>
  <1>7. k \in Statement /\ WorkOf(k[1]) = "fix"
    BY <1>6
  <1> HIDE DEF k
  <1>8. CASE plan' = [plan EXCEPT ![a] = <<>> \o rest]
    <2>1. <<>> \o rest = rest
      BY <1>4
    <2> QED  BY <1>2, <1>4, <1>8, <2>1, FixPlanned, FixGoesOn DEF CheckKey
  <1>9. CASE plan' = [plan EXCEPT ![a] = <<k>> \o rest]
    <2> DEFINE p == <<k>> \o rest
    <2>1. /\ p \in Seq(Statement) /\ DOMAIN p = 1 .. (1 + Len(rest)) /\ Len(rest) \in Nat
          /\ DOMAIN rest = 1 .. Len(rest)
          /\ p[1] = k /\ \A i \in 1 .. Len(rest) : p[1 + i] = rest[i]
      BY <1>4, <1>7
    <2> HIDE DEF p
    <2>2. ASSUME NEW i \in DOMAIN p
          PROVE  WorkOf(p[i][1]) = "fix"
      <3>1. CASE i = 1
        BY <1>7, <2>1, <3>1
      <3>2. CASE i # 1
        <4>1. i - 1 \in 1 .. Len(rest) /\ 1 + (i - 1) = i
          BY <2>1, <3>2
        <4>2. p[i] = rest[i - 1]
          BY <2>1, <4>1
        <4> QED  BY <1>4, <2>1, <4>1, <4>2
      <3> QED  BY <3>1, <3>2
    <2>3. plan' = [plan EXCEPT ![a] = p]
      BY <1>9 DEF p
    <2> QED  BY <1>2, <2>1, <2>2, <2>3, FixPlanned, FixGoesOn DEF CheckKey
  <1> QED  BY <1>5, <1>8, <1>9 DEF k

LEMMA DropDatabaseKeeps ==
  ASSUME SchemaInv, NEW a \in Admins, DropDatabase(a)
  PROVE  SchemaInv'
  <1>0. /\ SchemaTypeOK /\ \A b \in Admins : RequestInv(b)
        /\ there' = {} /\ constraints' = {}
        /\ UNCHANGED <<table, checks, asked, plan, history>>
    BY DEF SchemaInv, DropDatabase
  <1>1. SchemaTypeOK' /\ \A b \in Admins : RequestInv(b)'
    BY <1>0 DEF SchemaTypeOK, RequestInv, history
  <1>2. ForeignKeysAccounted' /\ KeysCompatible' /\ LoadsInv'
    BY <1>0 DEF ForeignKeysAccounted, KeysCompatible, LoadsInv
  <1> QED  BY <1>1, <1>2 DEF SchemaInv

\* The request of a after a statement: it has the rest of its plan before it,
\* in which foreign keys it has just dropped are recreated.
LEMMA ExecuteRequest ==
  ASSUME SchemaInv, NEW a \in Admins, Execute(a)
  PROVE  RequestsOK' /\ \A b \in Admins : RequestInv(b)'
  <1> DEFINE s == Head(plan[a])
  <1>1. /\ plan[a] \in Seq(Statement) /\ plan[a] # <<>> /\ Do(a, s[1], s[2])
        /\ plan' = [plan EXCEPT ![a] = Tail(plan[a])] /\ checks' = checks
    BY DEF SchemaInv, SchemaTypeOK, Execute
  <1>2. s \in Statement /\ s = plan[a][1] /\ 1 \in DOMAIN plan[a]
    BY <1>1, TailIs
  <1>3. RequestsOK /\ \A b \in Admins : RequestInv(b)
    BY DEF SchemaInv, SchemaTypeOK, RequestsOK
  <1>4. WorkOf(s[1]) = asked[a].work
    BY <1>2, <1>3 DEF RequestInv, Planned
  <1> HIDE DEF s
  <1>5. /\ asked' \in [Admins -> AnyRequest]
        /\ asked'[a].work = asked[a].work /\ asked'[a].off = asked[a].off
        /\ s[1] \notin {"drop_fk", "add_fk"} => asked'[a].dropped = asked[a].dropped
        /\ \A b \in Admins \ {a} : asked'[b] = asked[b]
    BY <1>1, <1>2, DoKeepsRequest
  <1>6. /\ plan' \in [Admins -> Seq(Statement)] /\ plan'[a] = Tail(plan[a])
        /\ \A b \in Admins \ {a} : plan'[b] = plan[b]
    BY <1>1, <1>3, TailIs DEF RequestsOK
  <1>7. RequestInv(a)'
    <2>1. asked[a].work # "none"
      BY <1>1, <1>3 DEF RequestInv
    <2>2. asked[a].work # "convert" => s[1] \notin {"drop_fk", "add_fk"}
      BY <1>4 DEF WorkOf
    <2>3. Planned(Tail(plan[a]), asked[a].work)
      BY <1>1, <1>3, TailPlanned DEF RequestInv
    <2> QED  BY <1>1, <1>3, <1>5, <1>6, <2>1, <2>2, <2>3 DEF RequestInv
  <1>8. \A b \in Admins \ {a} : RequestInv(b)'
    BY <1>1, <1>3, <1>5, <1>6 DEF RequestInv
  <1> QED  BY <1>1, <1>3, <1>5, <1>6, <1>7, <1>8 DEF RequestsOK

LEMMA ExecuteAccountsForKeys ==
  ASSUME SchemaInv, NEW a \in Admins, Execute(a)
  PROVE  ForeignKeysAccounted'
  <1> DEFINE s == Head(plan[a])
  <1>1. /\ plan[a] \in Seq(Statement) /\ plan[a] # <<>> /\ Do(a, s[1], s[2])
        /\ plan' = [plan EXCEPT ![a] = Tail(plan[a])] /\ cut' = cut
        /\ told \ {s} \subseteq told'
        /\ asked \in [Admins -> AnyRequest] /\ plan \in [Admins -> Seq(Statement)]
    BY DEF SchemaInv, SchemaTypeOK, Execute
  <1>2. s \in Statement /\ s = plan[a][1] /\ 1 \in DOMAIN plan[a]
    BY <1>1, TailIs
  <1> HIDE DEF s
  <1> SUFFICES ASSUME NEW f \in ForeignKeys, f \notin constraints',
                      {ChildOf[f], ParentOf[f]} \subseteq there'
               PROVE  \/ <<"add_fk", f>> \in told' \cup cut'
                      \/ \E b \in Admins : f \in asked'[b].dropped /\ <<"add_fk", f>> \in ToSet(plan'[b])
    BY DEF ForeignKeysAccounted
  <1> DEFINE again == <<"add_fk", f>>
  <1>3. s # again
    BY <1>1, <1>2, DoForeignKeys
  <1>4. /\ plan'[a] = Tail(plan[a])
        /\ \A b \in Admins \ {a} : plan'[b] = plan[b] /\ asked'[b] = asked[b]
    BY <1>1, <1>2, DoKeepsRequest
  <1>5. CASE f \in constraints
    <2>1. s = <<"drop_fk", f>> /\ f \in asked'[a].dropped
      BY <1>1, <1>2, <1>5, DoForeignKeys
    <2>2. plan[a][1][1] = "drop_fk" /\ plan[a][1][2] = f
      BY <1>2, <2>1
    <2>3. Recreates(plan[a])
      BY DEF SchemaInv, RequestInv, Planned
    <2>4. PICK j \in DOMAIN plan[a] : plan[a][j] = again
      BY <1>2, <2>2, <2>3 DEF Recreates
    <2>5. again \in ToSet(plan[a])
      BY <2>4 DEF ToSet
    <2>6. again \in ToSet(Tail(plan[a]))
      BY <1>1, <1>3, <2>5, StillAhead DEF s
    <2> QED  BY <1>4, <2>1, <2>6
  <1>6. CASE f \notin constraints
    <2>1. there' \subseteq there
      BY <1>1, <1>2, DoKeepsServer
    <2>2. \/ again \in told \cup cut
          \/ \E b \in Admins : f \in asked[b].dropped /\ again \in ToSet(plan[b])
      BY <1>6, <2>1 DEF SchemaInv, ForeignKeysAccounted
    <2>3. CASE again \in told \cup cut
      BY <1>1, <1>3, <2>3
    <2>4. CASE f \in asked[a].dropped /\ again \in ToSet(plan[a])
      <3>1. again \in ToSet(Tail(plan[a]))
        BY <1>1, <1>3, <2>4, StillAhead DEF s
      <3>2. f \in asked'[a].dropped
        BY <1>1, <1>2, <2>4, DoForeignKeys
      <3> QED  BY <1>4, <3>1, <3>2
    <2>5. CASE \E b \in Admins \ {a} : f \in asked[b].dropped /\ again \in ToSet(plan[b])
      BY <1>4, <2>5
    <2> QED  BY <2>2, <2>3, <2>4, <2>5
  <1> QED  BY <1>5, <1>6

LEMMA ExecuteAccountsForLoads ==
  ASSUME SchemaInv, NEW a \in Admins, Execute(a)
  PROVE  LoadsInv'
  <1> DEFINE s == Head(plan[a])
  <1>1. /\ plan[a] \in Seq(Statement) /\ plan[a] # <<>> /\ Do(a, s[1], s[2])
        /\ plan' = [plan EXCEPT ![a] = Tail(plan[a])] /\ cut' = cut
        /\ s[1] = "unload" => <<"load", s[2]>> \in told'
        /\ told \ {s} \subseteq told'
        /\ asked \in [Admins -> AnyRequest] /\ plan \in [Admins -> Seq(Statement)]
    BY DEF SchemaInv, SchemaTypeOK, Execute
  <1>2. s \in Statement /\ s = plan[a][1] /\ 1 \in DOMAIN plan[a]
    BY <1>1, TailIs
  <1>3. /\ WorkOf(s[1]) = asked[a].work /\ LoadsNext(plan[a])
    BY <1>2 DEF SchemaInv, RequestInv, Planned
  <1> HIDE DEF s
  <1>4. there' \subseteq there /\ there \subseteq Tables
    BY <1>1, <1>2, DoKeepsServer DEF SchemaInv, SchemaTypeOK
  <1>5. /\ plan'[a] = Tail(plan[a]) /\ asked'[a].work = asked[a].work
        /\ \A b \in Admins \ {a} : plan'[b] = plan[b] /\ asked'[b] = asked[b]
    BY <1>1, <1>2, DoKeepsRequest
  <1> SUFFICES ASSUME NEW x \in there', table'[x].engine = "rapid"
               PROVE  <<"load", x>> \in told' \cup cut' \/ \E b \in Admins : AboutToLoad(b, x)'
    BY DEF LoadsInv
  <1>6. \/ s \in {<<"rapid", x>>, <<"unload", x>>}
        \/ table[x].engine = "rapid" /\ s # <<"load", x>>
    BY <1>1, <1>2, <1>4, DoEngines
  <1>7. CASE s = <<"unload", x>>
    BY <1>1, <1>7
  <1>8. CASE s = <<"rapid", x>>
    <2>1. asked[a].work = "load"
      BY <1>3, <1>8 DEF WorkOf
    <2>2. plan[a][1][1] = "rapid" /\ plan[a][1][2] = x
      BY <1>2, <1>8
    <2>3. plan[a] = << <<"rapid", x>>, <<"load", x>> >>
      BY <1>2, <1>3, <2>2 DEF LoadsNext
    <2>4. Tail(plan[a]) = << <<"load", x>> >>
      <3> DEFINE l == <<"load", x>>
                 r == <<"rapid", x>>
      <3> HIDE DEF l, r
      <3>1. Tail(<<r, l>>) = <<l>>
        OBVIOUS
      <3> QED  BY <2>3, <3>1 DEF l, r
    <2> QED  BY <1>5, <2>1, <2>4 DEF AboutToLoad
  <1>9. CASE table[x].engine = "rapid" /\ s # <<"load", x>>
    <2>1. \/ <<"load", x>> \in told \cup cut
          \/ \E b \in Admins : AboutToLoad(b, x)
      BY <1>4, <1>9 DEF SchemaInv, LoadsInv
    <2>2. CASE <<"load", x>> \in told \cup cut
      BY <1>1, <1>9, <2>2
    <2>3. ~AboutToLoad(a, x)
      BY <1>2, <1>9 DEF AboutToLoad
    <2>4. CASE \E b \in Admins \ {a} : AboutToLoad(b, x)
      BY <1>5, <2>4 DEF AboutToLoad
    <2> QED  BY <2>1, <2>2, <2>3, <2>4
  <1> QED  BY <1>6, <1>7, <1>8, <1>9

LEMMA ExecuteKeeps ==
  ASSUME SchemaInv, NEW a \in Admins, Execute(a)
  PROVE  SchemaInv'
  <1> DEFINE s == Head(plan[a])
  <1>1. /\ plan[a] \in Seq(Statement) /\ plan[a] # <<>> /\ Do(a, s[1], s[2])
        /\ told \cup cut \subseteq Statement /\ cut' = cut
        /\ told' \subseteq told \cup {<<"load", s[2]>>} /\ (s[1] # "unload" => told' \subseteq told)
    BY DEF SchemaInv, SchemaTypeOK, Execute
  <1>2. s \in Statement
    BY <1>1, TailIs
  <1> HIDE DEF s
  <1>3. told' \cup cut' \subseteq Statement
    <2>1. s[1] = "unload" => <<"load", s[2]>> \in Statement
      BY <1>2, StatementIs DEF Statement
    <2> QED  BY <1>1, <2>1
  <1>4. ServerOK' /\ KeysCompatible'
    BY <1>1, <1>2, DoKeepsServer, DoCharsets
  <1>5. RequestsOK' /\ \A b \in Admins : RequestInv(b)'
    BY ExecuteRequest
  <1>6. SchemaTypeOK'
    BY <1>3, <1>4, <1>5 DEF SchemaTypeOK, ServerOK, RequestsOK
  <1> QED  BY <1>4, <1>5, <1>6, ExecuteAccountsForKeys, ExecuteAccountsForLoads DEF SchemaInv

LEMMA StepKeeps ==
  ASSUME SchemaInv, [SchemaNext]_schemaVars
  PROVE  SchemaInv'
  <1>1. ASSUME NEW a \in Admins, Plans(a)
        PROVE  SchemaInv'
    BY <1>1, PlansBegin, BeginsKeeps
  <1>2. CASE UNCHANGED schemaVars
    <2>1. UNCHANGED <<there, table, constraints, checks, asked, plan, told, cut, unchecked>>
      BY <1>2 DEF schemaVars, server, history
    <2>2. SchemaTypeOK' /\ \A a \in Admins : RequestInv(a)'
      BY <2>1 DEF SchemaInv, SchemaTypeOK, RequestInv
    <2>3. ForeignKeysAccounted' /\ KeysCompatible'
      BY <2>1 DEF SchemaInv, ForeignKeysAccounted, KeysCompatible
    <2>4. LoadsInv'
      BY <2>1 DEF SchemaInv, LoadsInv, AboutToLoad
    <2> QED  BY <2>2, <2>3, <2>4 DEF SchemaInv
  <1> QED  BY <1>1, <1>2, DropDatabaseKeeps, ExecuteKeeps, CheckKeyKeeps, FailKeeps, FixFailsKeeps,
              AnswerKeeps, ProcessEndsKeeps DEF SchemaNext, Plans

\* A statement that changes the keys of tables belongs to a change of columns,
\* and is no longer in the plan afterwards.
LEMMA KeysChange ==
  ASSUME SchemaInv, SchemaNext, NEW x \in Tables,
         table[x].key # "none", table'[x].key # table[x].key
  PROVE  \E a \in Admins : asked[a].work = "modify" /\ plan'[a] # plan[a]
  <1>1. PICK a \in Admins : Execute(a)
    <2>1. table' # table
      OBVIOUS
    <2>2. ASSUME NEW a \in Admins, Plans(a)
          PROVE  FALSE
      BY <2>1, <2>2, PlansBegin DEF Begins, server
    <2> QED  BY <2>1, <2>2 DEF SchemaNext, Plans, DropDatabase, CheckKey, Fail, FixFails, Answer,
                ProcessEnds, server
  <1> DEFINE s == Head(plan[a])
  <1>2. /\ plan[a] \in Seq(Statement) /\ plan[a] # <<>> /\ Do(a, s[1], s[2])
        /\ plan' = [plan EXCEPT ![a] = Tail(plan[a])] /\ plan \in [Admins -> Seq(Statement)]
    BY <1>1 DEF SchemaInv, SchemaTypeOK, Execute
  <1>3. s \in Statement /\ s = plan[a][1] /\ 1 \in DOMAIN plan[a] /\ Tail(plan[a]) # plan[a]
    BY <1>2, TailIs
  <1>4. WorkOf(s[1]) = asked[a].work
    BY <1>3 DEF SchemaInv, RequestInv, Planned
  <1> HIDE DEF s
  <1>5. s[1] \in {"key_replace", "key_drop"}
    BY <1>2, <1>3, DoKeys
  <1>6. asked[a].work = "modify"
    BY <1>4, <1>5 DEF WorkOf
  <1> QED  BY <1>2, <1>3, <1>6

-----------------------------------------------------------------------------

LEMMA Invariance == SchemaSpec => []SchemaInv
  <1>1. SchemaInit => SchemaInv
    BY InitEstablishes
  <1>2. SchemaInv /\ [SchemaNext]_schemaVars => SchemaInv'
    BY StepKeeps
  <1> QED  BY <1>1, <1>2, PTL DEF SchemaSpec

\* What a sequence of DDL leaves half-done (a foreign key dropped and not
\* recreated, an engine without its load) is still being worked on, or its
\* administrator got an error, or no answer.
THEOREM HalfDoneIsAccounted == SchemaSpec => []HalfDoneAccounted
  <1>1. SchemaInv => HalfDoneAccounted
    <2> SUFFICES ASSUME SchemaInv
                 PROVE  ForeignKeysAccounted /\ LoadsAccounted
      BY DEF HalfDoneAccounted
    <2>1. ASSUME NEW a \in Admins, NEW x, AboutToLoad(a, x)
          PROVE  <<"load", x>> \in ToSet(plan[a])
      BY <2>1 DEF AboutToLoad, ToSet
    <2> QED  BY <2>1 DEF SchemaInv, LoadsInv, LoadsAccounted, Pending
  <1> QED  BY <1>1, Invariance, PTL

\* Columns joined by a foreign key have one character set, except where a
\* request asked for FOREIGN_KEY_CHECKS off.
THEOREM KeysStayCompatible == SchemaSpec => []KeysCompatible
  <1>1. SchemaInv => KeysCompatible
    BY DEF SchemaInv
  <1> QED  BY <1>1, Invariance, PTL

\* Only an administrator's change of columns takes or replaces a primary key; a
\* fix that comes late leaves the key somebody else has added.
THEOREM FixesLeaveKeys == SchemaSpec => FixesKeepKeys
  <1> DEFINE Stays == \A x \in Tables :
                        table[x].key # "none" /\ table'[x].key # table[x].key =>
                            \E a \in Admins : asked[a].work = "modify" /\ plan'[a] # plan[a]
  <1>1. SchemaInv /\ [SchemaNext]_schemaVars => [Stays]_schemaVars
    BY KeysChange
  <1>2. FixesKeepKeys <=> [][Stays]_schemaVars
    BY PTL DEF FixesKeepKeys
  <1> HIDE DEF Stays
  <1>3. SchemaSpec => [][Stays]_schemaVars
    BY <1>1, Invariance, PTL DEF SchemaSpec
  <1> QED  BY <1>2, <1>3

-----------------------------------------------------------------------------
(* Profiles: the rows that are dropped from a sequence.                     *)

\* Every non-empty set of natural numbers has a least element: an induction over
\* the length of a sequence looks at the least length at which it would fail.
LEMMA LeastNat ==
  ASSUME NEW T, T \subseteq Nat, T # {}
  PROVE  \E m \in T : \A k \in T : m <= k
  <1> DEFINE R == OpToRel(<, Nat)
  <1>1. IsWellFoundedOn(R, Nat)
    BY NatLessThanWellFounded
  <1>2. \A x, y \in Nat : x < y => <<x, y>> \in R
    BY DEF OpToRel
  <1> HIDE DEF R
  <1>3. PICK x \in T : \A y \in T : ~(<<y, x>> \in R)
    BY <1>1, WFMin
  <1>4. \A y \in T : ~(y < x)
    BY <1>2, <1>3
  <1>5. \A y \in T : x <= y
    BY <1>4
  <1> QED  BY <1>5

\* What Dropping computes, as far as the first n rows: f is its function kept.
Keeping(f, rows, gone, n) ==
    f = [i \in 0 .. n |->
           IF i = 0 THEN <<>>
           ELSE IF rows[i] \in gone THEN f[i - 1] ELSE Append(f[i - 1], rows[i])]

LEMMA KeepingExists ==
  ASSUME NEW R, NEW rows \in Seq(R), NEW gone
  PROVE  \A n \in 0 .. Len(rows) : \E f : Keeping(f, rows, gone, n)
  <1> DEFINE T == {n \in 0 .. Len(rows) : ~\E f : Keeping(f, rows, gone, n)}
  <1>1. SUFFICES ASSUME T # {} PROVE FALSE
    OBVIOUS
  <1>2. T \subseteq Nat /\ Len(rows) \in Nat
    OBVIOUS
  <1>3. PICK m \in T : \A k \in T : m <= k
    BY <1>1, <1>2, LeastNat
  <1>4. m \in 0 .. Len(rows) /\ ~\E f : Keeping(f, rows, gone, m)
    OBVIOUS
  <1>5. CASE m = 0
    <2> DEFINE f == [i \in 0 .. 0 |-> <<>>]
    <2>1. f = [i \in 0 .. 0 |->
                 IF i = 0 THEN <<>>
                 ELSE IF rows[i] \in gone THEN f[i - 1] ELSE Append(f[i - 1], rows[i])]
      OBVIOUS
    <2>2. Keeping(f, rows, gone, m)
      BY <1>5, <2>1 DEF Keeping
    <2> QED  BY <1>4, <2>2
  <1>6. CASE m # 0
    <2>1. m - 1 \in 0 .. Len(rows) /\ m - 1 \in Nat /\ m \in Nat
      BY <1>2, <1>4, <1>6
    <2>2. m - 1 \notin T
      BY <1>3, <2>1
    <2>3. PICK g : Keeping(g, rows, gone, m - 1)
      BY <2>1, <2>2
    <2> HIDE DEF T
    <2> DEFINE f == [i \in 0 .. m |->
                       IF i = m THEN (IF rows[m] \in gone THEN g[m - 1] ELSE Append(g[m - 1], rows[m]))
                       ELSE g[i]]
    <2>4. \A i \in 0 .. m - 1 : /\ f[i] = g[i]
                                /\ g[i] = IF i = 0 THEN <<>>
                                          ELSE IF rows[i] \in gone THEN g[i - 1] ELSE Append(g[i - 1], rows[i])
      <3>1. \A i \in 0 .. m - 1 : f[i] = g[i]
        BY <2>1
      <3> HIDE DEF f
      <3>2. \A i \in 0 .. m - 1 : g[i] = IF i = 0 THEN <<>>
                                    ELSE IF rows[i] \in gone THEN g[i - 1] ELSE Append(g[i - 1], rows[i])
        BY <2>3 DEF Keeping
      <3> QED  BY <3>1, <3>2
    <2>5. f[m] = IF rows[m] \in gone THEN f[m - 1] ELSE Append(f[m - 1], rows[m])
      BY <1>6, <2>1
    <2>6. \A i \in 0 .. m : f[i] = IF i = 0 THEN <<>>
                                   ELSE IF rows[i] \in gone THEN f[i - 1] ELSE Append(f[i - 1], rows[i])
      <3> SUFFICES ASSUME NEW i \in 0 .. m
                   PROVE  f[i] = IF i = 0 THEN <<>>
                                 ELSE IF rows[i] \in gone THEN f[i - 1] ELSE Append(f[i - 1], rows[i])
        OBVIOUS
      <3>1. CASE i = m
        BY <1>6, <2>5, <3>1
      <3>2. CASE i # m
        <4>1. i \in 0 .. m - 1 /\ (i # 0 => i - 1 \in 0 .. m - 1)
          BY <2>1, <3>2
        <4> HIDE DEF f
        <4> QED  BY <2>4, <4>1
      <3> QED  BY <3>1, <3>2
    <2>7. f = [i \in 0 .. m |-> f[i]]
      OBVIOUS
    <2> HIDE DEF f
    <2>8. Keeping(f, rows, gone, m)
      BY <2>6, <2>7 DEF Keeping
    <2> QED  BY <1>4, <2>8
  <1> QED  BY <1>5, <1>6

LEMMA DroppingKeeps ==
  ASSUME NEW R, NEW rows \in Seq(R), NEW gone
  PROVE  \E f : Keeping(f, rows, gone, Len(rows)) /\ Dropping(rows, gone) = f[Len(rows)]
  <1> DEFINE g == CHOOSE f : f = [i \in 0 .. Len(rows) |->
                     IF i = 0 THEN <<>>
                     ELSE IF rows[i] \in gone THEN f[i - 1] ELSE Append(f[i - 1], rows[i])]
  <1>1. Dropping(rows, gone) = g[Len(rows)]
    BY DEF Dropping
  <1>2. \E f : Keeping(f, rows, gone, Len(rows))
    <2>1. Len(rows) \in 0 .. Len(rows)
      OBVIOUS
    <2> QED  BY <2>1, KeepingExists
  <1>3. Keeping(g, rows, gone, Len(rows))
    BY <1>2 DEF Keeping
  <1> QED  BY <1>1, <1>3

\* Dropping leaves the rows that are not gone, each as often as it was there.
LEMMA DroppingIs ==
  ASSUME NEW R, NEW rows \in Seq(R), NEW gone
  PROVE  /\ Dropping(rows, gone) \in Seq(R)
         /\ ToSet(Dropping(rows, gone)) = ToSet(rows) \ gone
         /\ IsInjective(rows) => IsInjective(Dropping(rows, gone))
  <1> DEFINE n == Len(rows)
             Some(i) == {rows[j] : j \in 1 .. i}
             Right(s, i) == /\ s \in Seq(R) /\ ToSet(s) = Some(i) \ gone
                            /\ IsInjective(rows) => IsInjective(s)
  <1>1. n \in Nat /\ \A i \in 1 .. n : rows[i] \in R
    OBVIOUS
  <1>2. PICK f : Keeping(f, rows, gone, n) /\ Dropping(rows, gone) = f[n]
    BY DroppingKeeps
  <1>3. \A i \in 0 .. n : f[i] = IF i = 0 THEN <<>>
                                 ELSE IF rows[i] \in gone THEN f[i - 1] ELSE Append(f[i - 1], rows[i])
    BY <1>2 DEF Keeping
  <1>4. Right(f[0], 0)
    <2>1. f[0] = <<>>
      BY <1>1, <1>3
    <2> QED  BY <2>1 DEF ToSet, IsInjective
  <1>5. ASSUME NEW i \in 1 .. n, Right(f[i - 1], i - 1)
        PROVE  Right(f[i], i)
    <2>1. Some(i) = Some(i - 1) \cup {rows[i]}
      BY <1>1
    <2>2. CASE rows[i] \in gone
      BY <1>3, <1>5, <2>1, <2>2
    <2>3. CASE rows[i] \notin gone
      <3> DEFINE s == f[i - 1]
      <3>1. s \in Seq(R) /\ rows[i] \in R /\ f[i] = Append(s, rows[i]) /\ ToSet(s) = Some(i - 1) \ gone
        <4>1. s \in Seq(R) /\ ToSet(s) = Some(i - 1) \ gone
          BY <1>5
        <4>2. rows[i] \in R
          BY <1>1
        <4>3. f[i] = Append(s, rows[i])
          <5> HIDE DEF n, Some, Right
          <5>1. i \in 0 .. n /\ i # 0
            BY <1>1
          <5>2. f[i] = IF rows[i] \in gone THEN f[i - 1] ELSE Append(f[i - 1], rows[i])
            BY <1>3, <5>1
          <5> QED  BY <2>3, <5>2
        <4> QED  BY <4>1, <4>2, <4>3
      <3> HIDE DEF s
      <3>2. /\ Len(s) \in Nat /\ f[i] \in Seq(R) /\ Len(f[i]) = Len(s) + 1
            /\ f[i][Len(s) + 1] = rows[i] /\ \A j \in 1 .. Len(s) : f[i][j] = s[j]
        BY <3>1
      <3>3. DOMAIN f[i] = 1 .. Len(s) + 1 /\ DOMAIN s = 1 .. Len(s)
        BY <3>1, <3>2
      <3>4. ToSet(f[i]) = ToSet(s) \cup {rows[i]}
        BY <3>2, <3>3 DEF ToSet
      <3>5. ASSUME IsInjective(rows)
            PROVE  IsInjective(f[i])
        <4>1. rows[i] \notin ToSet(s)
          <5>1. \A j \in 1 .. i - 1 : rows[j] # rows[i]
            BY <1>1, <3>5 DEF IsInjective
          <5> QED  BY <3>1, <5>1
        <4>2. IsInjective(s)
          BY <1>5, <3>5 DEF s
        <4>3. \A j \in 1 .. Len(s) : s[j] # rows[i]
          BY <3>3, <4>1 DEF ToSet
        <4> QED  BY <3>2, <3>3, <4>2, <4>3 DEF IsInjective
      <3> QED  BY <2>1, <2>3, <3>1, <3>2, <3>4, <3>5
    <2> QED  BY <2>2, <2>3
  <1> DEFINE T == {i \in 0 .. n : ~Right(f[i], i)}
  <1>6. T = {}
    <2> HIDE DEF Right
    <2>1. SUFFICES ASSUME T # {} PROVE FALSE
      OBVIOUS
    <2>2. T \subseteq Nat
      BY <1>1
    <2>3. PICK m \in T : \A k \in T : m <= k
      BY <2>1, <2>2, LeastNat
    <2>4. m \in 1 .. n
      BY <1>1, <1>4, <2>3
    <2>5. m - 1 \in 0 .. n /\ m - 1 \notin T
      BY <1>1, <2>3, <2>4
    <2> QED  BY <1>5, <2>3, <2>4, <2>5
  <1>7. Right(f[n], n)
    <2> HIDE DEF Right
    <2>1. n \in 0 .. n
      BY <1>1
    <2> QED  BY <1>6, <2>1
  <1>8. Some(n) = ToSet(rows)
    BY DEF ToSet
  <1> QED  BY <1>2, <1>7, <1>8

-----------------------------------------------------------------------------
Row == [name : ProfileNames, value : Settings \cup {Missing, "cleared"}, key : KeyDirs \cup {Missing}]
ObjectFiles == [active : ProfileNames, rows : Seq(Row)]

Connections(c) == c \subseteq Row /\ ~Twice(c)

Objects(o) ==
    /\ o \in ObjectFiles /\ Len(o.rows) >= 1
    /\ IsInjective(o.rows) /\ ~Twice(ToSet(o.rows))
    /\ \E row \in ToSet(o.rows) : row.name = o.active

\* The key files that rows name are there.
Keyed(rows, keys) == \A row \in rows : row.key # Missing => keys[row.key] # Missing

EditRecords ==
    [work : AllEditWorks \cup {"none"},
     at : {"idle", "load", "make", "key", "check", "write", "oci_key", "oci_config"},
     name : ProfileNames, value : Settings \cup {Missing}, upload : BOOLEAN,
     snapshot : {Missing} \cup (SUBSET Row) \cup ObjectFiles]

ConnectionWorks == {"save", "delete", "password"}
ObjectWorks == {"store", "activate", "remove"}

\* What a request has read and written, when these are the key files.
EditOK(r, keys, oci) ==
    /\ r \in EditRecords
    /\ r.at # "idle" => r.value \in Settings
    /\ r.at \in {"load", "make", "key", "check", "write"} => r.work \in ConnectionWorks \cup ObjectWorks
    /\ r.at \in {"key", "check"} => r.work = "save"
    /\ r.at \in {"key", "check", "write"} =>
          /\ r.work \in ConnectionWorks => Connections(r.snapshot) /\ Keyed(r.snapshot, keys)
          /\ r.work \in ObjectWorks => Objects(r.snapshot)
    /\ r.at \in {"check", "write"} /\ r.work = "save" /\ r.upload => keys[KeyDirOf[r.name]] # Missing
    /\ r.at = "oci_config" => oci[r.name].key # Missing

KeyFiles == [KeyDirs -> Settings \cup {Missing}]
OciFiles == [ProfileNames -> [key : Settings \cup {Missing}, config : Settings \cup {Missing}]]

StoresInv ==
    /\ sshKeys \in KeyFiles /\ ociFiles \in OciFiles
    /\ \A n \in ProfileNames : ociFiles[n].config # Missing => ociFiles[n].key # Missing
    /\ connections # Missing => Connections(connections) /\ Keyed(connections, sshKeys)
    /\ objects # Missing => Objects(objects)
    /\ editor \in [Editors -> EditRecords]
    /\ \A e \in Editors : EditOK(editor[e], sshKeys, ociFiles)

HIDE SchemaAssumption
USE EditAssumption

LEMMA NoEditIsOK ==
  ASSUME NEW keys, NEW oci
  PROVE  EditOK(NoEdit, keys, oci)
  <1>1. NoEdit \in EditRecords /\ NoEdit.at = "idle"
    BY DEF NoEdit, EditRecords
  <1> QED  BY <1>1 DEF EditOK

\* Key files are replaced, never removed.
LEMMA KeysStay ==
  ASSUME NEW r, NEW keys, NEW oci, NEW keys2, NEW oci2, EditOK(r, keys, oci),
         \A d \in KeyDirs : keys[d] # Missing => keys2[d] # Missing,
         \A n \in ProfileNames : oci[n].key # Missing => oci2[n].key # Missing
  PROVE  EditOK(r, keys2, oci2)
  <1>1. r.name \in ProfileNames /\ KeyDirOf[r.name] \in KeyDirs
    BY DEF EditOK, EditRecords, KeyDirs
  <1>2. ASSUME NEW rows, Connections(rows), Keyed(rows, keys)
        PROVE  Keyed(rows, keys2)
    BY <1>2 DEF Connections, Keyed, Row
  <1> QED  BY <1>1, <1>2 DEF EditOK

LEMMA StoresBegin == ASSUME StoresInit PROVE StoresInv
  <1>1. editor \in [Editors -> EditRecords]
    BY DEF StoresInit, NoEdit, EditRecords
  <1>2. \A e \in Editors : EditOK(editor[e], sshKeys, ociFiles)
    BY NoEditIsOK DEF StoresInit
  <1> QED  BY <1>1, <1>2 DEF StoresInit, StoresInv, KeyFiles, OciFiles

\* A step of e that writes no file.
LEMMA EditorMoves ==
  ASSUME StoresInv, NEW e \in Editors, UNCHANGED storeFiles, NEW r,
         EditOK(r, sshKeys, ociFiles), editor' = [editor EXCEPT ![e] = r]
  PROVE  StoresInv'
  <1>1. r \in EditRecords
    BY DEF EditOK
  <1>2. \A a \in Editors : EditOK(editor'[a], sshKeys, ociFiles)
    BY DEF StoresInv
  <1>3. editor' \in [Editors -> EditRecords]
    BY <1>1 DEF StoresInv
  <1> QED  BY <1>2, <1>3 DEF StoresInv, storeFiles

LEMMA ForgetKeeps ==
  ASSUME StoresInv, NEW e \in Editors, UNCHANGED storeFiles, Forget(e)
  PROVE  StoresInv'
  BY NoEditIsOK, EditorMoves DEF Forget

\* A step of e to another point.
LEMMA MoveKeeps ==
  ASSUME StoresInv, NEW e \in Editors, UNCHANGED storeFiles, NEW from, NEW to, Move(e, from, to),
         \/ from = "load" /\ to = "make"
         \/ from = "key" /\ to = "check" /\ ~editor[e].upload
         \/ from = "check" /\ to = "write"
  PROVE  StoresInv'
  <1> DEFINE r == [editor[e] EXCEPT !.at = to]
  <1>1. EditOK(editor[e], sshKeys, ociFiles) /\ editor[e] \in EditRecords /\ editor[e].at = from
    BY DEF StoresInv, Move
  <1>2. /\ r \in EditRecords /\ r.at = to /\ r.work = editor[e].work /\ r.name = editor[e].name
        /\ r.value = editor[e].value /\ r.upload = editor[e].upload /\ r.snapshot = editor[e].snapshot
    BY <1>1 DEF EditRecords
  <1>3. editor' = [editor EXCEPT ![e] = r]
    BY DEF Move
  <1> HIDE DEF r
  <1>4. EditOK(r, sshKeys, ociFiles)
    BY <1>1, <1>2 DEF EditOK, ConnectionWorks, ObjectWorks
  <1> QED  BY <1>3, <1>4, EditorMoves

LEMMA StartKeeps ==
  ASSUME StoresInv, NEW e \in Editors, AnyEdit(e)
  PROVE  StoresInv'
  <1>1. PICK work \in EditWorks, name \in ProfileNames, value \in Settings, upload \in BOOLEAN :
           StartEdit(e, work, name, value, upload)
    BY DEF AnyEdit
  <1> DEFINE r == [NoEdit EXCEPT !.work = work, !.name = name, !.value = value, !.upload = upload,
                                 !.at = IF work = "oci" THEN "oci_key" ELSE "load"]
  <1>2. work \in AllEditWorks
    OBVIOUS
  <1>3. /\ r \in EditRecords /\ r.at = (IF work = "oci" THEN "oci_key" ELSE "load")
        /\ r.work = work /\ r.value = value
    BY <1>2 DEF NoEdit, EditRecords
  <1>4. editor' = [editor EXCEPT ![e] = r] /\ UNCHANGED storeFiles
    BY <1>1 DEF StartEdit
  <1> HIDE DEF r
  <1>5. EditOK(r, sshKeys, ociFiles)
    BY <1>2, <1>3 DEF EditOK, AllEditWorks, ConnectionWorks, ObjectWorks
  <1> QED  BY <1>4, <1>5, EditorMoves

LEMMA LoadKeeps ==
  ASSUME StoresInv, NEW e \in Editors, LoadStore(e)
  PROVE  StoresInv'
  <1> DEFINE file == FileOf(editor[e].work)
             to == IF editor[e].work = "save" THEN "key" ELSE "write"
             r == [editor[e] EXCEPT !.snapshot = file, !.at = to]
  <1>1. /\ EditOK(editor[e], sshKeys, ociFiles) /\ editor[e] \in EditRecords /\ editor[e].at = "load"
        /\ file # Missing
    BY DEF StoresInv, LoadStore
  <1>2. editor[e].work \in ConnectionWorks \cup ObjectWorks
    BY <1>1 DEF EditOK
  <1>3. /\ editor[e].work \in ConnectionWorks => Connections(file) /\ Keyed(file, sshKeys)
        /\ editor[e].work \in ObjectWorks => Objects(file)
    BY <1>1, <1>2 DEF FileOf, StoreOf, ConnectionWorks, ObjectWorks, StoresInv
  <1>4. file \in (SUBSET Row) \cup ObjectFiles
    BY <1>2, <1>3 DEF Connections, Objects
  <1> HIDE DEF file
  <1>5. /\ r \in EditRecords /\ r.at = to /\ r.work = editor[e].work /\ r.value = editor[e].value
        /\ r.snapshot = file
    BY <1>1, <1>4 DEF EditRecords
  <1>6. editor' = [editor EXCEPT ![e] = r] /\ UNCHANGED storeFiles
    BY <1>1 DEF LoadStore, file, StoresInv
  <1> HIDE DEF r
  <1>7. EditOK(r, sshKeys, ociFiles)
    BY <1>1, <1>2, <1>3, <1>5 DEF EditOK
  <1> QED  BY <1>6, <1>7, EditorMoves

\* A step that writes files: what the others know of them stays true.
LEMMA WriterSteps ==
  ASSUME StoresInv, NEW e \in Editors, NEW r, editor' = [editor EXCEPT ![e] = r],
         NEW keys \in KeyFiles, NEW oci \in OciFiles, sshKeys' = keys, ociFiles' = oci,
         \A d \in KeyDirs : sshKeys[d] # Missing => keys[d] # Missing,
         \A n \in ProfileNames : ociFiles[n].key # Missing => oci[n].key # Missing,
         \A n \in ProfileNames : oci[n].config # Missing => oci[n].key # Missing,
         EditOK(r, keys, oci),
         connections' # Missing => Connections(connections') /\ Keyed(connections', keys),
         objects' # Missing => Objects(objects')
  PROVE  StoresInv'
  <1>1. r \in EditRecords
    BY DEF EditOK
  <1>2. \A a \in Editors : EditOK(editor[a], keys, oci)
    <2>1. \A a \in Editors : EditOK(editor[a], sshKeys, ociFiles)
      BY DEF StoresInv
    <2> QED  BY <2>1, KeysStay
  <1>3. \A a \in Editors : EditOK(editor'[a], keys, oci)
    BY <1>2 DEF StoresInv
  <1>4. editor' \in [Editors -> EditRecords]
    BY <1>1 DEF StoresInv
  <1> QED  BY <1>3, <1>4 DEF StoresInv

\* A step that writes a store, but no key.
LEMMA StoreSteps ==
  ASSUME StoresInv, NEW e \in Editors, NEW r, editor' = [editor EXCEPT ![e] = r],
         UNCHANGED <<sshKeys, ociFiles>>, EditOK(r, sshKeys, ociFiles),
         connections' = connections \/ (Connections(connections') /\ Keyed(connections', sshKeys)),
         objects' = objects \/ Objects(objects')
  PROVE  StoresInv'
  <1>1. /\ sshKeys \in KeyFiles /\ ociFiles \in OciFiles
        /\ \A n \in ProfileNames : ociFiles[n].config # Missing => ociFiles[n].key # Missing
        /\ connections # Missing => Connections(connections) /\ Keyed(connections, sshKeys)
        /\ objects # Missing => Objects(objects)
    BY DEF StoresInv
  <1>2. /\ sshKeys' = sshKeys /\ ociFiles' = ociFiles
        /\ connections' # Missing => Connections(connections') /\ Keyed(connections', sshKeys)
        /\ objects' # Missing => Objects(objects')
    BY <1>1
  <1> QED  BY <1>1, <1>2, WriterSteps

LEMMA NewStores ==
  /\ Connections({}) /\ \A keys : Keyed({}, keys)
  /\ Objects([active |-> DefaultName, rows |-> <<EmptyDefault>>])
  /\ ToSet(<<EmptyDefault>>) = {EmptyDefault}
  <1>1. Connections({}) /\ \A keys : Keyed({}, keys)
    BY DEF Connections, Twice, Keyed
  <1> DEFINE s == <<EmptyDefault>>
             o == [active |-> DefaultName, rows |-> s]
  <1>2. EmptyDefault \in Row /\ EmptyDefault.name = DefaultName
    BY DEF EmptyDefault, ProfileRow, Row
  <1>3. s \in Seq(Row) /\ Len(s) = 1 /\ IsInjective(s) /\ ToSet(s) = {EmptyDefault}
    BY <1>2 DEF IsInjective, ToSet
  <1> HIDE DEF s
  <1>4. o \in ObjectFiles /\ o.active = DefaultName /\ o.rows = s
    BY <1>3 DEF ObjectFiles
  <1> HIDE DEF o
  <1>5. Objects(o)
    BY <1>2, <1>3, <1>4 DEF Objects, Twice
  <1> QED  BY <1>1, <1>3, <1>5 DEF o, s

LEMMA MakeKeeps ==
  ASSUME StoresInv, NEW e \in Editors, MakeStore(e)
  PROVE  StoresInv'
  <1> DEFINE r == [editor[e] EXCEPT !.at = "load"]
  <1>1. EditOK(editor[e], sshKeys, ociFiles) /\ editor[e] \in EditRecords /\ editor[e].at = "make"
    BY DEF StoresInv, MakeStore, Move
  <1>2. r \in EditRecords /\ r.at = "load" /\ r.work = editor[e].work /\ r.value = editor[e].value
    BY <1>1 DEF EditRecords
  <1>3. editor' = [editor EXCEPT ![e] = r] /\ UNCHANGED <<sshKeys, ociFiles>>
    BY DEF MakeStore, Move
  <1> HIDE DEF r
  <1>4. EditOK(r, sshKeys, ociFiles)
    BY <1>1, <1>2 DEF EditOK
  <1>5. /\ connections' = connections \/ connections' = {}
        /\ objects' = objects \/ objects' = [active |-> DefaultName, rows |-> <<EmptyDefault>>]
    BY DEF MakeStore
  <1>6. /\ connections' = connections \/ (Connections(connections') /\ Keyed(connections', sshKeys))
        /\ objects' = objects \/ Objects(objects')
    <2>1. Connections({}) /\ Keyed({}, sshKeys)
      BY NewStores
    <2> DEFINE o == [active |-> DefaultName, rows |-> <<EmptyDefault>>]
    <2>2. Objects(o) /\ (objects' = objects \/ objects' = o)
      BY <1>5, NewStores
    <2> HIDE DEF o
    <2> QED  BY <1>5, <2>1, <2>2
  <1> QED  BY <1>3, <1>4, <1>6, StoreSteps

LEMMA UploadKeeps ==
  ASSUME StoresInv, NEW e \in Editors, UploadKey(e)
  PROVE  StoresInv'
  <1> DEFINE r == [editor[e] EXCEPT !.at = "check"]
             keys == [sshKeys EXCEPT ![KeyDirOf[editor[e].name]] = editor[e].value]
  <1>1. /\ EditOK(editor[e], sshKeys, ociFiles) /\ editor[e] \in EditRecords /\ editor[e].at = "key"
        /\ editor[e].work = "save" /\ editor[e].value \in Settings /\ editor[e].name \in ProfileNames
    BY DEF StoresInv, UploadKey, Move, EditOK, EditRecords
  <1>2. /\ r \in EditRecords /\ r.at = "check" /\ r.work = "save" /\ r.name = editor[e].name
        /\ r.value = editor[e].value /\ r.snapshot = editor[e].snapshot
    BY <1>1 DEF EditRecords
  <1>3. /\ editor' = [editor EXCEPT ![e] = r] /\ sshKeys' = keys
        /\ UNCHANGED <<connections, objects, ociFiles>>
    BY DEF UploadKey, Move
  <1>4. /\ keys \in KeyFiles /\ keys[KeyDirOf[editor[e].name]] # Missing
        /\ \A d \in KeyDirs : sshKeys[d] # Missing => keys[d] # Missing
    <2>1. sshKeys \in KeyFiles /\ KeyDirOf[editor[e].name] \in KeyDirs /\ editor[e].value # Missing
      BY <1>1 DEF StoresInv, KeyDirs
    <2> QED  BY <1>1, <2>1 DEF KeyFiles
  <1> HIDE DEF r, keys
  <1>5. EditOK(r, keys, ociFiles)
    BY <1>1, <1>2, <1>4 DEF EditOK, Keyed, Connections, Row, ConnectionWorks, ObjectWorks
  <1>6. /\ ociFiles \in OciFiles
        /\ \A n \in ProfileNames : ociFiles[n].config # Missing => ociFiles[n].key # Missing
        /\ connections' # Missing => Connections(connections') /\ Keyed(connections', keys)
        /\ objects' # Missing => Objects(objects')
    BY <1>3, <1>4 DEF StoresInv, Keyed, Connections, Row
  <1> QED  BY <1>3, <1>4, <1>5, <1>6, WriterSteps

LEMMA OciKeyKeeps ==
  ASSUME StoresInv, NEW e \in Editors, WriteOciKey(e)
  PROVE  StoresInv'
  <1> DEFINE r == [editor[e] EXCEPT !.at = "oci_config"]
             name == editor[e].name
             oci == IF editor[e].upload THEN [ociFiles EXCEPT ![name].key = editor[e].value] ELSE ociFiles
  <1>1. /\ EditOK(editor[e], sshKeys, ociFiles) /\ editor[e] \in EditRecords /\ editor[e].at = "oci_key"
        /\ editor[e].value \in Settings /\ name \in ProfileNames
    BY DEF StoresInv, WriteOciKey, Move, EditOK, EditRecords
  <1>2. /\ r \in EditRecords /\ r.at = "oci_config" /\ r.name = name /\ r.value = editor[e].value
    BY <1>1 DEF EditRecords
  <1>3. /\ editor' = [editor EXCEPT ![e] = r] /\ ociFiles' = oci
        /\ editor[e].upload \/ ociFiles[name].key # Missing
        /\ UNCHANGED <<connections, objects, sshKeys>>
    BY DEF WriteOciKey, Move
  <1>4. /\ ociFiles \in OciFiles /\ editor[e].value # Missing
        /\ \A n \in ProfileNames : ociFiles[n].config # Missing => ociFiles[n].key # Missing
    BY <1>1 DEF StoresInv
  <1>5. /\ oci \in OciFiles /\ oci[name].key # Missing
        /\ \A n \in ProfileNames : oci[n].config = ociFiles[n].config
        /\ \A n \in ProfileNames : ociFiles[n].key # Missing => oci[n].key # Missing
    <2>1. CASE editor[e].upload
      <3>1. oci = [ociFiles EXCEPT ![name].key = editor[e].value]
        BY <2>1
      <3>2. oci \in OciFiles
        BY <1>1, <1>4, <3>1 DEF OciFiles
      <3>3. /\ oci[name].key = editor[e].value /\ oci[name].config = ociFiles[name].config
            /\ \A n \in ProfileNames : n # name => oci[n] = ociFiles[n]
        BY <1>1, <1>4, <3>1 DEF OciFiles
      <3> QED  BY <1>4, <3>2, <3>3
    <2>2. CASE ~editor[e].upload
      BY <1>3, <1>4, <2>2
    <2> QED  BY <2>1, <2>2
  <1> HIDE DEF r, oci
  <1>6. EditOK(r, sshKeys, oci)
    BY <1>1, <1>2, <1>5 DEF EditOK
  <1>7. /\ sshKeys \in KeyFiles
        /\ connections' # Missing => Connections(connections') /\ Keyed(connections', sshKeys)
        /\ objects' # Missing => Objects(objects')
    BY <1>3 DEF StoresInv
  <1> QED  BY <1>3, <1>4, <1>5, <1>6, <1>7, WriterSteps

LEMMA OciConfigKeeps ==
  ASSUME StoresInv, NEW e \in Editors, WriteOciConfig(e)
  PROVE  StoresInv'
  <1> DEFINE name == editor[e].name
             oci == [ociFiles EXCEPT ![name].config = editor[e].value]
  <1>1. /\ EditOK(editor[e], sshKeys, ociFiles) /\ editor[e].at = "oci_config"
        /\ editor[e].value \in Settings /\ name \in ProfileNames /\ ociFiles[name].key # Missing
    BY DEF StoresInv, WriteOciConfig, Move, EditOK, EditRecords
  <1>2. /\ editor' = [editor EXCEPT ![e] = NoEdit] /\ ociFiles' = oci
        /\ UNCHANGED <<connections, objects, sshKeys>>
    BY DEF WriteOciConfig, Forget
  <1>3. /\ ociFiles \in OciFiles
        /\ \A n \in ProfileNames : ociFiles[n].config # Missing => ociFiles[n].key # Missing
    BY DEF StoresInv
  <1>4. /\ oci \in OciFiles /\ oci[name].key = ociFiles[name].key
        /\ \A n \in ProfileNames : n # name => oci[n] = ociFiles[n]
    BY <1>1, <1>3 DEF OciFiles
  <1> HIDE DEF oci
  <1>5. /\ sshKeys \in KeyFiles
        /\ connections' # Missing => Connections(connections') /\ Keyed(connections', sshKeys)
        /\ objects' # Missing => Objects(objects')
    BY <1>2 DEF StoresInv
  <1>6. /\ \A n \in ProfileNames : ociFiles[n].key # Missing => oci[n].key # Missing
        /\ \A n \in ProfileNames : oci[n].config # Missing => oci[n].key # Missing
        /\ sshKeys' = sshKeys
    BY <1>1, <1>2, <1>3, <1>4
  <1>7. EditOK(NoEdit, sshKeys, oci)
    BY NoEditIsOK
  <1> QED  BY <1>2, <1>4, <1>5, <1>6, <1>7, WriterSteps

-----------------------------------------------------------------------------
(* What an edit makes of the rows it has read.                              *)

LEMMA FoldedTwice ==
  ASSUME NEW n \in ProfileNames
  PROVE  FoldedName[n] \in Keys /\ FoldedName[n] \in ProfileNames /\ SameName(n, FoldedName[n])
  BY DEF Keys, SameName

LEMMA DedupedIs ==
  ASSUME NEW rows, Connections(rows), NEW row \in Row
  PROVE  Connections(Deduped(rows, row))
  BY DEF Connections, Twice, Deduped, SameName

LEMMA ChangedConnectionsAre ==
  ASSUME StoresInv, NEW e \in Editors, editor[e].at = "write", editor[e].work \in ConnectionWorks
  PROVE  Connections(ChangedConnections(e)) /\ Keyed(ChangedConnections(e), sshKeys)
  <1> DEFINE r == editor[e]
             rows == r.snapshot
             name == r.name
             path == KeyPath(e, rows)
             row == ProfileRow(name, r.value, path)
  <1>1. /\ EditOK(r, sshKeys, ociFiles) /\ Connections(rows) /\ Keyed(rows, sshKeys)
        /\ name \in ProfileNames /\ r.value \in Settings
    BY DEF StoresInv, EditOK, EditRecords
  <1>2. CASE r.work = "save"
    <2>1. ChangedConnections(e) = Deduped(rows, row)
      BY <1>2 DEF ChangedConnections
    <2>2. path \in KeyDirs \cup {Missing} /\ (path # Missing => sshKeys[path] # Missing)
      <3>1. CASE r.upload
        BY <1>1, <1>2, <3>1 DEF KeyPath, EditOK, KeyDirs
      <3>2. CASE ~r.upload /\ Has(rows, name)
        <4>1. The(rows, name) \in rows
          BY <3>2 DEF Has, The
        <4>2. path = The(rows, name).key
          BY <3>2 DEF KeyPath
        <4> QED  BY <1>1, <4>1, <4>2 DEF Connections, Keyed, Row
      <3>3. CASE ~r.upload /\ ~Has(rows, name)
        BY <3>3 DEF KeyPath
      <3> QED  BY <3>1, <3>2, <3>3
    <2> HIDE DEF path
    <2>3. row \in Row /\ row.key = path
      BY <1>1, <2>2 DEF ProfileRow, Row
    <2> HIDE DEF row
    <2>4. Connections(Deduped(rows, row))
      BY <1>1, <2>3, DedupedIs
    <2>5. Keyed(Deduped(rows, row), sshKeys)
      BY <1>1, <2>2, <2>3 DEF Keyed, Deduped
    <2> QED  BY <2>1, <2>4, <2>5
  <1>3. CASE r.work = "delete"
    <2>1. ChangedConnections(e) = {old \in rows : ~SameName(old.name, name)}
      BY <1>3 DEF ChangedConnections
    <2> QED  BY <1>1, <2>1 DEF Connections, Keyed, Twice
  <1>4. CASE r.work = "password"
    <2> DEFINE New(old) == IF old.name = LocalAdmin THEN [old EXCEPT !.value = "cleared"] ELSE old
    <2>1. ChangedConnections(e) = {New(old) : old \in rows}
      BY <1>4 DEF ChangedConnections
    <2>2. \A old \in rows : New(old) \in Row /\ New(old).name = old.name /\ New(old).key = old.key
      BY <1>1 DEF Connections, Row
    <2> HIDE DEF New
    <2> QED  BY <1>1, <2>1, <2>2 DEF Connections, Keyed, Twice, SameName
  <1> QED  BY <1>2, <1>3, <1>4 DEF ConnectionWorks

LEMMA SetOfRows ==
  ASSUME NEW s \in Seq(Row)
  PROVE  /\ ToSet(s) \subseteq Row /\ (Len(s) >= 1 => s[1] \in ToSet(s))
         /\ (ToSet(s) # {} => Len(s) >= 1)
  BY DEF ToSet

\* Normalizing rows that are right makes a file that is.
LEMMA NormalizedIs ==
  ASSUME NEW active \in ProfileNames, NEW s \in Seq(Row), ToSet(s) # {},
         IsInjective(s), ~Twice(ToSet(s))
  PROVE  Objects(Normalized(active, s)) /\ Normalized(active, s).rows = s
  <1> DEFINE name == IF Has(ToSet(s), active) THEN The(ToSet(s), active).name ELSE s[1].name
             o == [active |-> name, rows |-> s]
  <1>1. \E row \in ToSet(s) : row.name = name
    <2>1. CASE Has(ToSet(s), active)
      <3>1. The(ToSet(s), active) \in ToSet(s)
        BY <2>1 DEF Has, The
      <3> QED  BY <2>1, <3>1
    <2>2. CASE ~Has(ToSet(s), active)
      BY <2>2, SetOfRows
    <2> QED  BY <2>1, <2>2
  <1>2. Normalized(active, s) = o
    BY DEF Normalized
  <1> HIDE DEF name
  <1>3. name \in ProfileNames
    BY <1>1, SetOfRows DEF Row
  <1>4. o \in ObjectFiles /\ o.active = name /\ o.rows = s
    BY <1>3 DEF ObjectFiles
  <1> HIDE DEF o
  <1> QED  BY <1>1, <1>2, <1>4, SetOfRows DEF Objects

\* Without rows: the others, in their order.
LEMMA WithoutIs ==
  ASSUME NEW s \in Seq(Row), NEW name
  PROVE  /\ Without(s, name) \in Seq(Row)
         /\ ToSet(Without(s, name)) = {row \in ToSet(s) : ~SameName(row.name, name)}
         /\ IsInjective(s) => IsInjective(Without(s, name))
  BY DroppingIs DEF Without

\* What save_object_storage_config, activate and delete make of the rows.
ChangedRows(rows, r) ==
    CASE r.work = "store" ->
           {row \in rows : /\ ~SameName(row.name, r.name)
                           /\ row # EmptyDefault \/ SameName(r.name, DefaultName)}
           \cup {ProfileRow(r.name, r.value, Missing)}
      [] r.work = "activate" -> rows
      [] OTHER -> {row \in rows : ~SameName(row.name, r.name)}

LEMMA ChangedObjectsAre ==
  ASSUME StoresInv, NEW e \in Editors, editor[e].at = "write", editor[e].work \in ObjectWorks,
         ~RefusesEdit(e)
  PROVE  /\ Objects(ChangedObjects(e))
         /\ ToSet(ChangedObjects(e).rows) = ChangedRows(ToSet(editor[e].snapshot.rows), editor[e])
  <1> DEFINE r == editor[e]
             o == r.snapshot
             s == o.rows
             name == r.name
             without == Without(s, name)
  <1>1. Objects(o) /\ name \in ProfileNames /\ r.value \in Settings
    BY DEF StoresInv, EditOK, EditRecords, ConnectionWorks, ObjectWorks
  <1>2. /\ s \in Seq(Row) /\ IsInjective(s) /\ ~Twice(ToSet(s)) /\ ToSet(s) \subseteq Row
        /\ Len(s) \in Nat /\ Len(s) >= 1 /\ o.active \in ProfileNames /\ s[1] \in ToSet(s)
    <2>1. s \in Seq(Row)
      BY <1>1 DEF Objects, ObjectFiles
    <2> QED  BY <1>1, <2>1, SetOfRows DEF Objects, ObjectFiles
  <1>3. /\ without \in Seq(Row) /\ IsInjective(without)
        /\ ToSet(without) = {row \in ToSet(s) : ~SameName(row.name, name)}
    BY <1>2, WithoutIs
  <1>4. CASE r.work = "activate"
    <2>1. ChangedObjects(e) = Normalized(name, s)
      BY <1>4 DEF ChangedObjects
    <2>2. ChangedRows(ToSet(s), r) = ToSet(s)
      BY <1>4 DEF ChangedRows
    <2> QED  BY <1>1, <1>2, <2>1, <2>2, NormalizedIs
  <1>5. CASE r.work = "remove"
    <2> DEFINE active == IF SameName(o.active, name) THEN without[1].name ELSE o.active
    <2>1. ChangedObjects(e) = Normalized(active, without)
      BY <1>5 DEF ChangedObjects
    <2>2. ChangedRows(ToSet(s), r) = ToSet(without)
      BY <1>3, <1>5 DEF ChangedRows
    <2>3. ToSet(without) # {} /\ ~Twice(ToSet(without))
      <3>1. Len(s) >= 2
        <4> DEFINE n == Len(s)
        <4>1. n # 1
          BY <1>5 DEF RefusesEdit
        <4>2. n \in Nat /\ n >= 1
          BY <1>2
        <4> HIDE DEF n
        <4>3. n >= 2
          BY <4>1, <4>2
        <4> QED  BY <4>3 DEF n
      <3>2. s[1] \in ToSet(s) /\ s[2] \in ToSet(s) /\ s[1] # s[2]
        BY <1>2, <3>1 DEF ToSet, IsInjective
      <3>3. ~(SameName(s[1].name, name) /\ SameName(s[2].name, name))
        BY <1>2, <3>2 DEF Twice, SameName
      <3> QED  BY <1>2, <1>3, <3>2, <3>3 DEF Twice
    <2>4. active \in ProfileNames
      BY <1>2, <1>3, <2>3, SetOfRows DEF Row
    <2> HIDE DEF active, without
    <2> QED  BY <1>3, <2>1, <2>2, <2>3, <2>4, NormalizedIs
  <1>6. CASE r.work = "store"
    <2> DEFINE gone == IF SameName(name, DefaultName) THEN {} ELSE {EmptyDefault}
               others == Dropping(without, gone)
               row == ProfileRow(name, r.value, Missing)
               all == Append(others, row)
    <2>1. ChangedObjects(e) = Normalized(name, all)
      BY <1>6 DEF ChangedObjects
    <2>2. /\ others \in Seq(Row) /\ ToSet(others) = ToSet(without) \ gone /\ IsInjective(others)
      BY <1>3, DroppingIs
    <2>3. row \in Row /\ row.name = name
      BY <1>1 DEF ProfileRow, Row
    <2>4. ChangedRows(ToSet(s), r) = ToSet(others) \cup {row}
      BY <1>3, <1>6, <2>2 DEF ChangedRows
    <2> HIDE DEF others, row, gone, without
    <2>5. /\ Len(others) \in Nat /\ all \in Seq(Row) /\ Len(all) = Len(others) + 1
          /\ all[Len(others) + 1] = row /\ \A j \in 1 .. Len(others) : all[j] = others[j]
          /\ DOMAIN all = 1 .. Len(others) + 1 /\ DOMAIN others = 1 .. Len(others)
      BY <2>2, <2>3
    <2> HIDE DEF all
    <2>6. ToSet(all) = ToSet(others) \cup {row}
      BY <2>5 DEF ToSet
    <2>7. \A other \in ToSet(others) : ~SameName(other.name, name) /\ other \in ToSet(s)
      BY <1>3, <2>2
    <2>8. ~Twice(ToSet(all))
      BY <1>2, <2>3, <2>6, <2>7 DEF Twice, SameName
    <2>9. IsInjective(all)
      <3>1. \A j \in 1 .. Len(others) : others[j] # row
        <4>1. \A j \in 1 .. Len(others) : others[j] \in ToSet(others)
          BY <2>5 DEF ToSet
        <4> QED  BY <2>3, <2>7, <4>1 DEF SameName
      <3> QED  BY <2>2, <2>5, <3>1 DEF IsInjective
    <2>10. ToSet(all) # {} /\ all \in Seq(Row)
      BY <2>5, <2>6
    <2>11. Objects(Normalized(name, all)) /\ Normalized(name, all).rows = all
      BY <1>1, <2>8, <2>9, <2>10, NormalizedIs
    <2> QED  BY <2>1, <2>4, <2>6, <2>11
  <1> QED  BY <1>4, <1>5, <1>6 DEF ObjectWorks

LEMMA WriteKeeps ==
  ASSUME StoresInv, NEW e \in Editors, WriteStore(e)
  PROVE  StoresInv'
  <1>1. /\ editor[e].at = "write" /\ ~RefusesEdit(e) /\ UNCHANGED <<sshKeys, ociFiles>>
        /\ editor' = [editor EXCEPT ![e] = NoEdit]
    BY DEF WriteStore, Forget
  <1>2. editor[e].work \in ConnectionWorks \cup ObjectWorks
    BY <1>1 DEF StoresInv, EditOK
  <1>3. CASE editor[e].work \in ConnectionWorks
    <2>1. connections' = ChangedConnections(e) /\ objects' = objects
      BY <1>3 DEF WriteStore, StoreOf, ConnectionWorks
    <2>2. Connections(ChangedConnections(e)) /\ Keyed(ChangedConnections(e), sshKeys)
      BY <1>1, <1>3, ChangedConnectionsAre
    <2> QED  BY <1>1, <2>1, <2>2, NoEditIsOK, StoreSteps
  <1>4. CASE editor[e].work \in ObjectWorks
    <2>1. objects' = ChangedObjects(e) /\ connections' = connections
      BY <1>4 DEF WriteStore, StoreOf, ObjectWorks
    <2>2. Objects(ChangedObjects(e))
      BY <1>1, <1>4, ChangedObjectsAre
    <2> QED  BY <1>1, <2>1, <2>2, NoEditIsOK, StoreSteps
  <1> QED  BY <1>2, <1>3, <1>4

LEMMA StoresSteps ==
  ASSUME StoresInv, [StoresNext]_editVars
  PROVE  StoresInv'
  <1>1. ASSUME NEW e \in Editors, EditStep(e)
        PROVE  StoresInv'
    <2>1. CASE FindMissing(e)
      BY <2>1, MoveKeeps DEF FindMissing
    <2>2. CASE KeepKey(e)
      BY <2>2, MoveKeeps DEF KeepKey
    <2>3. CASE AcceptProfile(e)
      BY <2>3, MoveKeeps DEF AcceptProfile
    <2>4. CASE RefuseProfile(e) \/ RefuseEdit(e) \/ RefuseOci(e)
      BY <2>4, ForgetKeeps DEF RefuseProfile, RefuseEdit, RefuseOci
    <2> QED  BY <1>1, <2>1, <2>2, <2>3, <2>4, StartKeeps, MakeKeeps, LoadKeeps, UploadKeeps,
                WriteKeeps, OciKeyKeeps, OciConfigKeeps DEF EditStep
  <1>2. CASE EditsCutOff
    <2>1. editor' = [e \in Editors |-> NoEdit] /\ UNCHANGED storeFiles
      BY <1>2 DEF EditsCutOff
    <2>2. NoEdit \in EditRecords
      BY NoEditIsOK DEF EditOK
    <2>3. \A e \in Editors : EditOK(editor'[e], sshKeys, ociFiles)
      BY <2>1, NoEditIsOK
    <2>4. editor' \in [Editors -> EditRecords]
      BY <2>1, <2>2
    <2> QED  BY <2>1, <2>3, <2>4 DEF StoresInv, storeFiles
  <1>3. CASE UNCHANGED editVars
    BY <1>3 DEF editVars, storeFiles, StoresInv
  <1> QED  BY <1>1, <1>2, <1>3 DEF StoresNext

LEMMA FilesAreConsistent ==
  ASSUME StoresInv
  PROVE  FilesConsistent
  <1>1. KeyFilesThere
    BY DEF StoresInv, Keyed, KeyFilesThere
  <1>2. StoresConsistent
    BY DEF StoresInv, Connections, Objects, StoresConsistent
  <1> QED  BY <1>1, <1>2 DEF FilesConsistent

\* However edits overlap and wherever they are cut off, the active profile exists, no
\* name is in a store twice, and a key that a profile or a configuration names is there.
THEOREM FilesAlwaysConsistent == StoresSpec => []FilesConsistent
<1>1. StoresInit => StoresInv
  BY StoresBegin
<1>2. StoresInv /\ [StoresNext]_editVars => StoresInv'
  BY StoresSteps
<1>3. StoresInv => FilesConsistent
  BY FilesAreConsistent
<1> QED  BY <1>1, <1>2, <1>3, PTL DEF StoresSpec

-----------------------------------------------------------------------------
(* What the last answered edits say is in the files.                        *)

\* What stands for a file that is not there is none of the files that can be.
MissingIsNoFile == Missing \notin SUBSET Row /\ Missing \notin ObjectFiles

Values == Settings \cup {Missing, "cleared"}
StoreNames == {"connections", "objects"}
ConnectionRows == IF connections = Missing THEN {} ELSE connections
ObjectRows == IF objects = Missing THEN {} ELSE ToSet(objects.rows)

Kept(rows, values) == \A k \in Keys : ValueIn(rows, k) = values[k]

KeptInv ==
    /\ latest \in [StoreNames -> [Keys -> Values]] /\ raced \subseteq StoreNames
    /\ "connections" \notin raced => Kept(ConnectionRows, latest["connections"])
    /\ "objects" \notin raced => Kept(ObjectRows, latest["objects"])

LEMMA ValueIs ==
  ASSUME NEW rows, ~Twice(rows), NEW row \in rows, NEW k, SameName(row.name, k)
  PROVE  ValueIn(rows, k) = row.value
  <1>1. Has(rows, k)
    BY DEF Has
  <1>2. The(rows, k) \in rows /\ SameName(The(rows, k).name, k)
    BY DEF The
  <1>3. The(rows, k) = row
    BY <1>2 DEF Twice, SameName
  <1> QED  BY <1>1, <1>3 DEF ValueIn

\* Rows that agree on a name, but for one that says nothing, say the same of it.
LEMMA RowsAgree ==
  ASSUME NEW rows, NEW rows2, ~Twice(rows), ~Twice(rows2), NEW k,
         \A row \in rows2 : SameName(row.name, k) => row \in rows,
         \A row \in rows : SameName(row.name, k) => row \in rows2 \/ row.value = Missing
  PROVE  ValueIn(rows2, k) = ValueIn(rows, k)
  <1>1. CASE Has(rows2, k)
    <2>1. PICK row \in rows2 : SameName(row.name, k)
      BY <1>1 DEF Has
    <2> QED  BY <2>1, ValueIs
  <1>2. CASE ~Has(rows2, k) /\ Has(rows, k)
    <2>1. PICK row \in rows : SameName(row.name, k)
      BY <1>2 DEF Has
    <2>2. row.value = Missing
      BY <1>2, <2>1 DEF Has
    <2> QED  BY <1>2, <2>1, <2>2, ValueIs DEF ValueIn
  <1>3. CASE ~Has(rows2, k) /\ ~Has(rows, k)
    BY <1>3 DEF ValueIn
  <1> QED  BY <1>1, <1>2, <1>3

\* An edit that sets one name to one value, and leaves the rows of the others.
Edited(rows, rows2, n, v) ==
    /\ n \in ProfileNames /\ v \in Values
    /\ \A row \in rows2 : ~SameName(row.name, n) => row \in rows
    /\ \A row \in rows : ~SameName(row.name, n) => row \in rows2 \/ row.value = Missing
    /\ \/ \E row \in rows2 : SameName(row.name, n) /\ row.value = v
       \/ v = Missing /\ ~Has(rows2, n)

LEMMA EditedRows ==
  ASSUME NEW rows, NEW rows2, rows \subseteq Row, rows2 \subseteq Row, ~Twice(rows), ~Twice(rows2),
         NEW values \in [Keys -> Values], Kept(rows, values), NEW n, NEW v, Edited(rows, rows2, n, v)
  PROVE  Kept(rows2, [values EXCEPT ![FoldedName[n]] = v])
  <1> USE DEF Edited
  <1> DEFINE key == FoldedName[n]
  <1>1. key \in Keys /\ SameName(n, key)
    BY FoldedTwice
  <1>2. \A k \in Keys : k \in ProfileNames /\ FoldedName[k] = k
    BY DEF Keys
  <1>3. ValueIn(rows2, key) = v
    <2>1. CASE \E row \in rows2 : SameName(row.name, n) /\ row.value = v
      <3>1. PICK row \in rows2 : SameName(row.name, n) /\ row.value = v
        BY <2>1
      <3>2. SameName(row.name, key)
        BY <1>1, <3>1 DEF SameName
      <3> QED  BY <3>1, <3>2, ValueIs
    <2>2. CASE v = Missing /\ ~Has(rows2, n)
      <3>1. ~Has(rows2, key)
        BY <1>1, <2>2 DEF Has, SameName
      <3> QED  BY <2>2, <3>1 DEF ValueIn
    <2> QED  BY <2>1, <2>2
  <1>4. ASSUME NEW k \in Keys, k # key
        PROVE  ValueIn(rows2, k) = values[k]
    <2>1. \A row : SameName(row.name, k) => ~SameName(row.name, n)
      BY <1>2, <1>4 DEF SameName
    <2>2. ValueIn(rows2, k) = ValueIn(rows, k)
      BY <2>1, RowsAgree
    <2> QED  BY <2>2 DEF Kept
  <1> QED  BY <1>1, <1>3, <1>4 DEF Kept

LEMMA AddedRow ==
  ASSUME NEW rows, NEW row, row.name \in ProfileNames, row.value \in Values,
         NEW gone, \A old \in gone : SameName(old.name, row.name) \/ old.value = Missing
  PROVE  Edited(rows, (rows \ gone) \cup {row}, row.name, row.value)
  BY DEF Edited, SameName

LEMMA TakenOut ==
  ASSUME NEW rows, NEW n \in ProfileNames
  PROVE  Edited(rows, {old \in rows : ~SameName(old.name, n)}, n, Missing)
  BY DEF Edited, SameName, Has, Values

LEMMA Cleared ==
  ASSUME NEW rows, rows \subseteq Row, \E old \in rows : old.name = LocalAdmin
  PROVE  Edited(rows, {IF old.name = LocalAdmin THEN [old EXCEPT !.value = "cleared"] ELSE old :
                         old \in rows}, LocalAdmin, "cleared")
  <1> DEFINE New(old) == IF old.name = LocalAdmin THEN [old EXCEPT !.value = "cleared"] ELSE old
             rows2 == {New(old) : old \in rows}
  <1>1. \A old \in rows : /\ New(old).name = old.name
                          /\ old.name = LocalAdmin => New(old).value = "cleared"
                          /\ old.name # LocalAdmin => New(old) = old
    BY DEF Row
  <1>2. \A row \in rows2 : \E old \in rows : row = New(old)
    OBVIOUS
  <1>3. \A old \in rows : New(old) \in rows2
    OBVIOUS
  <1> HIDE DEF New, rows2
  <1>4. \A row \in rows2 : ~SameName(row.name, LocalAdmin) => row \in rows
    BY <1>1, <1>2 DEF SameName
  <1>5. \A row \in rows : ~SameName(row.name, LocalAdmin) => row \in rows2
    BY <1>1, <1>3 DEF SameName
  <1>6. \E row \in rows2 : SameName(row.name, LocalAdmin) /\ row.value = "cleared"
    BY <1>1, <1>3 DEF SameName
  <1>7. Edited(rows, rows2, LocalAdmin, "cleared")
    BY <1>4, <1>5, <1>6 DEF Edited, Values
  <1> QED  BY <1>7 DEF rows2, New

LEMMA KeptBegins == ASSUME StoresInit PROVE KeptInv
  <1>1. Missing \in Values
    BY DEF Values
  <1>2. /\ NothingEdited \in [StoreNames -> [Keys -> Values]]
        /\ \A store \in StoreNames, k \in Keys : NothingEdited[store][k] = Missing
    BY <1>1 DEF NothingEdited, StoreNames
  <1>3. \A k : ValueIn({}, k) = Missing
    BY DEF ValueIn, Has
  <1> QED  BY <1>2, <1>3 DEF StoresInit, KeptInv, Kept, ConnectionRows, ObjectRows, StoreNames

LEMMA OthersLeaveKept ==
  ASSUME KeptInv, UNCHANGED <<connections, objects, editHistory>>
  PROVE  KeptInv'
  BY DEF KeptInv, editHistory, ConnectionRows, ObjectRows, Kept, ValueIn, Has, The, SameName

LEMMA MakeKept ==
  ASSUME StoresInv, KeptInv, NEW e \in Editors, MakeStore(e)
  PROVE  KeptInv'
  <1> DEFINE store == StoreOf(editor[e].work)
             file == [active |-> DefaultName, rows |-> <<EmptyDefault>>]
  <1>1. /\ store \in StoreNames
        /\ \A name \in StoreNames : NothingEdited[name] \in [Keys -> Values]
    BY DEF StoreOf, StoreNames, NothingEdited, Values
  <1>2. CASE FileOf(editor[e].work) # Missing
    <2>1. raced' = raced \cup {store} /\ latest' = [latest EXCEPT ![store] = NothingEdited[store]]
      BY <1>2 DEF MakeStore
    <2>2. latest' \in [StoreNames -> [Keys -> Values]] /\ raced' \subseteq StoreNames
      BY <1>1, <2>1 DEF KeptInv
    <2>3. CASE store = "connections"
      <3>1. /\ objects' = objects /\ "connections" \in raced' /\ ("objects" \in raced' <=> "objects" \in raced)
            /\ latest'["objects"] = latest["objects"]
        BY <2>1, <2>3 DEF MakeStore, KeptInv, StoreNames
      <3> QED  BY <2>2, <3>1 DEF KeptInv, ObjectRows, Kept, ValueIn, Has, The, SameName
    <2>4. CASE store = "objects"
      <3>1. /\ connections' = connections /\ "objects" \in raced'
            /\ ("connections" \in raced' <=> "connections" \in raced)
            /\ latest'["connections"] = latest["connections"]
        BY <2>1, <2>4 DEF MakeStore, KeptInv, StoreNames
      <3> QED  BY <2>2, <3>1 DEF KeptInv, ConnectionRows, Kept, ValueIn, Has, The, SameName
    <2> QED  BY <1>1, <2>3, <2>4 DEF StoreNames
  <1>3. CASE FileOf(editor[e].work) = Missing
    <2>1. UNCHANGED <<latest, raced>>
      BY <1>3 DEF MakeStore
    <2>2. CASE store = "connections"
      <3>1. ConnectionRows = {} /\ connections' = {} /\ objects' = objects
        BY <1>3, <2>2 DEF MakeStore, FileOf, ConnectionRows
      <3>2. ConnectionRows' = {} /\ ObjectRows' = ObjectRows
        BY <3>1 DEF ConnectionRows, ObjectRows
      <3> QED  BY <2>1, <3>1, <3>2 DEF KeptInv, Kept, ValueIn, Has, The, SameName
    <2>3. CASE store = "objects"
      <3>1. ObjectRows = {} /\ objects' = file /\ connections' = connections
        BY <1>3, <2>3 DEF MakeStore, FileOf, ObjectRows
      <3>2. ToSet(file.rows) = {EmptyDefault}
        BY NewStores
      <3> HIDE DEF file
      <3>3. /\ ObjectRows' \in {{}, {EmptyDefault}} /\ ConnectionRows' = ConnectionRows
        BY <3>1, <3>2 DEF ConnectionRows, ObjectRows
      <3>4. \A k : ValueIn({EmptyDefault}, k) = Missing /\ ValueIn({}, k) = Missing
        <4>1. EmptyDefault.value = Missing
          BY DEF EmptyDefault, ProfileRow
        <4>2. \A k : Has({EmptyDefault}, k) => The({EmptyDefault}, k) = EmptyDefault
          BY DEF Has, The
        <4>3. \A k : ~Has({}, k)
          BY DEF Has
        <4> QED  BY <4>1, <4>2, <4>3 DEF ValueIn
      <3>5. Kept(ObjectRows', latest["objects"]) <=> Kept(ObjectRows, latest["objects"])
        BY <3>1, <3>3, <3>4 DEF Kept
      <3> QED  BY <2>1, <3>3, <3>5 DEF KeptInv, Kept, ValueIn, Has, The, SameName
    <2> QED  BY <1>1, <2>2, <2>3 DEF StoreNames
  <1> QED  BY <1>2, <1>3

\* The name that an edit sets, and to what.
EditedName(r) == IF r.work = "password" THEN LocalAdmin ELSE r.name
EditedValue(r) ==
    CASE r.work \in {"save", "store"} -> r.value
      [] r.work \in {"delete", "remove"} -> Missing
      [] r.work = "password" -> "cleared"

\* The history takes the edit down, or gives the store up when edits overlapped.
LEMMA WriteLatest ==
  ASSUME StoresInv, KeptInv, NEW e \in Editors, WriteStore(e)
  PROVE  LET r == editor[e]
             store == StoreOf(r.work)
             key == FoldedName[EditedName(r)]
         IN /\ latest' \in [StoreNames -> [Keys -> Values]] /\ raced' \subseteq StoreNames
            /\ \A other \in StoreNames \ {store} :
                  latest'[other] = latest[other] /\ (other \in raced' <=> other \in raced)
            /\ store \notin raced' =>
                  /\ store \notin raced /\ FileOf(r.work) = r.snapshot
                  /\ r.work = "activate" => latest'[store] = latest[store]
                  /\ r.work # "activate" =>
                        latest'[store] = [latest[store] EXCEPT ![key] = EditedValue(r)]
  <1> DEFINE r == editor[e]
             store == StoreOf(r.work)
             key == FoldedName[r.name]
  <1>1. /\ r.work \in ConnectionWorks \cup ObjectWorks /\ r.value \in Settings
        /\ r.name \in ProfileNames
    BY DEF StoresInv, EditOK, EditRecords, WriteStore
  <1>2. /\ store \in StoreNames /\ key \in Keys /\ FoldedName[LocalAdmin] \in Keys
        /\ {r.value, Missing, "cleared"} \subseteq Values /\ NothingEdited[store] \in [Keys -> Values]
    BY <1>1, FoldedTwice DEF StoreOf, StoreNames, Values, NothingEdited
  <1>3. latest \in [StoreNames -> [Keys -> Values]] /\ raced \subseteq StoreNames
    BY DEF KeptInv
  <1>4. raced' = IF FileOf(r.work) = r.snapshot THEN raced ELSE raced \cup {store}
    BY DEF WriteStore
  <1>5. CASE store \in raced'
    <2>1. latest' = [latest EXCEPT ![store] = NothingEdited[store]]
      BY <1>5 DEF WriteStore
    <2> HIDE DEF store, key, r
    <2> QED  BY <1>2, <1>3, <1>4, <1>5, <2>1 DEF r, store
  <1>6. CASE store \notin raced' /\ r.work \in {"save", "store"}
    <2>1. latest' = [latest EXCEPT ![store][key] = r.value]
      BY <1>6 DEF WriteStore
    <2>2. EditedValue(r) = r.value /\ EditedName(r) = r.name
      BY <1>6 DEF EditedValue, EditedName
    <2> QED  BY <1>2, <1>3, <1>4, <1>6, <2>1, <2>2
  <1>7. CASE store \notin raced' /\ r.work \in {"delete", "remove"}
    <2>1. latest' = [latest EXCEPT ![store][key] = Missing]
      BY <1>7 DEF WriteStore
    <2>2. EditedValue(r) = Missing /\ EditedName(r) = r.name
      BY <1>7 DEF EditedValue, EditedName
    <2> QED  BY <1>2, <1>3, <1>4, <1>7, <2>1, <2>2
  <1>8. CASE store \notin raced' /\ r.work = "password"
    <2>1. latest' = [latest EXCEPT ![store][FoldedName[LocalAdmin]] = "cleared"]
      BY <1>8 DEF WriteStore
    <2>2. EditedValue(r) = "cleared" /\ EditedName(r) = LocalAdmin
      BY <1>8 DEF EditedValue, EditedName
    <2> QED  BY <1>2, <1>3, <1>4, <1>8, <2>1, <2>2
  <1>9. CASE store \notin raced' /\ r.work = "activate"
    <2>1. latest' = latest
      BY <1>9 DEF WriteStore
    <2> QED  BY <1>2, <1>3, <1>4, <1>9, <2>1
  <1> QED  BY <1>1, <1>5, <1>6, <1>7, <1>8, <1>9 DEF ConnectionWorks, ObjectWorks

LEMMA WriteConnectionsKept ==
  ASSUME MissingIsNoFile, StoresInv, KeptInv, NEW e \in Editors, WriteStore(e),
         editor[e].work \in ConnectionWorks, "connections" \notin raced'
  PROVE  Kept(ConnectionRows', latest'["connections"])
  <1> DEFINE r == editor[e]
             rows == r.snapshot
             rows2 == ChangedConnections(e)
             n == EditedName(r)
             v == EditedValue(r)
  <1>1. /\ StoreOf(r.work) = "connections" /\ r.name \in ProfileNames /\ r.value \in Settings
        /\ r.at = "write" /\ ~RefusesEdit(e) /\ connections' = rows2 /\ r.work # "activate"
        /\ rows \subseteq Row /\ ~Twice(rows)
    BY DEF StoresInv, EditOK, EditRecords, WriteStore, StoreOf, ConnectionWorks, Connections
  <1>2. /\ "connections" \notin raced /\ connections = rows
        /\ latest'["connections"] = [latest["connections"] EXCEPT ![FoldedName[n]] = v]
    BY <1>1, WriteLatest DEF FileOf
  <1>3. rows2 \subseteq Row /\ ~Twice(rows2)
    BY <1>1, ChangedConnectionsAre DEF Connections
  <1>4. ConnectionRows = rows /\ ConnectionRows' = rows2
    BY <1>1, <1>2, <1>3 DEF MissingIsNoFile, ConnectionRows
  <1>5. Kept(rows, latest["connections"]) /\ latest["connections"] \in [Keys -> Values]
    BY <1>2, <1>4 DEF KeptInv, StoreNames
  <1>6. ASSUME r.work = "save"
       PROVE  Edited(rows, rows2, n, v)
    <2> DEFINE row == ProfileRow(r.name, r.value, KeyPath(e, rows))
               gone == {old \in rows : SameName(old.name, r.name)}
    <2>1. rows2 = (rows \ gone) \cup {row} /\ n = row.name /\ v = row.value
      BY <1>6 DEF ChangedConnections, EditedName, EditedValue, Deduped, ProfileRow
    <2>2. row.name = r.name /\ row.value = r.value
      BY DEF ProfileRow
    <2>3. row.name \in ProfileNames /\ row.value \in Values
      BY <1>1, <2>2 DEF Values
    <2>4. \A old \in gone : SameName(old.name, row.name)
      BY <2>2
    <2> HIDE DEF row, gone, rows2, n, v
    <2>5. Edited(rows, (rows \ gone) \cup {row}, row.name, row.value)
      BY <2>3, <2>4, AddedRow
    <2> QED  BY <2>1, <2>5
  <1>7. ASSUME r.work = "delete"
       PROVE  Edited(rows, rows2, n, v)
    <2>1. rows2 = {old \in rows : ~SameName(old.name, r.name)} /\ n = r.name /\ v = Missing
      BY <1>7 DEF ChangedConnections, EditedName, EditedValue
    <2> HIDE DEF rows2, n, v
    <2> QED  BY <1>1, <2>1, TakenOut
  <1>8. ASSUME r.work = "password"
       PROVE  Edited(rows, rows2, n, v)
    <2>1. /\ rows2 = {IF old.name = LocalAdmin THEN [old EXCEPT !.value = "cleared"] ELSE old :
                        old \in rows}
          /\ n = LocalAdmin /\ v = "cleared"
      BY <1>8 DEF ChangedConnections, EditedName, EditedValue
    <2>2. \E old \in rows : old.name = LocalAdmin
      BY <1>1, <1>8 DEF RefusesEdit
    <2> HIDE DEF rows2, n, v
    <2> QED  BY <1>1, <2>1, <2>2, Cleared
  <1>9. Edited(rows, rows2, n, v)
    BY <1>6, <1>7, <1>8, <1>1 DEF ConnectionWorks
  <1>10. r.work # "activate" /\ Kept(rows, latest["connections"])
    BY <1>1, <1>5
  <1> HIDE DEF rows2, n, v, rows
  <1>11. Kept(rows2, [latest["connections"] EXCEPT ![FoldedName[n]] = v])
    BY <1>1, <1>3, <1>5, <1>9, EditedRows
  <1> QED  BY <1>2, <1>4, <1>11

LEMMA WriteObjectsKept ==
  ASSUME MissingIsNoFile, StoresInv, KeptInv, NEW e \in Editors, WriteStore(e),
         editor[e].work \in ObjectWorks, "objects" \notin raced'
  PROVE  Kept(ObjectRows', latest'["objects"])
  <1> DEFINE r == editor[e]
             rows == ToSet(r.snapshot.rows)
             rows2 == ToSet(ChangedObjects(e).rows)
             n == EditedName(r)
             v == EditedValue(r)
  <1>1. /\ StoreOf(r.work) = "objects" /\ r.name \in ProfileNames /\ r.value \in Settings
        /\ r.at = "write" /\ ~RefusesEdit(e) /\ objects' = ChangedObjects(e)
    BY DEF StoresInv, EditOK, EditRecords, WriteStore, StoreOf, ObjectWorks
  <1>2. /\ "objects" \notin raced /\ objects = r.snapshot
        /\ r.work = "activate" => latest'["objects"] = latest["objects"]
        /\ r.work # "activate" =>
              latest'["objects"] = [latest["objects"] EXCEPT ![FoldedName[n]] = v]
    BY <1>1, WriteLatest DEF FileOf
  <1>3. Objects(r.snapshot)
    BY <1>1 DEF StoresInv, EditOK
  <1>4. /\ r.snapshot \in ObjectFiles /\ r.snapshot.rows \in Seq(Row) /\ ~Twice(rows)
    BY <1>3 DEF Objects, ObjectFiles
  <1>5. /\ ChangedObjects(e) \in ObjectFiles /\ ChangedObjects(e).rows \in Seq(Row) /\ ~Twice(rows2)
        /\ rows2 = ChangedRows(rows, r)
    BY <1>1, ChangedObjectsAre DEF Objects, ObjectFiles
  <1>6. ObjectRows = rows /\ ObjectRows' = rows2
    BY <1>1, <1>2, <1>4, <1>5 DEF MissingIsNoFile, ObjectRows
  <1>7. Kept(rows, latest["objects"]) /\ latest["objects"] \in [Keys -> Values]
    BY <1>2, <1>6 DEF KeptInv, StoreNames
  <1>8. rows \subseteq Row /\ rows2 \subseteq Row
    BY <1>4, <1>5, SetOfRows
  <1>9. CASE r.work = "activate"
    <2>1. rows2 = rows
      BY <1>5, <1>9 DEF ChangedRows
    <2> QED  BY <1>2, <1>6, <1>7, <1>9, <2>1
  <1>10. CASE r.work # "activate"
    <2>1. ASSUME r.work = "store"
         PROVE  Edited(rows, rows2, n, v)
      <3> DEFINE row == ProfileRow(r.name, r.value, Missing)
                 gone == {old \in rows : \/ SameName(old.name, r.name)
                                         \/ old = EmptyDefault /\ ~SameName(r.name, DefaultName)}
      <3>1. rows2 = (rows \ gone) \cup {row} /\ n = row.name /\ v = row.value
        BY <1>5, <2>1 DEF ChangedRows, EditedName, EditedValue, ProfileRow
      <3>2. row.name = r.name /\ row.value = r.value /\ EmptyDefault.value = Missing
        BY DEF ProfileRow, EmptyDefault
      <3>3. row.name \in ProfileNames /\ row.value \in Values
        BY <1>1, <3>2 DEF Values
      <3>4. \A old \in gone : SameName(old.name, row.name) \/ old.value = Missing
        BY <3>2
      <3> HIDE DEF row, gone, rows2, n, v, rows
      <3>5. Edited(rows, (rows \ gone) \cup {row}, row.name, row.value)
        BY <3>3, <3>4, AddedRow
      <3> QED  BY <3>1, <3>5
    <2>2. ASSUME r.work = "remove"
         PROVE  Edited(rows, rows2, n, v)
      <3>1. rows2 = {old \in rows : ~SameName(old.name, r.name)} /\ n = r.name /\ v = Missing
        BY <1>5, <2>2 DEF ChangedRows, EditedName, EditedValue
      <3> HIDE DEF rows2, n, v, rows
      <3> QED  BY <1>1, <3>1, TakenOut
    <2>3. Edited(rows, rows2, n, v)
      BY <1>10, <2>1, <2>2 DEF ObjectWorks
    <2> HIDE DEF rows2, n, v, rows
    <2>4. Kept(rows2, [latest["objects"] EXCEPT ![FoldedName[n]] = v])
      BY <1>4, <1>5, <1>7, <1>8, <2>3, EditedRows
    <2> QED  BY <1>2, <1>6, <1>10, <2>4
  <1> QED  BY <1>9, <1>10

LEMMA WriteKept ==
  ASSUME MissingIsNoFile, StoresInv, KeptInv, NEW e \in Editors, WriteStore(e)
  PROVE  KeptInv'
  <1> DEFINE store == StoreOf(editor[e].work)
  <1>1. /\ latest' \in [StoreNames -> [Keys -> Values]] /\ raced' \subseteq StoreNames
        /\ \A other \in StoreNames \ {store} :
              latest'[other] = latest[other] /\ (other \in raced' <=> other \in raced)
    BY WriteLatest
  <1>2. editor[e].work \in ConnectionWorks \cup ObjectWorks
    BY DEF StoresInv, EditOK, WriteStore
  <1>3. CASE editor[e].work \in ConnectionWorks
    <2>1. store = "connections" /\ ObjectRows' = ObjectRows
      BY <1>3 DEF StoreOf, ConnectionWorks, WriteStore, ObjectRows
    <2>2. "objects" \notin raced' => Kept(ObjectRows', latest'["objects"])
      BY <1>1, <2>1 DEF KeptInv, StoreNames
    <2> QED  BY <1>1, <1>3, <2>2, WriteConnectionsKept DEF KeptInv, Kept, ValueIn, Has, The, SameName
  <1>4. CASE editor[e].work \in ObjectWorks
    <2>1. store = "objects" /\ ConnectionRows' = ConnectionRows
      BY <1>4 DEF StoreOf, ObjectWorks, WriteStore, ConnectionRows
    <2>2. "connections" \notin raced' => Kept(ConnectionRows', latest'["connections"])
      BY <1>1, <2>1 DEF KeptInv, StoreNames
    <2> QED  BY <1>1, <1>4, <2>2, WriteObjectsKept DEF KeptInv, Kept, ValueIn, Has, The, SameName
  <1> QED  BY <1>2, <1>3, <1>4

LEMMA KeptSteps ==
  ASSUME MissingIsNoFile, StoresInv, KeptInv, [StoresNext]_editVars
  PROVE  KeptInv'
  <1>1. ASSUME NEW e \in Editors, EditStep(e)
        PROVE  KeptInv'
    <2>1. CASE UNCHANGED <<connections, objects, editHistory>>
      BY <2>1, OthersLeaveKept
    <2> QED  BY <1>1, <2>1, MakeKept, WriteKept DEF EditStep, AnyEdit, StartEdit, FindMissing, LoadStore,
                UploadKey, KeepKey, RefuseProfile, AcceptProfile, RefuseEdit, RefuseOci,
                WriteOciKey, WriteOciConfig, storeFiles
  <1>2. CASE EditsCutOff \/ UNCHANGED editVars
    BY <1>2, OthersLeaveKept DEF EditsCutOff, storeFiles, editVars
  <1> QED  BY <1>1, <1>2 DEF StoresNext

LEMMA EditsAreKept ==
  ASSUME KeptInv
  PROVE  EditsKept
  BY DEF KeptInv, Kept, ConnectionRows, ObjectRows, EditsKept

\* As long as no edit of a store overlaps another, what was answered last for each name
\* is what the store says of it, whatever the order and the case of names.
THEOREM EditsAlwaysKept == ASSUME MissingIsNoFile PROVE StoresSpec => []EditsKept
<1>1. StoresInit => StoresInv /\ KeptInv
  BY StoresBegin, KeptBegins
<1>2. StoresInv /\ KeptInv /\ [StoresNext]_editVars => StoresInv' /\ KeptInv'
  BY StoresSteps, KeptSteps
<1>3. KeptInv => EditsKept
  BY EditsAreKept
<1> QED  BY <1>1, <1>2, <1>3, PTL DEF StoresSpec
-----------------------------------------------------------------------------
(* EventAdmin: what a selection of events is made of, and what its request *)
(* has changed when it answers.                                            *)

HIDE EditAssumption
USE EventAssumption

\* What EventKeys computes, as far as the first n keys: f is its function keys.
Taking(f, raw, n) ==
    f = [i \in 0 .. n |->
           IF i = 0 THEN <<>>
           ELSE IF raw[i] \in ToSet(f[i - 1]) THEN f[i - 1] ELSE Append(f[i - 1], raw[i])]

LEMMA TakingExists ==
  ASSUME NEW R, NEW raw \in Seq(R)
  PROVE  \A n \in 0 .. Len(raw) : \E f : Taking(f, raw, n)
  <1> DEFINE T == {n \in 0 .. Len(raw) : ~\E f : Taking(f, raw, n)}
  <1>1. SUFFICES ASSUME T # {} PROVE FALSE
    OBVIOUS
  <1>2. T \subseteq Nat /\ Len(raw) \in Nat
    OBVIOUS
  <1>3. PICK m \in T : \A k \in T : m <= k
    BY <1>1, <1>2, LeastNat
  <1>4. m \in 0 .. Len(raw) /\ ~\E f : Taking(f, raw, m)
    OBVIOUS
  <1>5. CASE m = 0
    <2> DEFINE f == [i \in 0 .. 0 |-> <<>>]
    <2>1. f = [i \in 0 .. 0 |->
                 IF i = 0 THEN <<>>
                 ELSE IF raw[i] \in ToSet(f[i - 1]) THEN f[i - 1] ELSE Append(f[i - 1], raw[i])]
      OBVIOUS
    <2>2. Taking(f, raw, m)
      BY <1>5, <2>1 DEF Taking
    <2> QED  BY <1>4, <2>2
  <1>6. CASE m # 0
    <2>1. m - 1 \in 0 .. Len(raw) /\ m - 1 \in Nat /\ m \in Nat
      BY <1>2, <1>4, <1>6
    <2>2. m - 1 \notin T
      BY <1>3, <2>1
    <2>3. PICK g : Taking(g, raw, m - 1)
      BY <2>1, <2>2
    <2> HIDE DEF T
    <2> DEFINE f == [i \in 0 .. m |->
                       IF i = m THEN (IF raw[m] \in ToSet(g[m - 1]) THEN g[m - 1] ELSE Append(g[m - 1], raw[m]))
                       ELSE g[i]]
    <2>4. \A i \in 0 .. m - 1 : /\ f[i] = g[i]
                                /\ g[i] = IF i = 0 THEN <<>>
                                          ELSE IF raw[i] \in ToSet(g[i - 1]) THEN g[i - 1] ELSE Append(g[i - 1], raw[i])
      <3>1. \A i \in 0 .. m - 1 : f[i] = g[i]
        BY <2>1
      <3> HIDE DEF f
      <3>2. \A i \in 0 .. m - 1 : g[i] = IF i = 0 THEN <<>>
                                    ELSE IF raw[i] \in ToSet(g[i - 1]) THEN g[i - 1] ELSE Append(g[i - 1], raw[i])
        BY <2>3 DEF Taking
      <3> QED  BY <3>1, <3>2
    <2>5. f[m] = IF raw[m] \in ToSet(f[m - 1]) THEN f[m - 1] ELSE Append(f[m - 1], raw[m])
      BY <1>6, <2>1
    <2>6. \A i \in 0 .. m : f[i] = IF i = 0 THEN <<>>
                                   ELSE IF raw[i] \in ToSet(f[i - 1]) THEN f[i - 1] ELSE Append(f[i - 1], raw[i])
      <3> SUFFICES ASSUME NEW i \in 0 .. m
                   PROVE  f[i] = IF i = 0 THEN <<>>
                                 ELSE IF raw[i] \in ToSet(f[i - 1]) THEN f[i - 1] ELSE Append(f[i - 1], raw[i])
        OBVIOUS
      <3>1. CASE i = m
        BY <1>6, <2>5, <3>1
      <3>2. CASE i # m
        <4>1. i \in 0 .. m - 1 /\ (i # 0 => i - 1 \in 0 .. m - 1)
          BY <2>1, <3>2
        <4> HIDE DEF f
        <4> QED  BY <2>4, <4>1
      <3> QED  BY <3>1, <3>2
    <2>7. f = [i \in 0 .. m |-> f[i]]
      OBVIOUS
    <2> HIDE DEF f
    <2>8. Taking(f, raw, m)
      BY <2>6, <2>7 DEF Taking
    <2> QED  BY <1>4, <2>8
  <1> QED  BY <1>5, <1>6

LEMMA EventKeysTakes ==
  ASSUME NEW R, NEW raw \in Seq(R)
  PROVE  \E f : Taking(f, raw, Len(raw)) /\ EventKeys(raw) = f[Len(raw)]
  <1> DEFINE g == CHOOSE f : f = [i \in 0 .. Len(raw) |->
                     IF i = 0 THEN <<>>
                     ELSE IF raw[i] \in ToSet(f[i - 1]) THEN f[i - 1] ELSE Append(f[i - 1], raw[i])]
  <1>1. EventKeys(raw) = g[Len(raw)]
    BY DEF EventKeys
  <1>2. \E f : Taking(f, raw, Len(raw))
    <2>1. Len(raw) \in 0 .. Len(raw)
      OBVIOUS
    <2> QED  BY <2>1, TakingExists
  <1>3. Taking(g, raw, Len(raw))
    BY <1>2 DEF Taking
  <1> QED  BY <1>1, <1>3

\* The members of a sequence before its i-th.
Before(s, i) == {s[j] : j \in 1 .. i - 1}

\* In the first n of raw, s has each once, where it comes first.
Firsts(s, raw, n) ==
    /\ ToSet(s) = {raw[j] : j \in 1 .. n}
    /\ \A p \in 1 .. Len(s) : \E i \in 1 .. n : raw[i] = s[p] /\ Before(raw, i) = Before(s, p)
    /\ \A p \in 1 .. Len(s) : s[p] \notin Before(s, p)

LEMMA FirstsOfMore ==
  ASSUME NEW R, NEW raw \in Seq(R), NEW n \in 1 .. Len(raw),
         NEW s \in Seq(R), Firsts(s, raw, n - 1)
  PROVE  /\ raw[n] \in ToSet(s) => Firsts(s, raw, n)
         /\ raw[n] \notin ToSet(s) => Firsts(Append(s, raw[n]), raw, n)
  <1>1. n \in Nat /\ n - 1 \in Nat /\ raw[n] \in R
    OBVIOUS
  <1>2. 1 .. n - 1 \subseteq 1 .. n
    BY <1>1
  <1>3. {raw[j] : j \in 1 .. n} = {raw[j] : j \in 1 .. n - 1} \cup {raw[n]}
    BY <1>1
  <1>4. ASSUME raw[n] \in ToSet(s)
        PROVE  Firsts(s, raw, n)
    BY <1>2, <1>3, <1>4 DEF Firsts
  <1>5. ASSUME raw[n] \notin ToSet(s)
        PROVE  Firsts(Append(s, raw[n]), raw, n)
    <2> DEFINE t == Append(s, raw[n])
               l == Len(s)
    <2>1. /\ l \in Nat /\ t \in Seq(R) /\ Len(t) = l + 1 /\ t[l + 1] = raw[n]
          /\ \A p \in 1 .. l : t[p] = s[p]
      BY <1>1
    <2>2. ToSet(s) = {s[p] : p \in 1 .. l} /\ ToSet(t) = {t[p] : p \in 1 .. l + 1}
      BY <2>1 DEF ToSet
    <2> HIDE DEF t, l
    <2>3. 1 .. l + 1 = 1 .. l \cup {l + 1}
      BY <2>1
    <2>4. ToSet(t) = ToSet(s) \cup {raw[n]}
      BY <2>1, <2>2, <2>3
    <2>5. \A p \in 1 .. l : Before(t, p) = Before(s, p)
      <3>1. \A p \in 1 .. l : \A j \in 1 .. p - 1 : j \in 1 .. l
        BY <2>1
      <3> QED  BY <2>1, <3>1 DEF Before
    <2>6. Before(t, l + 1) = ToSet(s)
      <3>1. (l + 1) - 1 = l
        BY <2>1
      <3> QED  BY <2>1, <2>2, <3>1 DEF Before
    <2>7. Before(raw, n) = ToSet(s)
      BY <1>5 DEF Before, Firsts
    <2>8. \A p \in 1 .. l + 1 : \E i \in 1 .. n : raw[i] = t[p] /\ Before(raw, i) = Before(t, p)
      <3>1. ASSUME NEW p \in 1 .. l
            PROVE  \E i \in 1 .. n : raw[i] = t[p] /\ Before(raw, i) = Before(t, p)
        BY <1>2, <2>1, <2>5 DEF Firsts, l
      <3>2. \E i \in 1 .. n : raw[i] = t[l + 1] /\ Before(raw, i) = Before(t, l + 1)
        BY <2>1, <2>6, <2>7
      <3> QED  BY <2>3, <3>1, <3>2
    <2>9. \A p \in 1 .. l + 1 : t[p] \notin Before(t, p)
      <3>1. \A p \in 1 .. l : t[p] \notin Before(t, p)
        BY <2>1, <2>5 DEF Firsts, l
      <3>2. t[l + 1] \notin Before(t, l + 1)
        BY <1>5, <2>1, <2>6
      <3> QED  BY <2>3, <3>1, <3>2
    <2>10. ToSet(t) = {raw[j] : j \in 1 .. n}
      BY <1>3, <2>4 DEF Firsts
    <2> QED  BY <2>1, <2>8, <2>9, <2>10 DEF Firsts, t
  <1> QED  BY <1>4, <1>5

\* EventKeys gives each key once, in the order in which they come first.
LEMMA EventKeysAre ==
  ASSUME NEW R, NEW raw \in Seq(R)
  PROVE  EventKeys(raw) \in Seq(R) /\ Firsts(EventKeys(raw), raw, Len(raw))
  <1> DEFINE n == Len(raw)
             Right(s, i) == s \in Seq(R) /\ Firsts(s, raw, i)
  <1>1. n \in Nat /\ \A i \in 1 .. n : raw[i] \in R
    OBVIOUS
  <1>2. PICK f : Taking(f, raw, n) /\ EventKeys(raw) = f[n]
    BY EventKeysTakes
  <1>3. \A i \in 0 .. n : f[i] = IF i = 0 THEN <<>>
                                 ELSE IF raw[i] \in ToSet(f[i - 1]) THEN f[i - 1]
                                      ELSE Append(f[i - 1], raw[i])
    BY <1>2 DEF Taking
  <1>4. Right(f[0], 0)
    <2>1. f[0] = <<>>
      BY <1>1, <1>3
    <2> QED  BY <2>1 DEF ToSet, Firsts
  <1>5. ASSUME NEW i \in 1 .. n, Right(f[i - 1], i - 1)
        PROVE  Right(f[i], i)
    <2> DEFINE s == f[i - 1]
    <2>1. f[i] = IF raw[i] \in ToSet(s) THEN s ELSE Append(s, raw[i])
      <3> HIDE DEF n
      <3>1. i \in 0 .. n /\ i # 0
        BY <1>1
      <3> QED  BY <1>3, <3>1
    <2>2. s \in Seq(R) /\ Firsts(s, raw, i - 1) /\ raw[i] \in R
      BY <1>1, <1>5
    <2> HIDE DEF s
    <2>3. Append(s, raw[i]) \in Seq(R)
      BY <2>2
    <2> QED  BY <2>1, <2>2, <2>3, FirstsOfMore
  <1> DEFINE T == {i \in 0 .. n : ~Right(f[i], i)}
  <1>6. T = {}
    <2> HIDE DEF Right
    <2>1. SUFFICES ASSUME T # {} PROVE FALSE
      OBVIOUS
    <2>2. T \subseteq Nat
      BY <1>1
    <2>3. PICK m \in T : \A k \in T : m <= k
      BY <2>1, <2>2, LeastNat
    <2>4. m \in 1 .. n
      BY <1>1, <1>4, <2>3
    <2>5. m - 1 \in 0 .. n /\ m - 1 \notin T
      BY <1>1, <2>3, <2>4
    <2> QED  BY <1>5, <2>3, <2>4, <2>5
  <1>7. Right(f[n], n)
    <2> HIDE DEF Right
    <2>1. n \in 0 .. n
      BY <1>1
    <2> QED  BY <1>6, <2>1
  <1> QED  BY <1>2, <1>7

AnyServing == [do : {"none", "enabled", "disabled", "delete"}, keys : Seq(Events), left : Seq(Events),
               took : SUBSET Events]
AnyAnswer == [status : {"none", "success", "error"}, at : Events \cup {NoEvent}, keys : Seq(Events),
              took : SUBSET Events]

\* A request has done the first m of its keys, and the others are left.
Done(r, m) ==
    LET all == EventKeys(r.keys)
    IN /\ m + Len(r.left) = Len(all)
       /\ \A j \in 1 .. Len(r.left) : r.left[j] = all[m + j]
       /\ r.took = {all[j] : j \in 1 .. m}

AnswerTrue(r) ==
    /\ r.status = "success" => r.took = ToSet(r.keys)
    /\ r.status = "error" =>
         \E i \in DOMAIN r.keys : r.keys[i] = r.at /\ r.took = Before(r.keys, i) /\ r.at \notin r.took

EventsInv ==
    /\ listed \in [EventAdmins -> SUBSET Events]
    /\ serving \in [EventAdmins -> AnyServing]
    /\ \A a \in EventAdmins : serving[a].do # "none" => \E m \in Nat : Done(serving[a], m)
    /\ answered \in [EventAdmins -> AnyAnswer]
    /\ \A a \in EventAdmins : AnswerTrue(answered[a])

LEMMA AtRestIs ==
  NotServing \in AnyServing /\ NotServing.do = "none" /\ NoAnswer \in AnyAnswer /\ AnswerTrue(NoAnswer)
  <1>1. <<>> \in Seq(Events)
    OBVIOUS
  <1>2. NotServing \in AnyServing /\ NotServing.do = "none"
    BY <1>1 DEF NotServing, AnyServing
  <1>3. NoAnswer \in AnyAnswer /\ NoAnswer.status = "none"
    BY <1>1 DEF NoAnswer, AnyAnswer
  <1> QED  BY <1>2, <1>3 DEF AnswerTrue

LEMMA EventsBegin == ASSUME EventInit PROVE EventsInv
  BY AtRestIs DEF EventInit, EventsInv

\* One administrator's request moves on.
LEMMA OneServing ==
  ASSUME EventsInv, NEW a \in EventAdmins, NEW r \in AnyServing,
         serving' = [serving EXCEPT ![a] = r], r.do # "none" => \E m \in Nat : Done(r, m),
         listed' \in [EventAdmins -> SUBSET Events],
         answered' \in [EventAdmins -> AnyAnswer], \A b \in EventAdmins : AnswerTrue(answered'[b])
  PROVE  EventsInv'
  <1>1. serving' \in [EventAdmins -> AnyServing] /\ serving'[a] = r
        /\ \A b \in EventAdmins \ {a} : serving'[b] = serving[b]
    BY DEF EventsInv
  <1>2. \A b \in EventAdmins : serving'[b].do # "none" => \E m \in Nat : Done(serving'[b], m)
    BY <1>1 DEF EventsInv
  <1> QED  BY <1>1, <1>2 DEF EventsInv

LEMMA EventAnswerKeeps ==
  ASSUME EventsInv, NEW a \in EventAdmins, NEW status \in {"success", "error"},
         NEW at \in Events \cup {NoEvent}, Answers(a, status, at), UNCHANGED listed,
         AnswerTrue([status |-> status, at |-> at, keys |-> serving[a].keys, took |-> serving[a].took])
  PROVE  EventsInv'
  <1> DEFINE r == [status |-> status, at |-> at, keys |-> serving[a].keys, took |-> serving[a].took]
  <1>1. r \in AnyAnswer
    BY DEF EventsInv, AnyServing, AnyAnswer
  <1>2. answered' = [answered EXCEPT ![a] = r] /\ serving' = [serving EXCEPT ![a] = NotServing]
    BY DEF Answers
  <1>3. AnswerTrue(r)
    OBVIOUS
  <1> HIDE DEF r
  <1>4. answered' \in [EventAdmins -> AnyAnswer] /\ answered'[a] = r
        /\ \A b \in EventAdmins \ {a} : answered'[b] = answered[b]
    BY <1>1, <1>2 DEF EventsInv
  <1>5. \A b \in EventAdmins : AnswerTrue(answered'[b])
    BY <1>3, <1>4 DEF EventsInv
  <1>6. listed' \in [EventAdmins -> SUBSET Events]
    BY DEF EventsInv
  <1> QED  BY <1>2, <1>4, <1>5, <1>6, AtRestIs, OneServing

\* A page is listed: no request changes.
LEMMA ListKeeps ==
  ASSUME EventsInv, NEW a \in EventAdmins, ListEvents(a)
  PROVE  EventsInv'
  <1>1. listed' \in [EventAdmins -> SUBSET Events]
    BY DEF EventsInv, ListEvents
  <1>2. answered' = [answered EXCEPT ![a] = NoAnswer] /\ serving' = serving
    BY DEF ListEvents
  <1>3. answered' \in [EventAdmins -> AnyAnswer] /\ \A b \in EventAdmins : AnswerTrue(answered'[b])
    BY <1>2, AtRestIs DEF EventsInv
  <1> QED  BY <1>1, <1>2, <1>3 DEF EventsInv

LEMMA SubmitKeeps ==
  ASSUME EventsInv, NEW a \in EventAdmins, SubmitSelection(a)
  PROVE  EventsInv'
  <1>1. PICK do \in {"enabled", "disabled", "delete"}, n \in 1 .. MaxSelected :
          \E raw \in [1 .. n -> listed[a] \cup SystemEvents] :
            serving' = [serving EXCEPT ![a] = [do |-> do, keys |-> raw, left |-> EventKeys(raw), took |-> {}]]
    BY DEF SubmitSelection
  <1>2. PICK raw \in [1 .. n -> listed[a] \cup SystemEvents] :
            serving' = [serving EXCEPT ![a] = [do |-> do, keys |-> raw, left |-> EventKeys(raw), took |-> {}]]
    BY <1>1
  <1>3. raw \in Seq(Events)
    <2>1. listed[a] \cup SystemEvents \subseteq Events /\ n \in Nat
      BY DEF EventsInv
    <2> QED  BY <2>1
  <1> DEFINE left == EventKeys(raw)
             r == [do |-> do, keys |-> raw, left |-> left, took |-> {}]
  <1>4. left \in Seq(Events)
    BY <1>3, EventKeysAre
  <1>5. r \in AnyServing /\ r.keys = raw /\ r.left = left /\ r.took = {}
    <2> HIDE DEF left
    <2> QED  BY <1>3, <1>4 DEF AnyServing
  <1> HIDE DEF r
  <1>6. Done(r, 0)
    <2>1. EventKeys(r.keys) = left
      BY <1>5
    <2> HIDE DEF left
    <2>2. Len(left) \in Nat /\ 1 .. 0 = {}
      BY <1>4
    <2> QED  BY <1>5, <2>1, <2>2 DEF Done
  <1>7. listed' \in [EventAdmins -> SUBSET Events] /\ answered' = answered
    BY DEF SubmitSelection, EventsInv
  <1>8. answered' \in [EventAdmins -> AnyAnswer] /\ \A b \in EventAdmins : AnswerTrue(answered'[b])
    BY <1>7 DEF EventsInv
  <1>9. serving' = [serving EXCEPT ![a] = r]
    BY <1>2 DEF r
  <1> QED  BY <1>5, <1>6, <1>7, <1>8, <1>9, OneServing

\* A request that has keys left, or none, with what it has done of them.
LEMMA RequestIs ==
  ASSUME EventsInv, NEW a \in EventAdmins, ~AtRest(a)
  PROVE  LET r == serving[a]
             all == EventKeys(r.keys)
         IN /\ r \in AnyServing /\ r.keys \in Seq(Events) /\ r.left \in Seq(Events)
            /\ all \in Seq(Events) /\ Firsts(all, r.keys, Len(r.keys))
            /\ \E m \in Nat : Done(r, m)
  <1>1. serving[a] \in AnyServing /\ \E m \in Nat : Done(serving[a], m)
    BY DEF EventsInv, AtRest
  <1>2. serving[a].keys \in Seq(Events) /\ serving[a].left \in Seq(Events)
    BY <1>1 DEF AnyServing
  <1> QED  BY <1>1, <1>2, EventKeysAre

LEMMA AlterKeeps ==
  ASSUME EventsInv, NEW a \in EventAdmins, AlterEvent(a)
  PROVE  EventsInv'
  <1> DEFINE r == serving[a]
             all == EventKeys(r.keys)
             e == Head(r.left)
  <1>1. /\ r \in AnyServing /\ r.keys \in Seq(Events) /\ r.left \in Seq(Events)
        /\ all \in Seq(Events) /\ Firsts(all, r.keys, Len(r.keys))
        /\ \E k \in Nat : Done(r, k)
    BY RequestIs DEF AlterEvent
  <1>2. PICK m \in Nat : Done(r, m)
    BY <1>1
  <1>3. r.left # <<>> /\ Len(r.left) \in Nat /\ Len(r.left) >= 1
    BY <1>1 DEF AlterEvent
  <1> DEFINE l == Len(r.left)
             n == Len(all)
  <1>4. /\ m + l = n /\ r.took = {all[j] : j \in 1 .. m}
        /\ \A j \in 1 .. l : r.left[j] = all[m + j]
    BY <1>2 DEF Done
  <1>5. e = r.left[1] /\ e \in Events /\ Tail(r.left) \in Seq(Events) /\ Len(Tail(r.left)) = l - 1
        /\ \A j \in 1 .. l - 1 : Tail(r.left)[j] = r.left[j + 1]
    BY <1>1, <1>3
  <1>6. e = all[m + 1] /\ m + 1 \in 1 .. n
    <2>1. l \in Nat /\ l >= 1 /\ 1 \in 1 .. l
      BY <1>3
    <2> HIDE DEF l, n, all, r, e
    <2> QED  BY <1>4, <1>5, <2>1
  <1>7. CASE Alters(a, e)
    <2> DEFINE new == [do |-> r.do, keys |-> r.keys, left |-> Tail(r.left), took |-> r.took \cup {e}]
    <2>1. listed' = listed /\ answered' = answered
      BY <1>7 DEF AlterEvent
    <2>2. serving' = [serving EXCEPT ![a] = new]
      BY <1>7 DEF AlterEvent, Alters, EventsInv
    <2>3. new \in AnyServing
      <3>1. r.took \cup {e} \in SUBSET Events
        BY <1>1, <1>5 DEF AnyServing
      <3> HIDE DEF e
      <3> QED  BY <1>1, <1>5, <3>1 DEF AnyServing
    <2>4. new.keys = r.keys /\ new.left = Tail(r.left) /\ new.took = r.took \cup {e}
      OBVIOUS
    <2> HIDE DEF new
    <2>5. Done(new, m + 1)
      <3>1. EventKeys(new.keys) = all
        BY <2>4
      <3>2. l \in Nat /\ l >= 1
        BY <1>3
      <3> HIDE DEF l, n, all, r, e
      <3>3. (m + 1) + Len(new.left) = n
        <4>1. Len(new.left) = l - 1
          BY <1>5, <2>4
        <4> HIDE DEF new
        <4> QED  BY <1>4, <3>2, <4>1
      <3>4. \A j \in 1 .. Len(new.left) : new.left[j] = all[(m + 1) + j]
        <4> SUFFICES ASSUME NEW j \in 1 .. l - 1 PROVE Tail(r.left)[j] = all[(m + 1) + j]
          BY <1>5, <2>4
        <4>1. j + 1 \in 1 .. l /\ m + (j + 1) = (m + 1) + j
          BY <3>2
        <4> QED  BY <1>4, <1>5, <4>1
      <3>5. new.took = {all[j] : j \in 1 .. m + 1}
        <4>1. 1 .. m + 1 = 1 .. m \cup {m + 1}
          OBVIOUS
        <4> QED  BY <1>4, <1>6, <2>4, <4>1
      <3> QED  BY <3>1, <3>3, <3>4, <3>5 DEF Done, n
    <2>6. /\ listed' \in [EventAdmins -> SUBSET Events]
          /\ answered' \in [EventAdmins -> AnyAnswer] /\ \A b \in EventAdmins : AnswerTrue(answered'[b])
      BY <2>1 DEF EventsInv
    <2>7. \E k \in Nat : Done(new, k)
      <3>1. m + 1 \in Nat
        OBVIOUS
      <3> QED  BY <2>5, <3>1
    <2> QED  BY <2>2, <2>3, <2>6, <2>7, OneServing
  <1>8. CASE ~Alters(a, e)
    <2> DEFINE said == [status |-> "error", at |-> e, keys |-> serving[a].keys, took |-> serving[a].took]
    <2>1. Answers(a, "error", e) /\ UNCHANGED listed
      BY <1>8 DEF AlterEvent
    <2>2. said.status = "error" /\ said.at = e /\ said.keys = r.keys /\ said.took = r.took
      OBVIOUS
    <2> HIDE DEF said
    <2>3. r.took = Before(all, m + 1)
      <3>1. (m + 1) - 1 = m
        OBVIOUS
      <3> QED  BY <1>4, <3>1 DEF Before
    <2>4. PICK i \in 1 .. Len(r.keys) : r.keys[i] = all[m + 1] /\ Before(r.keys, i) = Before(all, m + 1)
      <3> HIDE DEF all
      <3> QED  BY <1>1, <1>6 DEF Firsts
    <2>5. all[m + 1] \notin Before(all, m + 1)
      <3> HIDE DEF all
      <3> QED  BY <1>1, <1>6 DEF Firsts
    <2>6. DOMAIN r.keys = 1 .. Len(r.keys)
      BY <1>1
    <2>7. AnswerTrue(said)
      <3> HIDE DEF r, all, e
      <3> QED  BY <1>6, <2>2, <2>3, <2>4, <2>5, <2>6 DEF AnswerTrue
    <2> QED  BY <1>5, <2>1, <2>7, EventAnswerKeeps DEF said
  <1> QED  BY <1>7, <1>8

LEMMA AnswerEventsKeeps ==
  ASSUME EventsInv, NEW a \in EventAdmins, AnswerEvents(a)
  PROVE  EventsInv'
  <1> DEFINE r == serving[a]
             all == EventKeys(r.keys)
             said == [status |-> "success", at |-> NoEvent, keys |-> serving[a].keys, took |-> serving[a].took]
  <1>1. /\ r \in AnyServing /\ r.keys \in Seq(Events) /\ all \in Seq(Events)
        /\ Firsts(all, r.keys, Len(r.keys))
        /\ \E k \in Nat : Done(r, k)
    BY RequestIs DEF AnswerEvents
  <1>2. PICK m \in Nat : Done(r, m)
    BY <1>1
  <1>3. r.left = <<>>
    BY DEF AnswerEvents
  <1>4. m = Len(all) /\ r.took = {all[j] : j \in 1 .. m}
    BY <1>2, <1>3 DEF Done
  <1>5. r.took = ToSet(r.keys)
    <2>1. ToSet(all) = {all[j] : j \in 1 .. Len(all)} /\ ToSet(r.keys) = {r.keys[j] : j \in 1 .. Len(r.keys)}
      BY <1>1 DEF ToSet
    <2> QED  BY <1>1, <1>4, <2>1 DEF Firsts
  <1>6. said.status = "success" /\ said.keys = r.keys /\ said.took = r.took
    OBVIOUS
  <1> HIDE DEF said
  <1>7. AnswerTrue(said)
    BY <1>5, <1>6 DEF AnswerTrue
  <1>8. Answers(a, "success", NoEvent) /\ UNCHANGED listed
    BY DEF AnswerEvents
  <1> QED  BY <1>7, <1>8, EventAnswerKeeps DEF said

LEMMA EventSteps ==
  ASSUME EventsInv, [EventNext]_eventVars
  PROVE  EventsInv'
  <1>1. CASE UNCHANGED <<listed, serving, answered>>
    BY <1>1 DEF EventsInv
  <1> QED  BY <1>1, ListKeeps, SubmitKeeps, AlterKeeps, AnswerEventsKeeps
           DEF EventNext, EventFires, CreateEvent, eventVars

\* Whatever selections are sent, for any number of administrators and events: a request
\* that answers success has changed all it was given, and one that fails exactly those
\* before the one it names.
THEOREM EventsAlwaysAnswered == EventSpec => []EventsAnswered
<1>1. EventInit => EventsInv
  BY EventsBegin
<1>2. EventsInv /\ [EventNext]_eventVars => EventsInv'
  BY EventSteps
<1>3. EventsInv => EventsAnswered
  BY DEF EventsInv, AnswerTrue, Before, EventsAnswered
<1> QED  BY <1>1, <1>2, <1>3, PTL DEF EventSpec
=============================================================================
