-------------------------- MODULE TransportsProofs --------------------------
(***************************************************************************)
(* Proofs about the list of transports, for any clients, files, reports    *)
(* and number of reloads.                                                  *)
(*                                                                         *)
(* A transport's number is its place in tp, so that the list is always the *)
(* end of tp (Numbered): the way along it is from a number to the next one *)
(* and what a load made is what is behind the loads before it.  While      *)
(* ini_parse runs, Parsed relates the list to the lines read so far; when  *)
(* it is through this is what the file asks for (ParsedIsAsked).           *)
(***************************************************************************)
EXTENDS Transports, FiniteSetTheorems, SequenceTheorems, TLAPS

\* What lines, transports and the threads' counters can be.
Entries == UNION {{f[i] : i \in 1..Len(f)} : f \in Files}
Names == {e.section : e \in Entries}
Values == {e.value : e \in Entries} \cup {"NULL"}
Transport == [load : Nat, name : Names, str : [Plain \cup Checked -> Values], maxConn : Int]

MainPcs == {"lock", "parse", "failed", "unblock", "run", "join", "clients", "drain", "ends",
            "freeTp", "freeList", "exit", "quitted"}
VisitorPcs == {"off", "accept", "collect", "lock", "handle", "next", "write", "ended", "undefined"}
ClientPcs == {"off", "find", "pool", "signal", "answer", "undefined"}

Types ==
  /\ mpc \in MainPcs /\ mtx \in Visitors \cup {"free", "main"}
  /\ blocked \in BOOLEAN /\ quitting \in BOOLEAN /\ iniError \in BOOLEAN
  /\ reloads \in Nat
  /\ file \in Seq(Entries) /\ todo \in Seq(Entries)
  /\ tp \in Seq(Transport) /\ transports \in Seq(Nat)
  /\ pc \in [Threads -> VisitorPcs \cup ClientPcs] /\ pos \in [Threads -> Nat]
  /\ cur \in Nat /\ want \in [Clients -> Sections]
  /\ report \in [len : Nat, shown : SUBSET Nat]

\* The list is the end of tp, and no node is on it twice.
Base == Len(tp) - Len(transports)

Numbered ==
  /\ Len(transports) <= Len(tp)
  /\ \A k \in 1..Len(transports) : transports[k] = Base + k

\* The list has what the last load made, all of it until freeTransports has come
\* to the nodes.
NodesGoing == mpc \in {"freeList", "exit", "quitted"} \/ (mpc = "freeTp" /\ cur = None)

Loads ==
  \A j \in 1..Len(tp) :
    /\ tp[j].load <= reloads
    /\ j > Base => tp[j].load = reloads
    /\ j <= Base /\ ~NodesGoing => tp[j].load < reloads

\* The configuration is in force, every name of the file is found in the list, and
\* checkTp let every transport pass.
Good ==
  /\ InForce
  /\ \A i \in 1..Len(file) : \E k \in 1..Len(transports) : tp[transports[k]].name = file[i].section
  /\ \A k \in 1..Len(transports) : CheckTp(tp[transports[k]])

\* Clients may be in their look-ups and pools.
Open == {"run", "join", "clients", "drain", "ends"}

Serving == Open \cup {"unblock"}

\* There is nothing in the list.
Emptied == {"lock", "freeList", "exit", "quitted"}

\* The main thread: what is freed when, and who may come in.
Main ==
  /\ mtx = "main" <=> mpc \in {"parse", "failed"}
  /\ mpc \in Emptied => transports = <<>> /\ live = {}
  /\ mpc \in {"parse", "failed"} \cup Serving => live = Elems(transports)
  /\ mpc = "freeTp" /\ cur = None => live = {}
  /\ mpc = "freeTp" /\ cur # None => cur \in Elems(transports) /\ live = cur..Len(tp)
  /\ mpc \in {"drain", "ends"} => cur = None \/ cur \in Elems(transports)
  /\ mpc = "ends" => cur # None
  /\ mpc \notin {"drain", "ends", "freeTp"} => cur = None
  /\ mpc \in Serving => Good
  /\ mpc = "failed" => ~Valid(file)
  /\ quitting => mpc \in {"join", "clients", "drain", "ends", "freeTp", "freeList", "exit", "quitted"}
  /\ mpc \in {"join", "clients", "freeList", "exit"} => quitting
  /\ blocked \/ quitting \/ mpc = "run"

-----------------------------------------------------------------------------
(***************************************************************************)
(* What ini_parse has handed over, of file f its first n lines.            *)
(***************************************************************************)

Lines(f, n, s, item) == {j \in 1..n : f[j].section = s /\ f[j].item = item}

\* v is the last value of an item, or d if there is none.
LastValue(f, n, s, item, d, v) ==
  \/ Lines(f, n, s, item) = {} /\ v = d
  \/ \E j \in Lines(f, n, s, item) : v = f[j].value /\ \A k \in Lines(f, n, s, item) : k <= j

\* Transport t is what the lines ask for in section s.
Made(f, n, t, s) ==
  /\ t.load = reloads /\ t.name = s
  /\ \A i \in Plain \cup Checked : LastValue(f, n, s, i, "NULL", t.str[i])
  /\ LastValue(f, n, s, "maxConn", 0, t.maxConn)

\* The line i is the first of its section.
IsFirst(f, i) == \A j \in 1..(i - 1) : f[j].section # f[i].section

\* e lists the first lines of the m sections in their order.
Lists(f, n, m, e) ==
  /\ e \in [1..m -> 1..n]
  /\ \A k, l \in 1..m : k < l => e[k] < e[l]
  /\ \A k \in 1..m : IsFirst(f, e[k])
  /\ \A i \in 1..n : \E k \in 1..m : f[e[k]].section = f[i].section

\* The list w, of transports out of u, is what the first n lines of the file ask for.
ListMade(n, w, u) ==
  \E e : /\ Lists(file, n, Len(w), e)
         /\ \A k \in 1..Len(w) : Made(file, n, u[w[k]], file[e[k]].section)

Read == Len(file) - Len(todo)

Parsed ==
  /\ Len(todo) <= Len(file)
  /\ \A i \in 1..Len(todo) : todo[i] = file[Read + i]
  /\ iniError <=> \E i \in 1..Read : ~Known(file[i])
  /\ ListMade(Read, transports, tp)

Parsing == mpc = "parse" => Parsed

-----------------------------------------------------------------------------
(***************************************************************************)
(* The other threads.                                                      *)
(***************************************************************************)

\* A visit that freeTransports has not run into goes along a list of which
\* nothing is freed.
Visit(v) ==
  /\ pc[v] \in VisitorPcs
  /\ mtx = v => pc[v] \in {"handle", "next", "undefined"}
  /\ pc[v] \in {"handle", "next"} => mtx = v
  /\ pc[v] = "undefined" => v \in overtaken
  /\ v \notin overtaken /\ pc[v] \in {"handle", "next"} =>
       /\ transports = <<>> \/ Good
       /\ live = Elems(transports)
       /\ pos[v] \in Elems(transports) \/ (pc[v] = "handle" /\ pos[v] = None)

\* At the exit the monitor has ended, and a timer's thread that comes when the list
\* itself is freed is known.
Leaving(v) ==
  /\ v = "monitor" /\ quitting /\ mpc # "join" => pc[v] = "ended"
  /\ mpc = "exit" /\ pc[v] = "lock" => v \in overtaken

\* A look-up that a reload has not run into is over before freeTransports begins,
\* and the transports it has passed have another name; a client is in a pool, or has
\* its last signal to send, only while abortTransportsConns has not come past it.
LookUp(c) ==
  /\ pc[c] \in ClientPcs
  /\ pc[c] = "undefined" => c \in overtaken
  /\ c \notin overtaken /\ pc[c] = "find" =>
       /\ mpc \in Open
       /\ pos[c] = None \/ pos[c] \in Elems(transports)
       /\ \A j \in Elems(transports) : pos[c] = None \/ j < pos[c] => tp[j].name # want[c]
  /\ c \notin overtaken /\ pc[c] \in {"pool", "signal"} =>
       /\ mpc \in Open
       /\ pos[c] \in Elems(transports) /\ tp[pos[c]].name = want[c]
       /\ mpc \in {"drain", "ends"} => cur # None /\ cur <= pos[c]
       /\ mpc = "ends" /\ pc[c] = "pool" => cur < pos[c]
  /\ ClientsGone => pc[c] = "off"

\* Transport j is in the report, or there is no room for it.
Seen(j) == j \in report.shown \/ report.len + ItemLen[tp[j].name] > maxlen

\* The report has the transports of this load up to the one with number p.
UpTo(p) ==
  /\ \A i \in report.shown : i \in 1..Len(tp) /\ i <= p /\ tp[i].load = reloads
  /\ \A j \in 1..Len(tp) : j <= p /\ tp[j].load = reloads => Seen(j)

Complete ==
  \A i \in report.shown, j \in 1..Len(tp) :
    IF j \in report.shown
      THEN tp[j].load = tp[i].load
      ELSE tp[j].load # tp[i].load \/ report.len + ItemLen[tp[j].name] > maxlen

Reporting ==
  /\ report.len <= maxlen + 1
  /\ \A i \in report.shown : /\ i \in 1..Len(tp)
                             /\ mpc \in {"lock", "parse", "failed"} => tp[i].load < reloads
  /\ pc["monitor"] = "lock" => report.shown = {}
  /\ pc["monitor"] = "handle" /\ pos["monitor"] \in live => UpTo(pos["monitor"] - 1)
  /\ pc["monitor"] = "next" /\ pos["monitor"] \in Elems(transports) => UpTo(pos["monitor"])
  /\ pc["monitor"] = "handle" /\ pos["monitor"] = None => Complete
  /\ pc["monitor"] = "write" => Complete

\* The list and the main thread.
Conf == Types /\ Numbered /\ Loads /\ Main /\ Parsing

IInv ==
  /\ Conf
  /\ \A v \in Visitors : Visit(v) /\ Leaving(v)
  /\ \A c \in Clients : LookUp(c)
  /\ Reporting

-----------------------------------------------------------------------------
(***************************************************************************)
(* Files, and the list as the end of tp.                                   *)
(***************************************************************************)

\* A file is a sequence of lines, and maxConn is a number in all of them.
LEMMA LinesTyped ==
  /\ \A f \in Files : f \in Seq(Entries)
  /\ \A e \in Entries : /\ e.section \in Names /\ e.value \in Values
                        /\ ItemLen[e.section] \in Nat
                        /\ e.item = "maxConn" => e.value \in Int
  /\ \A n \in Names : ItemLen[n] \in Nat
<1>1. ASSUME NEW f \in Files
      PROVE  f \in Seq(Entries)
  <2> DEFINE S == {f[i] : i \in 1..Len(f)}
  <2>1. f \in Seq(S)
    BY TransportsAssumption
  <2>2. S \subseteq Entries
    BY DEF Entries
  <2> HIDE DEF S
  <2> QED BY <2>1, <2>2
<1>2. ASSUME NEW e \in Entries
      PROVE  /\ e.section \in Names /\ e.value \in Values
             /\ ItemLen[e.section] \in Nat
             /\ e.item = "maxConn" => e.value \in Int
  <2>0. PICK f \in Files : e \in {f[i] : i \in 1..Len(f)}
    BY DEF Entries
  <2>1. PICK i \in 1..Len(f) : e = f[i]
    BY <2>0
  <2>2. ItemLen[f[i].section] \in Nat /\ (f[i].item = "maxConn" => f[i].value \in Int)
    BY <2>1, TransportsAssumption
  <2> QED BY <2>1, <2>2 DEF Names, Values
<1>3. ASSUME NEW n \in Names
      PROVE  ItemLen[n] \in Nat
  BY <1>2 DEF Names
<1> QED BY <1>1, <1>2, <1>3

\* The list by its numbers.
LEMMA Listing ==
  ASSUME Types, Numbered
  PROVE  /\ Base \in Nat /\ Len(tp) \in Nat /\ Len(transports) \in Nat
         /\ Len(transports) = Len(tp) - Base
         /\ Elems(transports) = (Base + 1)..Len(tp)
         /\ transports = <<>> <=> Base = Len(tp)
         /\ First = IF transports = <<>> THEN None ELSE Base + 1
         /\ \A i \in Elems(transports) :
              /\ i - Base \in 1..Len(transports) /\ transports[i - Base] = i
              /\ After(i) = IF i = Len(tp) THEN None ELSE i + 1
<1>1. /\ Base \in Nat /\ Len(tp) \in Nat /\ Len(transports) \in Nat
      /\ Len(transports) = Len(tp) - Base
  BY DEF Types, Numbered, Base
<1>2. transports = <<>> <=> Base = Len(tp)
  BY <1>1 DEF Types
<1>3. \A k \in 1..Len(transports) : transports[k] = Base + k
  BY DEF Numbered
<1>4. Elems(transports) = (Base + 1)..Len(tp)
  <2>1. ASSUME NEW i \in (Base + 1)..Len(tp)
        PROVE  i \in Elems(transports)
    <3>1. i - Base \in 1..Len(transports) /\ transports[i - Base] = i
      BY <1>1, <1>3
    <3> QED BY <3>1 DEF Elems
  <2>2. ASSUME NEW i \in Elems(transports)
        PROVE  i \in (Base + 1)..Len(tp)
    BY <1>1, <1>3 DEF Elems
  <2> QED BY <2>1, <2>2
<1>5. First = IF transports = <<>> THEN None ELSE Base + 1
  <2>1. CASE transports = <<>>
    BY <2>1 DEF First
  <2>2. CASE transports # <<>>
    <3>1. 1 \in 1..Len(transports)
      BY <1>1, <1>2, <2>2
    <3> QED BY <1>3, <2>2, <3>1 DEF First
  <2> QED BY <2>1, <2>2
<1>6. ASSUME NEW i \in Elems(transports)
      PROVE  /\ i - Base \in 1..Len(transports) /\ transports[i - Base] = i
             /\ After(i) = IF i = Len(tp) THEN None ELSE i + 1
  <2>1. i - Base \in 1..Len(transports) /\ transports[i - Base] = i
    BY <1>1, <1>3, <1>4
  <2>2. \A j \in 1..Len(transports) : transports[j] = i <=> j = i - Base
    BY <1>1, <1>3, <1>4
  <2> DEFINE k == CHOOSE j \in 1..Len(transports) : transports[j] = i
  <2>3. k = i - Base
    BY <2>1, <2>2
  <2>4. After(i) = IF k = Len(transports) THEN None ELSE transports[k + 1]
    BY DEF After
  <2> HIDE DEF k
  <2>5. i \in (Base + 1)..Len(tp)
    BY <1>4
  <2>6. k = Len(transports) <=> i = Len(tp)
    BY <1>1, <2>3, <2>5
  <2>7. k # Len(transports) => transports[k + 1] = i + 1
    <3>1. ASSUME k # Len(transports)
          PROVE  k + 1 \in 1..Len(transports) /\ Base + (k + 1) = i + 1
      BY <1>1, <2>3, <2>5, <3>1
    <3> QED BY <1>3, <3>1
  <2> QED BY <2>1, <2>4, <2>6, <2>7
<1> QED BY <1>1, <1>2, <1>4, <1>5, <1>6

\* The way along the list.
LEMMA Walk ==
  ASSUME Types, Numbered
  PROVE  /\ First \in Nat /\ (First = None \/ First \in Elems(transports))
         /\ \A i \in Elems(transports) :
              /\ i \in Nat /\ i # None /\ First <= i /\ First # None
              /\ After(i) \in Nat /\ (After(i) = None \/ After(i) \in Elems(transports))
              /\ \A j \in Elems(transports) : i < j => After(i) # None /\ After(i) <= j
<1>1. /\ Base \in Nat /\ Len(tp) \in Nat /\ Base <= Len(tp)
      /\ Elems(transports) = (Base + 1)..Len(tp)
      /\ transports = <<>> <=> Base = Len(tp)
      /\ First = IF transports = <<>> THEN None ELSE Base + 1
      /\ \A i \in Elems(transports) : After(i) = IF i = Len(tp) THEN None ELSE i + 1
  BY Listing DEF Numbered
<1>2. First \in Nat /\ (First = None \/ First \in Elems(transports))
  BY <1>1 DEF None
<1>3. ASSUME NEW i \in Elems(transports)
      PROVE  /\ i \in Nat /\ i # None /\ First <= i /\ First # None
             /\ After(i) \in Nat /\ (After(i) = None \/ After(i) \in Elems(transports))
             /\ \A j \in Elems(transports) : i < j => After(i) # None /\ After(i) <= j
  <2>1. i \in (Base + 1)..Len(tp) /\ After(i) = IF i = Len(tp) THEN None ELSE i + 1
    BY <1>1
  <2>2. First = Base + 1
    BY <1>1, <2>1
  <2>3. After(i) = None \/ After(i) \in Elems(transports)
    BY <1>1, <2>1
  <2>4. ASSUME NEW j \in Elems(transports), i < j
        PROVE  After(i) # None /\ After(i) <= j
    <3>1. j \in (Base + 1)..Len(tp)
      BY <1>1
    <3> QED BY <1>1, <2>1, <2>4, <3>1 DEF None
  <2> QED BY <1>1, <2>1, <2>2, <2>3, <2>4 DEF None
<1> QED BY <1>2, <1>3

\* What is in force stays so as long as the list and its file do.
LEMMA GoodStays ==
  ASSUME Good, UNCHANGED <<file, transports, tp, reloads>>
  PROVE  Good'
<1>1. Asked(file)' = Asked(file)
  BY DEF Asked
<1>2. Valid(file)' = Valid(file)
  BY <1>1 DEF Valid
<1>3. InForce'
  BY <1>1, <1>2 DEF Good, InForce
<1> QED BY <1>3 DEF Good

-----------------------------------------------------------------------------
(***************************************************************************)
(* ini_parse hands over the next line.                                     *)
(***************************************************************************)

\* The last value of an item, with one line more.
LEMMA LastValueStep ==
  ASSUME NEW f, NEW n \in Nat, NEW s, NEW item, NEW d, NEW v
  PROVE  /\ f[n + 1].section = s /\ f[n + 1].item = item
              => LastValue(f, n + 1, s, item, d, f[n + 1].value)
         /\ ~(f[n + 1].section = s /\ f[n + 1].item = item) /\ LastValue(f, n, s, item, d, v)
              => LastValue(f, n + 1, s, item, d, v)
         /\ (\A i \in 1..n : f[i].section # s) => LastValue(f, n, s, item, d, d)
<1>1. \A j : j \in 1..(n + 1) <=> j \in 1..n \/ j = n + 1
  OBVIOUS
<1>2. ASSUME f[n + 1].section = s, f[n + 1].item = item
      PROVE  LastValue(f, n + 1, s, item, d, f[n + 1].value)
  <2>1. n + 1 \in Lines(f, n + 1, s, item)
    BY <1>1, <1>2 DEF Lines
  <2>2. \A k \in Lines(f, n + 1, s, item) : k <= n + 1
    BY DEF Lines
  <2> QED BY <2>1, <2>2 DEF LastValue
<1>3. ASSUME ~(f[n + 1].section = s /\ f[n + 1].item = item), LastValue(f, n, s, item, d, v)
      PROVE  LastValue(f, n + 1, s, item, d, v)
  <2>1. Lines(f, n + 1, s, item) = Lines(f, n, s, item)
    BY <1>1, <1>3 DEF Lines
  <2> QED BY <1>3, <2>1 DEF LastValue
<1>4. ASSUME \A i \in 1..n : f[i].section # s
      PROVE  LastValue(f, n, s, item, d, d)
  BY <1>4 DEF LastValue, Lines
<1> QED BY <1>2, <1>3, <1>4

\* A line of another section leaves a transport as it is asked for.
LEMMA MadeOther ==
  ASSUME NEW f, NEW n \in Nat, NEW t, NEW s, f[n + 1].section # s, Made(f, n, t, s)
  PROVE  Made(f, n + 1, t, s)
<1>1. \A i \in Plain \cup Checked : LastValue(f, n + 1, s, i, "NULL", t.str[i])
  BY LastValueStep DEF Made
<1>2. LastValue(f, n + 1, s, "maxConn", 0, t.maxConn)
  BY LastValueStep DEF Made
<1> QED BY <1>1, <1>2 DEF Made

\* newTp: no line has been read of a section that is new.
LEMMA MadeNew ==
  ASSUME NEW f, NEW n \in Nat, NEW s, \A i \in 1..n : f[i].section # s
  PROVE  Made(f, n, EmptyTp(s), s)
<1>1. \A item, d : LastValue(f, n, s, item, d, d)
  BY LastValueStep
<1>2. /\ EmptyTp(s).load = reloads /\ EmptyTp(s).name = s /\ EmptyTp(s).maxConn = 0
      /\ \A i \in Plain \cup Checked : EmptyTp(s).str[i] = "NULL"
  BY DEF EmptyTp
<1>3. LastValue(f, n, s, "maxConn", 0, EmptyTp(s).maxConn)
  BY <1>1, <1>2, Zenon
<1>4. \A i \in Plain \cup Checked : LastValue(f, n, s, i, "NULL", EmptyTp(s).str[i])
  BY <1>1, <1>2, Zenon
<1> QED BY <1>2, <1>3, <1>4, Zenon DEF Made

\* HANDLE_STR_ITEM and HANDLE_INT_ITEM: a line of its own section sets one item.
LEMMA MadeSet ==
  ASSUME NEW f, NEW n \in Nat, NEW t \in Transport, NEW e \in Entries, f[n + 1] = e,
         Made(f, n, t, e.section)
  PROVE  /\ Made(f, n + 1, Set(t, e), e.section)
         /\ Set(t, e) \in Transport
         /\ Set(t, e).load = t.load /\ Set(t, e).name = t.name
<1> DEFINE s == e.section
           u == Set(t, e)
<1>0. e.value \in Values /\ (e.item = "maxConn" => e.value \in Int)
  BY LinesTyped
<1>4. \A d : LastValue(f, n + 1, s, e.item, d, e.value)
  BY LastValueStep
<1>5. ASSUME NEW item, NEW d, NEW v, e.item # item, LastValue(f, n, s, item, d, v)
      PROVE  LastValue(f, n + 1, s, item, d, v)
  BY <1>5, LastValueStep
<1>6. LastValue(f, n, s, "maxConn", 0, t.maxConn)
  BY DEF Made
<1>7. \A i \in Plain \cup Checked : LastValue(f, n, s, i, "NULL", t.str[i])
  BY DEF Made
<1>1. CASE e.item \in Plain \cup Checked
  <2>1. u = [t EXCEPT !.str[e.item] = e.value]
    BY <1>1, TransportsAssumption DEF Set
  <2>2. /\ u \in Transport /\ u.load = t.load /\ u.name = t.name /\ u.maxConn = t.maxConn
        /\ \A i \in Plain \cup Checked : u.str[i] = IF i = e.item THEN e.value ELSE t.str[i]
    BY <1>0, <2>1 DEF Transport
  <2> HIDE DEF u
  <2>3. e.item # "maxConn"
    BY <1>1, TransportsAssumption
  <2>4. LastValue(f, n + 1, s, "maxConn", 0, u.maxConn)
    BY <2>2, <2>3, <1>5, <1>6, Zenon
  <2>5. ASSUME NEW i \in Plain \cup Checked
        PROVE  LastValue(f, n + 1, s, i, "NULL", u.str[i])
    <3>1. CASE i = e.item
      BY <2>2, <3>1, <1>4, Zenon
    <3>2. CASE i # e.item
      BY <2>2, <3>2, <1>5, <1>7, Zenon
    <3> QED BY <3>1, <3>2
  <2>6. Made(f, n + 1, u, s)
    BY <2>2, <2>4, <2>5 DEF Made
  <2> QED BY <2>2, <2>6 DEF u
<1>2. CASE e.item = "maxConn"
  <2>1. u = [t EXCEPT !.maxConn = e.value]
    BY <1>2, TransportsAssumption DEF Set
  <2>2. u \in Transport /\ u.load = t.load /\ u.name = t.name /\ u.str = t.str /\ u.maxConn = e.value
    BY <1>0, <1>2, <2>1 DEF Transport
  <2> HIDE DEF u
  <2>3. LastValue(f, n + 1, s, "maxConn", 0, u.maxConn)
    BY <1>2, <2>2, <1>4, Zenon
  <2>4. \A i \in Plain \cup Checked : i # "maxConn"
    BY TransportsAssumption
  <2>5. \A i \in Plain \cup Checked : LastValue(f, n + 1, s, i, "NULL", u.str[i])
    BY <1>2, <2>2, <2>4, <1>5, <1>7, Zenon
  <2>6. Made(f, n + 1, u, s)
    BY <2>2, <2>3, <2>5 DEF Made
  <2> QED BY <2>2, <2>6 DEF u
<1>3. CASE e.item \notin Plain \cup Checked \cup {"maxConn"}
  <2>1. u = t
    BY <1>3 DEF Set
  <2> HIDE DEF u
  <2>2. LastValue(f, n + 1, s, "maxConn", 0, t.maxConn)
    BY <1>3, <1>5, <1>6
  <2>3. \A i \in Plain \cup Checked : LastValue(f, n + 1, s, i, "NULL", t.str[i])
    BY <1>3, <1>5, <1>7
  <2>4. Made(f, n + 1, t, s)
    BY <2>2, <2>3 DEF Made
  <2> QED BY <1>7, <2>1, <2>4 DEF u
<1> QED BY <1>1, <1>2, <1>3

\* The sections in their order, with a line of a new one, and with one more line
\* of an old one.
LEMMA ListsNew ==
  ASSUME NEW f, NEW n \in Nat, NEW m \in Nat, NEW e, Lists(f, n, m, e),
         \A i \in 1..n : f[i].section # f[n + 1].section,
         NEW g \in [1..(m + 1) -> 1..(n + 1)], \A k \in 1..m : g[k] = e[k], g[m + 1] = n + 1
  PROVE  Lists(f, n + 1, m + 1, g)
<1>1. e \in [1..m -> 1..n]
  BY DEF Lists
<1>2. /\ \A k \in 1..m : k \in 1..(m + 1) /\ g[k] = e[k] /\ e[k] \in 1..n
      /\ g[m + 1] = n + 1 /\ m + 1 \in 1..(m + 1)
      /\ \A k \in 1..(m + 1) : k \in 1..m \/ k = m + 1
  BY <1>1
<1>3. g \in [1..(m + 1) -> 1..(n + 1)]
  OBVIOUS
<1>4. ASSUME NEW k \in 1..(m + 1), NEW l \in 1..(m + 1), k < l
      PROVE  g[k] < g[l]
  <2>1. k \in 1..m
    BY <1>4
  <2>2. CASE l \in 1..m
    BY <1>2, <1>4, <2>1, <2>2 DEF Lists
  <2>3. CASE l = m + 1
    BY <1>2, <2>1, <2>3
  <2> QED BY <1>2, <2>2, <2>3
<1>5. ASSUME NEW k \in 1..(m + 1)
      PROVE  IsFirst(f, g[k])
  <2>1. CASE k \in 1..m
    BY <1>2, <2>1 DEF Lists
  <2>2. CASE k = m + 1
    BY <1>2, <2>2 DEF IsFirst
  <2> QED BY <1>2, <2>1, <2>2
<1>6. ASSUME NEW i \in 1..(n + 1)
      PROVE  \E k \in 1..(m + 1) : f[g[k]].section = f[i].section
  <2>1. CASE i = n + 1
    BY <1>2, <2>1
  <2>2. CASE i # n + 1
    <3>1. PICK k \in 1..m : f[e[k]].section = f[i].section
      BY <2>2 DEF Lists
    <3> QED BY <1>2, <3>1
  <2> QED BY <2>1, <2>2
<1> QED BY <1>3, <1>4, <1>5, <1>6 DEF Lists

LEMMA ListsSame ==
  ASSUME NEW f, NEW n \in Nat, NEW m \in Nat, NEW e, Lists(f, n, m, e),
         NEW k \in 1..m, f[e[k]].section = f[n + 1].section
  PROVE  Lists(f, n + 1, m, e)
<1>1. e \in [1..m -> 1..(n + 1)]
  <2>1. e \in [1..m -> 1..n]
    BY DEF Lists
  <2> QED BY <2>1
<1>2. \A i \in 1..(n + 1) : i \in 1..n \/ i = n + 1
  OBVIOUS
<1>3. \A i \in 1..(n + 1) : \E l \in 1..m : f[e[l]].section = f[i].section
  BY <1>2 DEF Lists
<1> QED BY <1>1, <1>3 DEF Lists

\* No two of them have the same name.
LEMMA ListsDistinct ==
  ASSUME NEW f, NEW n \in Nat, NEW m \in Nat, NEW e, Lists(f, n, m, e),
         NEW k \in 1..m, NEW l \in 1..m, f[e[k]].section = f[e[l]].section
  PROVE  k = l
<1>1. e[k] \in 1..n /\ e[l] \in 1..n /\ IsFirst(f, e[k]) /\ IsFirst(f, e[l])
  BY DEF Lists
<1>2. ~(e[k] < e[l]) /\ ~(e[l] < e[k])
  BY <1>1 DEF IsFirst
<1>3. (k < l => e[k] < e[l]) /\ (l < k => e[l] < e[k])
  BY DEF Lists
<1> QED BY <1>2, <1>3

\* A name that is not in the list is in none of the lines.
LEMMA NameIsNew ==
  ASSUME NEW n \in Nat, NEW w, NEW u, ListMade(n, w, u), NEW s,
         \A k \in 1..Len(w) : u[w[k]].name # s
  PROVE  \A i \in 1..n : file[i].section # s
<1>1. PICK g : /\ Lists(file, n, Len(w), g)
               /\ \A k \in 1..Len(w) : Made(file, n, u[w[k]], file[g[k]].section)
  BY DEF ListMade
<1>2. ASSUME NEW i \in 1..n
      PROVE  file[i].section # s
  <2>1. PICK k \in 1..Len(w) : file[g[k]].section = file[i].section
    BY <1>1 DEF Lists
  <2>2. u[w[k]].name = file[i].section
    BY <1>1, <2>1 DEF Made
  <2> QED BY <2>2
<1> QED BY <1>2

\* The next line makes a transport, which joins the list.
LEMMA ListMadeNew ==
  ASSUME NEW n \in Nat, NEW m \in Nat, NEW w, NEW u, Len(w) = m, ListMade(n, w, u),
         \A i \in 1..n : file[i].section # file[n + 1].section,
         NEW ww, NEW uu, Len(ww) = m + 1, \A k \in 1..m : uu[ww[k]] = u[w[k]],
         Made(file, n + 1, uu[ww[m + 1]], file[n + 1].section)
  PROVE  ListMade(n + 1, ww, uu)
<1>1. PICK g : /\ Lists(file, n, m, g)
               /\ \A k \in 1..m : Made(file, n, u[w[k]], file[g[k]].section)
  BY DEF ListMade
<1> DEFINE h == [k \in 1..(m + 1) |-> IF k <= m THEN g[k] ELSE n + 1]
<1>2. \A k \in 1..m : g[k] \in 1..n
  BY <1>1 DEF Lists
<1>3. /\ h \in [1..(m + 1) -> 1..(n + 1)]
      /\ \A k \in 1..m : h[k] = g[k]
      /\ h[m + 1] = n + 1
  BY <1>2
<1> HIDE DEF h
<1>4. Lists(file, n + 1, m + 1, h)
  <2>1. \A i \in 1..n : file[i].section # file[n + 1].section
    OBVIOUS
  <2>2. n \in Nat /\ m \in Nat /\ Lists(file, n, m, g)
    BY <1>1
  <2> QED BY ONLY <2>1, <2>2, <1>3, ListsNew
<1>5. ASSUME NEW k \in 1..m
      PROVE  Made(file, n + 1, uu[ww[k]], file[h[k]].section)
  <2>1. Made(file, n, u[w[k]], file[g[k]].section)
    BY <1>1
  <2>2. file[n + 1].section # file[g[k]].section
    BY <1>2
  <2>3. Made(file, n + 1, u[w[k]], file[g[k]].section)
    BY <2>1, <2>2, MadeOther
  <2> QED BY <1>3, <2>3
<1>6. Made(file, n + 1, uu[ww[m + 1]], file[h[m + 1]].section)
  BY <1>3
<1>7. \A k \in 1..(m + 1) : k \in 1..m \/ k = m + 1
  OBVIOUS
<1>8. \A k \in 1..(m + 1) : Made(file, n + 1, uu[ww[k]], file[h[k]].section)
  BY <1>5, <1>6, <1>7
<1> QED BY <1>4, <1>8 DEF ListMade

\* The next line changes the transport at place k.
LEMMA ListMadeOld ==
  ASSUME NEW n \in Nat, NEW m \in Nat, NEW w, NEW u, Len(w) = m, ListMade(n, w, u),
         NEW k \in 1..m, u[w[k]].name = file[n + 1].section,
         NEW uu, \A l \in 1..m : l # k => uu[w[l]] = u[w[l]],
         Made(file, n + 1, uu[w[k]], file[n + 1].section)
  PROVE  ListMade(n + 1, w, uu)
<1>1. PICK g : /\ Lists(file, n, m, g)
               /\ \A l \in 1..m : Made(file, n, u[w[l]], file[g[l]].section)
  BY DEF ListMade
<1>2. file[g[k]].section = file[n + 1].section
  BY <1>1 DEF Made
<1>3. Lists(file, n + 1, m, g)
  BY <1>1, <1>2, ListsSame
<1>4. ASSUME NEW l \in 1..m, l # k
      PROVE  Made(file, n + 1, uu[w[l]], file[g[l]].section)
  <2>1. file[n + 1].section # file[g[l]].section
    BY <1>1, <1>2, <1>4, ListsDistinct
  <2>2. Made(file, n, u[w[l]], file[g[l]].section)
    BY <1>1
  <2>3. Made(file, n + 1, u[w[l]], file[g[l]].section)
    BY <2>1, <2>2, MadeOther
  <2> QED BY <1>4, <2>3
<1>5. Made(file, n + 1, uu[w[k]], file[g[k]].section)
  BY <1>2
<1>6. \A l \in 1..m : Made(file, n + 1, uu[w[l]], file[g[l]].section)
  BY <1>4, <1>5
<1> QED BY <1>3, <1>6 DEF ListMade

-----------------------------------------------------------------------------
(***************************************************************************)
(* When all lines are read, the list is what the file asks for: the parts  *)
(* of Asked, by name.                                                      *)
(***************************************************************************)

Firsts(f) == {i \in 1..Len(f) : IsFirst(f, i)}
Nth(f, k) == CHOOSE i \in Firsts(f) : Cardinality({j \in Firsts(f) : j < i}) = k - 1
Lasts(f, s, item) ==
  {f[i].value : i \in {i \in 1..Len(f) : /\ f[i].section = s /\ f[i].item = item
                         /\ \A j \in (i + 1)..Len(f) : f[j].section = s => f[j].item # item}}
OneOf(S, otherwise) == IF S = {} THEN otherwise ELSE CHOOSE x \in S : TRUE
AskedTp(f, s) ==
  [load |-> reloads, name |-> s,
   str |-> [i \in Plain \cup Checked |-> OneOf(Lasts(f, s, i), "NULL")],
   maxConn |-> OneOf(Lasts(f, s, "maxConn"), 0)]

LEMMA AskedParts ==
  ASSUME NEW f
  PROVE  Asked(f) = [k \in 1..Cardinality(Firsts(f)) |-> AskedTp(f, f[Nth(f, k)].section)]
BY DEF Asked, Firsts, IsFirst, Nth, Lasts, OneOf, AskedTp

\* The last value of an item is the only one of Lasts.
LEMMA LastIsOne ==
  ASSUME NEW f, Len(f) \in Nat, NEW s, NEW item, NEW d, NEW v,
         LastValue(f, Len(f), s, item, d, v)
  PROVE  OneOf(Lasts(f, s, item), d) = v
<1> DEFINE At == {i \in 1..Len(f) : /\ f[i].section = s /\ f[i].item = item
                        /\ \A j \in (i + 1)..Len(f) : f[j].section = s => f[j].item # item}
<1>1. CASE Lines(f, Len(f), s, item) = {} /\ v = d
  <2>1. At = {}
    BY <1>1 DEF Lines
  <2>2. Lasts(f, s, item) = {}
    BY <2>1 DEF Lasts
  <2> QED BY <1>1, <2>2 DEF OneOf
<1>2. CASE \E j \in Lines(f, Len(f), s, item) :
             v = f[j].value /\ \A k \in Lines(f, Len(f), s, item) : k <= j
  <2>1. PICK j \in Lines(f, Len(f), s, item) :
               v = f[j].value /\ \A k \in Lines(f, Len(f), s, item) : k <= j
    BY <1>2
  <2>2. j \in 1..Len(f) /\ f[j].section = s /\ f[j].item = item
    BY DEF Lines
  <2>3. \A k \in 1..Len(f) : f[k].section = s /\ f[k].item = item => k <= j
    BY <2>1 DEF Lines
  <2>4. j \in At
    BY <2>2, <2>3
  <2>5. ASSUME NEW k \in At
        PROVE  k = j
    <3>1. k \in 1..Len(f) /\ k <= j /\ (j \in (k + 1)..Len(f) => f[j].item # item)
      BY <2>2, <2>3
    <3> QED BY <2>2, <3>1
  <2>6. At = {j}
    BY <2>4, <2>5
  <2>7. Lasts(f, s, item) = {f[i].value : i \in At}
    BY DEF Lasts
  <2> HIDE DEF At
  <2>8. Lasts(f, s, item) = {v}
    BY <2>1, <2>6, <2>7
  <2> QED BY <2>8 DEF OneOf
<1> QED BY <1>1, <1>2 DEF LastValue

\* A transport that was made from all lines is the one that is asked for.
LEMMA MadeIsAskedTp ==
  ASSUME NEW f, Len(f) \in Nat, NEW t \in Transport, NEW s, Made(f, Len(f), t, s)
  PROVE  t = AskedTp(f, s)
<1>1. t.load = reloads /\ t.name = s
  BY DEF Made
<1>2. OneOf(Lasts(f, s, "maxConn"), 0) = t.maxConn
  <2>1. LastValue(f, Len(f), s, "maxConn", 0, t.maxConn)
    BY DEF Made
  <2> QED BY <2>1, LastIsOne
<1>3. ASSUME NEW i \in Plain \cup Checked
      PROVE  OneOf(Lasts(f, s, i), "NULL") = t.str[i]
  <2>1. LastValue(f, Len(f), s, i, "NULL", t.str[i])
    BY DEF Made
  <2> QED BY <2>1, LastIsOne
<1>4. t.str = [i \in Plain \cup Checked |-> OneOf(Lasts(f, s, i), "NULL")]
  BY <1>3 DEF Transport
<1> QED BY <1>1, <1>2, <1>4 DEF Transport, AskedTp

\* Numbering a set makes its size known.
LEMMA CountedBy ==
  ASSUME NEW S, NEW m \in Nat, NEW g \in [1..m -> S],
         \A k, l \in 1..m : g[k] = g[l] => k = l,
         \A i \in S : \E k \in 1..m : g[k] = i
  PROVE  Cardinality(S) = m
<1>1. g \in Bijection(1..m, S)
  BY DEF Bijection, Injection, Surjection, IsInjective
<1>2. IsFiniteSet(1..m) /\ Cardinality(1..m) = m
  BY FS_Interval
<1> QED BY <1>1, <1>2, FS_Bijection DEF ExistsBijection

\* The place of a section among the sections.
LEMMA FirstsCounted ==
  ASSUME NEW f, Len(f) \in Nat, NEW m \in Nat, NEW g, Lists(f, Len(f), m, g)
  PROVE  Cardinality(Firsts(f)) = m /\ \A k \in 1..m : Nth(f, k) = g[k]
<1>1. /\ g \in [1..m -> 1..Len(f)]
      /\ \A k, l \in 1..m : k < l => g[k] < g[l]
      /\ \A k \in 1..m : IsFirst(f, g[k])
  BY DEF Lists
<1>2. g \in [1..m -> Firsts(f)]
  BY <1>1 DEF Firsts
<1>3. ASSUME NEW i \in Firsts(f)
      PROVE  \E k \in 1..m : g[k] = i
  <2>1. i \in 1..Len(f) /\ IsFirst(f, i)
    BY DEF Firsts
  <2>2. PICK k \in 1..m : f[g[k]].section = f[i].section
    BY <2>1 DEF Lists
  <2>3. g[k] \in 1..Len(f) /\ IsFirst(f, g[k])
    BY <1>1
  <2>4. ~(i < g[k]) /\ ~(g[k] < i)
    BY <2>1, <2>2, <2>3 DEF IsFirst
  <2> QED BY <2>1, <2>3, <2>4
<1>4. ASSUME NEW k \in 1..m, NEW l \in 1..m
      PROVE  (g[k] = g[l] => k = l) /\ (g[l] < g[k] <=> l < k)
  <2>1. g[k] \in Int /\ g[l] \in Int /\ k \in Int /\ l \in Int
    BY <1>1
  <2>2. (k < l => g[k] < g[l]) /\ (l < k => g[l] < g[k])
    BY <1>1
  <2> QED BY <2>1, <2>2
<1>5. Cardinality(Firsts(f)) = m
  BY <1>2, <1>3, <1>4, CountedBy
<1>6. ASSUME NEW k \in 1..m
      PROVE  Cardinality({j \in Firsts(f) : j < g[k]}) = k - 1
  <2> DEFINE S == {j \in Firsts(f) : j < g[k]}
             h == [l \in 1..(k - 1) |-> g[l]]
  <2>1. \A l \in 1..(k - 1) : l \in 1..m /\ l < k /\ h[l] = g[l]
    OBVIOUS
  <2>2. h \in [1..(k - 1) -> S]
    BY <1>2, <1>4, <2>1
  <2>3. \A l, n \in 1..(k - 1) : h[l] = h[n] => l = n
    BY <1>4, <2>1
  <2>4. ASSUME NEW i \in S
        PROVE  \E l \in 1..(k - 1) : h[l] = i
    <3>1. PICK l \in 1..m : g[l] = i
      BY <1>3
    <3>2. l < k
      BY <1>4, <3>1
    <3>3. l \in 1..(k - 1)
      BY <3>2
    <3> QED BY <2>1, <3>1, <3>3
  <2>5. k - 1 \in Nat
    OBVIOUS
  <2> HIDE DEF h, S
  <2>6. Cardinality(S) = k - 1
    BY <2>2, <2>3, <2>4, <2>5, CountedBy
  <2> QED BY <2>6 DEF S
<1>7. ASSUME NEW k \in 1..m
      PROVE  Nth(f, k) = g[k]
  <2>1. g[k] \in Firsts(f)
    BY <1>2
  <2>2. ASSUME NEW i \in Firsts(f), Cardinality({j \in Firsts(f) : j < i}) = k - 1
        PROVE  i = g[k]
    <3>1. PICK l \in 1..m : g[l] = i
      BY <1>3
    <3>2. Cardinality({j \in Firsts(f) : j < g[l]}) = l - 1
      BY <1>6
    <3>3. l - 1 = k - 1
      BY <2>2, <3>1, <3>2
    <3> QED BY <3>1, <3>3
  <2> QED BY <1>6, <2>1, <2>2 DEF Nth
<1> QED BY <1>5, <1>7

\* The list that was made from all lines is in the order that is asked for.
LEMMA ParsedIsAsked ==
  ASSUME Len(file) \in Nat, NEW w, Len(w) \in Nat, NEW u, ListMade(Len(file), w, u),
         \A k \in 1..Len(w) : u[w[k]] \in Transport
  PROVE  /\ [k \in 1..Len(w) |-> u[w[k]]] = Asked(file)
         /\ \A i \in 1..Len(file) : \E k \in 1..Len(w) : u[w[k]].name = file[i].section
<1>1. PICK g : /\ Lists(file, Len(file), Len(w), g)
               /\ \A k \in 1..Len(w) : Made(file, Len(file), u[w[k]], file[g[k]].section)
  BY DEF ListMade
<1>2. Cardinality(Firsts(file)) = Len(w) /\ \A k \in 1..Len(w) : Nth(file, k) = g[k]
  BY <1>1, FirstsCounted
<1>3. ASSUME NEW k \in 1..Len(w)
      PROVE  u[w[k]] = AskedTp(file, file[Nth(file, k)].section)
  <2>1. Made(file, Len(file), u[w[k]], file[g[k]].section)
    BY <1>1
  <2> QED BY <1>2, <2>1, MadeIsAskedTp
<1>4. [k \in 1..Len(w) |-> u[w[k]]] = Asked(file)
  BY <1>2, <1>3, AskedParts
<1>5. ASSUME NEW i \in 1..Len(file)
      PROVE  \E k \in 1..Len(w) : u[w[k]].name = file[i].section
  <2>1. PICK k \in 1..Len(w) : file[g[k]].section = file[i].section
    BY <1>1 DEF Lists
  <2>2. u[w[k]].name = file[i].section
    BY <1>1, <2>1 DEF Made
  <2> QED BY <2>2
<1> QED BY <1>4, <1>5

-----------------------------------------------------------------------------
(***************************************************************************)
(* loadTpConfig keeps the invariant of the list.                           *)
(***************************************************************************)

\* What a line does to tp: it makes a transport of this load, or changes what
\* is not its name.
OneLine ==
  /\ Len(tp') >= Len(tp)
  /\ \A j \in 1..Len(tp) : tp'[j].load = tp[j].load /\ tp'[j].name = tp[j].name
  /\ \A j \in 1..Len(tp') : j > Len(tp) => tp'[j].load = reloads

\* The next line of the file is the one that is handed over.
HeadIsNext == Read \in Nat /\ Head(todo) \in Entries /\ file[Read + 1] = Head(todo)

\* The list with one line more.
LEMMA LineMakes ==
  ASSUME Types, Numbered, Loads, live = Elems(transports), Parsed, TpIniHandler,
         HeadIsNext
  PROVE  /\ tp' \in Seq(Transport) /\ transports' \in Seq(Nat)
         /\ Numbered' /\ Base' = Base /\ OneLine
         /\ live' = Elems(transports)'
         /\ ListMade(Read + 1, transports', tp')
<1> DEFINE m == Len(transports)
           e == Head(todo)
           s == e.section
           found == FindSection(s)
<1>1. /\ Base \in Nat /\ Len(tp) \in Nat /\ m \in Nat /\ m = Len(tp) - Base
      /\ tp \in Seq(Transport) /\ transports \in Seq(Nat) /\ Elems(transports) = (Base + 1)..Len(tp)
      /\ \A k \in 1..m : transports[k] = Base + k
      /\ \A i \in Elems(transports) : i - Base \in 1..m /\ transports[i - Base] = i
  BY Listing DEF Types, Numbered
<1>2. ListMade(Read, transports, tp) /\ e \in Entries /\ Read \in Nat
  BY DEF Parsed, HeadIsNext
<1>6. file[Read + 1] = e
  BY DEF HeadIsNext
<1>3. ASSUME found = {},
             transports' = Append(transports, Len(tp) + 1),
             tp' = Append(tp, Set(EmptyTp(s), e)), live' = live \cup {Len(tp) + 1}
      PROVE  /\ tp' \in Seq(Transport) /\ transports' \in Seq(Nat)
             /\ Numbered' /\ Base' = Base /\ OneLine
             /\ live' = Elems(transports)'
             /\ ListMade(Read + 1, transports', tp')
  <2> DEFINE t == Set(EmptyTp(s), e)
  <2>1. \A k \in 1..m : tp[transports[k]].name # s
    BY <1>3 DEF FindSection, Elems
  <2>2. \A i \in 1..Read : file[i].section # s
    <3> HIDE DEF s
    <3>1. \A k \in 1..Len(transports) : tp[transports[k]].name # s
      BY <2>1
    <3>2. Read \in Nat /\ ListMade(Read, transports, tp)
      BY <1>2
    <3> QED BY <3>1, <3>2, NameIsNew, Z3
  <2>3. EmptyTp(s) \in Transport
    <3>1. s \in Names /\ "NULL" \in Values /\ reloads \in Nat
      BY <1>2, LinesTyped DEF Values, Types
    <3> QED BY <3>1 DEF EmptyTp, Transport
  <2>4. EmptyTp(s).load = reloads /\ Made(file, Read, EmptyTp(s), s)
    <3>1. Made(file, Read, EmptyTp(s), s)
      BY <1>2, <2>2, MadeNew, Zenon
    <3> QED BY <3>1 DEF EmptyTp
  <2>5. Made(file, Read + 1, t, s) /\ t \in Transport /\ t.load = reloads
    <3>1. /\ Made(file, Read + 1, Set(EmptyTp(s), e), e.section)
          /\ Set(EmptyTp(s), e) \in Transport
          /\ Set(EmptyTp(s), e).load = EmptyTp(s).load
      BY <1>2, <1>6, <2>3, <2>4, MadeSet
    <3> QED BY <2>4, <3>1
  <2>6. tp' = Append(tp, t) /\ transports' = Append(transports, Len(tp) + 1) /\ Len(tp) + 1 \in Nat
    BY <1>1, <1>3
  <2> HIDE <1>3 DEF t, s, e, m
  <2>7. /\ tp' \in Seq(Transport) /\ Len(tp') = Len(tp) + 1 /\ tp'[Len(tp) + 1] = t
        /\ \A j \in 1..Len(tp) : tp'[j] = tp[j]
    BY <1>1, <2>5, <2>6, AppendProperties
  <2>8. /\ transports' \in Seq(Nat) /\ Len(transports') = m + 1 /\ transports'[m + 1] = Len(tp) + 1
        /\ \A k \in 1..m : transports'[k] = transports[k]
    BY <1>1, <2>6, AppendProperties DEF m
  <2>9. Base' = Base
    BY <1>1, <2>7, <2>8 DEF Base, m
  <2>10. \A k \in 1..Len(transports') : k \in 1..m \/ k = m + 1
    <3>1. Len(transports') = m + 1 /\ m \in Nat
      BY <1>1, <2>8
    <3> QED BY <3>1
  <2>11. ASSUME NEW k \in 1..Len(transports')
         PROVE  transports'[k] = Base + k
    <3>1. CASE k \in 1..m
      <4>1. transports[k] = Base + k
        BY <1>1, <3>1 DEF m
      <4> QED BY <2>8, <3>1, <4>1
    <3>2. CASE k = m + 1
      <4>1. Len(tp) + 1 = Base + (m + 1)
        BY <1>1 DEF m
      <4> QED BY <2>8, <3>2, <4>1
    <3> QED BY <2>10, <3>1, <3>2
  <2>12. Numbered'
    BY <1>1, <2>7, <2>8, <2>9, <2>11 DEF Numbered
  <2>13. OneLine
    BY <1>1, <2>5, <2>7 DEF OneLine
  <2>14. Elems(transports)' = Elems(transports) \cup {Len(tp) + 1}
    <3>1. (\A k \in 1..m : k \in 1..Len(transports')) /\ m + 1 \in 1..Len(transports')
      BY <1>1, <2>8
    <3> QED BY <2>8, <2>10, <3>1 DEF Elems, m
  <2>15. ASSUME NEW k \in 1..m
         PROVE  tp'[transports'[k]] = tp[transports[k]]
    <3>1. transports[k] = Base + k /\ Base + k \in 1..Len(tp)
      BY <1>1 DEF m
    <3> QED BY <2>7, <2>8, <3>1
  <2>16. ListMade(Read + 1, transports', tp')
    <3>1. Made(file, Read + 1, tp'[transports'[m + 1]], file[Read + 1].section)
      BY <1>6, <2>5, <2>7, <2>8 DEF s
    <3>2. \A i \in 1..Read : file[i].section # file[Read + 1].section
      BY <1>6, <2>2 DEF s
    <3>3. Len(transports) = m /\ m \in Nat /\ Len(transports') = m + 1
      BY <1>1, <2>8 DEF m
    <3> DEFINE uu == tp'
               ww == transports'
    <3> HIDE DEF uu, ww
    <3>4. /\ Len(ww) = m + 1 /\ \A k \in 1..m : uu[ww[k]] = tp[transports[k]]
          /\ Made(file, Read + 1, uu[ww[m + 1]], file[Read + 1].section)
      BY <2>15, <3>1, <3>3 DEF uu, ww
    <3>5. ListMade(Read + 1, ww, uu)
      BY <1>2, <3>2, <3>3, <3>4, ListMadeNew, Z3
    <3> QED BY <3>5 DEF uu, ww
  <2> QED BY <1>3, <2>7, <2>8, <2>9, <2>12, <2>13, <2>14, <2>16
<1>4. ASSUME NEW i \in found, tp' = [tp EXCEPT ![i] = Set(@, e)], UNCHANGED <<transports, live>>
      PROVE  /\ tp' \in Seq(Transport) /\ transports' \in Seq(Nat)
             /\ Numbered' /\ Base' = Base /\ OneLine
             /\ live' = Elems(transports)'
             /\ ListMade(Read + 1, transports', tp')
  <2> DEFINE k == i - Base
  <2>1. i \in Elems(transports) /\ tp[i].name = s /\ i \in 1..Len(tp) /\ tp[i] \in Transport
    <3>1. i \in Elems(transports) /\ tp[i].name = s
      BY DEF FindSection
    <3> QED BY <1>1, <3>1
  <2>2. k \in 1..m /\ transports[k] = i
    BY <1>1, <2>1
  <2>3. Made(file, Read, tp[i], s)
    <3>1. PICK g : Made(file, Read, tp[transports[k]], file[g[k]].section)
      BY <1>2, <2>2 DEF ListMade
    <3>2. file[g[k]].section = s
      BY <2>1, <2>2, <3>1 DEF Made
    <3> QED BY <2>2, <3>1, <3>2
  <2>4. /\ Made(file, Read + 1, Set(tp[i], e), s)
        /\ Set(tp[i], e) \in Transport
        /\ Set(tp[i], e).load = tp[i].load /\ Set(tp[i], e).name = tp[i].name
    BY <1>2, <1>6, <2>1, <2>3, MadeSet
  <2>5. tp' = [tp EXCEPT ![i] = Set(tp[i], e)] /\ transports' = transports /\ live' = live
    BY <1>4
  <2> DEFINE t == Set(tp[i], e)
  <2> HIDE <1>4 DEF t, s, e
  <2>6. /\ tp' \in Seq(Transport) /\ Len(tp') = Len(tp) /\ tp'[i] = t
        /\ \A j \in 1..Len(tp) : j # i => tp'[j] = tp[j]
    BY <1>1, <2>1, <2>4, <2>5 DEF t
  <2>7. Base' = Base
    BY <2>5, <2>6 DEF Base
  <2>8. Numbered'
    BY <1>1, <2>5, <2>6, <2>7 DEF Numbered
  <2>9. OneLine
    BY <1>1, <2>4, <2>6 DEF OneLine, t
  <2>10. live' = Elems(transports)' /\ transports' \in Seq(Nat)
    BY <1>1, <2>5
  <2>11. ListMade(Read + 1, transports, tp')
    <3>1. \A l \in 1..m : l # k => tp'[transports[l]] = tp[transports[l]]
      BY <1>1, <2>1, <2>6
    <3>2. Made(file, Read + 1, tp'[transports[k]], file[Read + 1].section)
      BY <1>6, <2>2, <2>4, <2>6 DEF t, s
    <3>3. tp[transports[k]].name = file[Read + 1].section
      BY <1>6, <2>1, <2>2 DEF s
    <3>4. Len(transports) = m /\ m \in Nat /\ k \in 1..m /\ ListMade(Read, transports, tp)
      BY <1>1, <1>2, <2>2
    <3> DEFINE uu == tp'
    <3> HIDE DEF k, m, uu
    <3>5. /\ \A l \in 1..m : l # k => uu[transports[l]] = tp[transports[l]]
          /\ Made(file, Read + 1, uu[transports[k]], file[Read + 1].section)
      BY <3>1, <3>2 DEF uu
    <3>6. ListMade(Read + 1, transports, uu)
      BY <1>2, <3>3, <3>4, <3>5, ListMadeOld
    <3> QED BY <3>6 DEF uu
  <2> QED BY <2>5, <2>6, <2>7, <2>8, <2>9, <2>10, <2>11
<1>5. \/ /\ found = {}
         /\ transports' = Append(transports, Len(tp) + 1)
         /\ tp' = Append(tp, Set(EmptyTp(s), e))
         /\ live' = live \cup {Len(tp) + 1}
      \/ \E i \in found : tp' = [tp EXCEPT ![i] = Set(@, e)] /\ UNCHANGED <<transports, live>>
  BY DEF TpIniHandler
<1> QED BY <1>3, <1>4, <1>5, Zenon

\* The rest of a sequence.
LEMMA TailParts ==
  ASSUME NEW S, NEW q \in Seq(S), q # <<>>
  PROVE  /\ Len(q) \in Nat /\ Len(q) >= 1 /\ Head(q) = q[1] /\ Head(q) \in S
         /\ Tail(q) \in Seq(S) /\ Len(Tail(q)) = Len(q) - 1
         /\ \A i \in 1..(Len(q) - 1) : i + 1 \in 1..Len(q) /\ Tail(q)[i] = q[i + 1]
OBVIOUS

LEMMA ParseStep ==
  ASSUME Types, Numbered, Loads, Main, Parsing, TpIniHandler
  PROVE  /\ Types' /\ Numbered' /\ Loads' /\ Main' /\ Parsing'
         /\ OneLine /\ Base' = Base
<1>1. /\ mpc = "parse" /\ todo # <<>> /\ Parsed /\ live = Elems(transports)
      /\ todo' = Tail(todo)
      /\ iniError' = (iniError \/ ~Known(Head(todo)))
      /\ UNCHANGED <<mainVars, file, mtx, pc, pos, want, report, overtaken>>
  BY DEF TpIniHandler, Parsing, Main
<1>2. /\ Len(todo) \in Nat /\ Len(todo) >= 1 /\ Head(todo) = todo[1] /\ Head(todo) \in Entries
      /\ todo' \in Seq(Entries) /\ Len(todo') = Len(todo) - 1
      /\ \A i \in 1..Len(todo') : i + 1 \in 1..Len(todo) /\ todo'[i] = todo[i + 1]
  <2>1. todo \in Seq(Entries)
    BY DEF Types
  <2> QED BY <1>1, <2>1, TailParts
<1>3. Len(file) \in Nat /\ Len(todo) <= Len(file) /\ Read \in Nat
  BY <1>1, <1>2 DEF Types, Parsed, Read
<1>4. HeadIsNext
  <2>1. 1 \in 1..Len(todo)
    BY <1>2
  <2>2. todo[1] = file[Read + 1]
    BY <1>1, <2>1 DEF Parsed
  <2> QED BY <1>2, <1>3, <2>2 DEF HeadIsNext
<1>5. /\ tp' \in Seq(Transport) /\ transports' \in Seq(Nat)
      /\ Numbered' /\ Base' = Base /\ OneLine
      /\ live' = Elems(transports)'
      /\ ListMade(Read + 1, transports', tp')
  BY <1>1, <1>4, LineMakes
<1>6. Types'
  <2>1. iniError' \in BOOLEAN
    BY <1>1 DEF Types
  <2> QED BY <1>1, <1>2, <1>5, <2>1 DEF Types, mainVars
<1>7. Loads'
  <2>1. Base \in Nat /\ Len(tp) \in Nat /\ Base <= Len(tp) /\ Len(tp') \in Nat
    BY <1>5, Listing DEF Numbered
  <2>2. reloads' = reloads /\ reloads \in Nat /\ ~NodesGoing
    BY <1>1 DEF mainVars, Types, NodesGoing
  <2>3. ASSUME NEW j \in 1..Len(tp')
        PROVE  /\ tp'[j].load <= reloads
               /\ j > Base => tp'[j].load = reloads
               /\ j <= Base => tp'[j].load < reloads
    <3>1. CASE j <= Len(tp)
      <4>1. j \in 1..Len(tp)
        BY <3>1
      <4> QED BY <1>5, <2>2, <4>1 DEF Loads, OneLine
    <3>2. CASE j > Len(tp)
      BY <1>5, <2>1, <2>2, <3>2 DEF OneLine
    <3> QED BY <2>1, <3>1, <3>2
  <2> QED BY <1>5, <2>2, <2>3 DEF Loads
<1>8. Main'
  BY <1>1, <1>5 DEF Main, mainVars, Serving, Open, Emptied
<1>9. Parsed'
  <2>1. Read' = Read + 1
    BY <1>1, <1>2, <1>3 DEF Read
  <2>2. Len(todo') <= Len(file')
    BY <1>1, <1>2, <1>3
  <2>3. ASSUME NEW i \in 1..Len(todo')
        PROVE  todo'[i] = file'[Read' + i]
    <3>1. i + 1 \in 1..Len(todo) /\ todo'[i] = todo[i + 1]
      BY <1>2
    <3>2. todo[i + 1] = file[Read + (i + 1)]
      BY <1>1, <3>1 DEF Parsed
    <3>3. Read' + i = Read + (i + 1)
      BY <1>3, <2>1
    <3> QED BY <1>1, <3>1, <3>2, <3>3
  <2>4. iniError' <=> \E i \in 1..Read' : ~Known(file'[i])
    <3>1. iniError <=> \E i \in 1..Read : ~Known(file[i])
      BY <1>1 DEF Parsed
    <3>2. iniError' <=> iniError \/ ~Known(file[Read + 1])
      BY <1>1, <1>4 DEF HeadIsNext
    <3>3. \A i : i \in 1..(Read + 1) <=> i \in 1..Read \/ i = Read + 1
      BY <1>3
    <3> QED BY <1>1, <2>1, <3>1, <3>2, <3>3
  <2>5. ListMade(Read, transports, tp)'
    <3>1. file' = file /\ reloads' = reloads
      BY <1>1 DEF mainVars
    <3> QED BY <1>5, <2>1, <3>1 DEF ListMade, Made
  <2> QED BY <2>2, <2>3, <2>4, <2>5 DEF Parsed
<1> QED BY <1>5, <1>6, <1>7, <1>8, <1>9 DEF Parsing

\* A list that holds what the file asks for is valid exactly if checkTp lets all
\* of it pass.
LEMMA ValidIsChecked ==
  ASSUME NEW m \in Nat, NEW g, [k \in 1..m |-> g[k]] = Asked(file),
         \A k \in 1..m : g[k] \in Transport
  PROVE  Valid(file) <=> /\ \A i \in 1..Len(file) : Known(file[i])
                         /\ \A k \in 1..m : CheckTp(g[k])
<1>1. Len(Asked(file)) = m /\ \A k \in 1..m : Asked(file)[k] = g[k]
  <2> DEFINE h == [k \in 1..m |-> g[k]]
  <2>1. Len(h) = m /\ \A k \in 1..m : h[k] = g[k]
    OBVIOUS
  <2> HIDE DEF h
  <2>2. h = Asked(file)
    BY DEF h
  <2> QED BY <2>1, <2>2
<1>2. \A k \in 1..m : g[k].maxConn >= 1 <=> g[k].maxConn > 0
  BY DEF Transport
<1> QED BY <1>1, <1>2 DEF Valid, CheckTp

LEMMA LoadLockConf ==
  ASSUME Conf, LoadLock
  PROVE  Conf'
<1>1. PICK f \in Files : file' = f /\ todo' = f
  BY DEF LoadLock
<1>2. f \in Seq(Entries) /\ Len(f) \in Nat
  BY LinesTyped
<1>3. /\ mpc = "lock" /\ mpc' = "parse" /\ mtx' = "main" /\ iniError' = FALSE
      /\ transports = <<>> /\ live = {}
      /\ UNCHANGED <<transports, tp, live, cur, blocked, reloads, quitting, pc, pos, want, report>>
  BY DEF LoadLock, Conf, Main, Emptied
<1>4. Types'
  BY <1>1, <1>2, <1>3 DEF Conf, Types, MainPcs
<1>5. Numbered' /\ Base' = Base
  BY <1>3 DEF Conf, Numbered, Base
<1>6. Loads'
  BY <1>3, <1>5 DEF Conf, Loads, NodesGoing
<1>7. Main'
  <2>1. Elems(transports) = {}
    BY <1>3 DEF Elems
  <2>2. live' = Elems(transports)'
    BY <1>3, <2>1
  <2> QED BY <1>3, <2>2 DEF Conf, Main, Serving, Open, Emptied
<1>8. Parsed'
  <2>1. Read' = 0
    BY <1>1, <1>2 DEF Read
  <2>2. Len(todo') <= Len(file') /\ \A i \in 1..Len(todo') : todo'[i] = file'[Read' + i]
    BY <1>1, <1>2, <2>1
  <2>3. Lists(f, 0, 0, [k \in 1..0 |-> k])
    BY DEF Lists
  <2>4. ListMade(Read, transports, tp)'
    <3>1. Len(transports') = 0
      BY <1>3
    <3> QED BY <1>1, <2>1, <2>3, <3>1 DEF ListMade
  <2> QED BY <1>3, <2>1, <2>2, <2>4 DEF Parsed
<1> QED BY <1>4, <1>5, <1>6, <1>7, <1>8 DEF Conf, Parsing

LEMMA LoadedConf ==
  ASSUME Conf, Loaded
  PROVE  Conf'
<1>1. /\ mpc = "parse" /\ todo = <<>> /\ Parsed /\ live = Elems(transports)
      /\ UNCHANGED <<cur, blocked, reloads, quitting, confVars, pc, pos, want, report>>
  BY DEF Loaded, Conf, Main, Parsing
<1>2. \/ /\ iniError \/ \E i \in Elems(transports) : ~CheckTp(tp[i])
         /\ mpc' = "failed" /\ mtx' = mtx
      \/ /\ ~iniError /\ \A i \in Elems(transports) : CheckTp(tp[i])
         /\ mpc' = "unblock" /\ mtx' = "free"
  BY DEF Loaded
<1>3. Read = Len(file) /\ Len(file) \in Nat
  BY <1>1 DEF Read, Conf, Types
<1>4. Len(transports) \in Nat /\ \A k \in 1..Len(transports) : transports[k] \in 1..Len(tp)
  <2>1. Base \in Nat /\ Len(tp) \in Nat /\ Len(transports) = Len(tp) - Base
    BY Listing DEF Conf
  <2> QED BY <2>1 DEF Conf, Numbered
<1>5. \A k \in 1..Len(transports) : tp[transports[k]] \in Transport
  BY <1>4 DEF Conf, Types
<1>6. /\ [k \in 1..Len(transports) |-> tp[transports[k]]] = Asked(file)
      /\ \A i \in 1..Len(file) : \E k \in 1..Len(transports) : tp[transports[k]].name = file[i].section
  <2>1. ListMade(Len(file), transports, tp)
    BY <1>1, <1>3 DEF Parsed
  <2> QED BY <1>3, <1>4, <1>5, <2>1, ParsedIsAsked
<1>7. Valid(file) <=> /\ \A i \in 1..Len(file) : Known(file[i])
                      /\ \A k \in 1..Len(transports) : CheckTp(tp[transports[k]])
  <2> DEFINE g == [k \in 1..Len(transports) |-> tp[transports[k]]]
  <2>1. /\ \A k \in 1..Len(transports) : g[k] = tp[transports[k]]
        /\ [k \in 1..Len(transports) |-> g[k]] = g
    OBVIOUS
  <2>2. g = Asked(file)
    BY <1>6
  <2> HIDE DEF g
  <2>3. [k \in 1..Len(transports) |-> g[k]] = Asked(file) /\ \A k \in 1..Len(transports) : g[k] \in Transport
    BY <1>5, <2>1, <2>2
  <2>4. Valid(file) <=> /\ \A i \in 1..Len(file) : Known(file[i])
                        /\ \A k \in 1..Len(transports) : CheckTp(g[k])
    BY <1>4, <2>3, ValidIsChecked
  <2> QED BY <2>1, <2>4
<1>8. iniError <=> \E i \in 1..Len(file) : ~Known(file[i])
  BY <1>1, <1>3 DEF Parsed
<1>9. (\A i \in Elems(transports) : CheckTp(tp[i]))
        <=> \A k \in 1..Len(transports) : CheckTp(tp[transports[k]])
  BY DEF Elems
<1>10. Types' /\ Numbered' /\ Base' = Base
  BY <1>1, <1>2 DEF Conf, Types, Numbered, Base, MainPcs, confVars
<1>11. Loads'
  BY <1>1, <1>2, <1>10 DEF Conf, Loads, NodesGoing, confVars
<1>12. Main'
  <2>1. Asked(file)' = Asked(file)
    BY <1>1 DEF Asked, confVars
  <2>2. Valid(file)' = Valid(file)
    BY <1>1, <2>1 DEF Valid, confVars
  <2>3. CASE mpc' = "failed"
    <3>1. ~Valid(file)'
      BY <1>2, <1>7, <1>8, <1>9, <2>2, <2>3
    <3> QED BY <1>1, <1>2, <2>3, <3>1 DEF Conf, Main, Serving, Open, Emptied, confVars
  <2>4. CASE mpc' = "unblock"
    <3>1. Valid(file) /\ \A k \in 1..Len(transports) : CheckTp(tp[transports[k]])
      BY <1>2, <1>7, <1>8, <1>9, <2>4
    <3>2. Good
      BY <1>6, <3>1 DEF Good, InForce
    <3>3. Good'
      BY <1>1, <3>2, GoodStays DEF confVars
    <3> QED BY <1>1, <1>2, <2>4, <3>3 DEF Conf, Main, Serving, Open, Emptied, confVars
  <2> QED BY <1>2, <2>3, <2>4
<1>13. Parsing'
  BY <1>2 DEF Parsing
<1> QED BY <1>10, <1>11, <1>12, <1>13 DEF Conf

-----------------------------------------------------------------------------
(***************************************************************************)
(* The main thread otherwise, and the other threads, which leave the list  *)
(* alone.                                                                  *)
(***************************************************************************)

\* Steps of the main thread.
MainThread == MainStep \/ DrainStep \/ StartReload \/ StartQuit

\* Those with the list in force before and after: unblockClients, blockClients, the end
\* of the loop, the join, abortClients, abortTpConns.
Gates == Unblock \/ StartReload \/ StartQuit \/ Join \/ DrainStep

LEMMA GatesConf ==
  ASSUME Conf, Gates
  PROVE  Conf'
<1>1. /\ mpc \in Serving /\ mpc' \in Serving
      /\ UNCHANGED <<reloads, confVars, mtx, pos, want, report>>
  BY DEF Gates, DrainStep, Unblock, StartReload, StartQuit, Join, AbortClients, TpQuiet, TpEnded, Serving, Open
<1>2. Good'
  <2>1. Good
    BY <1>1 DEF Conf, Main
  <2>2. UNCHANGED <<file, transports, tp, reloads>>
    BY <1>1 DEF confVars
  <2> QED BY <2>1, <2>2, GoodStays
<1>3. /\ pc' \in [Threads -> VisitorPcs \cup ClientPcs]
      /\ blocked' \in BOOLEAN /\ quitting' \in BOOLEAN
  BY DEF Gates, DrainStep, Unblock, StartReload, StartQuit, Join, AbortClients, TpQuiet, TpEnded, Conf, Types,
     VisitorPcs, ClientPcs
<1>4. /\ First \in Nat /\ (First = None \/ First \in Elems(transports))
      /\ \A i \in Elems(transports) : After(i) \in Nat /\ (After(i) = None \/ After(i) \in Elems(transports))
  BY Walk DEF Conf
<1>5. /\ cur' \in Nat
      /\ mpc' \in {"drain", "ends"} => cur' = None \/ cur' \in Elems(transports)
      /\ mpc' = "ends" => cur' # None
      /\ mpc' \notin {"drain", "ends"} => cur' = None
  <2>1. CASE Unblock \/ StartQuit \/ Join
    BY <2>1 DEF Unblock, StartQuit, Join, Conf, Main, Types
  <2>2. CASE StartReload \/ AbortClients
    BY <1>4, <2>2 DEF StartReload, AbortClients
  <2>3. CASE TpQuiet
    BY <2>3 DEF TpQuiet, Conf, Main, Types
  <2>4. CASE TpEnded
    <3>1. cur \in Elems(transports) /\ mpc' = "drain" /\ cur' = After(cur)
      BY <2>4 DEF TpEnded, Conf, Main
    <3> QED BY <1>4, <3>1
  <2> QED BY <2>1, <2>2, <2>3, <2>4 DEF Gates, DrainStep
<1>6. Types'
  BY <1>1, <1>3, <1>5 DEF Conf, Types, confVars, Serving, Open, MainPcs
<1>7. Numbered' /\ Base' = Base
  BY <1>1 DEF Conf, Numbered, Base, confVars
<1>8. Loads'
  BY <1>1, <1>7 DEF Conf, Loads, NodesGoing, confVars, Serving, Open
<1>9. /\ quitting' => mpc' \in {"join", "clients", "drain", "ends"}
      /\ mpc' \in {"join", "clients"} => quitting'
      /\ blocked' \/ quitting' \/ mpc' = "run"
  BY DEF Gates, DrainStep, Unblock, StartReload, StartQuit, Join, AbortClients, TpQuiet, TpEnded, Conf, Main
<1>10. Main'
  BY <1>1, <1>2, <1>5, <1>9 DEF Conf, Main, Serving, Open, Emptied, confVars
<1>11. Parsing'
  BY <1>1 DEF Parsing, Serving, Open
<1> QED BY <1>6, <1>7, <1>8, <1>10, <1>11 DEF Conf

LEMMA AbortConf ==
  ASSUME Conf, ConnsAborted
  PROVE  Conf'
<1>1. /\ mpc = "drain" /\ mpc' = "freeTp" /\ cur' = First
      /\ UNCHANGED <<blocked, reloads, quitting, confVars, mtx, pc, pos, want, report>>
  BY DEF ConnsAborted
<1>2. /\ Base \in Nat /\ Len(tp) \in Nat
      /\ Elems(transports) = (Base + 1)..Len(tp)
      /\ transports = <<>> <=> Base = Len(tp)
      /\ First = IF transports = <<>> THEN None ELSE Base + 1
      /\ Base <= Len(tp)
  BY Listing DEF Conf, Numbered
<1>3. live = Elems(transports)
  BY <1>1 DEF Conf, Main, Serving, Open, Emptied
<1>4. Types'
  BY <1>1, <1>2 DEF Conf, Types, confVars, MainPcs, None
<1>5. Numbered' /\ Base' = Base
  BY <1>1 DEF Conf, Numbered, Base, confVars
<1>6. Loads'
  BY <1>1, <1>5 DEF Conf, Loads, NodesGoing, confVars
<1>7. CASE transports = <<>>
  <2>1. live' = {} /\ cur' = None
    BY <1>1, <1>2, <1>3, <1>7 DEF confVars
  <2>2. Main'
    BY <1>1, <2>1 DEF Conf, Main, Serving, Open, Emptied, confVars
  <2> QED BY <1>1, <1>4, <1>5, <1>6, <2>2 DEF Conf, Parsing
<1>8. CASE transports # <<>>
  <2>1. cur' = Base + 1 /\ cur' # None /\ cur' \in Elems(transports)' /\ live' = cur'..Len(tp')
    BY <1>1, <1>2, <1>3, <1>8 DEF confVars, None
  <2>2. Main'
    BY <1>1, <2>1 DEF Conf, Main, Serving, Open, Emptied, confVars
  <2> QED BY <1>1, <1>4, <1>5, <1>6, <2>2 DEF Conf, Parsing
<1> QED BY <1>7, <1>8

LEMMA FreeTpConf ==
  ASSUME Conf, FreeTp
  PROVE  Conf'
<1>1. /\ mpc = "freeTp" /\ mpc' = mpc /\ cur # None /\ live' = live \ {cur} /\ cur' = After(cur)
      /\ cur \in Elems(transports) /\ live = cur..Len(tp)
      /\ UNCHANGED <<blocked, reloads, quitting, file, todo, iniError, transports, tp, mtx, pc, pos, want, report>>
  BY DEF FreeTp, Conf, Main
<1>2. /\ Base \in Nat /\ Len(tp) \in Nat
      /\ Elems(transports) = (Base + 1)..Len(tp)
      /\ After(cur) = IF cur = Len(tp) THEN None ELSE cur + 1
  BY <1>1, Listing DEF Conf
<1>3. cur \in (Base + 1)..Len(tp) /\ cur \in Nat
  BY <1>1, <1>2
<1>4. Types'
  BY <1>1, <1>2, <1>3 DEF Conf, Types, None
<1>5. Numbered' /\ Base' = Base
  BY <1>1 DEF Conf, Numbered, Base
<1>6. Loads'
  BY <1>1, <1>5 DEF Conf, Loads, NodesGoing
<1>7. CASE cur = Len(tp)
  <2>1. cur' = None /\ live' = {}
    BY <1>1, <1>2, <1>3, <1>7
  <2>2. Main'
    BY <1>1, <2>1 DEF Conf, Main, Serving, Open, Emptied
  <2> QED BY <1>1, <1>4, <1>5, <1>6, <2>2 DEF Conf, Parsing
<1>8. CASE cur # Len(tp)
  <2>1. cur' = cur + 1 /\ cur' # None /\ cur' \in Elems(transports)'
    BY <1>1, <1>2, <1>3, <1>8 DEF None
  <2>2. live' = cur'..Len(tp')
    <3>1. (cur..Len(tp)) \ {cur} = (cur + 1)..Len(tp)
      BY <1>2, <1>3
    <3> QED BY <1>1, <2>1, <3>1
  <2>3. Main'
    BY <1>1, <2>1, <2>2 DEF Conf, Main, Serving, Open, Emptied
  <2> QED BY <1>1, <1>4, <1>5, <1>6, <2>3 DEF Conf, Parsing
<1> QED BY <1>7, <1>8

LEMMA FreeNodeConf ==
  ASSUME Conf, FreeNode
  PROVE  Conf' /\ Base' = Base + 1
<1>1. /\ mpc = "freeTp" /\ cur = None /\ transports # <<>> /\ transports' = Tail(transports)
      /\ live = {}
      /\ UNCHANGED <<mainVars, file, todo, iniError, tp, live, mtx, pc, pos, want, report>>
  BY DEF FreeNode, Conf, Main
<1>2. /\ Base \in Nat /\ Len(tp) \in Nat /\ Len(transports) \in Nat
      /\ Len(transports) = Len(tp) - Base /\ Len(transports) >= 1
      /\ transports' \in Seq(Nat) /\ Len(transports') = Len(transports) - 1
      /\ \A i \in 1..(Len(transports) - 1) : i + 1 \in 1..Len(transports) /\ transports'[i] = transports[i + 1]
  <2>1. transports \in Seq(Nat)
    BY DEF Conf, Types
  <2>2. /\ Base \in Nat /\ Len(tp) \in Nat /\ Len(transports) \in Nat
        /\ Len(transports) = Len(tp) - Base
    BY Listing DEF Conf
  <2> QED BY <1>1, <2>1, <2>2, TailParts
<1>3. Base' = Base + 1
  BY <1>1, <1>2 DEF Base
<1>4. Types'
  BY <1>1, <1>2 DEF Conf, Types, mainVars
<1>5. Numbered'
  <2>1. ASSUME NEW k \in 1..Len(transports')
        PROVE  transports'[k] = Base' + k
    <3>1. k + 1 \in 1..Len(transports) /\ transports'[k] = transports[k + 1]
      BY <1>2
    <3>2. transports[k + 1] = Base + (k + 1)
      BY <3>1 DEF Conf, Numbered
    <3> QED BY <1>2, <1>3, <3>1, <3>2
  <2> QED BY <1>1, <1>2, <2>1 DEF Numbered
<1>6. Loads'
  <2>1. ASSUME NEW j \in 1..Len(tp), j > Base'
        PROVE  j > Base
    BY <1>2, <1>3, <2>1
  <2>2. NodesGoing' /\ tp' = tp /\ reloads' = reloads
    BY <1>1 DEF NodesGoing, mainVars
  <2> QED BY <2>1, <2>2 DEF Conf, Loads
<1>7. Main'
  BY <1>1 DEF Conf, Main, Serving, Open, Emptied, mainVars
<1> QED BY <1>1, <1>3, <1>4, <1>5, <1>6, <1>7 DEF Conf, Parsing, mainVars

LEMMA FreedConf ==
  ASSUME Conf, Freed
  PROVE  Conf'
<1>1. /\ mpc = "freeTp" /\ cur = None /\ transports = <<>> /\ live = {}
      /\ mpc' = IF quitting THEN "freeList" ELSE "lock"
      /\ reloads' = IF quitting THEN reloads ELSE reloads + 1
      /\ UNCHANGED <<cur, blocked, quitting, confVars, mtx, pc, pos, want, report>>
  BY DEF Freed, Conf, Main
<1>2. /\ Base \in Nat /\ Len(tp) \in Nat /\ Base = Len(tp)
  BY <1>1, Listing DEF Conf
<1>3. Types'
  BY <1>1 DEF Conf, Types, MainPcs, confVars
<1>4. Numbered' /\ Base' = Base
  BY <1>1 DEF Conf, Numbered, Base, confVars
<1>5. Loads'
  <2>1. ASSUME NEW j \in 1..Len(tp)
        PROVE  tp[j].load \in Nat /\ tp[j].load <= reloads /\ ~(j > Base)
    <3>1. tp[j] \in Transport
      BY DEF Conf, Types
    <3>2. tp[j].load \in Nat
      BY <3>1 DEF Transport
    <3>3. tp[j].load <= reloads
      BY DEF Conf, Loads
    <3> QED BY <1>2, <3>2, <3>3
  <2>2. reloads \in Nat
    BY DEF Conf, Types
  <2>3. CASE quitting
    BY <1>1, <1>4, <2>1, <2>3 DEF Loads, NodesGoing, confVars
  <2>4. CASE ~quitting
    BY <1>1, <1>4, <2>1, <2>2, <2>4 DEF Loads, NodesGoing, confVars
  <2> QED BY <2>3, <2>4
<1>6. Main'
  BY <1>1 DEF Conf, Main, Serving, Open, Emptied, confVars, Types
<1>7. Parsing'
  BY <1>1 DEF Parsing
<1> QED BY <1>3, <1>4, <1>5, <1>6, <1>7 DEF Conf

LEMMA ExitConf ==
  ASSUME Conf, FreeList \/ Exit
  PROVE  Conf'
<1>1. /\ mpc \in {"freeList", "exit"} /\ mpc' \in {"exit", "quitted"}
      /\ UNCHANGED <<cur, blocked, reloads, quitting, confVars, mtx, pc, pos, want, report>>
  BY DEF FreeList, Exit
<1>2. Types'
  BY <1>1 DEF Conf, Types, MainPcs, confVars
<1>3. Numbered' /\ Base' = Base
  BY <1>1 DEF Conf, Numbered, Base, confVars
<1>4. Loads'
  BY <1>1, <1>3 DEF Conf, Loads, NodesGoing, confVars
<1>5. Main'
  BY <1>1 DEF Conf, Main, Serving, Open, Emptied, confVars
<1> QED BY <1>1, <1>2, <1>3, <1>4, <1>5 DEF Conf, Parsing

\* Where a thread is after a step of one of them.
LEMMA GotoParts ==
  ASSUME Types, NEW v \in Threads, NEW where \in VisitorPcs \cup ClientPcs, NEW node \in Nat,
         Goto(v, where, node)
  PROVE  /\ pc' \in [Threads -> VisitorPcs \cup ClientPcs] /\ pos' \in [Threads -> Nat]
         /\ pc'[v] = where /\ pos'[v] = node
         /\ \A w \in Threads : w # v => pc'[w] = pc[w] /\ pos'[w] = pos[w]
BY DEF Types, Goto

\* The nodes a thread may go to.
LEMMA NodesTyped ==
  ASSUME Types, Numbered
  PROVE  /\ None \in Nat /\ First \in Nat
         /\ \A i \in Elems(transports) : i \in 1..Len(tp) /\ i \in Nat /\ i # None /\ After(i) \in Nat
<1>1. /\ Base \in Nat /\ Len(tp) \in Nat /\ Elems(transports) = (Base + 1)..Len(tp)
      /\ First = IF transports = <<>> THEN None ELSE Base + 1
      /\ \A i \in Elems(transports) : After(i) = IF i = Len(tp) THEN None ELSE i + 1
  BY Listing
<1>2. ASSUME NEW i \in Elems(transports)
      PROVE  i \in 1..Len(tp) /\ i \in Nat /\ i # None
  <2>1. i \in (Base + 1)..Len(tp)
    BY <1>1
  <2> QED BY <1>1, <2>1 DEF None
<1>3. \A i \in Elems(transports) : After(i) \in Nat
  BY <1>1, <1>2 DEF None
<1> QED BY <1>1, <1>2, <1>3 DEF None

\* What an item does to a report.
LEMMA ItemParts ==
  ASSUME NEW r \in [len : Nat, shown : SUBSET Nat], NEW len \in Nat, NEW S \in SUBSET Nat
  PROVE  /\ AddItem(r, len, S) \in [len : Nat, shown : SUBSET Nat]
         /\ r.len <= maxlen + 1 => AddItem(r, len, S).len <= maxlen + 1
         /\ AddItem(r, len, S).len >= r.len
         /\ \/ AddItem(r, len, S) = r /\ r.len + len > maxlen
            \/ AddItem(r, len, S).shown = r.shown \cup S
<1>1. maxlen \in Nat /\ r.len \in Nat /\ r.shown \in SUBSET Nat
  BY TransportsAssumption
<1>2. CASE r.len + len > maxlen
  <2>1. AddItem(r, len, S) = r
    BY <1>2 DEF AddItem
  <2> QED BY <1>1, <1>2, <2>1
<1>3. CASE ~(r.len + len > maxlen)
  <2>1. AddItem(r, len, S) = [len |-> r.len + len + 1, shown |-> r.shown \cup S]
    BY <1>3 DEF AddItem
  <2>2. r.len + len + 1 \in Nat /\ r.shown \cup S \in SUBSET Nat
    <3>1. r.len + len + 1 \in Nat
      BY <1>1
    <3>2. \A x \in r.shown \cup S : x \in Nat
      BY <1>1
    <3> QED BY <3>1, <3>2
  <2>3. r.len + len + 1 <= maxlen + 1 /\ r.len + len + 1 >= r.len
    BY <1>1, <1>3
  <2>4. AddItem(r, len, S).len = r.len + len + 1 /\ AddItem(r, len, S).shown = r.shown \cup S
    BY <2>1
  <2>5. AddItem(r, len, S) \in [len : Nat, shown : SUBSET Nat]
    BY <2>1, <2>2
  <2> QED BY <2>3, <2>4, <2>5
<1> QED BY <1>2, <1>3

\* Steps of the other threads.
ThreadStep ==
  \/ MonitorStep \/ MonitorAccept \/ TimerStep \/ TimerExpires
  \/ \E c \in Clients : ClientStep(c) \/ PassGate(c)

LEMMA ThreadsApart ==
  /\ \A v \in Visitors : v \in Threads /\ v \notin Clients
  /\ \A c \in Clients : c \in Threads /\ c \notin Visitors /\ c # "monitor" /\ c # "timer"
  /\ "monitor" \in Visitors /\ "timer" \in Visitors /\ "monitor" # "timer"
  /\ "free" \notin Visitors /\ "main" \notin Visitors
<1>1. "monitor" \notin Clients /\ "timer" \notin Clients
  BY TransportsAssumption
<1>2. "monitor" # "timer" /\ "free" \notin Visitors /\ "main" \notin Visitors
  BY DEF Visitors
<1> QED BY <1>1, <1>2 DEF Threads, Visitors

\* A step that sends a thread on, and leaves all but it and the mutex, the history
\* of reloads, the wishes and the report alone.
Sends(v, where, node) ==
  /\ v \in Threads /\ where \in VisitorPcs \cup ClientPcs /\ node \in Nat
  /\ Goto(v, where, node)
  /\ UNCHANGED <<mainVars, confVars>>

LEMMA SendsTypes ==
  ASSUME Types, NEW v, NEW where, NEW node, Sends(v, where, node),
         mtx' \in Visitors \cup {"free", "main"}, want' \in [Clients -> Sections], report' \in [len : Nat, shown : SUBSET Nat]
  PROVE  Types' /\ UNCHANGED <<mainVars, confVars>>
<1>1. pc' \in [Threads -> VisitorPcs \cup ClientPcs] /\ pos' \in [Threads -> Nat]
  BY GotoParts DEF Sends
<1> QED BY <1>1 DEF Sends, Types, mainVars, confVars

LEMMA ThreadTypes ==
  ASSUME Types, Numbered, ThreadStep
  PROVE  Types' /\ UNCHANGED <<mainVars, confVars>>
<1>1. /\ None \in Nat /\ First \in Nat
      /\ \A i \in Elems(transports) : i \in 1..Len(tp) /\ i \in Nat /\ After(i) \in Nat
  BY NodesTyped
<1>2. /\ mtx \in Visitors \cup {"free", "main"} /\ report \in [len : Nat, shown : SUBSET Nat]
      /\ pos \in [Threads -> Nat]
  BY DEF Types
<1>8. want' \in [Clients -> Sections]
  BY DEF Types, ThreadStep, MonitorStep, TimerStep, VisitorStep, Lock, MonitorLock, TimerLock, VisitNext, GoUndefined,
     MonitorAccept, MonitorCollect, ReportTp, MonitorUnlock, MonitorWrite, TimerExpires, ResetTp, TimerUnlock,
     ClientStep, PassGate, FindTpByName, NotFound, LeavePool, Signal, Answer
<1> USE DEF VisitorPcs, ClientPcs
<1>3. ASSUME NEW v \in Visitors, VisitorStep(v)
      PROVE  Types' /\ UNCHANGED <<mainVars, confVars>>
  <2>1. v \in Threads
    BY ThreadsApart
  <2>3. CASE VisitNext(v)
    <3>1. Sends(v, "handle", After(pos[v]))
      BY <1>1, <2>1, <2>3 DEF VisitNext, Sound, Sends
    <3> QED BY <1>2, <1>8, <2>3, <3>1, SendsTypes DEF VisitNext
  <2>4. CASE GoUndefined(v)
    <3>1. Sends(v, "undefined", None)
      BY <1>1, <2>1, <2>4 DEF GoUndefined, Sends
    <3> QED BY <1>2, <1>8, <2>4, <3>1, SendsTypes DEF GoUndefined
  <2> QED BY <1>3, <2>3, <2>4 DEF VisitorStep
<1>4. "monitor" \in Threads /\ "timer" \in Threads
  BY ThreadsApart
<1>5. CASE MonitorStep \/ MonitorAccept
  <2>1. CASE MonitorAccept
    <3>1. Sends("monitor", "collect", None) \/ Sends("monitor", "ended", None)
      BY <1>1, <1>4, <2>1 DEF MonitorAccept, Sends
    <3>2. mtx' = mtx /\ report' = report
      BY <2>1 DEF MonitorAccept
    <3> QED BY <1>2, <1>8, <3>1, <3>2, SendsTypes
  <2>2. CASE MonitorCollect
    <3>1. Sends("monitor", "lock", None)
      BY <1>1, <1>4, <2>2 DEF MonitorCollect, Sends
    <3>2. PICK n \in HeadLens : report' = AddItem([len |-> 0, shown |-> {}], n, {})
      BY <2>2 DEF MonitorCollect
    <3>3. n \in Nat /\ {} \in SUBSET Nat /\ [len |-> 0, shown |-> {}] \in [len : Nat, shown : SUBSET Nat]
      BY TransportsAssumption
    <3>5. report' \in [len : Nat, shown : SUBSET Nat]
      BY <3>2, <3>3, ItemParts
    <3>6. mtx' = mtx
      BY <2>2 DEF MonitorCollect
    <3> QED BY <1>2, <1>8, <3>1, <3>5, <3>6, SendsTypes
  <2>3. CASE ReportTp
    <3> DEFINE p == pos["monitor"]
    <3>1. p \in Elems(transports) /\ p \in 1..Len(tp) /\ p \in Nat
      BY <1>1, <2>3 DEF ReportTp, SoundTp, Sound
    <3>2. Sends("monitor", "next", p)
      BY <1>4, <2>3, <3>1 DEF ReportTp, Sends
    <3>3. ItemLen[tp[p].name] \in Nat /\ {p} \in SUBSET Nat
      <4>1. tp[p] \in Transport
        BY <3>1 DEF Types
      <4>2. tp[p].name \in Names
        BY <4>1 DEF Transport
      <4> QED BY <3>1, <4>2, LinesTyped
    <3>4. report' = AddItem(report, ItemLen[tp[p].name], {p}) /\ mtx' = mtx
      BY <2>3 DEF ReportTp
    <3> HIDE DEF p
    <3>5. report' \in [len : Nat, shown : SUBSET Nat]
      BY <1>2, <3>3, <3>4, ItemParts
    <3> QED BY <1>2, <1>8, <3>2, <3>4, <3>5, SendsTypes
  <2>4. CASE MonitorUnlock
    <3>1. Sends("monitor", "write", None)
      BY <1>1, <1>4, <2>4 DEF MonitorUnlock, Sends
    <3> QED BY <1>2, <1>8, <2>4, <3>1, SendsTypes DEF MonitorUnlock
  <2>5. CASE MonitorWrite
    <3>1. Sends("monitor", "accept", None) \/ Sends("monitor", "ended", None)
      BY <1>1, <1>4, <2>5 DEF MonitorWrite, Sends
    <3>2. mtx' = mtx /\ report' = report
      BY <2>5 DEF MonitorWrite
    <3> QED BY <1>2, <1>8, <3>1, <3>2, SendsTypes
  <2>6. "monitor" \in Visitors
    BY ThreadsApart
  <2>7. CASE MonitorLock
    <3>1. Sends("monitor", "handle", First) /\ mtx' = "monitor"
      BY <1>1, <1>4, <2>7 DEF MonitorLock, Lock, Sends
    <3>2. PICK n \in HeadLens : report' = AddItem(report, n, {})
      BY <2>7 DEF MonitorLock
    <3>3. n \in Nat /\ {} \in SUBSET Nat
      BY TransportsAssumption
    <3>4. report' \in [len : Nat, shown : SUBSET Nat]
      BY <1>2, <3>2, <3>3, ItemParts
    <3> QED BY <1>8, <2>6, <3>1, <3>4, SendsTypes
  <2> QED BY <1>3, <1>5, <2>1, <2>2, <2>3, <2>4, <2>5, <2>6, <2>7 DEF MonitorStep
<1>6. CASE TimerStep \/ TimerExpires
  <2>1. CASE TimerExpires
    <3>1. Sends("timer", "lock", None)
      BY <1>1, <1>4, <2>1 DEF TimerExpires, Sends
    <3> QED BY <1>2, <1>8, <2>1, <3>1, SendsTypes DEF TimerExpires
  <2>2. CASE ResetTp
    <3>1. Sends("timer", "next", pos["timer"])
      BY <1>2, <1>4, <2>2 DEF ResetTp, Sends
    <3> QED BY <1>2, <1>8, <2>2, <3>1, SendsTypes DEF ResetTp
  <2>3. CASE TimerUnlock
    <3>1. Sends("timer", "off", None)
      BY <1>1, <1>4, <2>3 DEF TimerUnlock, Sends
    <3> QED BY <1>2, <1>8, <2>3, <3>1, SendsTypes DEF TimerUnlock
  <2>4. "timer" \in Visitors
    BY ThreadsApart
  <2>5. CASE TimerLock
    <3>1. Sends("timer", "handle", First) /\ mtx' = "timer" /\ report' = report
      BY <1>1, <1>4, <2>5 DEF TimerLock, Lock, Sends
    <3> QED BY <1>2, <1>8, <2>4, <3>1, SendsTypes
  <2> QED BY <1>3, <1>6, <2>1, <2>2, <2>3, <2>4, <2>5 DEF TimerStep
<1>7. ASSUME NEW c \in Clients, ClientStep(c) \/ PassGate(c)
      PROVE  Types' /\ UNCHANGED <<mainVars, confVars>>
  <2>1. c \in Threads
    BY ThreadsApart
  <2>2. mtx' = mtx /\ report' = report
    BY <1>7 DEF ClientStep, PassGate, FindTpByName, NotFound, LeavePool, Signal, Answer, GoUndefined
  <2>3. CASE FindTpByName(c)
    <3>1. pos[c] \in Nat /\ After(pos[c]) \in Nat
      BY <1>1, <2>3 DEF FindTpByName, SoundTp, Sound
    <3>2. Sends(c, "pool", pos[c]) \/ Sends(c, "find", After(pos[c]))
      BY <2>1, <2>3, <3>1 DEF FindTpByName, Sends
    <3> QED BY <1>2, <1>8, <2>2, <3>2, SendsTypes
  <2>4. CASE NotFound(c) \/ LeavePool(c) \/ Signal(c) \/ Answer(c) \/ GoUndefined(c)
    <3>1. pos[c] \in Nat
      BY <1>2, <2>1
    <3>2. \/ Sends(c, "answer", None) \/ Sends(c, "signal", pos[c])
          \/ Sends(c, "off", None) \/ Sends(c, "undefined", None)
      BY <1>1, <2>1, <2>4, <3>1 DEF NotFound, LeavePool, Signal, Answer, GoUndefined, Sends
    <3> QED BY <1>2, <1>8, <2>2, <3>2, SendsTypes
  <2>5. CASE PassGate(c)
    <3>1. Sends(c, "find", First)
      BY <1>1, <2>1, <2>5 DEF PassGate, Sends
    <3> QED BY <1>2, <1>8, <2>2, <3>1, SendsTypes
  <2> QED BY <1>7, <2>3, <2>4, <2>5 DEF ClientStep
<1> QED BY <1>5, <1>6, <1>7 DEF ThreadStep

\* The list is as before, and the main thread has the mutex or not as before.
LEMMA ConfStays ==
  ASSUME Conf, Types', UNCHANGED <<mainVars, confVars>>, mtx' = "main" <=> mtx = "main"
  PROVE  Conf'
<1>1. Numbered' /\ Base' = Base
  BY DEF Conf, Numbered, Base, confVars
<1>2. Loads'
  BY <1>1 DEF Conf, Loads, NodesGoing, mainVars, confVars
<1>3. Main'
  <2>1. Good => Good'
    BY GoodStays DEF mainVars, confVars
  <2>2. Asked(file)' = Asked(file)
    BY DEF Asked, mainVars, confVars
  <2>3. Valid(file)' = Valid(file)
    BY <2>2 DEF Valid, mainVars, confVars
  <2> QED BY <2>1, <2>3 DEF Conf, Main, mainVars, confVars, Serving, Open, Emptied
<1>4. Parsing'
  <2>1. ASSUME Parsed
        PROVE  Parsed'
    <3>1. Read' = Read
      BY DEF Read, confVars
    <3>2. ListMade(Read, transports, tp)'
      BY <2>1, <3>1 DEF Parsed, ListMade, Made, mainVars, confVars
    <3> QED BY <2>1, <3>1, <3>2 DEF Parsed, confVars
  <2> QED BY <2>1 DEF Conf, Parsing, mainVars
<1> QED BY <1>1, <1>2, <1>3, <1>4 DEF Conf

\* The other threads do not disturb the list, nor does the main thread lose the
\* mutex to them.
LEMMA ThreadsConf ==
  ASSUME Conf, \A v \in Visitors : Visit(v), ThreadStep
  PROVE  Conf'
<1>1. Types' /\ UNCHANGED <<mainVars, confVars>>
  BY ThreadTypes DEF Conf
<1>2. mtx' = "main" <=> mtx = "main"
  <2>1. \/ mtx' = mtx
        \/ \E v \in Visitors : mtx = "free" /\ mtx' = v
        \/ \E v \in Visitors : pc[v] = "handle" /\ mtx' = "free"
    BY ThreadsApart DEF ThreadStep, MonitorStep, TimerStep, VisitorStep, ClientStep, MonitorLock, TimerLock,
       Lock, VisitNext, GoUndefined, MonitorAccept, MonitorCollect, ReportTp, MonitorUnlock, MonitorWrite,
       TimerExpires, ResetTp, TimerUnlock, PassGate, FindTpByName, NotFound, LeavePool, Signal, Answer
  <2>2. \A v \in Visitors : v # "main" /\ v # "free" /\ (pc[v] = "handle" => mtx = v)
    BY ThreadsApart DEF Visit
  <2> QED BY <2>1, <2>2
<1> QED BY <1>1, <1>2, ConfStays

-----------------------------------------------------------------------------
(***************************************************************************)
(* The visits.                                                             *)
(***************************************************************************)

ListStays == UNCHANGED <<file, transports, tp, reloads, live>>

Stays(w) == pc'[w] = pc[w] /\ pos'[w] = pos[w] /\ (w \in overtaken' <=> w \in overtaken)

\* A visit goes on while others do something.
LEMMA VisitStays ==
  ASSUME NEW w, Visit(w), Stays(w), ListStays, mtx' = w <=> mtx = w
  PROVE  Visit(w)'
<1>1. Good => Good'
  BY GoodStays DEF ListStays
<1>2. transports = <<>> => transports' = <<>>
  BY DEF ListStays
<1> QED BY <1>1, <1>2 DEF Visit, Stays, ListStays

\* Who is not in a visit does not see what is done to the list.
LEMMA VisitOutside ==
  ASSUME NEW w, mtx' # w, pc'[w] \in VisitorPcs \ {"handle", "next"}, pc'[w] = "undefined" => w \in overtaken'
  PROVE  Visit(w)'
BY DEF Visit

\* Whoever gets the mutex finds a list of which nothing is freed.
LEMMA FoundWhole ==
  ASSUME Conf, mtx # "main", mpc # "freeTp"
  PROVE  (transports = <<>> \/ Good) /\ live = Elems(transports)
<1>1. mpc \in Emptied \cup Serving
  BY DEF Conf, Types, Main, MainPcs, Serving, Open, Emptied
<1>2. CASE mpc \in Emptied
  BY <1>2 DEF Conf, Main, Elems
<1>3. CASE mpc \in Serving
  BY <1>3 DEF Conf, Main
<1> QED BY <1>1, <1>2, <1>3

\* A visit that freeTransports has not run into does not touch what was freed.
LEMMA VisitSound ==
  ASSUME Conf, NEW v \in Visitors, Visit(v), Leaving(v), Undefined(v)
  PROVE  v \in overtaken
<1> SUFFICES ASSUME v \notin overtaken
             PROVE  FALSE
  OBVIOUS
<1>1. pc[v] \notin {"find", "pool", "signal"}
  BY DEF Visit, VisitorPcs
<1>2. ~(pc[v] = "lock" /\ mpc = "exit")
  BY DEF Leaving
<1>3. pc[v] \in {"handle", "next"}
  BY <1>1, <1>2 DEF Undefined
<1>4. pos[v] \in Elems(transports) \/ (pc[v] = "handle" /\ pos[v] = None)
  BY <1>3 DEF Visit
<1>5. live = Elems(transports)
  BY <1>3 DEF Visit
<1> QED BY <1>3, <1>4, <1>5 DEF Undefined, Sound, SoundTp

LEMMA VisitMain ==
  ASSUME Conf, NEW w \in Visitors, Visit(w), MainThread
  PROVE  Visit(w)'
<1>0. w # "main" /\ w # "free" /\ w \in Threads /\ w \notin Clients
  BY ThreadsApart
<1>1. CASE LoadLock \/ TpIniHandler \/ Loaded
  <2>1. mtx # w /\ mtx' # w
    BY <1>0, <1>1 DEF LoadLock, TpIniHandler, Loaded, Conf, Main
  <2>2. pc' = pc /\ overtaken' = overtaken
    BY <1>1 DEF LoadLock, TpIniHandler, Loaded
  <2>3. pc'[w] \in VisitorPcs \ {"handle", "next"} /\ (pc'[w] = "undefined" => w \in overtaken')
    BY <2>1, <2>2 DEF Visit
  <2> QED BY <2>1, <2>3, VisitOutside
<1>2. CASE Unblock
  <2>1. mtx' = mtx /\ pos' = pos /\ overtaken' = overtaken /\ ListStays
    BY <1>2 DEF Unblock, mainVars, confVars, ListStays
  <2>2. CASE w = "monitor" /\ pc[w] = "off"
    <3>1. pc'[w] = "accept"
      BY <1>0, <1>2, <2>2 DEF Unblock, Conf, Types
    <3>2. mtx # w
      BY <2>2 DEF Visit
    <3> QED BY <2>1, <3>1, <3>2, VisitOutside DEF VisitorPcs
  <2>3. CASE ~(w = "monitor" /\ pc[w] = "off")
    <3>1. pc'[w] = pc[w]
      BY <1>0, <1>2, <2>3 DEF Unblock, Conf, Types
    <3> QED BY <2>1, <3>1, VisitStays DEF Stays
  <2> QED BY <2>2, <2>3
<1>3. CASE StartReload \/ StartQuit \/ Join \/ DrainStep \/ ConnsAborted \/ Exit
  <2>1. mtx' = mtx /\ pc' = pc /\ pos' = pos /\ ListStays
    BY <1>3 DEF StartReload, StartQuit, Join, DrainStep, AbortClients, TpQuiet, TpEnded, ConnsAborted, Exit,
       confVars, ListStays
  <2>2. w \in overtaken' <=> w \in overtaken
    BY <1>0, <1>3 DEF StartReload, StartQuit, Join, DrainStep, AbortClients, TpQuiet, TpEnded, ConnsAborted, Exit
  <2> QED BY <2>1, <2>2, VisitStays DEF Stays
<1>4. CASE FreeTp \/ FreeNode \/ FreeList
  <2>1. mtx' = mtx /\ pc' = pc /\ overtaken \cup InVisit \subseteq overtaken'
    BY <1>4 DEF FreeTp, FreeNode, FreeList
  <2>2. pc[w] \in {"handle", "next"} => w \in overtaken'
    BY <2>1 DEF InVisit
  <2> QED BY <2>1, <2>2 DEF Visit
<1>5. CASE Freed
  <2>1. /\ mtx' = mtx /\ pc' = pc /\ pos' = pos /\ overtaken' = overtaken
        /\ transports = <<>> /\ transports' = <<>> /\ live' = live
    BY <1>5 DEF Freed, confVars
  <2>2. Elems(transports)' = Elems(transports)
    BY <2>1
  <2> QED BY <2>1, <2>2 DEF Visit
<1> QED BY <1>1, <1>2, <1>3, <1>4, <1>5 DEF MainThread, MainStep

LEMMA VisitThreads ==
  ASSUME Conf, \A v \in Visitors : Visit(v) /\ Leaving(v), ThreadStep, NEW w \in Visitors
  PROVE  Visit(w)'
<1>0. /\ Types /\ Numbered /\ None \in Nat /\ First \in Nat /\ ListStays
      /\ mtx \in Visitors \cup {"free", "main"} /\ pos \in [Threads -> Nat]
      /\ Visit(w) /\ w \in Threads /\ w # "free" /\ w # "main"
  BY ThreadTypes, NodesTyped, ThreadsApart DEF Conf, ListStays, mainVars, confVars, Types
<1> USE DEF VisitorPcs, ClientPcs
<1>1. ASSUME NEW v \in Threads, v # w, NEW where \in VisitorPcs \cup ClientPcs, NEW node \in Nat,
             Goto(v, where, node), w \in overtaken' <=> w \in overtaken, mtx' = w <=> mtx = w
      PROVE  Visit(w)'
  <2>1. pc'[w] = pc[w] /\ pos'[w] = pos[w]
    BY <1>0, <1>1, GotoParts
  <2> QED BY <1>0, <1>1, <2>1, VisitStays DEF Stays
<1>2. ASSUME NEW where \in VisitorPcs \ {"handle", "next", "undefined"}, NEW node \in Nat,
             Goto(w, where, node), mtx' # w
      PROVE  Visit(w)'
  <2>1. pc'[w] = where
    BY <1>0, <1>2, GotoParts
  <2> QED BY <1>2, <2>1, VisitOutside
<1>3. ASSUME NEW v \in Visitors, VisitorStep(v) \/ Lock(v)
      PROVE  Visit(w)'
  <2>1. v \in Threads /\ v # "free" /\ v # "main"
    BY ThreadsApart
  <2>2. CASE Lock(v)
    <3>1. /\ Goto(v, "handle", First) /\ mtx = "free" /\ mtx' = v
          /\ overtaken' = IF mpc = "freeTp" THEN overtaken \cup {v} ELSE overtaken
      BY <2>2 DEF Lock
    <3>2. CASE v # w
      BY <1>0, <1>1, <2>1, <3>1, <3>2
    <3>3. CASE v = w
      <4>1. pc'[w] = "handle" /\ pos'[w] = First
        BY <1>0, <2>1, <3>1, <3>3, GotoParts
      <4>2. ASSUME w \notin overtaken'
            PROVE  /\ transports' = <<>> \/ Good'
                   /\ live' = Elems(transports)'
                   /\ pos'[w] \in Elems(transports)' \/ pos'[w] = None
        <5>1. mpc # "freeTp" /\ mtx # "main"
          BY <3>1, <3>3, <4>2
        <5>2. (transports = <<>> \/ Good) /\ live = Elems(transports)
          BY <5>1, FoundWhole
        <5>3. Good => Good'
          BY <1>0, GoodStays DEF ListStays
        <5>4. First \in Elems(transports) \/ First = None
          <6>1. CASE transports = <<>>
            BY <6>1 DEF First
          <6>2. CASE transports # <<>>
            <7>1. 1 \in 1..Len(transports)
              BY <1>0, <6>2 DEF Types
            <7> QED BY <6>2, <7>1 DEF First, Elems
          <6> QED BY <6>1, <6>2
        <5> QED BY <1>0, <4>1, <5>2, <5>3, <5>4 DEF ListStays
      <4> QED BY <3>1, <3>3, <4>1, <4>2 DEF Visit
    <3> QED BY <3>2, <3>3
  <2>3. CASE VisitNext(v)
    <3>1. /\ pc[v] = "next" /\ pos[v] \in Elems(transports) /\ Goto(v, "handle", After(pos[v]))
          /\ mtx' = mtx /\ overtaken' = overtaken
      BY <2>3 DEF VisitNext, Sound
    <3>2. After(pos[v]) \in Nat /\ (After(pos[v]) \in Elems(transports) \/ After(pos[v]) = None)
      <4>1. /\ Base \in Nat /\ Len(tp) \in Nat /\ Elems(transports) = (Base + 1)..Len(tp)
            /\ After(pos[v]) = IF pos[v] = Len(tp) THEN None ELSE pos[v] + 1
        BY <1>0, <3>1, Listing
      <4>2. pos[v] \in (Base + 1)..Len(tp)
        BY <3>1, <4>1
      <4> QED BY <1>0, <4>1, <4>2
    <3>3. CASE v # w
      BY <1>0, <1>1, <2>1, <3>1, <3>2, <3>3
    <3>4. CASE v = w
      <4>1. pc'[w] = "handle" /\ pos'[w] = After(pos[w])
        BY <1>0, <3>1, <3>2, <3>4, GotoParts
      <4>2. Good => Good'
        BY <1>0, GoodStays DEF ListStays
      <4> QED BY <1>0, <3>1, <3>2, <3>4, <4>1, <4>2 DEF Visit, ListStays
    <3> QED BY <3>3, <3>4
  <2>4. CASE GoUndefined(v)
    <3>1. Undefined(v) /\ Goto(v, "undefined", None) /\ mtx' = mtx /\ overtaken' = overtaken
      BY <2>4 DEF GoUndefined
    <3>2. CASE v # w
      BY <1>0, <1>1, <2>1, <3>1, <3>2
    <3>3. CASE v = w
      <4>1. pc'[w] = "undefined" /\ w \in overtaken
        BY <1>0, <3>1, <3>3, GotoParts, VisitSound
      <4> QED BY <3>1, <4>1 DEF Visit
    <3> QED BY <3>2, <3>3
  <2> QED BY <1>3, <2>2, <2>3, <2>4 DEF VisitorStep
<1>4. "monitor" \in Visitors /\ "timer" \in Visitors /\ "monitor" \in Threads /\ "timer" \in Threads
  BY ThreadsApart
\* A step of its own outside of the list, or on to the node's next.
<1>5. ASSUME NEW v \in Visitors,
             \/ /\ pc[v] \in VisitorPcs \ {"handle", "next", "undefined"}
                /\ \E where \in VisitorPcs \ {"handle", "next", "undefined"} : Goto(v, where, None)
                /\ mtx' = mtx /\ overtaken' = overtaken
             \/ /\ pc[v] = "handle"
                /\ \E where \in VisitorPcs \ {"handle", "next", "undefined"} : Goto(v, where, None)
                /\ mtx' = "free" /\ overtaken' = overtaken \ {v}
             \/ /\ pc[v] = "handle" /\ SoundTp(v) /\ Goto(v, "next", pos[v])
                /\ mtx' = mtx /\ overtaken' = overtaken
      PROVE  Visit(w)'
  <2>1. v \in Threads /\ pos[v] \in Nat /\ Visit(v)
    BY <1>0, ThreadsApart
  <2>2. (mtx' = w <=> mtx = w) \/ v = w
    BY <1>0, <1>5, <2>1 DEF Visit
  <2>3. CASE v # w
    BY <1>0, <1>1, <1>5, <2>1, <2>2, <2>3
  <2>4. CASE v = w /\ pc[v] = "handle" /\ SoundTp(v) /\ Goto(v, "next", pos[v]) /\ mtx' = mtx /\ overtaken' = overtaken
    <3>1. pc'[w] = "next" /\ pos'[w] = pos[w] /\ pos[w] \in Elems(transports)
      BY <1>0, <2>1, <2>4, GotoParts DEF SoundTp, Sound
    <3>2. Good => Good'
      BY <1>0, GoodStays DEF ListStays
    <3> QED BY <1>0, <2>4, <3>1, <3>2 DEF Visit, ListStays
  <2>5. CASE /\ v = w /\ mtx' # w
             /\ \E where \in VisitorPcs \ {"handle", "next", "undefined"} : Goto(v, where, None)
    BY <1>0, <1>2, <2>5
  <2>6. mtx = v => pc[v] \in {"handle", "next", "undefined"}
    BY <2>1 DEF Visit
  <2> QED BY <1>0, <1>5, <2>3, <2>4, <2>5, <2>6
<1>6. CASE MonitorStep \/ MonitorAccept
  <2>1. CASE MonitorAccept \/ MonitorCollect \/ ReportTp \/ MonitorUnlock \/ MonitorWrite
    BY <1>4, <1>5, <2>1 DEF MonitorAccept, MonitorCollect, ReportTp, MonitorUnlock, MonitorWrite
  <2> QED BY <1>3, <1>4, <1>6, <2>1 DEF MonitorStep, MonitorLock
<1>7. CASE TimerStep \/ TimerExpires
  <2>1. CASE TimerExpires \/ ResetTp \/ TimerUnlock
    BY <1>4, <1>5, <2>1 DEF TimerExpires, ResetTp, TimerUnlock
  <2> QED BY <1>3, <1>4, <1>7, <2>1 DEF TimerStep, TimerLock
<1>8. ASSUME NEW c \in Clients, ClientStep(c) \/ PassGate(c)
      PROVE  Visit(w)'
  <2>1. c \in Threads /\ c # w
    BY ThreadsApart
  <2>2. mtx' = mtx /\ (w \in overtaken' <=> w \in overtaken)
    BY <1>8, <2>1 DEF ClientStep, PassGate, FindTpByName, NotFound, LeavePool, Signal, Answer, GoUndefined
  <2>3. \E where \in VisitorPcs \cup ClientPcs, node \in Nat : Goto(c, where, node)
    <3>1. SoundTp(c) => pos[c] \in Nat /\ After(pos[c]) \in Nat
      BY <1>0, NodesTyped DEF SoundTp, Sound
    <3>2. pos[c] \in Nat
      BY <1>0, <2>1
    <3> QED BY <1>0, <1>8, <3>1, <3>2 DEF ClientStep, PassGate, FindTpByName, NotFound, LeavePool, Signal, Answer,
               GoUndefined
  <2> QED BY <1>1, <2>1, <2>2, <2>3
<1> QED BY <1>6, <1>7, <1>8 DEF ThreadStep

LEMMA LeavingMain ==
  ASSUME Conf, NEW w \in Visitors, Leaving(w), MainThread
  PROVE  Leaving(w)'
<1>0. w \notin Clients /\ w \in Threads
  BY ThreadsApart
<1>1. CASE Unblock \/ StartQuit
  <2>1. ~quitting' \/ mpc' = "join"
    BY <1>1 DEF Unblock, StartQuit, Conf, Main
  <2>2. mpc' # "exit"
    BY <1>1 DEF Unblock, StartQuit
  <2> QED BY <2>1, <2>2 DEF Leaving
<1>2. CASE Join
  <2>1. pc["monitor"] = "ended" /\ pc' = pc /\ mpc' = "clients"
    BY <1>2 DEF Join
  <2> QED BY <2>1 DEF Leaving
<1>3. CASE FreeList
  <2>1. /\ mpc = "freeList" /\ pc' = pc /\ quitting' = quitting
        /\ pc[w] = "lock" => w \in overtaken'
    BY <1>3 DEF FreeList
  <2> QED BY <2>1 DEF Leaving
<1>4. CASE StartReload \/ DrainStep \/ ConnsAborted \/ FreeTp \/ FreeNode \/ Freed \/ Exit
           \/ LoadLock \/ TpIniHandler \/ Loaded
  <2>1. pc' = pc /\ quitting' = quitting /\ mpc # "join" /\ mpc' # "exit"
    BY <1>4 DEF StartReload, DrainStep, AbortClients, TpQuiet, TpEnded, ConnsAborted, FreeTp, FreeNode, Freed, Exit,
       LoadLock, TpIniHandler, Loaded, mainVars
  <2> QED BY <2>1 DEF Leaving
<1> QED BY <1>1, <1>2, <1>3, <1>4 DEF MainThread, MainStep

LEMMA LeavingThreads ==
  ASSUME Conf, \A v \in Visitors : Visit(v) /\ Leaving(v), ThreadStep, NEW w \in Visitors
  PROVE  Leaving(w)'
<1>0. /\ Types /\ Numbered /\ UNCHANGED <<mpc, quitting>> /\ None \in Nat /\ First \in Nat
      /\ Leaving(w) /\ w \in Threads /\ pos \in [Threads -> Nat]
      /\ mpc = "exit" => quitting
  BY ThreadTypes, NodesTyped, ThreadsApart DEF Conf, mainVars, Types, Main
<1> USE DEF VisitorPcs, ClientPcs
<1>1. ASSUME NEW v \in Threads, v # w, NEW where \in VisitorPcs \cup ClientPcs, NEW node \in Nat,
             Goto(v, where, node), w \in overtaken => w \in overtaken'
      PROVE  Leaving(w)'
  <2>1. pc'[w] = pc[w]
    BY <1>0, <1>1, GotoParts
  <2> QED BY <1>0, <1>1, <2>1 DEF Leaving
<1>2. "monitor" \in Visitors /\ "timer" \in Visitors /\ "monitor" \in Threads /\ "timer" \in Threads
  BY ThreadsApart
<1>3. \A v \in Threads : Sound(v) => pos[v] \in Nat /\ After(pos[v]) \in Nat
  BY <1>0, NodesTyped DEF Sound
<1>4. CASE MonitorStep \/ MonitorAccept
  <2>1. pc["monitor"] # "ended"
    BY <1>4 DEF MonitorStep, MonitorAccept, VisitorStep, VisitNext, GoUndefined, Undefined, MonitorCollect,
       MonitorLock, Lock, ReportTp, MonitorUnlock, MonitorWrite
  <2>2. ~quitting \/ mpc = "join"
    BY <1>2, <2>1 DEF Leaving
  <2> QED BY <1>0, <2>2 DEF Leaving
<1>5. CASE TimerStep \/ TimerExpires
  <2>1. CASE w = "timer"
    <3>1. \E where \in {"off", "lock", "handle", "next", "undefined"}, node \in Nat :
            Goto("timer", where, node) /\ (where = "lock" => TimerExpires)
      BY <1>0, <1>2, <1>3, <1>5 DEF TimerStep, TimerExpires, VisitorStep, VisitNext, GoUndefined, TimerLock, Lock,
         ResetTp, TimerUnlock, SoundTp
    <3>2. PICK where \in {"off", "lock", "handle", "next", "undefined"}, node \in Nat :
            Goto("timer", where, node) /\ (where = "lock" => TimerExpires)
      BY <3>1
    <3>3. pc'["timer"] = where
      BY <1>0, <1>2, <3>2, GotoParts
    <3>4. TimerExpires => mpc # "exit"
      BY <1>0 DEF TimerExpires
    <3> QED BY <1>0, <2>1, <3>2, <3>3, <3>4 DEF Leaving
  <2>2. CASE w # "timer"
    <3>1. \E where \in VisitorPcs \cup ClientPcs, node \in Nat : Goto("timer", where, node)
      BY <1>0, <1>2, <1>3, <1>5 DEF TimerStep, TimerExpires, VisitorStep, VisitNext, GoUndefined, TimerLock, Lock,
         ResetTp, TimerUnlock, SoundTp
    <3>2. w \in overtaken => w \in overtaken'
      BY <1>5, <2>2 DEF TimerStep, TimerExpires, VisitorStep, VisitNext, GoUndefined, TimerLock, Lock,
         ResetTp, TimerUnlock
    <3> QED BY <1>1, <1>2, <2>2, <3>1, <3>2
  <2> QED BY <2>1, <2>2
<1>6. ASSUME NEW c \in Clients, ClientStep(c) \/ PassGate(c)
      PROVE  Leaving(w)'
  <2>1. c \in Threads /\ c # w /\ pos[c] \in Nat
    BY <1>0, ThreadsApart
  <2>2. w \in overtaken => w \in overtaken'
    BY <1>6, <2>1 DEF ClientStep, PassGate, FindTpByName, NotFound, LeavePool, Signal, Answer, GoUndefined
  <2>3. \E where \in VisitorPcs \cup ClientPcs, node \in Nat : Goto(c, where, node)
    <3>1. SoundTp(c) => After(pos[c]) \in Nat
      BY <1>3, <2>1 DEF SoundTp
    <3> QED BY <1>0, <1>6, <2>1, <3>1 DEF ClientStep, PassGate, FindTpByName, NotFound, LeavePool, Signal, Answer,
               GoUndefined
  <2> QED BY <1>1, <2>1, <2>2, <2>3
<1> QED BY <1>4, <1>5, <1>6 DEF ThreadStep

-----------------------------------------------------------------------------
(***************************************************************************)
(* The look-ups.                                                           *)
(***************************************************************************)

\* A look-up goes on while others do something.
LEMMA LookStays ==
  ASSUME NEW c, LookUp(c), Stays(c), UNCHANGED <<transports, tp, mpc, cur, quitting>>, want'[c] = want[c]
  PROVE  LookUp(c)'
BY DEF LookUp, Stays, ClientsGone

\* It goes on while the main thread does something else than to drain pools ...
LEMMA LookMoves ==
  ASSUME NEW c, LookUp(c), Stays(c), UNCHANGED <<transports, tp>>, want'[c] = want[c],
         mpc' \in Open, ClientsGone' => pc[c] = "off",
         c \notin overtaken /\ pc[c] \in {"pool", "signal"} =>
           /\ mpc' \in {"drain", "ends"} => cur' # None /\ cur' <= pos[c]
           /\ mpc' = "ends" /\ pc[c] = "pool" => cur' < pos[c]
  PROVE  LookUp(c)'
BY DEF LookUp, Stays

\* A thread that has been overtaken, or is in no look-up.
LEMMA LookOutside ==
  ASSUME NEW c, pc'[c] \in ClientPcs, ClientsGone' => pc'[c] = "off",
         c \in overtaken' \/ pc'[c] \notin {"find", "pool", "signal", "undefined"}
  PROVE  LookUp(c)'
BY DEF LookUp

LEMMA LookMain ==
  ASSUME Conf, NEW c \in Clients, LookUp(c), MainThread
  PROVE  LookUp(c)'
<1>0. /\ c # "monitor" /\ c \in Threads
      /\ pc[c] \in {"pool", "signal"} /\ c \notin overtaken => pos[c] \in Elems(transports)
      /\ First \in Nat /\ None \in Nat
      /\ \A i \in Elems(transports) :
           /\ i \in Nat /\ First <= i /\ First # None
           /\ \A j \in Elems(transports) : i < j => After(i) # None /\ After(i) <= j
  BY ThreadsApart, Walk, NodesTyped DEF LookUp, Conf
<1>1. CASE LoadLock \/ TpIniHandler \/ Loaded \/ Unblock \/ FreeTp \/ FreeNode \/ Freed \/ FreeList \/ Exit
  <2>1. mpc \notin Open
    BY <1>1 DEF LoadLock, TpIniHandler, Loaded, Unblock, FreeTp, FreeNode, Freed, FreeList, Exit, Open
  <2>2. pc'[c] = pc[c] /\ (c \in overtaken => c \in overtaken') /\ quitting' = quitting
    BY <1>0, <1>1 DEF LoadLock, TpIniHandler, Loaded, Unblock, FreeTp, FreeNode, Freed, FreeList, Exit, Conf, Types,
       mainVars
  <2>3. /\ pc[c] \in ClientPcs /\ (c \in overtaken \/ pc[c] \notin {"find", "pool", "signal", "undefined"})
        /\ quitting => pc[c] = "off"
    BY <2>1 DEF LookUp, ClientsGone, Open
  <2> QED BY <2>2, <2>3, LookOutside DEF ClientsGone
<1>2. CASE StartReload \/ StartQuit \/ Join
  <2>1. /\ Stays(c) /\ UNCHANGED <<transports, tp>> /\ want'[c] = want[c] /\ mpc' \in Open
        /\ mpc' # "ends" /\ (mpc' = "drain" => cur' = First)
    BY <1>2 DEF StartReload, StartQuit, Join, Stays, confVars, Open
  <2>2. ~ClientsGone'
    BY <1>2 DEF StartReload, StartQuit, Join, ClientsGone, Conf, Main
  <2>3. c \notin overtaken /\ pc[c] \in {"pool", "signal"} => First # None /\ First <= pos[c]
    BY <1>0
  <2> QED BY <2>1, <2>2, <2>3, LookMoves
<1>3. CASE AbortClients
  <2>1. pc'[c] = "off"
    BY <1>3 DEF AbortClients
  <2> QED BY <2>1, LookOutside DEF ClientPcs
<1>4. CASE TpQuiet
  <2>1. /\ Stays(c) /\ UNCHANGED <<transports, tp>> /\ want'[c] = want[c] /\ quitting' = quitting
        /\ mpc = "drain" /\ mpc' = "ends" /\ cur' = cur /\ cur # None /\ cur \in Elems(transports)
        /\ ~(pc[c] = "pool" /\ pos[c] = cur)
    BY <1>4 DEF TpQuiet, Stays, confVars, Conf, Main
  <2>2. ClientsGone' => pc[c] = "off"
    BY <2>1 DEF LookUp, ClientsGone
  <2>3. ASSUME c \notin overtaken, pc[c] \in {"pool", "signal"}
        PROVE  cur <= pos[c] /\ (pc[c] = "pool" => cur < pos[c])
    <3>1. cur <= pos[c] /\ pos[c] \in Nat /\ cur \in Nat
      BY <1>0, <2>1, <2>3 DEF LookUp
    <3> QED BY <2>1, <3>1
  <2> QED BY <2>1, <2>2, <2>3, LookMoves DEF Open
<1>5. CASE TpEnded
  <2>1. /\ pc' = pc /\ pos' = pos /\ UNCHANGED <<transports, tp>> /\ want' = want /\ quitting' = quitting
        /\ mpc = "ends" /\ mpc' = "drain" /\ cur' = After(cur) /\ cur # None /\ cur \in Elems(transports)
        /\ overtaken' = overtaken \cup {d \in Clients : pc[d] = "signal" /\ pos[d] = cur}
    BY <1>5 DEF TpEnded, confVars, Conf, Main
  <2>2. ClientsGone' => pc[c] = "off"
    BY <2>1 DEF LookUp, ClientsGone
  <2>3. CASE c \notin overtaken /\ pc[c] = "signal" /\ pos[c] = cur
    BY <2>1, <2>2, <2>3, LookOutside DEF ClientPcs
  <2>4. CASE ~(c \notin overtaken /\ pc[c] = "signal" /\ pos[c] = cur)
    <3>1. Stays(c)
      BY <2>1, <2>4 DEF Stays
    <3>2. ASSUME c \notin overtaken, pc[c] \in {"pool", "signal"}
          PROVE  cur' # None /\ cur' <= pos[c]
      <4>1. cur <= pos[c] /\ (pc[c] = "pool" => cur < pos[c]) /\ pos[c] \in Nat /\ cur \in Nat
        BY <1>0, <2>1, <3>2 DEF LookUp
      <4>2. cur < pos[c]
        BY <2>4, <3>2, <4>1
      <4> QED BY <1>0, <2>1, <3>2, <4>2
    <3> QED BY <2>1, <2>2, <3>1, <3>2, LookMoves DEF Open
  <2> QED BY <2>3, <2>4
<1>6. CASE ConnsAborted
  <2>1. /\ mpc = "drain" /\ cur = None /\ pc' = pc /\ quitting' = quitting
        /\ overtaken' = overtaken \cup {d \in Clients : pc[d] = "find"}
    BY <1>6 DEF ConnsAborted
  <2>2. /\ pc'[c] \in ClientPcs
        /\ c \in overtaken' \/ pc'[c] \notin {"find", "pool", "signal", "undefined"}
        /\ ClientsGone' => pc'[c] = "off"
    BY <2>1 DEF LookUp, ClientsGone
  <2> QED BY <2>2, LookOutside
<1> QED BY <1>1, <1>2, <1>3, <1>4, <1>5, <1>6 DEF MainThread, MainStep, DrainStep

\* A look-up that a reload has not run into does not touch what was freed.
LEMMA LookSound ==
  ASSUME Conf, NEW c \in Clients, LookUp(c), Undefined(c)
  PROVE  c \in overtaken
<1> SUFFICES ASSUME c \notin overtaken
             PROVE  FALSE
  OBVIOUS
<1>1. \/ pc[c] = "find" /\ pos[c] # None /\ ~SoundTp(c)
      \/ pc[c] \in {"pool", "signal"} /\ pos[c] \notin live
  BY DEF Undefined, LookUp, ClientPcs
<1>2. mpc \in Open /\ pos[c] \in Elems(transports)
  BY <1>1 DEF LookUp
<1>3. live = Elems(transports)
  BY <1>2 DEF Conf, Main, Serving, Open, Emptied
<1> QED BY <1>1, <1>2, <1>3 DEF SoundTp, Sound

LEMMA LookThreads ==
  ASSUME Conf, \A d \in Clients : LookUp(d), ThreadStep, NEW c \in Clients
  PROVE  LookUp(c)'
<1>0. /\ Types /\ Numbered /\ None \in Nat /\ First \in Nat /\ UNCHANGED <<mainVars, confVars>>
      /\ pos \in [Threads -> Nat]
      /\ LookUp(c) /\ c \in Threads
  BY ThreadTypes, NodesTyped, ThreadsApart DEF Conf, Types
<1> USE DEF VisitorPcs, ClientPcs
<1>1. ASSUME NEW v \in Threads, v # c, NEW where \in VisitorPcs \cup ClientPcs, NEW node \in Nat,
             Goto(v, where, node), c \in overtaken' <=> c \in overtaken, want'[c] = want[c]
      PROVE  LookUp(c)'
  <2>1. pc'[c] = pc[c] /\ pos'[c] = pos[c]
    BY <1>0, <1>1, GotoParts
  <2> QED BY <1>0, <1>1, <2>1, LookStays DEF Stays, mainVars, confVars
<1>2. CASE MonitorStep \/ MonitorAccept \/ TimerStep \/ TimerExpires
  <2>1. "monitor" \in Threads /\ "timer" \in Threads /\ c # "monitor" /\ c # "timer"
    BY ThreadsApart
  <2>2. c \in overtaken' <=> c \in overtaken
    BY <1>2, <2>1 DEF MonitorStep, TimerStep, VisitorStep, MonitorLock, TimerLock, Lock, VisitNext, GoUndefined,
       MonitorAccept, MonitorCollect, ReportTp, MonitorUnlock, MonitorWrite, TimerExpires, ResetTp, TimerUnlock
  <2>3. want' = want
    BY <1>2 DEF MonitorStep, TimerStep, VisitorStep, MonitorLock, TimerLock, Lock, VisitNext, GoUndefined,
       MonitorAccept, MonitorCollect, ReportTp, MonitorUnlock, MonitorWrite, TimerExpires, ResetTp, TimerUnlock
  <2>4. \A v \in Threads : Sound(v) => pos[v] \in Nat /\ After(pos[v]) \in Nat
    BY <1>0, NodesTyped DEF Sound
  <2>5. \E v \in {"monitor", "timer"}, where \in VisitorPcs \cup ClientPcs, node \in Nat : Goto(v, where, node)
    BY <1>0, <1>2, <2>1, <2>4 DEF MonitorStep, TimerStep, VisitorStep, MonitorLock, TimerLock, Lock, VisitNext, GoUndefined,
       MonitorAccept, MonitorCollect, ReportTp, MonitorUnlock, MonitorWrite, TimerExpires, ResetTp, TimerUnlock, SoundTp
  <2> QED BY <1>1, <2>1, <2>2, <2>3, <2>5
<1>3. ASSUME NEW d \in Clients, d # c, ClientStep(d) \/ PassGate(d)
      PROVE  LookUp(c)'
  <2>1. d \in Threads
    BY ThreadsApart
  <2>2. (c \in overtaken' <=> c \in overtaken)
    BY <1>3 DEF ClientStep, PassGate, FindTpByName, NotFound, LeavePool, Signal, Answer,
       GoUndefined
  <2>3. want'[c] = want[c]
    BY <1>0, <1>3 DEF Types, ClientStep, PassGate, FindTpByName, NotFound, LeavePool, Signal, Answer,
       GoUndefined
  <2>4. SoundTp(d) => pos[d] \in Nat /\ After(pos[d]) \in Nat
    BY <1>0, NodesTyped DEF SoundTp, Sound
  <2>5. \E where \in VisitorPcs \cup ClientPcs, node \in Nat : Goto(d, where, node)
    <3>1. pos[d] \in Nat
      BY <1>0, <2>1
    <3> QED BY <1>0, <1>3, <2>4, <3>1 DEF ClientStep, PassGate, FindTpByName, NotFound, LeavePool, Signal, Answer,
       GoUndefined
  <2> QED BY <1>1, <1>3, <2>1, <2>2, <2>3, <2>5
<1>4. ASSUME ClientStep(c) \/ PassGate(c)
      PROVE  LookUp(c)'
  <2>1. /\ Base \in Nat /\ Len(tp) \in Nat /\ Elems(transports) = (Base + 1)..Len(tp)
        /\ First = IF transports = <<>> THEN None ELSE Base + 1
        /\ transports = <<>> <=> Base = Len(tp)
        /\ \A i \in Elems(transports) : After(i) = IF i = Len(tp) THEN None ELSE i + 1
    BY <1>0, Listing
  <2>2. UNCHANGED <<mpc, cur, quitting, transports, tp>>
    BY <1>0 DEF mainVars, confVars
  <2>3. CASE PassGate(c)
    <3>1. /\ Goto(c, "find", First) /\ mpc \in Open /\ want' = want /\ overtaken' = overtaken
          /\ ~ClientsGone'
      BY <1>0, <2>3 DEF PassGate, ClientsGone, Conf, Main, Open, mainVars
    <3>2. pc'[c] = "find" /\ pos'[c] = First
      BY <1>0, <3>1, GotoParts
    <3>3. First = None \/ First \in Elems(transports)
      <4>1. Base <= Len(tp)
        BY <1>0 DEF Numbered, Base
      <4> QED BY <2>1, <4>1
    <3>4. \A j \in Elems(transports) : ~(First = None \/ j < First)
      BY <2>1 DEF None
    <3> QED BY <2>2, <3>1, <3>2, <3>3, <3>4 DEF LookUp
  <2>4. CASE FindTpByName(c)
    <3>1. /\ pc[c] = "find" /\ pos[c] \in Elems(transports) /\ want' = want
          /\ \/ /\ tp[pos[c]].name = want[c] /\ Goto(c, "pool", pos[c])
                /\ overtaken' = IF pos[c] \in Drained THEN overtaken \cup {c} ELSE overtaken
             \/ /\ tp[pos[c]].name # want[c] /\ Goto(c, "find", After(pos[c]))
                /\ overtaken' = overtaken
          /\ ~ClientsGone'
      BY <1>0, <2>4 DEF FindTpByName, SoundTp, Sound, LookUp, ClientsGone, mainVars
    <3>2. pos[c] \in (Base + 1)..Len(tp) /\ pos[c] \in Nat /\ After(pos[c]) \in Nat
      BY <1>0, <2>1, <3>1 DEF None
    <3>3. CASE /\ tp[pos[c]].name = want[c] /\ Goto(c, "pool", pos[c])
               /\ overtaken' = IF pos[c] \in Drained THEN overtaken \cup {c} ELSE overtaken
      <4>1. pc'[c] = "pool" /\ pos'[c] = pos[c]
        BY <1>0, <3>2, <3>3, GotoParts
      <4>2. ASSUME c \notin overtaken'
            PROVE  /\ mpc \in Open /\ c \notin overtaken
                   /\ mpc \in {"drain", "ends"} => cur # None /\ cur <= pos[c]
                   /\ mpc = "ends" => cur < pos[c]
        <5>1. pos[c] \notin Drained /\ c \notin overtaken
          BY <3>3, <4>2
        <5>2. ~(mpc = "drain" /\ (cur = None \/ pos[c] < cur)) /\ ~(mpc = "ends" /\ pos[c] <= cur)
          BY <3>1, <5>1 DEF Drained
        <5>3. cur \in Nat /\ (mpc = "ends" => cur # None)
          BY DEF Conf, Types, Main
        <5> QED BY <1>0, <3>1, <3>2, <5>1, <5>2, <5>3 DEF LookUp
      <4> QED BY <1>0, <2>2, <3>1, <3>3, <4>1, <4>2 DEF LookUp
    <3>4. CASE tp[pos[c]].name # want[c] /\ Goto(c, "find", After(pos[c])) /\ overtaken' = overtaken
      <4>1. pc'[c] = "find" /\ pos'[c] = After(pos[c])
        BY <1>0, <3>2, <3>4, GotoParts
      <4>2. ASSUME c \notin overtaken
            PROVE  /\ mpc \in Open
                   /\ \A j \in Elems(transports) : j < pos[c] => tp[j].name # want[c]
        BY <1>0, <3>1, <4>2 DEF LookUp
      <4>3. After(pos[c]) = None \/ After(pos[c]) \in Elems(transports)
        BY <2>1, <3>1, <3>2
      <4>4. ASSUME NEW j \in Elems(transports), After(pos[c]) = None \/ j < After(pos[c])
            PROVE  j < pos[c] \/ j = pos[c]
        <5>1. j \in (Base + 1)..Len(tp)
          BY <2>1
        <5>2. After(pos[c]) = IF pos[c] = Len(tp) THEN None ELSE pos[c] + 1
          BY <2>1, <3>1
        <5> QED BY <2>1, <3>2, <4>4, <5>1, <5>2 DEF None
      <4> QED BY <2>2, <3>1, <3>4, <4>1, <4>2, <4>3, <4>4 DEF LookUp
    <3> QED BY <3>1, <3>3, <3>4
  <2>5. CASE NotFound(c) \/ Answer(c) \/ (LeavePool(c) /\ Goto(c, "answer", None)) \/ Signal(c)
    <3>1. Goto(c, "answer", None) \/ Goto(c, "off", None)
      BY <2>5 DEF NotFound, Answer, Signal
    <3>2. pc'[c] \in {"answer", "off"}
      BY <1>0, <3>1, GotoParts
    <3>3. ~ClientsGone'
      BY <1>0, <2>2, <2>5 DEF NotFound, Answer, LeavePool, Signal, LookUp, ClientsGone
    <3> QED BY <3>2, <3>3, LookOutside
  <2>6. CASE GoUndefined(c)
    <3>1. Undefined(c) /\ overtaken' = overtaken
      BY <2>6 DEF GoUndefined
    <3>2. Goto(c, "undefined", None) /\ c \in overtaken
      BY <1>0, <2>6, <3>1, LookSound DEF GoUndefined
    <3>3. pc'[c] = "undefined"
      BY <1>0, <3>2, GotoParts
    <3>4. ~ClientsGone'
      BY <1>0, <2>2, <3>1 DEF Undefined, LookUp, ClientsGone
    <3> QED BY <3>1, <3>2, <3>3, <3>4, LookOutside
  <2>7. CASE LeavePool(c) /\ Goto(c, "signal", pos[c])
    <3>1. /\ pc[c] = "pool" /\ pos[c] \in Nat /\ want' = want /\ overtaken' = overtaken
      BY <1>0, <2>7 DEF LeavePool
    <3>2. pc'[c] = "signal" /\ pos'[c] = pos[c]
      BY <1>0, <2>7, <3>1, GotoParts
    <3>3. ~ClientsGone'
      BY <1>0, <2>2, <3>1 DEF LookUp, ClientsGone
    <3> QED BY <1>0, <2>2, <3>1, <3>2, <3>3 DEF LookUp
  <2> QED BY <1>4, <2>3, <2>4, <2>5, <2>6, <2>7 DEF ClientStep, LeavePool
<1> QED BY <1>2, <1>3, <1>4 DEF ThreadStep

-----------------------------------------------------------------------------
(***************************************************************************)
(* The report.                                                             *)
(***************************************************************************)

\* What is said of a report stays true while nobody touches it and the list.
LEMMA SaidStays ==
  ASSUME UNCHANGED <<tp, report>>
  PROVE  /\ Complete => Complete'
         /\ \A p : reloads' = reloads /\ UpTo(p) => UpTo(p)'
BY DEF Complete, UpTo, Seen

\* A step of the main thread while the monitor is somewhere.
LEMMA ReportMain ==
  ASSUME Conf, Visit("monitor"), Reporting, MainThread
  PROVE  Reporting'
<1>0. /\ "monitor" \in Threads /\ reloads \in Nat /\ Len(tp) \in Nat
      /\ report' = report /\ pos' = pos
      /\ pc'["monitor"] = pc["monitor"] \/ (pc["monitor"] = "off" /\ pc'["monitor"] = "accept")
  BY ThreadsApart DEF Conf, Types, MainThread, MainStep, DrainStep, LoadLock, TpIniHandler, Loaded, Unblock, Join,
     AbortClients, TpQuiet, TpEnded, ConnsAborted, FreeTp, FreeNode, Freed, FreeList, Exit, StartReload, StartQuit
<1>1. CASE TpIniHandler
  <2>1. OneLine /\ Len(tp') \in Nat /\ mpc = "parse" /\ mpc' = "parse" /\ mtx = "main" /\ reloads' = reloads
    <3>1. OneLine /\ Types'
      BY <1>1, ParseStep DEF Conf
    <3>2. mpc = "parse" /\ mpc' = "parse" /\ reloads' = reloads
      BY <1>1 DEF TpIniHandler, mainVars
    <3>3. mtx = "main"
      BY <3>2 DEF Conf, Main
    <3> QED BY <3>1, <3>2, <3>3 DEF Types
  <2>2. pc'["monitor"] \notin {"handle", "next"} /\ pc' = pc
    BY <1>1, <2>1 DEF Visit, TpIniHandler
  <2>3. ASSUME NEW i \in report.shown
        PROVE  i \in 1..Len(tp) /\ i \in 1..Len(tp') /\ tp'[i].load = tp[i].load /\ tp[i].load < reloads
    <3>1. i \in 1..Len(tp) /\ tp[i].load < reloads
      BY <2>1 DEF Reporting
    <3> QED BY <1>0, <2>1, <3>1 DEF OneLine
  <2>4. ASSUME Complete
        PROVE  Complete'
    <3>1. ASSUME NEW i \in report.shown, NEW j \in 1..Len(tp')
          PROVE  IF j \in report.shown
                   THEN tp'[j].load = tp'[i].load
                   ELSE tp'[j].load # tp'[i].load \/ report.len + ItemLen[tp'[j].name] > maxlen
      <4>1. CASE j <= Len(tp)
        <5>1. j \in 1..Len(tp)
          BY <1>0, <4>1
        <5>2. tp'[j].load = tp[j].load /\ tp'[j].name = tp[j].name
          BY <2>1, <5>1 DEF OneLine
        <5> QED BY <2>3, <2>4, <5>1, <5>2 DEF Complete
      <4>2. CASE j > Len(tp)
        <5>1. tp'[j].load = reloads /\ j \notin report.shown
          BY <1>0, <2>1, <2>3, <4>2 DEF OneLine
        <5>2. tp'[i].load \in Nat /\ tp'[i].load < reloads
          <6>1. tp[i] \in Transport
            BY <2>3 DEF Conf, Types
          <6> QED BY <2>3, <6>1 DEF Transport
        <5> QED BY <1>0, <5>1, <5>2
      <4> QED BY <1>0, <2>1, <4>1, <4>2
    <3> QED BY <1>0, <3>1 DEF Complete
  <2> QED BY <1>0, <2>1, <2>2, <2>3, <2>4 DEF Reporting
<1>2. CASE Freed
  <2>1. /\ mpc = "freeTp" /\ cur = None /\ transports = <<>> /\ live = {} /\ UNCHANGED confVars /\ pc' = pc
        /\ mpc' = IF quitting THEN "freeList" ELSE "lock"
        /\ reloads' = IF quitting THEN reloads ELSE reloads + 1
    BY <1>2 DEF Freed, Conf, Main
  <2>2. Elems(transports)' = {} /\ live' = {} /\ tp' = tp
    BY <2>1 DEF confVars, Elems
  <2>3. ASSUME NEW i \in report.shown
        PROVE  i \in 1..Len(tp) /\ (mpc' \in {"lock", "parse", "failed"} => tp[i].load < reloads')
    <3>1. i \in 1..Len(tp)
      BY DEF Reporting
    <3>2. tp[i].load <= reloads
      BY <3>1 DEF Conf, Loads
    <3>3. tp[i] \in Transport
      BY <3>1 DEF Conf, Types
    <3>4. tp[i].load \in Nat
      BY <3>3 DEF Transport
    <3> QED BY <1>0, <2>1, <3>1, <3>2, <3>4
  <2>4. Complete => Complete'
    BY <1>0, <2>2, SaidStays
  <2> QED BY <1>0, <2>1, <2>2, <2>3, <2>4 DEF Reporting
<1>3. CASE LoadLock \/ Loaded \/ Unblock \/ Join \/ DrainStep \/ ConnsAborted \/ FreeTp \/ FreeNode \/ FreeList
           \/ Exit \/ StartReload \/ StartQuit
  <2>1. /\ tp' = tp /\ reloads' = reloads /\ live' \subseteq live
        /\ mpc' \in {"lock", "parse", "failed"} => mpc \in {"lock", "parse", "failed"}
    BY <1>3 DEF LoadLock, Loaded, Unblock, Join, DrainStep, AbortClients, TpQuiet, TpEnded, ConnsAborted, FreeTp,
       FreeNode, FreeList, Exit, StartReload, StartQuit, mainVars, confVars
  <2>2. Elems(transports)' \subseteq Elems(transports)
    <3>1. CASE FreeNode
      <4>1. transports \in Seq(Nat) /\ transports # <<>> /\ transports' = Tail(transports)
        BY <3>1 DEF FreeNode, Conf, Types
      <4>2. /\ Len(transports) \in Nat /\ Len(transports') = Len(transports) - 1
            /\ \A i \in 1..(Len(transports) - 1) : i + 1 \in 1..Len(transports) /\ transports'[i] = transports[i + 1]
        BY <4>1, TailParts
      <4> QED BY <4>2 DEF Elems
    <3>2. CASE ~FreeNode
      <4>1. transports' = transports
        BY <1>3, <3>2 DEF LoadLock, Loaded, Unblock, Join, DrainStep, AbortClients, TpQuiet, TpEnded, ConnsAborted,
           FreeTp, FreeList, Exit, StartReload, StartQuit, confVars
      <4> QED BY <4>1
    <3> QED BY <3>1, <3>2
  <2>3. (Complete => Complete') /\ \A p : UpTo(p) => UpTo(p)'
    BY <1>0, <2>1, SaidStays
  <2>4. \A i \in report.shown : /\ i \in 1..Len(tp)
                                /\ mpc \in {"lock", "parse", "failed"} => tp[i].load < reloads
    BY DEF Reporting
  <2>5. pc'["monitor"] \in {"lock", "handle", "next", "write"} => pc'["monitor"] = pc["monitor"]
    BY <1>0
  <2>6. report'.len <= maxlen + 1
    BY <1>0 DEF Reporting
  <2>7. /\ pc'["monitor"] = "lock" => report'.shown = {}
        /\ pc'["monitor"] = "handle" /\ pos'["monitor"] \in live' => UpTo(pos["monitor"] - 1)'
        /\ pc'["monitor"] = "next" /\ pos'["monitor"] \in Elems(transports)' => UpTo(pos["monitor"])'
        /\ pc'["monitor"] = "handle" /\ pos'["monitor"] = None => Complete'
        /\ pc'["monitor"] = "write" => Complete'
    BY <1>0, <2>1, <2>2, <2>3, <2>5 DEF Reporting
  <2> QED BY <1>0, <2>1, <2>4, <2>6, <2>7 DEF Reporting
<1> QED BY <1>1, <1>2, <1>3 DEF MainThread, MainStep

\* reportTp: the report goes as far as the transport the monitor is at.
LEMMA ReportTpSays ==
  ASSUME Conf, Visit("monitor"), Reporting, ReportTp
  PROVE  /\ UpTo(pos["monitor"])' /\ report'.len <= maxlen + 1
         /\ pos'["monitor"] = pos["monitor"] /\ pc'["monitor"] = "next"
         /\ \A i \in report'.shown : /\ i \in 1..Len(tp)
                                     /\ mpc \in {"lock", "parse", "failed"} => tp[i].load < reloads
<1> DEFINE p == pos["monitor"]
           len == ItemLen[tp[p].name]
<1>1. /\ pc["monitor"] = "handle" /\ p \in Elems(transports) /\ p \in live
      /\ report' = AddItem(report, len, {p})
      /\ Goto("monitor", "next", p)
      /\ UNCHANGED <<mainVars, confVars, mtx>>
  BY DEF ReportTp, SoundTp, Sound
<1>2. /\ p \in 1..Len(tp) /\ p \in Nat /\ Len(tp) \in Nat /\ p > Base /\ Base \in Nat
      /\ maxlen \in Nat /\ reloads \in Nat
  <2>1. /\ Base \in Nat /\ Len(tp) \in Nat /\ Elems(transports) = (Base + 1)..Len(tp)
    BY Listing DEF Conf
  <2>2. p \in (Base + 1)..Len(tp)
    BY <1>1, <2>1
  <2> HIDE DEF p
  <2> QED BY <2>1, <2>2, TransportsAssumption DEF Conf, Types
<1>3. tp[p].load = reloads
  BY <1>2 DEF Conf, Loads
<1>4. \A j \in 1..Len(tp) : ItemLen[tp[j].name] \in Nat
  <2>1. ASSUME NEW j \in 1..Len(tp)
        PROVE  ItemLen[tp[j].name] \in Nat
    <3>1. tp[j] \in Transport
      BY DEF Conf, Types
    <3>2. tp[j].name \in Names
      BY <3>1 DEF Transport
    <3> QED BY <3>2, LinesTyped
  <2> QED BY <2>1
<1>5. report \in [len : Nat, shown : SUBSET Nat] /\ report.len \in Nat /\ report.len <= maxlen + 1
  BY DEF Conf, Types, Reporting
<1>6. UpTo(p - 1)
  BY <1>1 DEF Reporting
<1>7. mpc \notin {"lock", "parse", "failed"}
  <2>1. mtx = "monitor"
    BY <1>1 DEF Visit
  <2> QED BY <1>1, <2>1 DEF Conf, Main, Emptied
<1>8. pos'["monitor"] = p /\ pc'["monitor"] = "next"
  BY <1>1, <1>2, ThreadsApart, GotoParts DEF Conf, VisitorPcs
<1> HIDE DEF p
<1>9. /\ report'.len \in Nat /\ report'.len <= maxlen + 1 /\ report'.len >= report.len
      /\ \/ report' = report /\ report.len + len > maxlen
         \/ report'.shown = report.shown \cup {p}
  <2>1. {p} \in SUBSET Nat /\ len \in Nat
    BY <1>2, <1>4
  <2> HIDE DEF len
  <2>2. AddItem(report, len, {p}) \in [len : Nat, shown : SUBSET Nat]
    BY <1>5, <2>1, ItemParts
  <2>3. /\ AddItem(report, len, {p}).len <= maxlen + 1
        /\ AddItem(report, len, {p}).len >= report.len
        /\ \/ AddItem(report, len, {p}) = report /\ report.len + len > maxlen
           \/ AddItem(report, len, {p}).shown = report.shown \cup {p}
    BY <1>5, <2>1, ItemParts
  <2>4. AddItem(report, len, {p}).len \in Nat
    BY <2>2
  <2> QED BY <1>1, <2>3, <2>4
<1>10. tp' = tp /\ reloads' = reloads
  BY <1>1 DEF mainVars, confVars
<1>11. \A i \in report'.shown : i \in 1..Len(tp) /\ i <= p /\ tp[i].load = reloads
  <2>1. \A i \in report.shown : i \in 1..Len(tp) /\ i <= p - 1 /\ tp[i].load = reloads
    BY <1>6 DEF UpTo
  <2>2. \A i \in report'.shown : i \in report.shown \/ i = p
    BY <1>9
  <2>3. ASSUME NEW i \in report.shown
        PROVE  i <= p
    BY <1>2, <2>1
  <2> QED BY <1>2, <1>3, <2>1, <2>2, <2>3
<1>12. ASSUME NEW j \in 1..Len(tp), j <= p, tp[j].load = reloads
       PROVE  j \in report'.shown \/ report'.len + ItemLen[tp[j].name] > maxlen
  <2>0. ItemLen[tp[j].name] \in Nat
    BY <1>4
  <2>1. CASE j = p
    BY <1>9, <2>1
  <2>2. CASE j # p
    <3>1. j <= p - 1
      BY <1>2, <1>12, <2>2
    <3>2. Seen(j)
      BY <1>6, <1>12, <3>1 DEF UpTo
    <3>3. CASE j \in report.shown
      BY <1>9, <3>3
    <3>4. CASE report.len + ItemLen[tp[j].name] > maxlen
      BY <1>2, <1>5, <1>9, <2>0, <3>4
    <3> QED BY <3>2, <3>3, <3>4 DEF Seen
  <2> QED BY <2>1, <2>2
<1>13. UpTo(p)'
  BY <1>8, <1>10, <1>11, <1>12 DEF UpTo, Seen, p
<1>14. \A i \in report'.shown : /\ i \in 1..Len(tp)
                                /\ mpc \in {"lock", "parse", "failed"} => tp[i].load < reloads
  BY <1>7, <1>11
<1> QED BY <1>8, <1>9, <1>13, <1>14 DEF p

\* dllistVisit goes on to the next node, or is through.
LEMMA ReportGoesOn ==
  ASSUME Conf, Reporting, VisitNext("monitor")
  PROVE  /\ pc'["monitor"] = "handle"
         /\ pos'["monitor"] = None => Complete
         /\ pos'["monitor"] # None => UpTo(pos'["monitor"] - 1)
<1> DEFINE p == pos["monitor"]
<1>1. /\ pc["monitor"] = "next" /\ p \in Elems(transports) /\ Goto("monitor", "handle", After(p))
  BY DEF VisitNext, Sound
<1>2. /\ Base \in Nat /\ Len(tp) \in Nat /\ Elems(transports) = (Base + 1)..Len(tp)
      /\ After(p) = IF p = Len(tp) THEN None ELSE p + 1
  BY <1>1, Listing DEF Conf
<1>3. p \in (Base + 1)..Len(tp)
  BY <1>1, <1>2
<1>4. UpTo(p)
  BY <1>1 DEF Reporting
<1>5. pc'["monitor"] = "handle" /\ pos'["monitor"] = After(p)
  <2>1. After(p) \in Nat
    BY <1>1, NodesTyped DEF Conf
  <2> QED BY <1>1, <2>1, ThreadsApart, GotoParts DEF Conf, VisitorPcs
<1> HIDE DEF p
<1>6. CASE p = Len(tp)
  <2>1. Complete
    <3>1. \A i \in report.shown : i \in 1..Len(tp) /\ tp[i].load = reloads
      BY <1>4 DEF UpTo
    <3>2. \A j \in 1..Len(tp) : tp[j].load = reloads => Seen(j)
      BY <1>2, <1>4, <1>6 DEF UpTo
    <3> QED BY <3>1, <3>2 DEF Complete, Seen
  <2> QED BY <1>2, <1>5, <1>6, <2>1
<1>7. CASE p # Len(tp)
  <2>1. pos'["monitor"] = p + 1 /\ p + 1 # None
    BY <1>2, <1>3, <1>5, <1>7 DEF None
  <2>2. (p + 1) - 1 = p
    BY <1>2, <1>3
  <2>3. UpTo(pos'["monitor"] - 1)
    BY <1>4, <2>1, <2>2
  <2> QED BY <1>5, <2>1, <2>3
<1> QED BY <1>6, <1>7

LEMMA ReportThreads ==
  ASSUME Conf, \A v \in Visitors : Visit(v), Reporting, ThreadStep
  PROVE  Reporting'
<1>0. /\ UNCHANGED <<mainVars, confVars>> /\ tp' = tp /\ reloads' = reloads /\ mpc' = mpc
      /\ live' = live /\ transports' = transports
      /\ Types /\ Numbered /\ Visit("monitor") /\ None \in Nat /\ First \in Nat
      /\ "monitor" \in Threads /\ pos \in [Threads -> Nat]
  BY ThreadTypes, ThreadsApart, NodesTyped DEF Conf, mainVars, confVars, Types
<1> USE DEF VisitorPcs, ClientPcs
\* The report stays what it is, and is as far as the monitor says.
<1>1. ASSUME report' = report,
             /\ pc'["monitor"] = "lock" => report.shown = {}
             /\ pc'["monitor"] = "handle" /\ pos'["monitor"] \in live => UpTo(pos'["monitor"] - 1)
             /\ pc'["monitor"] = "next" /\ pos'["monitor"] \in Elems(transports) => UpTo(pos'["monitor"])
             /\ pc'["monitor"] = "handle" /\ pos'["monitor"] = None => Complete
             /\ pc'["monitor"] = "write" => Complete
      PROVE  Reporting'
  <2>1. Complete => Complete'
    BY <1>0, <1>1, SaidStays
  <2>2. \A p : UpTo(p) => \A i \in report'.shown : i \in 1..Len(tp') /\ i <= p /\ tp'[i].load = reloads'
    BY <1>0, <1>1 DEF UpTo
  <2>3. \A p : UpTo(p) => \A j \in 1..Len(tp') : j <= p /\ tp'[j].load = reloads'
                            => j \in report'.shown \/ report'.len + ItemLen[tp'[j].name] > maxlen
    BY <1>0, <1>1 DEF UpTo, Seen
  <2>4. pc'["monitor"] = "handle" /\ pos'["monitor"] \in live' => UpTo(pos["monitor"] - 1)'
    BY <1>0, <1>1, <2>2, <2>3 DEF UpTo, Seen
  <2>5. pc'["monitor"] = "next" /\ pos'["monitor"] \in Elems(transports)' => UpTo(pos["monitor"])'
    BY <1>0, <1>1, <2>2, <2>3 DEF UpTo, Seen
  <2>6. report'.len <= maxlen + 1 /\ \A i \in report'.shown :
          /\ i \in 1..Len(tp') /\ (mpc' \in {"lock", "parse", "failed"} => tp'[i].load < reloads')
    BY <1>0, <1>1 DEF Reporting
  <2> QED BY <1>0, <1>1, <2>1, <2>4, <2>5, <2>6 DEF Reporting
<1>2. ASSUME report' = report, NEW v \in Threads, v # "monitor",
             NEW where \in VisitorPcs \cup ClientPcs, NEW node \in Nat, Goto(v, where, node)
      PROVE  Reporting'
  <2>1. pc'["monitor"] = pc["monitor"] /\ pos'["monitor"] = pos["monitor"]
    BY <1>0, <1>2, GotoParts
  <2> QED BY <1>1, <1>2, <2>1 DEF Reporting
<1>3. ASSUME report' = report, Goto("monitor", "accept", None) \/ Goto("monitor", "ended", None)
                               \/ Goto("monitor", "collect", None) \/ Goto("monitor", "undefined", None)
      PROVE  Reporting'
  <2>1. pc'["monitor"] \in {"accept", "ended", "collect", "undefined"}
    BY <1>0, <1>3, GotoParts
  <2> QED BY <1>1, <1>3, <2>1
<1>4. CASE MonitorLock
  <2>1. pc["monitor"] = "lock" /\ Goto("monitor", "handle", First)
    BY <1>4 DEF MonitorLock, Lock
  <2>2. report.shown = {}
    BY <2>1 DEF Reporting
  <2>3. pc'["monitor"] = "handle" /\ pos'["monitor"] = First
    BY <1>0, <2>1, GotoParts
  <2>4. report'.shown = {} /\ report'.len <= maxlen + 1
    <3>1. PICK n \in HeadLens : report' = AddItem(report, n, {})
      BY <1>4 DEF MonitorLock
    <3>2. /\ n \in Nat /\ maxlen \in Nat /\ {} \in SUBSET Nat
          /\ report \in [len : Nat, shown : SUBSET Nat] /\ report.len <= maxlen + 1
      BY <1>0, TransportsAssumption DEF Types, Reporting
    <3>3. /\ AddItem(report, n, {}).len <= maxlen + 1
          /\ \/ AddItem(report, n, {}) = report
             \/ AddItem(report, n, {}).shown = report.shown \cup {}
      BY <3>2, ItemParts
    <3> QED BY <2>2, <3>1, <3>3
  <2>5. ASSUME First \in live
        PROVE  UpTo(First - 1)'
    <3>1. /\ Base \in Nat /\ Len(tp) \in Nat
          /\ First = IF transports = <<>> THEN None ELSE Base + 1
          /\ transports = <<>> => Elems(transports) = {}
      BY <1>0, Listing DEF Elems
    <3>2. ~NodesGoing
      BY <2>5 DEF NodesGoing, Conf, Main, Emptied
    <3>3. transports # <<>>
      <4>1. CASE mpc \in Emptied
        BY <2>5, <4>1 DEF Conf, Main
      <4>2. CASE mpc \in {"parse", "failed"} \cup Serving
        BY <2>5, <3>1, <4>2 DEF Conf, Main
      <4>3. CASE mpc = "freeTp"
        <5>1. cur # None
          BY <3>2, <4>3 DEF NodesGoing
        <5> QED BY <3>1, <4>3, <5>1 DEF Conf, Main
      <4> QED BY <4>1, <4>2, <4>3 DEF Conf, Types, MainPcs, Serving, Open, Emptied
    <3>4. First - 1 = Base
      BY <3>1, <3>3
    <3>5. ASSUME NEW j \in 1..Len(tp), j <= Base
          PROVE  tp[j].load # reloads
      <4>1. tp[j].load < reloads /\ reloads \in Nat
        BY <1>0, <3>2, <3>5 DEF Conf, Loads, Types
      <4>2. tp[j] \in Transport
        BY <1>0 DEF Types
      <4>3. tp[j].load \in Nat
        BY <4>2 DEF Transport
      <4> QED BY <4>1, <4>3
    <3>6. First' = First
      BY <1>0 DEF First
    <3> QED BY <1>0, <2>4, <3>4, <3>5, <3>6 DEF UpTo
  <2>6. UpTo(First - 1)' <=> UpTo(pos["monitor"] - 1)'
    <3>1. First' = First
      BY <1>0 DEF First
    <3> QED BY <2>3, <3>1 DEF UpTo, Seen
  <2>7. Complete'
    BY <2>4 DEF Complete
  <2> QED BY <1>0, <2>3, <2>4, <2>5, <2>6, <2>7 DEF Reporting
<1>5. CASE VisitNext("monitor")
  <2>1. /\ pc'["monitor"] = "handle"
        /\ pos'["monitor"] = None => Complete
        /\ pos'["monitor"] # None => UpTo(pos'["monitor"] - 1)
    BY <1>5, ReportGoesOn
  <2>2. None \notin live
    <3>1. None \notin Elems(transports)
      BY <1>0, NodesTyped
    <3>2. live = {} \/ live = Elems(transports) \/ \E i \in Elems(transports) : live = i..Len(tp)
      BY DEF Conf, Types, MainPcs, Main, Serving, Open, Emptied
    <3>3. \A i \in Elems(transports) : i \in Nat /\ i # None
      BY <1>0, NodesTyped
    <3> QED BY <3>1, <3>2, <3>3 DEF None
  <2>3. report' = report
    BY <1>5 DEF VisitNext
  <2> QED BY <1>1, <2>1, <2>2, <2>3
<1>6. CASE MonitorCollect
  <2>1. Goto("monitor", "lock", None)
    BY <1>6 DEF MonitorCollect
  <2>2. pc'["monitor"] = "lock"
    BY <1>0, <2>1, GotoParts
  <2>3. PICK n \in HeadLens : report' = AddItem([len |-> 0, shown |-> {}], n, {})
    BY <1>6 DEF MonitorCollect
  <2>4. n \in Nat /\ maxlen \in Nat
    BY TransportsAssumption
  <2>5. report'.len <= maxlen + 1 /\ report'.shown = {}
    BY <2>3, <2>4 DEF AddItem
  <2> QED BY <1>0, <2>2, <2>5 DEF Reporting
<1>7. CASE ReportTp
  <2>1. /\ UpTo(pos["monitor"])' /\ report'.len <= maxlen + 1 /\ pc'["monitor"] = "next"
        /\ \A i \in report'.shown : /\ i \in 1..Len(tp)
                                    /\ mpc \in {"lock", "parse", "failed"} => tp[i].load < reloads
    BY <1>0, <1>7, ReportTpSays
  <2> QED BY <1>0, <2>1 DEF Reporting
<1>8. CASE MonitorUnlock
  <2>1. pc["monitor"] = "handle" /\ pos["monitor"] = None /\ report' = report /\ Goto("monitor", "write", None)
    BY <1>8 DEF MonitorUnlock
  <2>2. pc'["monitor"] = "write"
    BY <1>0, <2>1, GotoParts
  <2>3. Complete
    BY <2>1 DEF Reporting
  <2> QED BY <1>1, <2>1, <2>2, <2>3
<1>9. CASE GoUndefined("monitor") \/ MonitorWrite \/ MonitorAccept
  <2>1. report' = report
    BY <1>9 DEF GoUndefined, MonitorWrite, MonitorAccept
  <2> QED BY <1>3, <1>9, <2>1 DEF GoUndefined, MonitorWrite, MonitorAccept
<1>10. CASE TimerStep \/ TimerExpires
  <2>1. "timer" \in Threads /\ "timer" # "monitor"
    BY ThreadsApart
  <2>2. Sound("timer") => pos["timer"] \in Nat /\ After(pos["timer"]) \in Nat
    BY <1>0, NodesTyped DEF Sound
  <2>3. report' = report /\ \E where \in VisitorPcs \cup ClientPcs, node \in Nat : Goto("timer", where, node)
    BY <1>0, <1>10, <2>1, <2>2 DEF TimerStep, TimerExpires, VisitorStep, TimerLock, Lock, VisitNext, GoUndefined, ResetTp, TimerUnlock
  <2> QED BY <1>2, <2>1, <2>3
<1>11. ASSUME NEW c \in Clients, ClientStep(c) \/ PassGate(c)
       PROVE  Reporting'
  <2>1. c \in Threads /\ c # "monitor"
    BY ThreadsApart
  <2>2. SoundTp(c) => pos[c] \in Nat /\ After(pos[c]) \in Nat
    BY <1>0, NodesTyped DEF SoundTp, Sound
  <2>3. report' = report /\ \E where \in VisitorPcs \cup ClientPcs, node \in Nat : Goto(c, where, node)
    <3>1. pos[c] \in Nat
      BY <1>0, <2>1
    <3> QED BY <1>0, <1>11, <2>2, <3>1 DEF ClientStep, PassGate, FindTpByName, NotFound, LeavePool, Signal, Answer,
               GoUndefined
  <2> QED BY <1>2, <2>1, <2>3
<1> QED BY <1>4, <1>5, <1>6, <1>7, <1>8, <1>9, <1>10, <1>11 DEF ThreadStep, MonitorStep, VisitorStep

-----------------------------------------------------------------------------
(***************************************************************************)
(* The invariant, and what follows from it.                                *)
(***************************************************************************)

LEMMA InitHolds ==
  ASSUME Init
  PROVE  IInv
<1>1. Types
  <2>1. pc \in [Threads -> VisitorPcs \cup ClientPcs] /\ pos \in [Threads -> Nat]
    BY DEF Init, VisitorPcs, ClientPcs, None
  <2>2. /\ file \in Seq(Entries) /\ todo \in Seq(Entries)
        /\ tp \in Seq(Transport) /\ transports \in Seq(Nat)
    BY DEF Init
  <2>3. report \in [len : Nat, shown : SUBSET Nat]
    BY DEF Init
  <2>4. mpc \in MainPcs /\ mtx \in Visitors \cup {"free", "main"}
    BY DEF Init, MainPcs
  <2>5. /\ blocked \in BOOLEAN /\ quitting \in BOOLEAN /\ iniError \in BOOLEAN /\ reloads \in Nat
        /\ cur \in Nat /\ want \in [Clients -> Sections]
    BY DEF Init, None
  <2> QED BY <2>1, <2>2, <2>3, <2>4, <2>5 DEF Types
<1>2. Numbered /\ Base = 0
  BY DEF Init, Numbered, Base
<1>3. Loads
  BY DEF Init, Loads
<1>4. Main /\ Parsing
  BY DEF Init, Main, Parsing, Serving, Open, Emptied
<1>5. \A v \in Threads : pc[v] = "off" /\ pos[v] = None
  BY DEF Init
<1>6. \A v \in Visitors : Visit(v) /\ Leaving(v)
  BY <1>5, ThreadsApart DEF Visit, Leaving, VisitorPcs, Init
<1>7. \A c \in Clients : LookUp(c)
  BY <1>5, ThreadsApart DEF LookUp, ClientPcs
<1>8. Reporting
  <2>1. report.len = 0 /\ report.shown = {} /\ pc["monitor"] = "off"
    BY <1>5, ThreadsApart DEF Init
  <2> QED BY <2>1, TransportsAssumption DEF Reporting
<1> QED BY <1>1, <1>2, <1>3, <1>4, <1>6, <1>7, <1>8 DEF IInv, Conf

LEMMA MainConf ==
  ASSUME Conf, MainThread
  PROVE  Conf'
<1>1. CASE TpIniHandler
  BY <1>1, ParseStep DEF Conf
<1> QED BY <1>1, LoadLockConf, LoadedConf, GatesConf, AbortConf, FreeTpConf, FreeNodeConf, FreedConf,
           ExitConf DEF MainThread, MainStep, Gates

LEMMA NextHolds ==
  ASSUME IInv, [Next]_vars
  PROVE  IInv'
<1>0. /\ Conf /\ Reporting /\ "monitor" \in Visitors
      /\ \A v \in Visitors : Visit(v) /\ Leaving(v)
      /\ \A c \in Clients : LookUp(c)
  BY ThreadsApart DEF IInv
<1>1. CASE MainThread
  <2>1. Conf'
    BY <1>0, <1>1, MainConf
  <2>2. \A v \in Visitors : Visit(v)' /\ Leaving(v)'
    BY <1>0, <1>1, VisitMain, LeavingMain
  <2>3. \A c \in Clients : LookUp(c)'
    BY <1>0, <1>1, LookMain
  <2>4. Reporting'
    BY <1>0, <1>1, ReportMain
  <2> QED BY <2>1, <2>2, <2>3, <2>4 DEF IInv
<1>2. CASE ThreadStep
  <2>1. Conf'
    BY <1>0, <1>2, ThreadsConf
  <2>2. \A v \in Visitors : Visit(v)' /\ Leaving(v)'
    BY <1>0, <1>2, VisitThreads, LeavingThreads
  <2>3. \A c \in Clients : LookUp(c)'
    BY <1>0, <1>2, LookThreads
  <2>4. Reporting'
    BY <1>0, <1>2, ReportThreads
  <2> QED BY <2>1, <2>2, <2>3, <2>4 DEF IInv
<1>3. CASE UNCHANGED vars
  <2>1. /\ UNCHANGED <<mainVars, confVars>> /\ mtx' = mtx /\ ListStays
        /\ pc' = pc /\ pos' = pos /\ want' = want /\ report' = report /\ overtaken' = overtaken
        /\ mpc' = mpc /\ cur' = cur /\ quitting' = quitting /\ tp' = tp /\ transports' = transports /\ reloads' = reloads /\ live' = live
    BY <1>3 DEF vars, mainVars, confVars, ListStays
  <2>2. Types'
    BY <1>0, <2>1 DEF Conf, Types, mainVars, confVars
  <2>3. Conf'
    BY <1>0, <2>1, <2>2, ConfStays
  <2>4. \A v \in Visitors : Visit(v)' /\ Leaving(v)'
    BY <1>0, <2>1, VisitStays DEF Stays, Leaving
  <2>5. \A c \in Clients : LookUp(c)'
    BY <1>0, <2>1, LookStays DEF Stays
  <2>6. Reporting'
    BY <1>0, <2>1 DEF Reporting, UpTo, Seen, Complete
  <2> QED BY <2>3, <2>4, <2>5, <2>6 DEF IInv
<1> QED BY <1>1, <1>2, <1>3 DEF Next, ThreadStep, MainThread

THEOREM Invariance == Spec => []IInv
<1> QED BY InitHolds, NextHolds, PTL DEF Spec

\* loadTpConfig, freeTransports and the gate: while mails are let through, the
\* list is what transport.ini asks for, and a load ends the program exactly if
\* the file asks for something that checkTp refuses.
THEOREM ConfigIsAsAsked == Spec => []InForceAsAsked
<1>1. ASSUME IInv
      PROVE  InForceAsAsked
  BY <1>1 DEF IInv, Conf, Main, Serving, Open, Emptied, Good, InForceAsAsked
<1> QED BY <1>1, Invariance, PTL

\* dllistVisit by the monitor, the timer and the clients, and tpSendMail: nobody
\* touches a node or a transport that freeTransports has freed, or finds half of a
\* configuration, or is told that a section of the file does not exist, but: a visitor
\* that was on its way through the list when freeTransports ran (or came to it when the
\* exit had freed the list itself); a client that got into a pool only after
\* abortTransportsConns, which drains one transport after the other, was through with
\* it, or was still in its look-up at the end; and a client that had a last signal to
\* send when its pool was drained.
THEOREM ListIsNotFreedUnderVisits == Spec => []NoUseAfterFree
<1>1. ASSUME IInv
      PROVE  VisitsAreSafe
  <2>1. ASSUME NEW v \in Visitors \ overtaken
        PROVE  /\ pc[v] # "undefined"
               /\ mtx = v => /\ transports = <<>> \/ InForce
                             /\ pos[v] # None => SoundTp(v)
    <3>1. Visit(v)
      BY <1>1 DEF IInv
    <3>2. pc[v] # "undefined"
      BY <3>1 DEF Visit
    <3>3. ASSUME mtx = v
          PROVE  /\ transports = <<>> \/ InForce
                 /\ pos[v] # None => SoundTp(v)
      BY <3>1, <3>2, <3>3 DEF Visit, Good, SoundTp, Sound
    <3> QED BY <3>2, <3>3
  <2> QED BY <2>1 DEF VisitsAreSafe
<1>2. ASSUME IInv
      PROVE  LookupsAreSafe
  <2>1. ASSUME NEW c \in Clients \ overtaken
        PROVE  /\ pc[c] # "undefined"
               /\ pc[c] = "find" =>
                    /\ InForce
                    /\ IF pos[c] = None THEN want[c] \notin {file[i].section : i \in 1..Len(file)}
                                        ELSE SoundTp(c)
               /\ pc[c] \in {"pool", "signal"} =>
                    SoundTp(c) /\ tp[pos[c]].name = want[c] /\ CheckTp(tp[pos[c]])
    <3>1. LookUp(c) /\ Main
      BY <1>2 DEF IInv, Conf
    <3>2. mpc \in Open => Good /\ live = Elems(transports)
      BY <3>1 DEF Main, Serving, Open, Emptied
    <3>3. ASSUME pc[c] = "find"
          PROVE  /\ InForce
                 /\ IF pos[c] = None THEN want[c] \notin {file[i].section : i \in 1..Len(file)}
                                     ELSE SoundTp(c)
      <4>1. /\ Good /\ live = Elems(transports)
            /\ pos[c] = None \/ pos[c] \in Elems(transports)
            /\ \A j \in Elems(transports) : pos[c] = None \/ j < pos[c] => tp[j].name # want[c]
        BY <3>1, <3>2, <3>3 DEF LookUp
      <4>2. ASSUME pos[c] = None, NEW i \in 1..Len(file)
            PROVE  file[i].section # want[c]
        <5>1. PICK k \in 1..Len(transports) : tp[transports[k]].name = file[i].section
          BY <4>1 DEF Good
        <5>2. transports[k] \in Elems(transports)
          BY DEF Elems
        <5> QED BY <4>1, <4>2, <5>1, <5>2
      <4>3. pos[c] # None => SoundTp(c)
        BY <4>1 DEF SoundTp, Sound
      <4> QED BY <4>1, <4>2, <4>3 DEF Good
    <3>4. ASSUME pc[c] \in {"pool", "signal"}
          PROVE  SoundTp(c) /\ tp[pos[c]].name = want[c] /\ CheckTp(tp[pos[c]])
      <4>1. /\ Good /\ live = Elems(transports)
            /\ pos[c] \in Elems(transports) /\ tp[pos[c]].name = want[c]
        BY <3>1, <3>2, <3>4 DEF LookUp
      <4>2. PICK k \in 1..Len(transports) : pos[c] = transports[k]
        BY <4>1 DEF Elems
      <4>3. CheckTp(tp[pos[c]])
        BY <4>1, <4>2 DEF Good
      <4> QED BY <4>1, <4>3 DEF SoundTp, Sound
    <3>5. pc[c] # "undefined"
      BY <3>1 DEF LookUp
    <3> QED BY <3>3, <3>4, <3>5
  <2> QED BY <2>1 DEF LookupsAreSafe
<1>3. IInv => NoUseAfterFree
  BY <1>1, <1>2 DEF NoUseAfterFree
<1> QED BY <1>3, Invariance, PTL

\* collectReport and addReportItem: what the monitor writes, even if freeTransports
\* ran into its visit, has all transports of one load, as far as they fit, and
\* leaves room for the NUL.
THEOREM ReportsAreWhole == Spec => []ReportWhole
<1>1. ASSUME IInv
      PROVE  ReportWhole
  BY <1>1 DEF IInv, Reporting, Complete, ReportWhole
<1> QED BY <1>1, Invariance, PTL

=============================================================================
