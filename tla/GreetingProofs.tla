---------------------------- MODULE GreetingProofs ----------------------------
(***************************************************************************)
(* Proofs about Social and Greeting, which extends it: what the lists in   *)
(* Redis, the follows, the feeds and the greetings keep to, however many   *)
(* requests are under way and wherever they die.  And about Paging: the    *)
(* pages of a list part it.                                                *)
(***************************************************************************)
EXTENDS GreetingMC, SumProofs, SequenceTheorems

-----------------------------------------------------------------------------
(* The requests *)

\* A record with the fields of a request.
IsRequest(r) ==
  r = [op |-> r.op, by |-> r.by, what |-> r.what, step |-> r.step, keys |-> r.keys, got |-> r.got,
       late |-> r.late]

Reading == {"read", "loaded"}

\* A request that reads lists, and then goes on.
Reader(r) ==
  /\ r.op \in Categories \cup {"follow", "publish", "greet"}
  /\ r.step \in Reading \cup {"go", "create", "bind", "release"}
  /\ r.op \in Categories => r.by \in Users /\ r.step \in Reading \cup {"go"}
  /\ r.step \in Reading =>
       \/ r.op \in {"follow", "publish"} /\ r.keys = <<"config">>
       \/ r.op = "greet" /\ r.keys = <<Greeter>>
       \/ r.op \in Categories /\ r.keys \in {<<r.by>>, <<"recommended", r.by>>}

\* A request that has written and still has lists to delete, or has its last write before it.
Writer(r) ==
  \/ r.op \in {"block", "unblock", "configure"} /\ r.step = "invalidate"
  \/ r.op \in {"review", "delete"} /\ r.step = "write"

IsProc(r) == r = Idle \/ (IsRequest(r) /\ r.late \in BOOLEAN /\ (Reader(r) \/ Writer(r)))

ProcsOK == proc = [p \in Procs |-> proc[p]] /\ \A p \in Procs : IsProc(proc[p])

-----------------------------------------------------------------------------
(* The greetings *)

\* A request took its greeting on a day that has come, and gives it back under the key of that day or a later one.
GreetingOf(r) ==
  r.op = "greet" =>
    /\ r.what \in Nat /\ r.what <= day
    /\ r.step = "release" => \E d \in Nat : r.got = {d} /\ r.what <= d /\ d <= day

CountInv ==
  /\ ProcsOK
  /\ day \in Nat /\ used \in Int /\ sent \in Int /\ lost \in Int /\ shifted \in Int
  /\ lost >= 0
  /\ \A p \in Procs : GreetingOf(proc[p])
  /\ used + shifted = sent + Cardinality(Holding) + lost
  /\ used <= DailyLimit

-----------------------------------------------------------------------------
(* The follows *)

FollowInv ==
  \A u, v \in Users : <<u, v>> \in follows /\ Related(u, v) => <<u, v>> \in overtaken

-----------------------------------------------------------------------------
(* The lists *)

Slow(r) == IF r.late THEN 1 ELSE 0

ListOK(k) ==
  cache[k] # None =>
    /\ cache[k] = [value |-> cache[k].value, age |-> cache[k].age]
    /\ cache[k].age \in Nat /\ cache[k].age < TTL(k)
    /\ cache[k].value # Source(k) => /\ Deleting(k) \/ k \in excused
                                     /\ calm[k] <= cache[k].age + 1

LoadedOK(p) ==
  proc[p] # Idle /\ proc[p].step = "loaded" /\ proc[p].got # Source(Key(p)) =>
    Key(p) \in excused /\ calm[Key(p)] <= Slow(proc[p])

AnswerOK(p) ==
  Answers(p) /\ proc[p].got # Source(proc[p].by) => calm[proc[p].by] <= ListTTL + Slow(proc[p])

ListInv ==
  /\ ProcsOK
  /\ calm \in [Keys -> Nat] /\ cache = [k \in Keys |-> cache[k]]
  /\ blocks \subseteq Users \X Users /\ \A u \in Users : <<u, u>> \notin blocks
  /\ \A k \in Keys : ListOK(k)
  /\ \A p \in Procs : LoadedOK(p) /\ AnswerOK(p)

-----------------------------------------------------------------------------
(* The moments *)

\* What an administrator has before them shows all the media of the moment, or was loaded too early.
ShowsAll(m, xs) == m \in Ids /\ moments[m].status # "none" /\ (m \in hasty \/ Bound(m) \subseteq xs)

Binds(p)   == At(p, "publish", "bind")
Reviews(p) == At(p, "review", "write")

ReviewOK(p) ==
  Reviews(p) => /\ ShowsAll(proc[p].what.moment, proc[p].what.media)
                /\ proc[p].what.verdict \in {"approved", "rejected"}

\* The request p, and no other, binds media to m, and whoever has m before them came too early.
BindsTo(p, m) ==
  /\ proc[p].got = {m} /\ moments[m].status # "none"
  /\ \A q \in Procs \ {p} : Binds(q) => proc[q].got # {m}
  /\ page # None /\ page.moment = m => m \in hasty
  /\ \A q \in Procs : Reviews(q) /\ proc[q].what.moment = m => m \in hasty
  /\ moments[m].status = "approved" => m \in hasty

BindOK(p) == Binds(p) => \E m \in Ids : BindsTo(p, m)

IsMoment(r) == r = [status |-> r.status, owner |-> r.owner, override |-> r.override]

MomentInv ==
  /\ ProcsOK
  /\ moments = [m \in Ids |-> moments[m]] /\ seen = [m \in Ids |-> seen[m]]
  /\ \A m \in Ids : /\ IsMoment(moments[m])
                    /\ moments[m].status = "approved" => m \in hasty \/ Bound(m) \subseteq seen[m]
  /\ page # None => ShowsAll(page.moment, page.media)
  /\ \A p \in Procs : ReviewOK(p) /\ BindOK(p)

-----------------------------------------------------------------------------
(* Requests stay requests *)

\* The two kinds of requests are no idle ones.
LEMMA RequestsAreNotIdle ==
  ASSUME NEW r, IsProc(r)
  PROVE  /\ r # Idle <=> (IsRequest(r) /\ r.late \in BOOLEAN /\ (Reader(r) \/ Writer(r)))
         /\ r = Idle => r.op = "idle"
         /\ r # Idle => r.op # "idle"
<1>1. Idle.op = "idle"
  BY DEF Idle
<1>2. Reader(r) \/ Writer(r) => r.op # "idle"
  BY DEF Reader, Writer, Categories, Feeds
<1>3. QED
  BY <1>1, <1>2 DEF IsProc

\* A request that begins is one.
LEMMA RequestFields ==
  ASSUME NEW op, NEW u, NEW what, NEW step, NEW keys
  PROVE  LET r == Request(op, u, what, step, keys)
         IN  /\ IsRequest(r) /\ r.late \in BOOLEAN /\ r.late = FALSE
             /\ r.op = op /\ r.by = u /\ r.what = what /\ r.step = step /\ r.keys = keys /\ r.got = {}
  BY DEF Request, IsRequest

\* The request n is r with a list got, something to be about, lists to read and a step.
HasGot(n, r, g, w, k, s) ==
  /\ IsRequest(n) /\ n.op = r.op /\ n.by = r.by /\ n.what = w /\ n.step = s
  /\ n.keys = k /\ n.got = g /\ n.late = r.late

\* A request that moves on is one.
LEMMA StepChanges ==
  ASSUME NEW r, IsRequest(r), NEW s, NEW g
  PROVE  /\ HasGot([r EXCEPT !.step = s, !.got = g], r, g, r.what, r.keys, s)
         /\ HasGot([r EXCEPT !.step = s], r, r.got, r.what, r.keys, s)
<1> DEFINE m == [r EXCEPT !.step = s]
           n == [m EXCEPT !.got = g]
           Around(o) == [op : {r.op}, by : {r.by}, what : {r.what}, step : {o}, keys : {r.keys},
                         got : {r.got}, late : {r.late}]
<1>1. m = [op |-> r.op, by |-> r.by, what |-> r.what, step |-> s, keys |-> r.keys, got |-> r.got,
           late |-> r.late]
  <2>1. r \in Around(r.step)
    BY DEF IsRequest
  <2>2. QED
    BY <2>1
<1>2. [r EXCEPT !.step = s, !.got = g] = n
  OBVIOUS
<1> HIDE DEF m
<1>3. /\ IsRequest(m) /\ m.op = r.op /\ m.by = r.by /\ m.what = r.what /\ m.step = s
      /\ m.keys = r.keys /\ m.got = r.got /\ m.late = r.late
  BY <1>1 DEF IsRequest
<1>4. n = [op |-> m.op, by |-> m.by, what |-> m.what, step |-> m.step, keys |-> m.keys, got |-> g,
           late |-> m.late]
  <2>1. m \in Around(s)
    BY <1>1
  <2>2. QED
    BY <2>1
<1> HIDE DEF n
<1>5. /\ IsRequest(n) /\ n.op = m.op /\ n.by = m.by /\ n.what = m.what /\ n.step = m.step
      /\ n.keys = m.keys /\ n.got = g /\ n.late = m.late
  BY <1>4 DEF IsRequest
<1>6. n = [r EXCEPT !.step = s, !.got = g] /\ m = [r EXCEPT !.step = s]
  BY <1>2 DEF m, n
<1>7. HasGot(n, r, g, r.what, r.keys, s) /\ HasGot(m, r, r.got, r.what, r.keys, s)
  BY <1>3, <1>5 DEF HasGot
<1>8. QED
  BY <1>6, <1>7

\* One request changes, and the others do not.
LEMMA OneChanges ==
  ASSUME ProcsOK, NEW p \in Procs, NEW s, proc' = [proc EXCEPT ![p] = s], IsProc(s)
  PROVE  /\ ProcsOK' /\ proc'[p] = s
         /\ \A q \in Procs \ {p} : proc'[q] = proc[q]
<1>1. proc' = [q \in Procs |-> IF q = p THEN s ELSE proc[q]]
  BY DEF ProcsOK
<1>2. \A q \in Procs : IsProc(proc'[q])
  BY <1>1 DEF ProcsOK
<1>3. proc' = [q \in Procs |-> proc'[q]]
  BY <1>1
<1>4. ProcsOK'
  BY <1>2, <1>3 DEF ProcsOK, IsProc, IsRequest, Reader, Writer
<1>5. QED
  BY <1>1, <1>4

\* What a change of one field makes of a request.
LEMMA OneField ==
  ASSUME NEW r, IsRequest(r), NEW v
  PROVE  /\ [r EXCEPT !.step = v] = [op |-> r.op, by |-> r.by, what |-> r.what, step |-> v, keys |-> r.keys, got |-> r.got, late |-> r.late]
         /\ [r EXCEPT !.got = v] = [op |-> r.op, by |-> r.by, what |-> r.what, step |-> r.step, keys |-> r.keys, got |-> v, late |-> r.late]
         /\ [r EXCEPT !.what = v] = [op |-> r.op, by |-> r.by, what |-> v, step |-> r.step, keys |-> r.keys, got |-> r.got, late |-> r.late]
         /\ [r EXCEPT !.keys = v] = [op |-> r.op, by |-> r.by, what |-> r.what, step |-> r.step, keys |-> v, got |-> r.got, late |-> r.late]
         /\ [r EXCEPT !.late = v] = [op |-> r.op, by |-> r.by, what |-> r.what, step |-> r.step, keys |-> r.keys, got |-> r.got, late |-> v]
<1>1. r \in [op : {r.op}, by : {r.by}, what : {r.what}, step : {r.step}, keys : {r.keys}, got : {r.got}, late : {r.late}]
  BY DEF IsRequest
<1>2. QED
  BY <1>1

\* A request whose list is known.
LEMMA GetsFields ==
  ASSUME NEW r, IsRequest(r), NEW g, NEW w, NEW k, NEW s
  PROVE  HasGot([r EXCEPT !.got = g, !.what = w, !.keys = k, !.step = s], r, g, w, k, s)
<1> DEFINE a == [r EXCEPT !.got = g]
           b == [a EXCEPT !.what = w]
           c == [b EXCEPT !.keys = k]
           n == [c EXCEPT !.step = s]
<1>1. [r EXCEPT !.got = g, !.what = w, !.keys = k, !.step = s] = n
  OBVIOUS
<1>2. a = [op |-> r.op, by |-> r.by, what |-> r.what, step |-> r.step, keys |-> r.keys, got |-> g,
           late |-> r.late]
  BY OneField
<1> HIDE DEF a
<1>3. IsRequest(a) /\ a.op = r.op /\ a.by = r.by /\ a.what = r.what /\ a.step = r.step /\ a.keys = r.keys /\ a.got = g /\ a.late = r.late
  BY <1>2 DEF IsRequest
<1>4. b = [op |-> a.op, by |-> a.by, what |-> w, step |-> a.step, keys |-> a.keys, got |-> a.got,
           late |-> a.late]
  BY <1>3, OneField
<1> HIDE DEF b
<1>5. IsRequest(b) /\ b.op = a.op /\ b.by = a.by /\ b.what = w /\ b.step = a.step /\ b.keys = a.keys /\ b.got = a.got /\ b.late = a.late
  BY <1>4 DEF IsRequest
<1>6. c = [op |-> b.op, by |-> b.by, what |-> b.what, step |-> b.step, keys |-> k, got |-> b.got,
           late |-> b.late]
  BY <1>5, OneField
<1> HIDE DEF c
<1>7. IsRequest(c) /\ c.op = b.op /\ c.by = b.by /\ c.what = b.what /\ c.step = b.step /\ c.keys = k /\ c.got = b.got /\ c.late = b.late
  BY <1>6 DEF IsRequest
<1>8. n = [op |-> c.op, by |-> c.by, what |-> c.what, step |-> s, keys |-> c.keys, got |-> c.got,
           late |-> c.late]
  BY <1>7, OneField
<1> HIDE DEF n
<1>9. IsRequest(n) /\ n.op = c.op /\ n.by = c.by /\ n.what = c.what /\ n.step = s /\ n.keys = c.keys /\ n.got = c.got /\ n.late = c.late
  BY <1>8 DEF IsRequest
<1>10. QED
  BY <1>1, <1>3, <1>5, <1>7, <1>9 DEF n, HasGot

\* What requests begin with.
Opens(op, u, step, keys) ==
  \/ op \in {"block", "unblock", "configure"} /\ step = "invalidate"
  \/ op \in {"review", "delete"} /\ step = "write"
  \/ op \in {"follow", "publish"} /\ step = "read" /\ keys = <<"config">>
  \/ op = "greet" /\ step = "read" /\ keys = <<Greeter>>
  \/ op \in Categories /\ u \in Users /\ step = "read" /\ keys \in {<<u>>, <<"recommended", u>>}

\* A request that begins finds its place idle.
LEMMA Begins ==
  ASSUME ProcsOK, NEW p \in Procs, NEW op, NEW u, NEW what, NEW step, NEW keys,
         Starts(p, Request(op, u, what, step, keys)), Opens(op, u, step, keys)
  PROVE  /\ ProcsOK' /\ proc[p] = Idle /\ proc'[p] = Request(op, u, what, step, keys)
         /\ \A q \in Procs \ {p} : proc'[q] = proc[q]
         /\ proc'[p].op = op /\ proc'[p].by = u /\ proc'[p].what = what /\ proc'[p].step = step
         /\ proc'[p].keys = keys /\ proc'[p].got = {} /\ proc'[p].late = FALSE /\ proc'[p] # Idle
<1> DEFINE r == Request(op, u, what, step, keys)
<1>1. /\ IsRequest(r) /\ r.late \in BOOLEAN /\ r.late = FALSE
      /\ r.op = op /\ r.by = u /\ r.what = what /\ r.step = step /\ r.keys = keys /\ r.got = {}
  BY RequestFields
<1>2. proc[p] = Idle /\ proc' = [proc EXCEPT ![p] = r]
  BY DEF Starts
<1> HIDE DEF r
<1>3. IsProc(r)
  <2>1. Reader(r) \/ Writer(r)
    BY <1>1 DEF Opens, Reader, Writer, Reading, Categories, Feeds
  <2>2. QED
    BY <1>1, <2>1 DEF IsProc
<1>4. r # Idle
  <2>1. op # "idle"
    BY DEF Opens, Categories, Feeds
  <2>2. QED
    BY <1>1, <2>1 DEF Idle
<1>5. /\ ProcsOK' /\ proc'[p] = r
      /\ \A q \in Procs \ {p} : proc'[q] = proc[q]
  BY <1>2, <1>3, OneChanges
<1>6. QED
  BY <1>1, <1>2, <1>4, <1>5 DEF r

\* A request that ends leaves its place idle.
LEMMA EndsIdle ==
  ASSUME ProcsOK, NEW p \in Procs, proc' = [proc EXCEPT ![p] = Idle]
  PROVE  /\ ProcsOK' /\ proc'[p] = Idle /\ proc'[p].op = "idle"
         /\ \A q \in Procs \ {p} : proc'[q] = proc[q]
<1>1. IsProc(Idle) /\ Idle.op = "idle"
  BY DEF IsProc, Idle
<1>2. QED
  BY <1>1, OneChanges

\* A request that has read its lists goes on to a later step.
LEMMA GoesOn ==
  ASSUME ProcsOK, NEW p \in Procs, NEW s \in {"go", "create", "bind", "release"}, NEW g,
         IsRequest(proc[p]), Reader(proc[p]), proc[p].op \notin Categories,
         \/ proc' = [proc EXCEPT ![p].step = s, ![p].got = g]
         \/ proc' = [proc EXCEPT ![p].step = s] /\ g = proc[p].got
  PROVE  /\ ProcsOK' /\ proc'[p] # Idle
         /\ \A q \in Procs \ {p} : proc'[q] = proc[q]
         /\ proc'[p].op = proc[p].op /\ proc'[p].by = proc[p].by /\ proc'[p].what = proc[p].what
         /\ proc'[p].step = s /\ proc'[p].got = g
<1> DEFINE r == proc[p]
           n == [r EXCEPT !.step = s, !.got = g]
           m == [r EXCEPT !.step = s]
<1>1. /\ IsRequest(n) /\ n.op = r.op /\ n.by = r.by /\ n.what = r.what /\ n.step = s
      /\ n.keys = r.keys /\ n.got = g /\ n.late = r.late
      /\ IsRequest(m) /\ m.op = r.op /\ m.by = r.by /\ m.what = r.what /\ m.step = s
      /\ m.keys = r.keys /\ m.got = r.got /\ m.late = r.late
  <2>1. HasGot(n, r, g, r.what, r.keys, s) /\ HasGot(m, r, r.got, r.what, r.keys, s)
    BY StepChanges
  <2> HIDE DEF n, m
  <2>2. QED
    BY <2>1 DEF HasGot
<1>2. proc' = [proc EXCEPT ![p] = n] \/ (proc' = [proc EXCEPT ![p] = m] /\ g = r.got)
  BY DEF ProcsOK
<1>3. r.late \in BOOLEAN /\ Reader(r)
  BY RequestsAreNotIdle DEF ProcsOK, IsProc, Idle, Reader, Categories, Feeds
<1> HIDE DEF n, m, r
<1>4. IsProc(n) /\ IsProc(m) /\ n # Idle /\ m # Idle
  <2>1. Reader(n) /\ Reader(m)
    BY <1>1, <1>3 DEF Reader, Reading, r
  <2>2. IsProc(n) /\ IsProc(m)
    BY <2>1, <1>1, <1>3 DEF IsProc
  <2>3. n.op # "idle" /\ m.op # "idle"
    BY <1>1, <2>1 DEF Reader, Categories, Feeds
  <2>4. QED
    BY <2>2, <2>3 DEF Idle
<1>5. CASE proc' = [proc EXCEPT ![p] = n]
  <2>1. ProcsOK' /\ proc'[p] = n /\ \A q \in Procs \ {p} : proc'[q] = proc[q]
    BY <1>4, <1>5, OneChanges
  <2>2. QED
    BY <2>1, <1>1, <1>4 DEF r
<1>6. CASE proc' = [proc EXCEPT ![p] = m] /\ g = r.got
  <2>1. ProcsOK' /\ proc'[p] = m /\ \A q \in Procs \ {p} : proc'[q] = proc[q]
    BY <1>4, <1>6, OneChanges
  <2>2. QED
    BY <2>1, <1>1, <1>4, <1>6 DEF r
<1>7. QED
  BY <1>2, <1>5, <1>6

\* The list a request is about to read or set, and what is left to read after it.
LEMMA ReadersKey ==
  ASSUME ProcsOK, NEW p \in Procs, proc[p] # Idle, proc[p].step \in Reading
  PROVE  /\ IsRequest(proc[p]) /\ proc[p].late \in BOOLEAN /\ Reader(proc[p])
         /\ \/ /\ Key(p) = "recommended" /\ proc[p].op \in Categories
               /\ Tail(proc[p].keys) = <<proc[p].by>> /\ Tail(proc[p].keys) # <<>>
            \/ /\ Key(p) \in Users \cup {"config"} /\ Key(p) # "recommended" /\ Tail(proc[p].keys) = <<>>
               /\ proc[p].op \in Categories => Key(p) = proc[p].by
         /\ Key(p) \in Keys
<1> DEFINE r == proc[p]
<1>1. IsRequest(r) /\ r.late \in BOOLEAN /\ Reader(r)
  BY DEF ProcsOK, IsProc, Writer, Reading
<1>2. \/ r.op \in Categories /\ r.by \in Users /\ r.keys = <<r.by>>
      \/ r.op \in Categories /\ r.by \in Users /\ r.keys = <<"recommended", r.by>>
      \/ r.op \in {"follow", "publish"} /\ r.keys = <<"config">>
      \/ r.op = "greet" /\ r.keys = <<Greeter>>
  BY <1>1 DEF Reader
<1>3. \A x, y : /\ Head(<<x>>) = x /\ Tail(<<x>>) = <<>>
                /\ Head(<<x, y>>) = x /\ Tail(<<x, y>>) = <<y>> /\ <<y>> # <<>>
  OBVIOUS
<1>4. {"follow", "publish", "greet"} \cap Categories = {}
  BY DEF Categories, Feeds
<1> HIDE DEF r
<1>5. CASE r.op \in Categories /\ r.by \in Users /\ r.keys = <<r.by>>
  <2>1. Head(r.keys) = r.by /\ Tail(r.keys) = <<>>
    BY <1>3, <1>5
  <2>2. QED
    BY <1>1, <1>5, <2>1, UsersAreNoNames DEF Key, Keys, r
<1>6. CASE r.op \in Categories /\ r.by \in Users /\ r.keys = <<"recommended", r.by>>
  <2>1. Head(r.keys) = "recommended" /\ Tail(r.keys) = <<r.by>> /\ Tail(r.keys) # <<>>
    BY <1>3, <1>6
  <2>2. QED
    BY <1>1, <1>6, <2>1 DEF Key, Keys, r
<1>7. CASE r.op \in {"follow", "publish"} /\ r.keys = <<"config">>
  <2>1. Head(r.keys) = "config" /\ Tail(r.keys) = <<>>
    BY <1>3, <1>7
  <2>2. QED
    BY <1>1, <1>4, <1>7, <2>1 DEF Key, Keys, r
<1>8. CASE r.op = "greet" /\ r.keys = <<Greeter>>
  <2>1. Head(r.keys) = Greeter /\ Tail(r.keys) = <<>>
    BY <1>3, <1>8
  <2>2. QED
    BY <1>1, <1>4, <1>8, <2>1, UsersAreNoNames, GreeterIsUser DEF Key, Keys, r
<1>9. QED
  BY <1>2, <1>5, <1>6, <1>7, <1>8

\* A request that knows a list reads the next one, or goes on.
LEMMA GetsOn ==
  ASSUME ProcsOK, NEW p \in Procs, proc[p] # Idle, proc[p].step \in Reading, NEW value, Gets(p, value)
  PROVE  /\ ProcsOK' /\ proc'[p] # Idle
         /\ \A q \in Procs \ {p} : proc'[q] = proc[q]
         /\ proc'[p].op = proc[p].op /\ proc'[p].by = proc[p].by /\ proc'[p].late = proc[p].late
         /\ \/ /\ Key(p) = "recommended" /\ proc[p].op \in Categories /\ proc'[p].step = "read"
            \/ /\ Key(p) # "recommended" /\ proc'[p].step = "go" /\ proc'[p].got = value
               /\ proc'[p].what = proc[p].what
               /\ proc[p].op \in Categories => Key(p) = proc[p].by
<1> DEFINE r == proc[p]
           g == IF Key(p) = "recommended" THEN r.got ELSE value
           w == IF Key(p) = "recommended" THEN value ELSE r.what
           k == Tail(r.keys)
           t == IF Tail(r.keys) = <<>> THEN "go" ELSE "read"
           n == [r EXCEPT !.got = g, !.what = w, !.keys = k, !.step = t]
<1>1. /\ IsRequest(r) /\ r.late \in BOOLEAN /\ Reader(r)
      /\ \/ /\ Key(p) = "recommended" /\ r.op \in Categories /\ k = <<r.by>> /\ k # <<>>
         \/ /\ Key(p) # "recommended" /\ k = <<>>
            /\ r.op \in Categories => Key(p) = r.by
  BY ReadersKey
<1>2. HasGot(n, r, g, w, k, t)
  <2>1. IsRequest(r)
    BY <1>1
  <2> HIDE DEF r, g, w, k, t
  <2>2. QED
    BY ONLY <2>1, GetsFields
<1>3. proc' = [proc EXCEPT ![p] = n]
  BY DEF Gets, ProcsOK
<1>4. t \in {"go", "read"} /\ (t = "read" => r.op \in Categories /\ k = <<r.by>>)
  BY <1>1
<1> HIDE DEF n
<1>5. Reader(n)
  <2>1. /\ r.op \in Categories \cup {"follow", "publish", "greet"}
        /\ r.op \in Categories => r.by \in Users
    BY <1>1 DEF Reader
  <2> HIDE DEF r, t, k, g, w
  <2>2. QED
    BY <1>2, <1>4, <2>1 DEF Reader, Reading, HasGot
<1>6. IsProc(n) /\ n # Idle
  <2>1. IsProc(n)
    BY <1>1, <1>2, <1>5 DEF IsProc, HasGot
  <2>2. n.op # "idle"
    BY <1>5 DEF Reader, Categories, Feeds
  <2>3. QED
    BY <2>1, <2>2 DEF Idle
<1>7. ProcsOK' /\ proc'[p] = n /\ \A q \in Procs \ {p} : proc'[q] = proc[q]
  BY <1>3, <1>6, OneChanges
<1>8. QED
  BY <1>1, <1>2, <1>6, <1>7 DEF HasGot

\* A tick only makes requests late.
LEMMA TickMakesLate ==
  ASSUME ProcsOK, TimePasses
  PROVE  /\ ProcsOK'
         /\ \A q \in Procs :
              \/ proc[q] = Idle /\ proc'[q] = Idle
              \/ /\ proc[q] # Idle /\ proc'[q] # Idle /\ proc'[q].op = proc[q].op /\ proc'[q].by = proc[q].by
                 /\ proc'[q].what = proc[q].what /\ proc'[q].step = proc[q].step
                 /\ proc'[q].keys = proc[q].keys /\ proc'[q].got = proc[q].got
                 /\ proc[q].late = FALSE /\ proc'[q].late = TRUE
<1>1. /\ proc' = [p \in Procs |-> IF proc[p] = Idle THEN Idle ELSE [proc[p] EXCEPT !.late = TRUE]]
      /\ \A p \in Procs : proc[p] # Idle => ~proc[p].late
  BY DEF TimePasses
<1>2. ASSUME NEW q \in Procs, proc[q] # Idle
      PROVE  /\ proc'[q] # Idle /\ proc'[q].op = proc[q].op /\ proc'[q].by = proc[q].by
             /\ proc'[q].what = proc[q].what /\ proc'[q].step = proc[q].step
             /\ proc'[q].keys = proc[q].keys /\ proc'[q].got = proc[q].got
             /\ proc[q].late = FALSE /\ proc'[q].late = TRUE /\ IsProc(proc'[q])
  <2> DEFINE r == proc[q]
             n == [r EXCEPT !.late = TRUE]
  <2>1. IsRequest(r) /\ r.late \in BOOLEAN /\ (Reader(r) \/ Writer(r))
    BY <1>2 DEF ProcsOK, IsProc
  <2>2. r.late = FALSE
    BY <1>1, <1>2, <2>1
  <2>3. n = [op |-> r.op, by |-> r.by, what |-> r.what, step |-> r.step, keys |-> r.keys, got |-> r.got,
             late |-> TRUE]
    BY <2>1, OneField
  <2>4. proc'[q] = n
    BY <1>1, <1>2
  <2> HIDE DEF n, r
  <2>5. /\ IsRequest(n) /\ n.op = r.op /\ n.by = r.by /\ n.what = r.what /\ n.step = r.step
        /\ n.keys = r.keys /\ n.got = r.got /\ n.late = TRUE
    BY <2>3 DEF IsRequest
  <2>6. Reader(n) \/ Writer(n)
    BY <2>1, <2>5 DEF Reader, Writer
  <2>7. IsProc(n)
    BY <2>5, <2>6 DEF IsProc
  <2>8. n.op # "idle"
    BY <2>6 DEF Reader, Writer, Categories, Feeds
  <2>9. n # Idle
    BY <2>8 DEF Idle
  <2>10. QED
    BY <2>2, <2>4, <2>5, <2>7, <2>9 DEF r
<1>3. \A q \in Procs : proc[q] = Idle => proc'[q] = Idle
  BY <1>1
<1>4. IsProc(Idle)
  BY DEF IsProc
<1>5. \A q \in Procs : IsProc(proc'[q])
  BY <1>2, <1>3, <1>4
<1>6. proc' = [q \in Procs |-> proc'[q]]
  BY <1>1
<1>7. ProcsOK'
  BY <1>5, <1>6 DEF ProcsOK, IsProc, IsRequest, Reader, Writer
<1>8. QED
  BY <1>2, <1>3, <1>7

\* What a step may do to the requests but the greetings of Greeting.
GreetsStay ==
  \A q \in Procs :
    \/ proc'[q] = proc[q]
    \/ proc'[q] = Idle
    \/ proc[q].op # "greet" /\ proc'[q].op # "greet"
    \/ /\ proc[q].op = "greet" /\ proc'[q].op = "greet" /\ proc'[q].what = proc[q].what
       /\ proc'[q].step = "release" => proc[q].step = "release" /\ proc'[q].got = proc[q].got

\* A request that begins, other than a greeting, leaves the greetings alone.
LEMMA BeginsStay ==
  ASSUME ProcsOK, NEW p \in Procs, NEW op, NEW u, NEW what, NEW step, NEW keys,
         Starts(p, Request(op, u, what, step, keys)), Opens(op, u, step, keys), op # "greet"
  PROVE  ProcsOK' /\ GreetsStay
<1>1. /\ ProcsOK' /\ proc[p] = Idle /\ proc'[p].op = op
      /\ \A q \in Procs \ {p} : proc'[q] = proc[q]
  BY Begins
<1>2. Idle.op # "greet"
  BY DEF Idle
<1>3. QED
  BY <1>1, <1>2 DEF GreetsStay

\* What goes on with the requests, and which begin: they stay requests.
LEMMA ContinuesStay ==
  ASSUME ProcsOK, NEW p \in Procs, Continues(p)
  PROVE  ProcsOK' /\ GreetsStay
<1>1. ASSUME proc' = [proc EXCEPT ![p] = Idle]
      PROVE  ProcsOK' /\ GreetsStay
  BY <1>1, EndsIdle DEF GreetsStay
<1>2. ASSUME proc[p] # Idle, proc[p].step \in Reading, NEW value, Gets(p, value)
      PROVE  ProcsOK' /\ GreetsStay
  <2>1. /\ ProcsOK' /\ \A q \in Procs \ {p} : proc'[q] = proc[q]
        /\ proc'[p].op = proc[p].op /\ proc'[p].step # "release"
        /\ \/ proc[p].op \in Categories
           \/ proc'[p].what = proc[p].what
    BY <1>2, GetsOn
  <2>2. "greet" \notin Categories
    BY DEF Categories, Feeds
  <2>3. QED
    BY <2>1, <2>2 DEF GreetsStay
<1>3. CASE Hits(p)
  BY <1>2, <1>3 DEF Hits, Reads, Reading
<1>4. CASE Loads(p)
  <2> DEFINE n == [proc[p] EXCEPT !.step = "loaded", !.got = Source(Key(p))]
  <2>1. /\ proc' = [proc EXCEPT ![p].step = "loaded", ![p].got = Source(Key(p))]
        /\ proc[p] # Idle /\ proc[p].step \in Reading /\ proc[p].step = "read"
    BY <1>4 DEF Loads, Reads, Reading
  <2>2. IsRequest(proc[p]) /\ proc[p].late \in BOOLEAN /\ Reader(proc[p])
    BY <2>1, ReadersKey
  <2>3. HasGot(n, proc[p], Source(Key(p)), proc[p].what, proc[p].keys, "loaded")
    BY <2>2, StepChanges
  <2>4. proc' = [proc EXCEPT ![p] = n]
    BY <2>1 DEF ProcsOK
  <2> HIDE DEF n
  <2>5. IsProc(n)
    <3>1. Reader(n)
      BY <2>1, <2>2, <2>3 DEF Reader, Reading, HasGot
    <3>2. QED
      BY <2>2, <2>3, <3>1 DEF IsProc, HasGot
  <2>6. ProcsOK' /\ proc'[p] = n /\ \A q \in Procs \ {p} : proc'[q] = proc[q]
    BY <2>4, <2>5, OneChanges
  <2>7. QED
    BY <2>3, <2>6 DEF GreetsStay, HasGot
<1>5. CASE Sets(p)
  BY <1>2, <1>5 DEF Sets, Reading
<1>6. CASE LoadsAround(p)
  BY <1>2, <1>6 DEF LoadsAround, Reads, Reading
<1>7. CASE Invalidates(p) \/ Dies(p) \/ FollowWrites(p) \/ FeedAnswers(p)
  BY <1>1, <1>7 DEF Invalidates, Dies, FollowWrites, FeedAnswers, Ends
<1>8. CASE PublishBinds(p) \/ ReviewWrites(p) \/ DeleteWrites(p)
  BY <1>1, <1>8 DEF PublishBinds, ReviewWrites, DeleteWrites, Ends
<1>9. ASSUME At(p, "publish", "go") \/ At(p, "publish", "create"), NEW s \in {"create", "bind"}, NEW g,
             \/ proc' = [proc EXCEPT ![p].step = s, ![p].got = g]
             \/ proc' = [proc EXCEPT ![p].step = s] /\ g = proc[p].got
      PROVE  ProcsOK' /\ GreetsStay
  <2>1. proc[p].op = "publish" /\ proc[p].op \notin Categories
    BY <1>9 DEF At, Categories, Feeds
  <2>2. IsRequest(proc[p]) /\ Reader(proc[p])
    BY <2>1 DEF ProcsOK, IsProc, Idle, Writer
  <2>3. /\ ProcsOK' /\ \A q \in Procs \ {p} : proc'[q] = proc[q]
        /\ proc'[p].op = proc[p].op
    BY <1>9, <2>1, <2>2, GoesOn
  <2>4. QED
    BY <2>1, <2>3 DEF GreetsStay
<1>10. CASE PublishChecks(p)
  <2>1. CASE Ends(p)
    BY <1>1, <2>1 DEF Ends
  <2>2. CASE GoesTo(p, "create")
    BY <1>9, <1>10, <2>2 DEF GoesTo, PublishChecks
  <2>3. QED
    BY <1>10, <2>1, <2>2 DEF PublishChecks
<1>11. CASE PublishCreates(p)
  <2>1. PICK m \in Moments : /\ At(p, "publish", "create")
                             /\ proc' = [proc EXCEPT ![p].step = "bind", ![p].got = {m}]
    BY <1>11 DEF PublishCreates
  <2>2. QED
    BY <1>9, <2>1
<1>12. QED
  BY <1>3, <1>4, <1>5, <1>6, <1>7, <1>8, <1>10, <1>11 DEF Continues

\* Requests stay requests in every step of Social that is not a tick, and greetings are left alone.
LEMMA MovesStay ==
  ASSUME ProcsOK, RequestMoves
  PROVE  ProcsOK' /\ GreetsStay
<1>1. PICK p \in Procs : Continues(p) \/ FeedBegins(p) \/ RelationBegins(p) \/ ListBegins(p) \/ MomentBegins(p)
  BY DEF RequestMoves
<1>2. ASSUME proc' = proc
      PROVE  ProcsOK' /\ GreetsStay
  BY <1>2 DEF GreetsStay, ProcsOK, IsProc, IsRequest, Reader, Writer
<1>3. ASSUME NEW u, NEW v, Follow(p, u, v)
      PROVE  ProcsOK' /\ GreetsStay
  <2>1. Starts(p, Request("follow", u, v, "read", <<"config">>))
    BY <1>3 DEF Follow
  <2>2. Opens("follow", u, "read", <<"config">>) /\ "follow" # "greet"
    BY DEF Opens
  <2>3. QED
    BY <2>1, <2>2, BeginsStay
<1>4. CASE Continues(p)
  BY <1>4, ContinuesStay
<1>5. CASE FeedBegins(p)
  <2>1. PICK u \in Users : \/ \E c \in CategoriesFor : Feed(p, u, c)
                           \/ People(p, u)
                           \/ \E v \in Users \ {u} : UserMoments(p, u, v)
    BY <1>5 DEF FeedBegins
  <2>2. "greet" \notin Categories /\ CategoriesFor \subseteq Categories /\ "people" \in Categories
        /\ "user" \in Categories
    BY DEF Categories, CategoriesFor, Feeds
  <2>3. ASSUME NEW c \in CategoriesFor, Feed(p, u, c)
        PROVE  ProcsOK' /\ GreetsStay
    <3> DEFINE what == IF c = "following" THEN Following(u) ELSE {}
               keys == IF c = "recommend" THEN <<"recommended", u>> ELSE <<u>>
    <3>1. Starts(p, Request(c, u, what, "read", keys)) /\ keys \in {<<u>>, <<"recommended", u>>}
      BY <2>3 DEF Feed
    <3> HIDE DEF what, keys
    <3>2. Opens(c, u, "read", keys) /\ c # "greet"
      BY <2>2, <3>1 DEF Opens
    <3>3. QED
      BY <3>1, <3>2, BeginsStay
  <2>4. CASE People(p, u)
    <3>1. Starts(p, Request("people", u, {}, "read", <<u>>))
      BY <2>4 DEF People
    <3>2. Opens("people", u, "read", <<u>>) /\ "people" # "greet"
      BY <2>2 DEF Opens
    <3>3. QED
      BY <3>1, <3>2, BeginsStay
  <2>5. ASSUME NEW v, UserMoments(p, u, v)
        PROVE  ProcsOK' /\ GreetsStay
    <3>1. Starts(p, Request("user", u, {v}, "read", <<u>>))
      BY <2>5 DEF UserMoments
    <3>2. Opens("user", u, "read", <<u>>) /\ "user" # "greet"
      BY <2>2 DEF Opens
    <3>3. QED
      BY <3>1, <3>2, BeginsStay
  <2>6. QED
    BY <2>1, <2>3, <2>4, <2>5
<1>6. CASE RelationBegins(p)
  <2>1. PICK u \in Users, v \in Users : Block(p, u, v) \/ Unblock(p, u, v) \/ Follow(p, u, v) \/ Unfollow(u, v)
    BY <1>6 DEF RelationBegins
  <2>2. CASE Block(p, u, v)
    <3>1. Starts(p, Request("block", u, {u, v}, "invalidate", <<>>))
      BY <2>2 DEF Block
    <3>2. Opens("block", u, "invalidate", <<>>) /\ "block" # "greet"
      BY DEF Opens
    <3>3. QED
      BY <3>1, <3>2, BeginsStay
  <2>3. CASE Unblock(p, u, v)
    <3>1. Starts(p, Request("unblock", u, {u, v}, "invalidate", <<>>))
      BY <2>3 DEF Unblock
    <3>2. Opens("unblock", u, "invalidate", <<>>) /\ "unblock" # "greet"
      BY DEF Opens
    <3>3. QED
      BY <3>1, <3>2, BeginsStay
  <2>4. CASE Unfollow(u, v)
    BY <1>2, <2>4 DEF Unfollow
  <2>5. QED
    BY <1>3, <2>1, <2>2, <2>3, <2>4
<1>7. CASE ListBegins(p)
  <2>1. CASE \E users \in SUBSET Users : Recommend(users)
    BY <1>2, <2>1 DEF Recommend
  <2>2. CASE \E rules \in {{}, Rules} : CreateOrDeleteConfig(rules)
    BY <1>2, <2>2 DEF CreateOrDeleteConfig
  <2>3. CASE \E rules \in {{}, Rules} : Configure(p, rules)
    <3>1. Starts(p, Request("configure", None, {"config"}, "invalidate", <<>>))
      BY <2>3 DEF Configure
    <3>2. Opens("configure", None, "invalidate", <<>>) /\ "configure" # "greet"
      BY DEF Opens
    <3>3. QED
      BY <3>1, <3>2, BeginsStay
  <2>4. QED
    BY <1>3, <1>7, <2>1, <2>2, <2>3 DEF ListBegins
<1>8. CASE MomentBegins(p)
  <2>1. ASSUME NEW u, NEW xs, Publish(p, u, xs)
        PROVE  ProcsOK' /\ GreetsStay
    <3>1. Starts(p, Request("publish", u, xs, "read", <<"config">>))
      BY <2>1 DEF Publish
    <3>2. Opens("publish", u, "read", <<"config">>) /\ "publish" # "greet"
      BY DEF Opens
    <3>3. QED
      BY <3>1, <3>2, BeginsStay
  <2>2. ASSUME NEW verdict, Review(p, verdict)
        PROVE  ProcsOK' /\ GreetsStay
    <3>1. Starts(p, Request("review", None, [moment |-> page.moment, media |-> page.media, verdict |-> verdict],
                            "write", <<>>))
      BY <2>2 DEF Review
    <3>2. Opens("review", None, "write", <<>>) /\ "review" # "greet"
      BY DEF Opens
    <3>3. QED
      BY <3>1, <3>2, BeginsStay
  <2>3. ASSUME NEW m, Delete(p, m)
        PROVE  ProcsOK' /\ GreetsStay
    <3>1. Starts(p, Request("delete", None, m, "write", <<>>))
      BY <2>3 DEF Delete
    <3>2. Opens("delete", None, "write", <<>>) /\ "delete" # "greet"
      BY DEF Opens
    <3>3. QED
      BY <3>1, <3>2, BeginsStay
  <2>4. ASSUME NEW m, Looks(m) \/ \E value \in {TRUE, FALSE, None} : Override(m, value)
        PROVE  ProcsOK' /\ GreetsStay
    BY <1>2, <2>4 DEF Looks, Override
  <2>5. QED
    BY <1>8, <2>1, <2>2, <2>3, <2>4 DEF MomentBegins
<1>9. QED
  BY <1>1, <1>4, <1>5, <1>6, <1>7, <1>8

\* Greetings that stay hold what they held, and what ends gives up its own.
LEMMA HoldingMoves ==
  /\ IsFiniteSet(Holding) /\ Cardinality(Holding) \in Nat
  /\ \A p : p \notin Holding => /\ Cardinality(Holding \cup {p}) = Cardinality(Holding) + 1
                                /\ Holding \ {p} = Holding
  /\ \A p \in Holding : Cardinality(Holding \ {p}) = Cardinality(Holding) - 1
<1>1. IsFiniteSet(Holding)
  BY ProcsAreFinite, FS_Subset DEF Holding
<1>2. QED
  BY <1>1, FS_CardinalityType, FS_AddElement, FS_RemoveElement

\* The same requests hold a greeting, of the same day.
HeldStay ==
  \A q \in Procs : /\ proc[q].op = "greet" <=> proc'[q].op = "greet"
                   /\ proc[q].op = "greet" => proc'[q].what = proc[q].what

\* What the counting of greetings needs of a step.
LEMMA CountKept ==
  ASSUME CountInv, ProcsOK', HeldStay, UNCHANGED <<day, used, sent, lost, shifted>>,
         \A q \in Procs : GreetingOf(proc[q])'
  PROVE  CountInv'
<1>1. Holding' = Holding
  BY DEF Holding, Today, CountInv, HeldStay
<1>2. QED
  BY <1>1 DEF CountInv

\* So are the greetings in a step that leaves them alone.
LEMMA CountStays ==
  ASSUME CountInv, ProcsOK', GreetsStay, UNCHANGED <<day, used, sent, lost, shifted>>,
         ~(\E p \in Procs : proc[p].op = "greet" /\ proc'[p] = Idle)
  PROVE  CountInv'
<1>1. Idle.op # "greet"
  BY DEF Idle
<1>2. HeldStay
  BY <1>1 DEF GreetsStay, HeldStay
<1>3. \A q \in Procs : GreetingOf(proc[q])'
  BY <1>1 DEF CountInv, GreetingOf, GreetsStay
<1>4. QED
  BY <1>2, <1>3, CountKept

\* A greeting that ends is counted once more among those that went out, or that were lost.
LEMMA CountEnds ==
  ASSUME CountInv, NEW p \in Procs, proc[p].op = "greet", proc' = [proc EXCEPT ![p] = Idle], day' = day
  PROVE  /\ ProcsOK' /\ \A q \in Procs : GreetingOf(proc[q])'
         /\ Cardinality(Holding)' = IF Today(p) THEN Cardinality(Holding) - 1 ELSE Cardinality(Holding)
         /\ Cardinality(Holding)' \in Nat
<1>1. ProcsOK' /\ proc'[p] = Idle /\ proc'[p].op = "idle" /\ \A q \in Procs \ {p} : proc'[q] = proc[q]
  BY EndsIdle DEF CountInv
<1>2. Holding' = Holding \ {p}
  BY <1>1 DEF Holding, Today
<1>3. p \in Holding <=> Today(p)
  BY DEF Holding
<1>4. \A q \in Procs : GreetingOf(proc[q])'
  BY <1>1 DEF CountInv, GreetingOf
<1>5. Cardinality(Holding \ {p}) = IF Today(p) THEN Cardinality(Holding) - 1 ELSE Cardinality(Holding)
  BY <1>3, HoldingMoves
<1>6. Cardinality(Holding \ {p}) \in Nat
  BY FS_Subset, FS_CardinalityType, HoldingMoves
<1>7. QED
  BY <1>1, <1>2, <1>4, <1>5, <1>6

(***************************************************************************)
(* The greetings of a day are counted, wherever the requests that took     *)
(* them end: flirt_greet takes one before it knows whether it is wanted,   *)
(* and gives it back, under the key it reads, after midnight too.          *)
(***************************************************************************)
THEOREM GreetsCounted == GreetSpec => []CountInv
<1>1. GreetInit => CountInv
  <2> SUFFICES ASSUME GreetInit
               PROVE  CountInv
    OBVIOUS
  <2>1. proc = [p \in Procs |-> Idle] /\ Idle.op = "idle"
    BY DEF GreetInit, Init, Idle
  <2>2. ProcsOK /\ \A p \in Procs : GreetingOf(proc[p])
    BY <2>1 DEF ProcsOK, IsProc, GreetingOf
  <2>3. Holding = {}
    BY <2>1 DEF Holding
  <2>4. QED
    BY <2>2, <2>3, FS_EmptySet, LimitsAreNat DEF GreetInit, CountInv
<1>2. CountInv /\ [GreetNext]_allVars => CountInv'
  <2> SUFFICES ASSUME CountInv, [GreetNext]_allVars
               PROVE  CountInv'
    OBVIOUS
  <2> DEFINE held == Cardinality(Holding)
  <2>1. /\ ProcsOK /\ day \in Nat /\ used \in Int /\ sent \in Int /\ lost \in Int /\ shifted \in Int
        /\ lost >= 0 /\ used + shifted = sent + held + lost /\ used <= DailyLimit /\ held \in Nat
        /\ DailyLimit \in Nat
    BY HoldingMoves, LimitsAreNat DEF CountInv
  <2>2. CASE SocialNext
    <3>1. CASE RequestMoves /\ ~(\E p \in Procs : proc[p].op = "greet" /\ proc'[p] = Idle)
      <4>1. ProcsOK' /\ GreetsStay
        BY <2>1, <3>1, MovesStay
      <4>2. QED
        BY <2>2, <3>1, <4>1, CountStays DEF SocialNext
    <3>2. CASE TimePasses
      <4>1. /\ ProcsOK'
            /\ \A q \in Procs :
                 \/ proc[q] = Idle /\ proc'[q] = Idle
                 \/ /\ proc[q] # Idle /\ proc'[q] # Idle /\ proc'[q].op = proc[q].op
                    /\ proc'[q].what = proc[q].what /\ proc'[q].step = proc[q].step
                    /\ proc'[q].got = proc[q].got
        BY <2>1, <3>2, TickMakesLate
      <4>2. GreetsStay /\ ~(\E p \in Procs : proc[p].op = "greet" /\ proc'[p] = Idle)
        BY <4>1 DEF GreetsStay, Idle
      <4>3. QED
        BY <2>2, <4>1, <4>2, CountStays DEF SocialNext
    <3>3. QED
      BY <2>2, <3>1, <3>2 DEF SocialNext
  <2>3. ASSUME NEW p \in Procs, Greet(p)
        PROVE  CountInv'
    <3>1. /\ Starts(p, Request("greet", Greeter, day, "read", <<Greeter>>))
          /\ used' = used + 1 /\ used < DailyLimit /\ UNCHANGED <<day, sent, lost, shifted>>
      BY <2>3 DEF Greet, Takeable
    <3>2. Opens("greet", Greeter, "read", <<Greeter>>)
      BY DEF Opens
    <3>3. /\ ProcsOK' /\ proc[p] = Idle /\ proc'[p].op = "greet" /\ proc'[p].what = day
          /\ \A q \in Procs \ {p} : proc'[q] = proc[q]
      BY <2>1, <3>1, <3>2, Begins
    <3>4. proc'[p].step = "read"
      BY <2>1, <3>1, <3>2, Begins
    <3>5. p \notin Holding
      BY <3>3 DEF Holding, Idle
    <3>6. Holding' = Holding \cup {p}
      BY <3>1, <3>3 DEF Holding, Today
    <3>7. Cardinality(Holding)' = held + 1
      BY <3>5, <3>6, HoldingMoves
    <3>8. \A q \in Procs : GreetingOf(proc[q])'
      BY <2>1, <3>1, <3>3, <3>4 DEF CountInv, GreetingOf
    <3> HIDE DEF held
    <3>9. QED
      BY <2>1, <3>1, <3>3, <3>7, <3>8 DEF CountInv
  <2>4. ASSUME NEW p \in Procs, Greets(p)
        PROVE  CountInv'
    <3>1. /\ proc[p].op = "greet" /\ proc' = [proc EXCEPT ![p] = Idle]
          /\ sent' = IF Today(p) THEN sent + 1 ELSE sent
          /\ UNCHANGED <<day, used, lost, shifted>>
      BY <2>4 DEF Greets, At
    <3>2. /\ ProcsOK' /\ \A q \in Procs : GreetingOf(proc[q])'
          /\ Cardinality(Holding)' = IF Today(p) THEN held - 1 ELSE held
      BY <3>1, CountEnds
    <3> HIDE DEF held
    <3>3. QED
      BY <2>1, <3>1, <3>2 DEF CountInv
  <2>5. ASSUME NEW p \in Procs, proc[p].op = "greet", proc' = [proc EXCEPT ![p] = Idle],
               lost' = IF Today(p) THEN lost + 1 ELSE lost,
               UNCHANGED <<day, used, sent, shifted>>
        PROVE  CountInv'
    <3>1. /\ ProcsOK' /\ \A q \in Procs : GreetingOf(proc[q])'
          /\ Cardinality(Holding)' = IF Today(p) THEN held - 1 ELSE held
      BY <2>5, CountEnds
    <3> HIDE DEF held
    <3>2. QED
      BY <2>1, <2>5, <3>1 DEF CountInv
  <2>6. ASSUME NEW p \in Procs, GivesBack(p)
        PROVE  CountInv'
    <3>1. proc[p].op = "greet" /\ UNCHANGED <<day, used, sent, shifted>>
      BY <2>6 DEF GivesBack, At
    <3>2. CASE /\ proc' = [proc EXCEPT ![p].step = "release", ![p].got = {day}]
               /\ UNCHANGED <<lost, counts>>
      <4>1. IsRequest(proc[p]) /\ Reader(proc[p]) /\ proc[p].op \notin Categories
        BY <2>1, <3>1 DEF ProcsOK, IsProc, Idle, Writer, Categories, Feeds
      <4>2. /\ ProcsOK' /\ proc'[p] # Idle /\ \A q \in Procs \ {p} : proc'[q] = proc[q]
            /\ proc'[p].op = proc[p].op /\ proc'[p].what = proc[p].what /\ proc'[p].got = {day}
        BY <2>1, <3>2, <4>1, GoesOn
      <4>3. HeldStay
        BY <4>2 DEF HeldStay
      <4>4. \A q \in Procs : GreetingOf(proc[q])'
        BY <2>1, <3>1, <4>2 DEF CountInv, GreetingOf
      <4>5. QED
        BY <3>1, <3>2, <4>2, <4>3, <4>4, CountKept
    <3>3. CASE /\ Ends(p)
               /\ lost' = IF Today(p) THEN lost + 1 ELSE lost
      BY <2>5, <3>1, <3>3 DEF Ends
    <3>4. QED
      BY <2>6, <3>2, <3>3 DEF GivesBack
  <2>7. ASSUME NEW p \in Procs, Release(p)
        PROVE  CountInv'
    <3>1. /\ proc[p].op = "greet" /\ proc' = [proc EXCEPT ![p] = Idle]
          /\ used' = IF SameKey(p) THEN used - 1 ELSE used
          /\ shifted' = IF SameKey(p) /\ ~Today(p) THEN shifted + 1 ELSE shifted
          /\ UNCHANGED <<day, sent, lost>>
      BY <2>7 DEF Release, At, Ends
    <3>2. /\ ProcsOK' /\ \A q \in Procs : GreetingOf(proc[q])'
          /\ Cardinality(Holding)' = IF Today(p) THEN held - 1 ELSE held
      BY <3>1, CountEnds
    <3>3. Today(p) => SameKey(p)
      BY <2>1, <2>7, <3>1 DEF CountInv, GreetingOf, Release, At, Today, SameKey
    <3> HIDE DEF held
    <3>4. QED
      BY <2>1, <3>1, <3>2, <3>3 DEF CountInv
  <2>8. ASSUME NEW p \in Procs, Loses(p)
        PROVE  CountInv'
    <3>1. /\ proc[p].op = "greet" /\ proc' = [proc EXCEPT ![p] = Idle]
          /\ lost' = IF Today(p) THEN lost + 1 ELSE lost
          /\ UNCHANGED <<day, used, sent, shifted>>
      BY <2>8 DEF Loses, Dies
    <3>2. QED
      BY <2>5, <3>1
  <2>9. ASSUME NEW p \in Procs, NEW v \in Users, Block(p, Greeter, v) \/ Unblock(p, Greeter, v),
               UNCHANGED greets
        PROVE  CountInv'
    <3>1. \/ Starts(p, Request("block", Greeter, {Greeter, v}, "invalidate", <<>>))
          \/ Starts(p, Request("unblock", Greeter, {Greeter, v}, "invalidate", <<>>))
      BY <2>9 DEF Block, Unblock
    <3>2. /\ Opens("block", Greeter, "invalidate", <<>>) /\ "block" # "greet"
          /\ Opens("unblock", Greeter, "invalidate", <<>>) /\ "unblock" # "greet"
      BY DEF Opens
    <3>3. ProcsOK' /\ GreetsStay
      BY <2>1, <3>1, <3>2, BeginsStay
    <3>4. proc[p] = Idle /\ proc'[p] # Idle /\ \A q \in Procs \ {p} : proc'[q] = proc[q]
      BY <2>1, <3>1, <3>2, Begins
    <3>5. ~(\E q \in Procs : proc[q].op = "greet" /\ proc'[q] = Idle)
      BY <3>4 DEF Idle
    <3>6. QED
      BY <2>9, <3>3, <3>5, CountStays DEF greets
  <2>10. CASE Midnight
    <3>1. /\ proc' = proc /\ day' = day + 1 /\ used' = 0 /\ sent' = 0 /\ lost' = 0 /\ shifted' = 0
      BY <2>10 DEF Midnight, vars
    <3>2. Holding' = {}
      BY <2>1, <3>1 DEF CountInv, Holding, Today, GreetingOf
    <3>3. \A q \in Procs : GreetingOf(proc[q])'
      BY <2>1, <3>1 DEF CountInv, GreetingOf
    <3>4. ProcsOK'
      BY <2>1, <3>1 DEF ProcsOK, IsProc, IsRequest, Reader, Writer
    <3>5. Cardinality(Holding)' = 0
      BY <3>2, FS_EmptySet
    <3>6. QED
      BY <2>1, <3>1, <3>3, <3>4, <3>5 DEF CountInv
  <2>11. CASE UNCHANGED allVars
    <3>1. ProcsOK' /\ GreetsStay
      BY <2>1, <2>11 DEF allVars, vars, ProcsOK, IsProc, IsRequest, Reader, Writer, GreetsStay
    <3>2. proc' = proc /\ UNCHANGED <<day, used, sent, lost, shifted>>
      BY <2>11 DEF allVars, vars, greets
    <3>3. ~(\E q \in Procs : proc[q].op = "greet" /\ proc'[q] = Idle)
      BY <3>2 DEF Idle
    <3>4. QED
      BY <3>1, <3>2, <3>3, CountStays
  <2>12. QED
    BY <2>2, <2>3, <2>4, <2>6, <2>7, <2>8, <2>9, <2>10, <2>11 DEF GreetNext
<1>3. QED
  BY <1>1, <1>2, PTL DEF GreetSpec

(***************************************************************************)
(* GreetsAreCounted: the counter of the day's key is what was sent, held   *)
(* and lost, less what yesterday's requests gave back to it, for every     *)
(* limit and every number of requests under way (flirt_greet).             *)
(***************************************************************************)
THEOREM GreetingIsCounted == GreetSpec => []GreetsAreCounted
<1>1. CountInv => GreetsAreCounted
  <2> SUFFICES ASSUME CountInv
               PROVE  GreetsAreCounted
    OBVIOUS
  <2>1. Cardinality(Holding) \in Nat
    BY HoldingMoves
  <2> DEFINE held == Cardinality(Holding)
  <2> HIDE DEF held
  <2>2. used + shifted = sent + held + lost /\ held \in Nat
    BY <2>1 DEF CountInv, held
  <2>3. used <= DailyLimit /\ sent <= DailyLimit + shifted
    BY <2>2, LimitsAreNat DEF CountInv
  <2>4. QED
    BY <2>2, <2>3 DEF GreetsAreCounted, held
<1>2. QED
  BY <1>1, GreetsCounted, PTL

-----------------------------------------------------------------------------
(* Follows *)

\* A step that leaves blocks, follows and overtaken follows alone.
LEMMA FollowsRest ==
  ASSUME FollowInv, UNCHANGED <<blocks, follows, overtaken>>
  PROVE  FollowInv'
  BY DEF FollowInv, Related, Blocked

\* A block severs both follows, and an unblock takes no follow's excuse away.
LEMMA FollowsBlocked ==
  ASSUME FollowInv, NEW p, NEW u, NEW v, Block(p, u, v) \/ Unblock(p, u, v)
  PROVE  FollowInv'
<1>1. CASE Block(p, u, v)
  BY <1>1 DEF Block, FollowInv, Related, Blocked, Severed, Pair
<1>2. CASE Unblock(p, u, v)
  BY <1>2 DEF Unblock, FollowInv, Related, Blocked
<1>3. QED
  BY <1>1, <1>2

(***************************************************************************)
(* Every follow between two users with a block passed its check before the *)
(* block (follow_user reads the relation, waits for the configuration and  *)
(* then writes), for all users and however many requests are under way.    *)
(***************************************************************************)
THEOREM FollowsKept == GreetSpec => []FollowInv
<1>1. GreetInit => FollowInv
  BY DEF GreetInit, Init, FollowInv
<1>2. FollowInv /\ [GreetNext]_allVars => FollowInv'
  <2> SUFFICES ASSUME FollowInv, [GreetNext]_allVars
               PROVE  FollowInv'
    OBVIOUS
  <2>1. ASSUME NEW p \in Procs, Continues(p)
        PROVE  FollowInv'
    <3>1. CASE FollowWrites(p)
      <4> DEFINE edge == <<proc[p].by, proc[p].what>>
      <4>1. UNCHANGED blocks
        BY <3>1 DEF FollowWrites
      <4>2. \/ UNCHANGED <<follows, overtaken>>
            \/ /\ follows' = follows \cup {edge}
               /\ overtaken' = IF Related(edge[1], edge[2]) THEN overtaken \cup {edge} ELSE overtaken
        BY <3>1 DEF FollowWrites
      <4>3. CASE /\ follows' = follows \cup {edge}
                 /\ overtaken' = IF Related(edge[1], edge[2]) THEN overtaken \cup {edge} ELSE overtaken
        <5>1. \A x, y \in Users : Related(x, y)' = Related(x, y)
          BY <4>1 DEF Related, Blocked
        <5>2. \A x, y \in Users : <<x, y>> = edge => edge[1] = x /\ edge[2] = y
          OBVIOUS
        <5> HIDE DEF edge
        <5>3. QED
          BY <4>3, <5>1, <5>2 DEF FollowInv
      <4>4. QED
        BY <4>1, <4>2, <4>3, FollowsRest
    <3>2. CASE \/ Hits(p) \/ Loads(p) \/ Sets(p) \/ LoadsAround(p) \/ Invalidates(p) \/ Dies(p)
               \/ FeedAnswers(p)
      BY <3>2, FollowsRest
         DEF Hits, Loads, Sets, LoadsAround, Invalidates, Dies, FeedAnswers, tables, past
    <3>3. CASE \/ PublishChecks(p) \/ PublishCreates(p) \/ PublishBinds(p) \/ ReviewWrites(p)
               \/ DeleteWrites(p)
      BY <3>3, FollowsRest
         DEF PublishChecks, PublishCreates, PublishBinds, ReviewWrites, DeleteWrites, tables, past
    <3>4. QED
      BY <2>1, <3>1, <3>2, <3>3 DEF Continues
  <2>2. ASSUME NEW p \in Procs, FeedBegins(p)
        PROVE  FollowInv'
    BY <2>2, FollowsRest DEF FeedBegins, Feed, People, UserMoments, tables, past
  <2>3. ASSUME NEW p \in Procs, RelationBegins(p)
        PROVE  FollowInv'
    <3>1. PICK u \in Users, v \in Users :
            Block(p, u, v) \/ Unblock(p, u, v) \/ Follow(p, u, v) \/ Unfollow(u, v)
      BY <2>3 DEF RelationBegins
    <3>2. CASE Follow(p, u, v)
      BY <3>2, FollowsRest DEF Follow, tables, past
    <3>3. CASE Unfollow(u, v)
      BY <3>3 DEF Unfollow, FollowInv, Related, Blocked
    <3>4. QED
      BY <3>1, <3>2, <3>3, FollowsBlocked
  <2>4. ASSUME NEW p \in Procs, ListBegins(p)
        PROVE  FollowInv'
    BY <2>4, FollowsRest DEF ListBegins, Recommend, Configure, CreateOrDeleteConfig, Follow, tables, past
  <2>5. ASSUME NEW p \in Procs, MomentBegins(p)
        PROVE  FollowInv'
    BY <2>5, FollowsRest DEF MomentBegins, Publish, Review, Looks, Delete, Override, tables, past
  <2>6. CASE SocialNext
    <3>1. CASE RequestMoves
      BY <2>1, <2>2, <2>3, <2>4, <2>5, <3>1 DEF RequestMoves
    <3>2. CASE TimePasses
      BY <3>2, FollowsRest DEF TimePasses, tables
    <3>3. QED
      BY <2>6, <3>1, <3>2 DEF SocialNext
  <2>7. ASSUME NEW p \in Procs, Greet(p) \/ Greets(p) \/ GivesBack(p) \/ Release(p) \/ Loses(p)
        PROVE  FollowInv'
    BY <2>7, FollowsRest DEF Greet, Greets, GivesBack, Release, Loses, Dies, Still, tables, past
  <2>8. CASE Midnight \/ UNCHANGED allVars
    BY <2>8, FollowsRest DEF Midnight, allVars, vars, tables, past
  <2>9. QED
    BY <2>6, <2>7, <2>8, FollowsBlocked DEF GreetNext
<1>3. QED
  BY <1>1, <1>2, PTL DEF GreetSpec

(***************************************************************************)
(* BlockedDoNotFollow: no profile shows a follow and a block at once, and  *)
(* nobody sees a fan whom they have blocked (get_user_public_profile,      *)
(* list_user_fans), but for the follows that overtook their check.         *)
(***************************************************************************)
THEOREM BlockSeversFollows == GreetSpec => []BlockedDoNotFollow
<1>1. FollowInv => BlockedDoNotFollow
  BY DEF FollowInv, BlockedDoNotFollow, Profile, Following, Fans, Blocked, Related
<1>2. QED
  BY <1>1, FollowsKept, PTL

-----------------------------------------------------------------------------
(* Lists in Redis *)

\* A request shows what its lists left.
Answering(r) == r.op \in Categories /\ r.step = "go"

\* What the database answers is what the tables behind the lists say.
LEMMA SourceSame ==
  ASSUME UNCHANGED <<blocks, recommended, open>>
  PROVE  \A k \in Keys : Source(k)' = Source(k)
  BY DEF Source, Related, Blocked

\* A step away from the lists: no table behind them changes, no list is set or deleted, and
\* a request that would have deleted some excuses them.
ListsRest ==
  /\ ProcsOK' /\ UNCHANGED <<blocks, recommended, open, cache, calm>> /\ excused \subseteq excused'
  /\ \A q \in Procs :
       \/ proc'[q] = proc[q]
       \/ /\ proc[q] = Idle \/ proc[q].step # "invalidate" \/ proc[q].what \subseteq excused'
          /\ proc'[q] = Idle \/ (proc'[q].step # "loaded" /\ ~Answering(proc'[q]))

\* Such a step keeps ListInv.
LEMMA ListsRestKeep ==
  ASSUME ListInv, ListsRest
  PROVE  ListInv'
<1>1. \A k \in Keys : Source(k)' = Source(k)
  BY SourceSame DEF ListsRest
<1>2. \A k \in Keys : Deleting(k) => Deleting(k)' \/ k \in excused'
  BY DEF ListsRest, Deleting, Invalidated
<1>3. ASSUME NEW k \in Keys
      PROVE  ListOK(k)'
  <2>1. ListOK(k) /\ Source(k)' = Source(k) /\ cache' = cache /\ calm' = calm /\ excused \subseteq excused'
    BY <1>1 DEF ListInv, ListsRest
  <2>2. QED
    BY <1>2, <2>1 DEF ListOK
<1>4. ASSUME NEW p \in Procs
      PROVE  LoadedOK(p)' /\ AnswerOK(p)'
  <2>1. LoadedOK(p) /\ AnswerOK(p) /\ calm' = calm /\ excused \subseteq excused'
    BY DEF ListInv, ListsRest
  <2>2. CASE proc'[p] = proc[p]
    <3>1. proc[p] # Idle /\ proc[p].step = "loaded" => Key(p) \in Keys
      BY ReadersKey DEF ListInv, Reading
    <3>2. LoadedOK(p)'
      BY <1>1, <2>1, <2>2, <3>1 DEF LoadedOK, Key
    <3>3. proc[p].op \in Categories => proc[p].by \in Keys
      BY DEF ListInv, ProcsOK, IsProc, Reader, Writer, Idle, Categories, Feeds, Keys
    <3>4. AnswerOK(p)'
      BY <1>1, <2>1, <2>2, <3>3 DEF AnswerOK, Answers, At
    <3>5. QED
      BY <3>2, <3>4
  <2>3. CASE proc'[p] = Idle \/ (proc'[p].step # "loaded" /\ ~Answering(proc'[p]))
    <3>1. Idle.op \notin Categories
      BY DEF Idle, Categories, Feeds
    <3>2. ~Answers(p)'
      BY <2>3, <3>1 DEF Answers, At, Answering
    <3>3. QED
      BY <2>3, <3>2 DEF LoadedOK, AnswerOK
  <2>4. QED
    BY <2>2, <2>3 DEF ListsRest
<1>5. QED
  BY <1>3, <1>4 DEF ListInv, ListsRest

\* The tables behind the lists ks change, and every one of ks is deleted later, or skipped.
TablesChange(ks, skipped) ==
  /\ ProcsOK' /\ Changes(ks, skipped) /\ UNCHANGED cache
  /\ blocks' \subseteq Users \X Users /\ \A u \in Users : <<u, u>> \notin blocks'
  /\ \A k \in Keys \ ks : Source(k)' = Source(k)
  /\ \A q \in Procs : proc'[q] = proc[q] \/ (proc[q] = Idle /\ proc'[q] # Idle /\ proc'[q].step = "invalidate")
  /\ \A k \in ks : k \in skipped \/ Deleting(k)'

\* Such a change keeps ListInv.
LEMMA TablesChangeKeep ==
  ASSUME ListInv, NEW ks \in SUBSET Keys, NEW skipped, TablesChange(ks, skipped)
  PROVE  ListInv'
<1>1. /\ calm' = [k \in Keys |-> IF k \in ks THEN 0 ELSE calm[k]]
      /\ excused' = excused \cup skipped \cup {k \in ks : Loaded(k)}
      /\ cache' = cache /\ ProcsOK'
  BY DEF TablesChange, Changes
<1>2. calm' \in [Keys -> Nat]
  BY <1>1 DEF ListInv
<1>3. \A k \in Keys : Deleting(k) => Deleting(k)'
  BY DEF TablesChange, Deleting
<1>4. ASSUME NEW k \in Keys
      PROVE  ListOK(k)'
  <2>1. ListOK(k) /\ calm'[k] = (IF k \in ks THEN 0 ELSE calm[k])
    BY <1>1 DEF ListInv
  <2>2. k \in ks => k \in excused' \/ Deleting(k)'
    BY <1>1 DEF TablesChange
  <2>3. k \notin ks => Source(k)' = Source(k)
    BY DEF TablesChange
  <2>4. QED
    BY <1>1, <1>3, <2>1, <2>2, <2>3 DEF ListOK
<1>5. ASSUME NEW p \in Procs
      PROVE  LoadedOK(p)' /\ AnswerOK(p)'
  <2>1. LoadedOK(p) /\ AnswerOK(p)
    BY DEF ListInv
  <2>2. CASE proc'[p] = proc[p]
    <3>1. proc[p] # Idle /\ proc[p].step = "loaded" => Key(p) \in Keys
      BY ReadersKey DEF ListInv, Reading
    <3>2. proc[p] # Idle => proc[p].late \in BOOLEAN
      BY DEF ListInv, ProcsOK, IsProc
    <3>3. ASSUME proc[p] # Idle, proc[p].step = "loaded", proc[p].got # Source(Key(p))'
          PROVE  Key(p) \in excused' /\ calm'[Key(p)] <= Slow(proc[p])
      <4>1. CASE Key(p) \in ks
        <5>1. Loaded(Key(p))
          BY <3>3 DEF Loaded
        <5>2. calm'[Key(p)] = 0
          BY <1>1, <4>1
        <5>3. QED
          BY <1>1, <3>2, <3>3, <4>1, <5>1, <5>2 DEF Slow
      <4>2. CASE Key(p) \notin ks
        <5>1. Source(Key(p))' = Source(Key(p)) /\ calm'[Key(p)] = calm[Key(p)]
          <6>1. Key(p) \in Keys \ ks
            BY <3>1, <3>3, <4>2
          <6>2. \A k \in Keys \ ks : Source(k)' = Source(k) /\ calm'[k] = calm[k]
            BY <1>1 DEF TablesChange
          <6>3. Key(p)' = Key(p)
            BY <2>2 DEF Key
          <6>4. Source(Key(p))' = Source(Key(p))
            BY <6>1, <6>2, <6>3
          <6>5. QED
            BY <6>1, <6>2, <6>4
        <5>2. QED
          BY <1>1, <2>1, <3>3, <5>1 DEF LoadedOK
      <4>3. QED
        BY <4>1, <4>2
    <3>4. LoadedOK(p)'
      BY <2>2, <3>3 DEF LoadedOK, Key
    <3>5. proc[p].op \in Categories => proc[p].by \in Keys /\ proc[p].late \in BOOLEAN
      BY <3>2 DEF ListInv, ProcsOK, IsProc, Reader, Writer, Idle, Categories, Feeds, Keys
    <3>6. ASSUME Answers(p), proc[p].got # Source(proc[p].by)'
          PROVE  calm'[proc[p].by] <= ListTTL + Slow(proc[p])
      <4>1. proc[p].by \in Keys /\ proc[p].late \in BOOLEAN
        BY <3>5, <3>6 DEF Answers, At
      <4>2. CASE proc[p].by \in ks
        BY <1>1, <4>1, <4>2, TimesArePositive DEF Slow
      <4>3. CASE proc[p].by \notin ks
        <5>1. calm'[proc[p].by] = calm[proc[p].by]
          BY <1>1, <4>1, <4>3
        <5>2. Source(proc[p].by)' = Source(proc[p].by)
          BY <2>2, <4>1, <4>3 DEF TablesChange
        <5>3. QED
          BY <2>1, <3>6, <5>1, <5>2 DEF AnswerOK
      <4>4. QED
        BY <4>2, <4>3
    <3>7. AnswerOK(p)'
      BY <2>2, <3>6 DEF AnswerOK, Answers, At
    <3>8. QED
      BY <3>4, <3>7
  <2>3. CASE proc'[p] # Idle /\ proc'[p].step = "invalidate"
    BY <2>3 DEF LoadedOK, AnswerOK, Answers, At
  <2>4. QED
    BY <2>2, <2>3 DEF TablesChange
<1>6. QED
  BY <1>1, <1>2, <1>4, <1>5 DEF ListInv, TablesChange

\* A request that reads its lists begins, or one that has only to write.
LEMMA BeginsAway ==
  ASSUME ListInv, NEW p \in Procs, NEW op, NEW u, NEW what, NEW step, NEW keys,
         Starts(p, Request(op, u, what, step, keys)), Opens(op, u, step, keys), step \in {"read", "write"},
         UNCHANGED <<blocks, recommended, open, cache, calm, excused>>
  PROVE  ListInv'
<1>1. /\ ProcsOK' /\ proc[p] = Idle /\ proc'[p].step = step
      /\ \A q \in Procs \ {p} : proc'[q] = proc[q]
  BY Begins DEF ListInv
<1>2. ListsRest
  BY <1>1 DEF ListsRest, Answering
<1>3. QED
  BY <1>2, ListsRestKeep

\* A request ends, and has deleted no list, or excused those it should have deleted.
LEMMA EndsAway ==
  ASSUME ListInv, NEW p \in Procs, proc' = [proc EXCEPT ![p] = Idle],
         proc[p].step # "invalidate" \/ proc[p].what \subseteq excused',
         UNCHANGED <<blocks, recommended, open, cache, calm>>, excused \subseteq excused'
  PROVE  ListInv'
<1>1. ProcsOK' /\ proc'[p] = Idle /\ \A q \in Procs \ {p} : proc'[q] = proc[q]
  BY EndsIdle DEF ListInv
<1>2. ListsRest
  BY <1>1 DEF ListsRest
<1>3. QED
  BY <1>2, ListsRestKeep

\* A request that has its lists goes on.
LEMMA GoesAway ==
  ASSUME ListInv, NEW p \in Procs, NEW s \in {"create", "bind", "release"}, NEW g,
         \/ proc[p].op = "publish" /\ proc[p].step \in {"go", "create"}
         \/ proc[p].op = "greet" /\ proc[p].step = "go",
         \/ proc' = [proc EXCEPT ![p].step = s, ![p].got = g]
         \/ proc' = [proc EXCEPT ![p].step = s] /\ g = proc[p].got,
         UNCHANGED <<blocks, recommended, open, cache, calm, excused>>
  PROVE  ListInv'
<1>1. IsRequest(proc[p]) /\ Reader(proc[p]) /\ proc[p].op \notin Categories
  BY DEF ListInv, ProcsOK, IsProc, Idle, Writer, Categories, Feeds
<1>2. ProcsOK' /\ proc'[p].step = s /\ \A q \in Procs \ {p} : proc'[q] = proc[q]
  <2>1. ProcsOK /\ s \in {"go", "create", "bind", "release"}
    BY DEF ListInv
  <2>2. QED
    BY <1>1, <2>1, GoesOn
<1>3. ListsRest
  BY <1>2 DEF ListsRest, Answering
<1>4. QED
  BY <1>3, ListsRestKeep

\* The requests stay, and no list is touched.
LEMMA NoneMoves ==
  ASSUME ListInv, UNCHANGED <<proc, blocks, recommended, open, cache, calm, excused>>
  PROVE  ListInv'
<1>1. ProcsOK'
  BY DEF ListInv, ProcsOK, IsProc, IsRequest, Reader, Writer
<1>2. ListsRest
  BY <1>1 DEF ListsRest
<1>3. QED
  BY <1>2, ListsRestKeep

\* block_user and unblock_user change the lists of both users, or neither.
LEMMA BlocksKeep ==
  ASSUME ListInv, NEW p \in Procs, NEW u \in Users, NEW v \in Users \ {u}, Block(p, u, v) \/ Unblock(p, u, v)
  PROVE  ListInv'
<1>1. ASSUME NEW op \in {"block", "unblock"}, Starts(p, Request(op, u, {u, v}, "invalidate", <<>>))
      PROVE  /\ ProcsOK' /\ proc[p] = Idle /\ proc'[p] # Idle /\ proc'[p].step = "invalidate"
             /\ proc'[p].what = {u, v} /\ \A q \in Procs \ {p} : proc'[q] = proc[q]
  <2>1. Opens(op, u, "invalidate", <<>>)
    BY DEF Opens
  <2>2. QED
    BY <1>1, <2>1, Begins DEF ListInv
<1>2. \A k \in {u, v} : k \in Keys /\ k # "recommended" /\ k # "config"
  BY UsersAreNoNames DEF Keys
<1>3. ASSUME NEW op \in {"block", "unblock"}, Starts(p, Request(op, u, {u, v}, "invalidate", <<>>)),
             NEW ks \in SUBSET {u, v}, Changes(ks, {}), UNCHANGED cache,
             blocks' \subseteq Users \X Users, \A w \in Users : <<w, w>> \notin blocks',
             \A k \in Keys \ ks : Source(k)' = Source(k)
      PROVE  ListInv'
  <2>1. /\ ProcsOK' /\ proc[p] = Idle /\ proc'[p] # Idle /\ proc'[p].step = "invalidate"
        /\ proc'[p].what = {u, v} /\ \A q \in Procs \ {p} : proc'[q] = proc[q]
    BY <1>1, <1>3
  <2>2. \A k \in ks : Deleting(k)'
    BY <2>1 DEF Deleting, Invalidated
  <2>3. TablesChange(ks, {})
    BY <1>3, <2>1, <2>2 DEF TablesChange
  <2>4. ks \in SUBSET Keys
    BY <1>2
  <2>5. QED
    BY <2>3, <2>4, TablesChangeKeep
<1>4. CASE Block(p, u, v)
  <2> DEFINE ks == IF Related(u, v) THEN {} ELSE {u, v}
  <2>1. /\ Starts(p, Request("block", u, {u, v}, "invalidate", <<>>)) /\ Changes(ks, {}) /\ UNCHANGED cache
        /\ blocks' = blocks \cup {<<u, v>>} /\ UNCHANGED <<recommended, open>>
    BY <1>4 DEF Block
  <2>2. blocks' \subseteq Users \X Users /\ \A w \in Users : <<w, w>> \notin blocks'
    BY <2>1 DEF ListInv
  <2>3. ASSUME NEW k \in Users, k \notin ks
        PROVE  \A w \in Users : Related(k, w)' <=> Related(k, w)
    <3>1. \A w \in Users : Related(k, w) <=> <<k, w>> \in blocks \/ <<w, k>> \in blocks
      BY <2>3 DEF Related, Blocked
    <3>2. \A w \in Users : Related(k, w)' <=> <<k, w>> \in blocks' \/ <<w, k>> \in blocks'
      BY <2>3 DEF Related, Blocked
    <3>3. Related(u, v) <=> <<u, v>> \in blocks \/ <<v, u>> \in blocks
      BY DEF Related, Blocked
    <3>4. QED
      BY <2>1, <2>3, <3>1, <3>2, <3>3
  <2>4. \A k \in Keys \ ks : Source(k)' = Source(k)
    BY <2>1, <2>3 DEF Source, Keys
  <2>5. ks \in SUBSET {u, v}
    OBVIOUS
  <2> HIDE DEF ks
  <2>6. QED
    BY <1>3, <2>1, <2>2, <2>4, <2>5
<1>5. CASE Unblock(p, u, v)
  <2> DEFINE ks == IF Related(u, v) /\ <<v, u>> \notin blocks THEN {u, v} ELSE {}
  <2>1. /\ Starts(p, Request("unblock", u, {u, v}, "invalidate", <<>>)) /\ Changes(ks, {}) /\ UNCHANGED cache
        /\ blocks' = blocks \ {<<u, v>>} /\ UNCHANGED <<recommended, open>>
    BY <1>5 DEF Unblock
  <2>2. blocks' \subseteq Users \X Users /\ \A w \in Users : <<w, w>> \notin blocks'
    BY <2>1 DEF ListInv
  <2>3. ASSUME NEW k \in Users, k \notin ks
        PROVE  \A w \in Users : Related(k, w)' <=> Related(k, w)
    <3>1. \A w \in Users : Related(k, w) <=> <<k, w>> \in blocks \/ <<w, k>> \in blocks
      BY <2>3 DEF Related, Blocked
    <3>2. \A w \in Users : Related(k, w)' <=> <<k, w>> \in blocks' \/ <<w, k>> \in blocks'
      BY <2>3 DEF Related, Blocked
    <3>3. Related(u, v) <=> <<u, v>> \in blocks \/ <<v, u>> \in blocks
      BY DEF Related, Blocked
    <3>4. QED
      BY <2>1, <2>3, <3>1, <3>2, <3>3
  <2>4. \A k \in Keys \ ks : Source(k)' = Source(k)
    BY <2>1, <2>3 DEF Source, Keys
  <2>5. ks \in SUBSET {u, v}
    OBVIOUS
  <2> HIDE DEF ks
  <2>6. QED
    BY <1>3, <2>1, <2>2, <2>4, <2>5
<1>6. QED
  BY <1>4, <1>5

\* The recommended users and the configuration change.
LEMMA ListBeginsKeep ==
  ASSUME ListInv, NEW p \in Procs, ListBegins(p)
  PROVE  ListInv'
<1>1. "recommended" \in Keys /\ "config" \in Keys
  BY DEF Keys
<1>2. ASSUME NEW users \in SUBSET Users, Recommend(users)
      PROVE  ListInv'
  <2>1. /\ Changes({"recommended"}, {"recommended"}) /\ UNCHANGED <<blocks, open, cache, proc>>
    BY <1>2 DEF Recommend
  <2>2. \A k \in Keys \ {"recommended"} : Source(k)' = Source(k)
    BY <2>1 DEF Source, Related, Blocked
  <2>3. ProcsOK'
    BY <2>1 DEF ListInv, ProcsOK, IsProc, IsRequest, Reader, Writer
  <2>4. TablesChange({"recommended"}, {"recommended"})
    BY <2>1, <2>2, <2>3 DEF TablesChange, ListInv
  <2>5. QED
    BY <1>1, <2>4, TablesChangeKeep
<1>3. ASSUME NEW rules, CreateOrDeleteConfig(rules)
      PROVE  ListInv'
  <2>1. /\ Changes({"config"}, {"config"}) /\ UNCHANGED <<blocks, recommended, cache, proc>>
    BY <1>3 DEF CreateOrDeleteConfig
  <2>2. \A k \in Keys \ {"config"} : Source(k)' = Source(k)
    BY <2>1 DEF Source, Related, Blocked
  <2>3. ProcsOK'
    BY <2>1 DEF ListInv, ProcsOK, IsProc, IsRequest, Reader, Writer
  <2>4. TablesChange({"config"}, {"config"})
    BY <2>1, <2>2, <2>3 DEF TablesChange, ListInv
  <2>5. QED
    BY <1>1, <2>4, TablesChangeKeep
<1>4. ASSUME NEW rules, Configure(p, rules)
      PROVE  ListInv'
  <2>1. /\ Starts(p, Request("configure", None, {"config"}, "invalidate", <<>>))
        /\ Changes({"config"}, {}) /\ UNCHANGED <<blocks, recommended, cache>>
    BY <1>4 DEF Configure
  <2>2. Opens("configure", None, "invalidate", <<>>)
    BY DEF Opens
  <2>3. /\ ProcsOK' /\ proc[p] = Idle /\ proc'[p] # Idle /\ proc'[p].step = "invalidate"
        /\ proc'[p].what = {"config"} /\ \A q \in Procs \ {p} : proc'[q] = proc[q]
    <3>1. ProcsOK
      BY DEF ListInv
    <3>2. QED
      BY <2>1, <2>2, <3>1, Begins
  <2>4. \A k \in Keys \ {"config"} : Source(k)' = Source(k)
    BY <2>1 DEF Source, Related, Blocked
  <2>5. Deleting("config")'
    BY <2>3 DEF Deleting, Invalidated
  <2>6. TablesChange({"config"}, {})
    BY <2>1, <2>3, <2>4, <2>5 DEF TablesChange, ListInv
  <2>7. QED
    BY <1>1, <2>6, TablesChangeKeep
<1>5. ASSUME NEW u, NEW v, Follow(p, u, v)
      PROVE  ListInv'
  <2>1. /\ Starts(p, Request("follow", u, v, "read", <<"config">>))
        /\ UNCHANGED <<blocks, recommended, open, cache, calm, excused>>
    BY <1>5 DEF Follow, tables, past
  <2>2. Opens("follow", u, "read", <<"config">>)
    BY DEF Opens
  <2>3. QED
    BY <2>1, <2>2, BeginsAway
<1>6. QED
  BY <1>2, <1>3, <1>4, <1>5 DEF ListBegins

\* How long lists are kept, and what counts ticks counts further.
LEMMA KeptTimes ==
  /\ \A k \in Keys : TTL(k) \in Nat /\ TTL(k) >= 1 /\ TTL(k) + 2 <= Cap
  /\ \A u \in Users : u \in Keys /\ TTL(u) = ListTTL
  /\ Cap \in Nat /\ ListTTL \in Nat
  BY TimesArePositive, UsersAreNoNames DEF TTL, Cap, Keys

\* A request that does nothing has what it had.
LEMMA WaitsKeep ==
  ASSUME ListInv, NEW p \in Procs, proc'[p] = proc[p], UNCHANGED <<blocks, recommended, open, calm>>,
         excused \subseteq excused'
  PROVE  LoadedOK(p)' /\ AnswerOK(p)'
<1>1. \A k \in Keys : Source(k)' = Source(k)
  BY SourceSame
<1>2. LoadedOK(p) /\ AnswerOK(p)
  BY DEF ListInv
<1>3. proc[p] # Idle /\ proc[p].step = "loaded" => Key(p) \in Keys
  BY ReadersKey DEF ListInv, Reading
<1>4. LoadedOK(p)'
  BY <1>1, <1>2, <1>3 DEF LoadedOK, Key
<1>5. proc[p].op \in Categories => proc[p].by \in Keys
  BY DEF ListInv, ProcsOK, IsProc, Reader, Writer, Idle, Categories, Feeds, Keys
<1>6. AnswerOK(p)'
  BY <1>1, <1>2, <1>5 DEF AnswerOK, Answers, At
<1>7. QED
  BY <1>4, <1>6

\* A request gets a list that is behind for no longer than lists are kept.
LEMMA GetsKeep ==
  ASSUME ListInv, NEW p \in Procs, proc[p] # Idle, proc[p].step \in Reading, NEW value, Gets(p, value),
         UNCHANGED <<blocks, recommended, open, calm, excused>>, cache' = [k \in Keys |-> cache'[k]],
         Key(p) \in Users /\ value # Source(Key(p)) => calm[Key(p)] <= ListTTL + Slow(proc[p]),
         \A k \in Keys : cache'[k] = cache[k] \/ ListOK(k)'
  PROVE  ListInv'
<1>1. /\ ProcsOK' /\ proc'[p] # Idle
      /\ \A q \in Procs \ {p} : proc'[q] = proc[q]
      /\ proc'[p].op = proc[p].op /\ proc'[p].by = proc[p].by /\ proc'[p].late = proc[p].late
      /\ \/ /\ Key(p) = "recommended" /\ proc[p].op \in Categories /\ proc'[p].step = "read"
         \/ /\ Key(p) # "recommended" /\ proc'[p].step = "go" /\ proc'[p].got = value
            /\ proc'[p].what = proc[p].what
            /\ proc[p].op \in Categories => Key(p) = proc[p].by
  <2>1. ProcsOK
    BY DEF ListInv
  <2>2. QED
    BY <2>1, GetsOn
<1>2. \A k \in Keys : Source(k)' = Source(k)
  BY SourceSame
<1>3. \A k \in Keys : Deleting(k) => Deleting(k)'
  BY <1>1 DEF Deleting, Reading
<1>4. ASSUME NEW k \in Keys
      PROVE  ListOK(k)'
  <2>1. CASE cache'[k] = cache[k]
    <3>1. ListOK(k) /\ Source(k)' = Source(k) /\ calm' = calm /\ excused' = excused
      BY <1>2 DEF ListInv
    <3>2. QED
      BY <1>3, <2>1, <3>1 DEF ListOK
  <2>2. QED
    BY <2>1
<1>5. \A q \in Procs \ {p} : LoadedOK(q)' /\ AnswerOK(q)'
  BY <1>1, WaitsKeep
<1>6. LoadedOK(p)'
  BY <1>1 DEF LoadedOK
<1>7. AnswerOK(p)'
  <2>1. PICK u : u = proc[p].by /\ u = proc'[p].by
    BY <1>1
  <2>2. ASSUME Answers(p)', proc'[p].got # Source(u)'
        PROVE  calm[u] <= ListTTL + Slow(proc[p])
    <3>1. proc[p].op \in Categories /\ proc'[p].step = "go"
      BY <1>1, <2>2 DEF Answers, At
    <3>2. Key(p) = u /\ proc'[p].got = value
      BY <1>1, <2>1, <3>1
    <3>3. u \in Users
      BY <2>1, <3>1 DEF ListInv, ProcsOK, IsProc, Reader, Writer, Idle, Categories, Feeds
    <3>4. Source(u)' = Source(u)
      BY <1>2, <3>3 DEF Keys
    <3>5. value # Source(u)
      BY <2>2, <3>2, <3>4
    <3>6. QED
      BY <3>2, <3>3, <3>5
  <2>3. Slow(proc'[p]) = Slow(proc[p])
    BY <1>1 DEF Slow
  <2>4. AnswerOK(p)' <=> (Answers(p)' /\ proc'[p].got # Source(u)' => calm'[u] <= ListTTL + Slow(proc'[p]))
    BY <2>1 DEF AnswerOK, Slow
  <2>5. QED
    BY <2>2, <2>3, <2>4
<1>8. QED
  BY <1>1, <1>4, <1>5, <1>6, <1>7 DEF ListInv

\* What goes on with a request keeps the lists.
LEMMA ContinuesKeep ==
  ASSUME ListInv, NEW p \in Procs, Continues(p)
  PROVE  ListInv'
<1> DEFINE here == Key(p)
<1>1. ProcsOK /\ LoadedOK(p) /\ AnswerOK(p) /\ cache = [k \in Keys |-> cache[k]] /\ calm \in [Keys -> Nat]
  BY DEF ListInv
<1>2. ASSUME proc[p] # Idle, proc[p].step \in Reading
      PROVE  /\ here \in Keys /\ ListOK(here) /\ proc[p].late \in BOOLEAN /\ calm[here] \in Nat
             /\ IsRequest(proc[p]) /\ Reader(proc[p])
  <2>1. here \in Keys /\ proc[p].late \in BOOLEAN /\ IsRequest(proc[p]) /\ Reader(proc[p])
    BY <1>1, <1>2, ReadersKey
  <2>2. QED
    BY <1>1, <2>1 DEF ListInv
<1>3. CASE Hits(p)
  <2>1. /\ proc[p] # Idle /\ proc[p].step \in Reading /\ cache[here] # None /\ Gets(p, cache[here].value)
        /\ UNCHANGED <<blocks, recommended, open, calm, excused, cache>>
    BY <1>3 DEF Hits, Reads, Reading, tables, past
  <2>2. ASSUME here \in Users, cache[here].value # Source(here)
        PROVE  calm[here] <= ListTTL + Slow(proc[p])
    <3>1. /\ here \in Keys /\ proc[p].late \in BOOLEAN /\ calm[here] \in Nat
          /\ cache[here].age \in Nat /\ cache[here].age < TTL(here) /\ calm[here] <= cache[here].age + 1
      BY <1>2, <2>1, <2>2 DEF ListOK
    <3>2. TTL(here) = ListTTL /\ ListTTL \in Nat
      BY <2>2, KeptTimes
    <3>3. Slow(proc[p]) \in {0, 1}
      BY <3>1 DEF Slow
    <3> HIDE DEF here
    <3>4. QED
      BY <3>1, <3>2, <3>3
  <2>3. QED
    BY <1>1, <2>1, <2>2, GetsKeep
<1>4. CASE Loads(p)
  <2> DEFINE n == [proc[p] EXCEPT !.step = "loaded", !.got = Source(Key(p))]
  <2>1. /\ proc' = [proc EXCEPT ![p].step = "loaded", ![p].got = Source(Key(p))]
        /\ proc[p] # Idle /\ proc[p].step \in Reading /\ proc[p].step = "read"
        /\ UNCHANGED <<blocks, recommended, open, calm, excused, cache>>
    BY <1>4 DEF Loads, Reads, Reading, tables, past
  <2>2. /\ IsRequest(proc[p]) /\ proc[p].late \in BOOLEAN /\ Reader(proc[p]) /\ here \in Keys
    BY <1>2, <2>1
  <2>3. HasGot(n, proc[p], Source(Key(p)), proc[p].what, proc[p].keys, "loaded")
    BY <2>2, StepChanges
  <2>4. proc' = [proc EXCEPT ![p] = n]
    BY <1>1, <2>1 DEF ProcsOK
  <2> HIDE DEF n
  <2>5. IsProc(n)
    <3>1. Reader(n)
      BY <2>1, <2>2, <2>3 DEF Reader, Reading, HasGot
    <3>2. QED
      BY <2>2, <2>3, <3>1 DEF IsProc, HasGot
  <2>6. ProcsOK' /\ proc'[p] = n /\ \A q \in Procs \ {p} : proc'[q] = proc[q]
    BY <1>1, <2>4, <2>5, OneChanges
  <2>7. \A k \in Keys : Source(k)' = Source(k)
    BY <2>1, SourceSame
  <2>8. \A q \in Procs \ {p} : LoadedOK(q)' /\ AnswerOK(q)'
    BY <2>1, <2>6, WaitsKeep
  <2>9. LoadedOK(p)' /\ AnswerOK(p)'
    <3>1. Key(p)' = Key(p)
      BY <2>3, <2>6 DEF Key, HasGot
    <3>2. proc'[p].got = Source(Key(p))'
      BY <2>2, <2>3, <2>6, <2>7, <3>1 DEF HasGot
    <3>3. proc'[p].step = "loaded"
      BY <2>3, <2>6 DEF HasGot
    <3>4. QED
      BY <3>2, <3>3 DEF LoadedOK, AnswerOK, Answers, At
  <2>10. \A k \in Keys : Deleting(k) => Deleting(k)'
    <3>1. proc[p].step # "invalidate"
      BY <2>1
    <3>2. QED
      BY <2>6, <3>1 DEF Deleting
  <2>11. ASSUME NEW k \in Keys
         PROVE  ListOK(k)'
    <3>1. ListOK(k) /\ Source(k)' = Source(k) /\ cache' = cache /\ calm' = calm /\ excused' = excused
      BY <2>1, <2>7 DEF ListInv
    <3>2. QED
      BY <2>10, <3>1 DEF ListOK
  <2>12. QED
    BY <2>1, <2>6, <2>8, <2>9, <2>11 DEF ListInv
<1>5. CASE Sets(p)
  <2>1. /\ proc[p] # Idle /\ proc[p].step \in Reading /\ proc[p].step = "loaded" /\ Gets(p, proc[p].got)
        /\ cache' = [cache EXCEPT ![here] = [value |-> proc[p].got, age |-> 0]]
        /\ UNCHANGED <<blocks, recommended, open, calm, excused>>
    BY <1>5 DEF Sets, Reading, tables, past
  <2>2. here \in Keys /\ proc[p].late \in BOOLEAN /\ calm[here] \in Nat
    BY <1>2, <2>1
  <2>3. proc[p].got # Source(here) => here \in excused /\ calm[here] <= Slow(proc[p])
    BY <1>1, <2>1 DEF LoadedOK
  <2>4. Slow(proc[p]) \in {0, 1}
    BY <2>2 DEF Slow
  <2>5. TTL(here) \in Nat /\ TTL(here) >= 1 /\ ListTTL \in Nat
    BY <2>2, KeptTimes
  <2>7. \A k \in Keys : Source(k)' = Source(k)
    BY <2>1, SourceSame
  <2>8. /\ cache' = [k \in Keys |-> IF k = here THEN [value |-> proc[p].got, age |-> 0] ELSE cache[k]]
    BY <1>1, <2>1
  <2>9. \A k \in Keys : k # here => cache'[k] = cache[k]
    BY <2>8
  <2>10. ASSUME NEW k \in Keys, k = here
         PROVE  ListOK(k)'
    <3>1. cache'[k] = [value |-> proc[p].got, age |-> 0]
      BY <2>8, <2>10
    <3>2. cache'[k].value = proc[p].got /\ cache'[k].age = 0
      BY <3>1
    <3>3. cache'[k] = [value |-> cache'[k].value, age |-> cache'[k].age]
      BY <3>1, <3>2
    <3>4. proc[p].got # Source(k)' => k \in excused' /\ calm'[k] <= 0 + 1
      <4> HIDE DEF here
      <4>1. QED
        BY <2>1, <2>2, <2>3, <2>4, <2>7, <2>10
    <3>5. 0 < TTL(k)
      BY <2>5, <2>10
    <3>6. QED
      BY <3>2, <3>3, <3>4, <3>5 DEF ListOK
  <2>11. \A k \in Keys : cache'[k] = cache[k] \/ ListOK(k)'
    BY <2>9, <2>10
  <2>12. here \in Users /\ proc[p].got # Source(here) => calm[here] <= ListTTL + Slow(proc[p])
    <3> HIDE DEF here
    <3>1. QED
      BY <2>2, <2>3, <2>4, <2>5
  <2>13. cache' = [k \in Keys |-> cache'[k]]
    BY <2>8
  <2>14. QED
    BY <2>1, <2>11, <2>12, <2>13, GetsKeep
<1>6. CASE LoadsAround(p)
  <2>1. /\ proc[p] # Idle /\ proc[p].step \in Reading /\ Gets(p, Source(here))
        /\ UNCHANGED <<blocks, recommended, open, calm, excused, cache>>
    BY <1>6 DEF LoadsAround, Reads, Reading, tables, past
  <2>2. QED
    BY <1>1, <2>1, GetsKeep
<1>7. CASE Invalidates(p)
  <2>1. /\ proc[p] # Idle /\ proc[p].step = "invalidate" /\ proc' = [proc EXCEPT ![p] = Idle]
        /\ cache' = [k \in Keys |-> IF k \in proc[p].what THEN None ELSE cache[k]]
        /\ UNCHANGED <<blocks, recommended, open, calm, excused>>
    BY <1>7 DEF Invalidates, Deleted, Invalidated, Ends, tables, past
  <2>2. ProcsOK' /\ proc'[p] = Idle /\ proc'[p].op = "idle" /\ \A q \in Procs \ {p} : proc'[q] = proc[q]
    BY <1>1, <2>1, EndsIdle
  <2>3. \A k \in Keys : Source(k)' = Source(k)
    BY <2>1, SourceSame
  <2>4. \A k \in Keys : k \notin proc[p].what /\ Deleting(k) => Deleting(k)'
    BY <2>2 DEF Deleting, Invalidated
  <2>5. ASSUME NEW k \in Keys
        PROVE  ListOK(k)'
    <3>1. CASE k \in proc[p].what
      BY <2>1, <3>1 DEF ListOK
    <3>2. CASE k \notin proc[p].what
      <4>1. ListOK(k) /\ Source(k)' = Source(k) /\ cache'[k] = cache[k] /\ calm' = calm /\ excused' = excused
        BY <2>1, <2>3, <3>2 DEF ListInv
      <4>2. QED
        BY <2>4, <3>2, <4>1 DEF ListOK
    <3>3. QED
      BY <3>1, <3>2
  <2>6. \A q \in Procs \ {p} : LoadedOK(q)' /\ AnswerOK(q)'
    BY <2>1, <2>2, WaitsKeep
  <2>7. LoadedOK(p)' /\ AnswerOK(p)'
    BY <2>2 DEF LoadedOK, AnswerOK, Answers, At, Categories, Feeds
  <2>8. QED
    BY <2>1, <2>2, <2>5, <2>6, <2>7 DEF ListInv
<1>8. CASE Dies(p)
  <2>1. /\ proc' = [proc EXCEPT ![p] = Idle]
        /\ UNCHANGED <<blocks, recommended, open, cache, calm>>
        /\ excused' = IF proc[p].step = "invalidate" THEN excused \cup proc[p].what ELSE excused
    BY <1>8 DEF Dies, Invalidated, tables
  <2>2. excused \subseteq excused' /\ (proc[p].step # "invalidate" \/ proc[p].what \subseteq excused')
    BY <2>1
  <2>3. QED
    BY <2>1, <2>2, EndsAway
<1>9. CASE FollowWrites(p)
  <2>1. /\ proc[p].step = "go" /\ proc' = [proc EXCEPT ![p] = Idle]
        /\ UNCHANGED <<blocks, recommended, open, cache, calm, excused>>
    BY <1>9 DEF FollowWrites, At, Ends
  <2>2. QED
    BY <2>1, EndsAway
<1>10. CASE FeedAnswers(p)
  <2>1. /\ proc[p].step = "go" /\ proc' = [proc EXCEPT ![p] = Idle]
        /\ UNCHANGED <<blocks, recommended, open, cache, calm, excused>>
    BY <1>10 DEF FeedAnswers, Answers, At, Ends, tables, past
  <2>2. QED
    BY <2>1, EndsAway
<1>11. CASE PublishChecks(p)
  <2>1. /\ proc[p].op = "publish" /\ proc[p].step = "go"
        /\ UNCHANGED <<blocks, recommended, open, cache, calm, excused>>
    BY <1>11 DEF PublishChecks, At, tables, past
  <2>2. CASE proc' = [proc EXCEPT ![p].step = "create"]
    BY <2>1, <2>2, GoesAway
  <2>3. CASE proc' = [proc EXCEPT ![p] = Idle]
    BY <2>1, <2>3, EndsAway
  <2>4. QED
    BY <1>11, <2>2, <2>3 DEF PublishChecks, GoesTo, Ends
<1>12. CASE PublishCreates(p)
  <2>1. PICK m \in Moments : /\ proc[p].op = "publish" /\ proc[p].step = "create"
                             /\ proc' = [proc EXCEPT ![p].step = "bind", ![p].got = {m}]
                             /\ UNCHANGED <<blocks, recommended, open, cache, calm, excused>>
    BY <1>12 DEF PublishCreates, At, tables, past
  <2>2. QED
    BY <2>1, GoesAway
<1>13. CASE PublishBinds(p) \/ ReviewWrites(p) \/ DeleteWrites(p)
  <2>1. /\ proc[p].step # "invalidate" /\ proc' = [proc EXCEPT ![p] = Idle]
        /\ UNCHANGED <<blocks, recommended, open, cache, calm, excused>>
    BY <1>13 DEF PublishBinds, ReviewWrites, DeleteWrites, At, Ends, tables, past
  <2>2. QED
    BY <2>1, EndsAway
<1>14. QED
  BY <1>3, <1>4, <1>5, <1>6, <1>7, <1>8, <1>9, <1>10, <1>11, <1>12, <1>13 DEF Continues

\* A tick makes lists older and requests late, and drops the lists that were kept long enough.
LEMMA TickKeepsLists ==
  ASSUME ListInv, TimePasses
  PROVE  ListInv'
<1> DEFINE kept(k) == cache[k] # None /\ Lasts(k)
<1>1. /\ UNCHANGED <<blocks, recommended, open>>
      /\ cache' = [k \in Keys |-> IF kept(k) THEN [cache[k] EXCEPT !.age = IF @ < Cap THEN @ + 1 ELSE @] ELSE None]
      /\ calm'  = [k \in Keys |-> IF calm[k] < Cap THEN calm[k] + 1 ELSE calm[k]]
      /\ excused' = {k \in excused : kept(k) \/ Loaded(k)}
  BY DEF TimePasses, tables
<1>2. /\ ProcsOK'
      /\ \A q \in Procs :
           \/ proc[q] = Idle /\ proc'[q] = Idle
           \/ /\ proc[q] # Idle /\ proc'[q] # Idle /\ proc'[q].op = proc[q].op /\ proc'[q].by = proc[q].by
              /\ proc'[q].what = proc[q].what /\ proc'[q].step = proc[q].step
              /\ proc'[q].keys = proc[q].keys /\ proc'[q].got = proc[q].got
              /\ proc[q].late = FALSE /\ proc'[q].late = TRUE
  BY TickMakesLate DEF ListInv
<1>3. \A k \in Keys : Source(k)' = Source(k)
  BY <1>1, SourceSame
<1>4. \A k \in Keys : calm[k] \in Nat /\ calm'[k] \in Nat /\ calm'[k] <= calm[k] + 1
  BY <1>1 DEF ListInv
<1>5. \A k \in Keys : Deleting(k) => Deleting(k)'
  BY <1>2 DEF Deleting, Invalidated
<1>6. ASSUME NEW k \in Keys
      PROVE  ListOK(k)'
  <2>1. CASE ~kept(k)
    BY <1>1, <2>1 DEF ListOK
  <2>2. CASE kept(k)
    <3> DEFINE e == cache[k]
    <3>1. /\ e = [value |-> e.value, age |-> e.age] /\ e.age \in Nat /\ e.age < TTL(k)
          /\ e.value # Source(k) => (Deleting(k) \/ k \in excused) /\ calm[k] <= e.age + 1
      BY <2>2 DEF ListInv, ListOK
    <3>2. e.age + 1 < TTL(k) /\ TTL(k) \in Nat /\ TTL(k) + 2 <= Cap /\ Cap \in Nat
      BY <2>2, KeptTimes DEF Lasts
    <3>3. e.age < Cap
      <4> HIDE DEF e
      <4>1. QED
        BY <3>1, <3>2
    <3>4. cache'[k] = [e EXCEPT !.age = IF @ < Cap THEN @ + 1 ELSE @]
      BY <1>1, <2>2
    <3>5. [e EXCEPT !.age = IF @ < Cap THEN @ + 1 ELSE @] = [value |-> e.value, age |-> e.age + 1]
      <4>1. e \in [value : {e.value}, age : {e.age}]
        BY <3>1
      <4> HIDE DEF e
      <4>2. QED
        BY <3>3, <4>1
    <3> HIDE DEF e
    <3>6. cache'[k].value = e.value /\ cache'[k].age = e.age + 1
          /\ cache'[k] = [value |-> cache'[k].value, age |-> cache'[k].age]
      BY <3>4, <3>5
    <3>7. k \in excused => k \in excused'
      BY <1>1, <2>2
    <3>8. e.age + 1 \in Nat
      BY <3>1
    <3>9. e.value # Source(k) => calm'[k] <= (e.age + 1) + 1
      BY <1>4, <3>1
    <3>10. TTL(k)' = TTL(k)
      BY DEF TTL
    <3>11. QED
      BY <1>3, <1>5, <3>1, <3>2, <3>6, <3>7, <3>8, <3>9, <3>10 DEF ListOK
  <2>3. QED
    BY <2>1, <2>2
<1>7. ASSUME NEW p \in Procs
      PROVE  LoadedOK(p)' /\ AnswerOK(p)'
  <2>1. CASE proc'[p] = Idle
    BY <2>1 DEF LoadedOK, AnswerOK, Answers, At, Idle, Categories, Feeds
  <2>2. CASE proc[p] # Idle /\ proc'[p] # Idle
    <3>1. /\ proc'[p].op = proc[p].op /\ proc'[p].by = proc[p].by /\ proc'[p].step = proc[p].step
          /\ proc'[p].keys = proc[p].keys /\ proc'[p].got = proc[p].got
          /\ Slow(proc[p]) = 0 /\ Slow(proc'[p]) = 1 /\ Key(p)' = Key(p)
      BY <1>2, <2>2 DEF Slow, Key
    <3>2. LoadedOK(p) /\ AnswerOK(p)
      BY DEF ListInv
    <3>3. LoadedOK(p)'
      <4>1. PICK k : k = Key(p)
        OBVIOUS
      <4>2. ASSUME proc[p].step = "loaded", proc[p].got # Source(k)'
            PROVE  k \in excused' /\ calm'[k] <= 1
        <5>1. k \in Keys
          BY <2>2, <4>1, <4>2, ReadersKey DEF ListInv, Reading
        <5>2. proc[p].got # Source(k)
          BY <1>3, <4>2, <5>1
        <5>3. k \in excused /\ calm[k] <= 0
          BY <2>2, <3>1, <3>2, <4>1, <4>2, <5>2 DEF LoadedOK
        <5>4. Loaded(k)
          BY <2>2, <4>1, <4>2 DEF Loaded
        <5>5. QED
          BY <1>1, <1>4, <5>1, <5>3, <5>4
      <4>3. QED
        BY <2>2, <3>1, <4>1, <4>2 DEF LoadedOK
    <3>4. AnswerOK(p)'
      <4>1. PICK u : u = proc[p].by
        OBVIOUS
      <4>2. ASSUME Answers(p), proc[p].got # Source(u)'
            PROVE  calm'[u] <= ListTTL + 1
        <5>1. u \in Users
          BY <4>1, <4>2 DEF Answers, At, ListInv, ProcsOK, IsProc, Reader, Writer, Idle, Categories, Feeds
        <5>2. u \in Keys /\ proc[p].got # Source(u)
          BY <1>3, <4>2, <5>1 DEF Keys
        <5>3. calm[u] <= ListTTL + 0
          BY <3>1, <3>2, <4>1, <4>2, <5>2 DEF AnswerOK
        <5>4. QED
          BY <1>4, <5>2, <5>3, KeptTimes
      <4>3. Answers(p)' => Answers(p)
        BY <3>1 DEF Answers, At
      <4>4. QED
        BY <3>1, <4>1, <4>2, <4>3 DEF AnswerOK
    <3>5. QED
      BY <3>3, <3>4
  <2>3. QED
    BY <1>2, <2>1, <2>2
<1>8. cache' = [k \in Keys |-> cache'[k]] /\ calm' \in [Keys -> Nat]
  BY <1>1, <1>4
<1>9. QED
  BY <1>1, <1>2, <1>6, <1>7, <1>8 DEF ListInv

(***************************************************************************)
(* A list in Redis, or in the hands of a request, that is not what the     *)
(* tables say is one somebody still deletes or one that is excused, and is *)
(* behind for no longer than lists are kept: whatever loads, sets and      *)
(* deletions cross, for every time to live.                                *)
(***************************************************************************)
THEOREM ListsKept == GreetSpec => []ListInv
<1>1. GreetInit => ListInv
  <2> SUFFICES ASSUME GreetInit
               PROVE  ListInv
    OBVIOUS
  <2>1. /\ proc = [p \in Procs |-> Idle] /\ Idle.op = "idle" /\ cache = [k \in Keys |-> None]
        /\ calm = [k \in Keys |-> Cap] /\ blocks = {}
    BY DEF GreetInit, Init, Idle
  <2>2. ProcsOK
    BY <2>1 DEF ProcsOK, IsProc
  <2>3. \A p \in Procs : LoadedOK(p) /\ AnswerOK(p)
    BY <2>1 DEF LoadedOK, AnswerOK, Answers, At, Categories, Feeds
  <2>4. \A k \in Keys : ListOK(k)
    BY <2>1 DEF ListOK
  <2>5. QED
    BY <2>1, <2>2, <2>3, <2>4, KeptTimes DEF ListInv
<1>2. ListInv /\ [GreetNext]_allVars => ListInv'
  <2> SUFFICES ASSUME ListInv, [GreetNext]_allVars
               PROVE  ListInv'
    OBVIOUS
  <2>1. ASSUME NEW p \in Procs, FeedBegins(p)
        PROVE  ListInv'
    <3>1. PICK u \in Users : \/ \E c \in CategoriesFor : Feed(p, u, c)
                             \/ People(p, u)
                             \/ \E v \in Users \ {u} : UserMoments(p, u, v)
      BY <2>1 DEF FeedBegins
    <3>2. CategoriesFor \subseteq Categories /\ "people" \in Categories /\ "user" \in Categories
      BY DEF Categories, CategoriesFor, Feeds
    <3>3. ASSUME NEW c \in CategoriesFor, Feed(p, u, c)
          PROVE  ListInv'
      <4> DEFINE what == IF c = "following" THEN Following(u) ELSE {}
                 keys == IF c = "recommend" THEN <<"recommended", u>> ELSE <<u>>
      <4>1. /\ Starts(p, Request(c, u, what, "read", keys)) /\ keys \in {<<u>>, <<"recommended", u>>}
            /\ UNCHANGED <<blocks, recommended, open, cache, calm, excused>>
        BY <3>3 DEF Feed, tables, past
      <4> HIDE DEF what, keys
      <4>2. Opens(c, u, "read", keys)
        BY <3>2, <4>1 DEF Opens
      <4>3. QED
        BY <4>1, <4>2, BeginsAway
    <3>4. CASE People(p, u)
      <4>1. /\ Starts(p, Request("people", u, {}, "read", <<u>>))
            /\ UNCHANGED <<blocks, recommended, open, cache, calm, excused>>
        BY <3>4 DEF People, tables, past
      <4>2. Opens("people", u, "read", <<u>>)
        BY <3>2 DEF Opens
      <4>3. QED
        BY <4>1, <4>2, BeginsAway
    <3>5. ASSUME NEW v, UserMoments(p, u, v)
          PROVE  ListInv'
      <4>1. /\ Starts(p, Request("user", u, {v}, "read", <<u>>))
            /\ UNCHANGED <<blocks, recommended, open, cache, calm, excused>>
        BY <3>5 DEF UserMoments, tables, past
      <4>2. Opens("user", u, "read", <<u>>)
        BY <3>2 DEF Opens
      <4>3. QED
        BY <4>1, <4>2, BeginsAway
    <3>6. QED
      BY <3>1, <3>3, <3>4, <3>5
  <2>2. ASSUME NEW p \in Procs, RelationBegins(p)
        PROVE  ListInv'
    <3>1. PICK u \in Users, v \in Users :
            v # u /\ (Block(p, u, v) \/ Unblock(p, u, v) \/ Follow(p, u, v) \/ Unfollow(u, v))
      BY <2>2 DEF RelationBegins
    <3>2. CASE Block(p, u, v) \/ Unblock(p, u, v)
      BY <3>1, <3>2, BlocksKeep
    <3>3. CASE Follow(p, u, v)
      <4>1. /\ Starts(p, Request("follow", u, v, "read", <<"config">>))
            /\ UNCHANGED <<blocks, recommended, open, cache, calm, excused>>
        BY <3>3 DEF Follow, tables, past
      <4>2. Opens("follow", u, "read", <<"config">>)
        BY DEF Opens
      <4>3. QED
        BY <4>1, <4>2, BeginsAway
    <3>4. CASE Unfollow(u, v)
      BY <3>4, NoneMoves DEF Unfollow
    <3>5. QED
      BY <3>1, <3>2, <3>3, <3>4
  <2>3. ASSUME NEW p \in Procs, MomentBegins(p)
        PROVE  ListInv'
    <3>1. ASSUME NEW u, NEW xs, Publish(p, u, xs)
          PROVE  ListInv'
      <4>1. /\ Starts(p, Request("publish", u, xs, "read", <<"config">>))
            /\ UNCHANGED <<blocks, recommended, open, cache, calm, excused>>
        BY <3>1 DEF Publish, tables, past
      <4>2. Opens("publish", u, "read", <<"config">>)
        BY DEF Opens
      <4>3. QED
        BY <4>1, <4>2, BeginsAway
    <3>2. ASSUME NEW verdict, Review(p, verdict)
          PROVE  ListInv'
      <4>1. /\ Starts(p, Request("review", None, [moment |-> page.moment, media |-> page.media, verdict |-> verdict],
                                 "write", <<>>))
            /\ UNCHANGED <<blocks, recommended, open, cache, calm, excused>>
        BY <3>2 DEF Review, tables, past
      <4>2. Opens("review", None, "write", <<>>)
        BY DEF Opens
      <4>3. QED
        BY <4>1, <4>2, BeginsAway
    <3>3. ASSUME NEW m, Delete(p, m)
          PROVE  ListInv'
      <4>1. /\ Starts(p, Request("delete", None, m, "write", <<>>))
            /\ UNCHANGED <<blocks, recommended, open, cache, calm, excused>>
        BY <3>3 DEF Delete, tables, past
      <4>2. Opens("delete", None, "write", <<>>)
        BY DEF Opens
      <4>3. QED
        BY <4>1, <4>2, BeginsAway
    <3>4. ASSUME NEW m, Looks(m) \/ \E value \in {TRUE, FALSE, None} : Override(m, value)
          PROVE  ListInv'
      BY <3>4, NoneMoves DEF Looks, Override, tables, past
    <3>5. QED
      BY <2>3, <3>1, <3>2, <3>3, <3>4 DEF MomentBegins
  <2>4. CASE SocialNext
    <3>1. CASE RequestMoves
      BY <2>1, <2>2, <2>3, <3>1, ContinuesKeep, ListBeginsKeep DEF RequestMoves
    <3>2. CASE TimePasses
      BY <3>2, TickKeepsLists
    <3>3. QED
      BY <2>4, <3>1, <3>2 DEF SocialNext
  <2>5. ASSUME NEW p \in Procs, Greet(p)
        PROVE  ListInv'
    <3>1. /\ Starts(p, Request("greet", Greeter, day, "read", <<Greeter>>))
          /\ UNCHANGED <<blocks, recommended, open, cache, calm, excused>>
      BY <2>5 DEF Greet, Still, tables, past
    <3>2. Opens("greet", Greeter, "read", <<Greeter>>)
      BY DEF Opens
    <3>3. QED
      BY <3>1, <3>2, BeginsAway
  <2>6. ASSUME NEW p \in Procs, Greets(p) \/ GivesBack(p) \/ Release(p)
        PROVE  ListInv'
    <3>1. /\ proc[p].op = "greet" /\ proc[p].step \in {"go", "release"}
          /\ UNCHANGED <<blocks, recommended, open, cache, calm, excused>>
      BY <2>6 DEF Greets, GivesBack, Release, At, Still, tables, past
    <3>2. CASE proc' = [proc EXCEPT ![p] = Idle]
      BY <3>1, <3>2, EndsAway
    <3>3. CASE proc[p].step = "go" /\ proc' = [proc EXCEPT ![p].step = "release", ![p].got = {day}]
      BY <3>1, <3>3, GoesAway
    <3>4. QED
      BY <2>6, <3>2, <3>3 DEF Greets, GivesBack, Release, At, Ends
  <2>7. ASSUME NEW p \in Procs, Loses(p)
        PROVE  ListInv'
    BY <2>7, ContinuesKeep DEF Loses, Continues
  <2>8. ASSUME NEW p \in Procs, NEW v \in Users \ {Greeter}, Block(p, Greeter, v) \/ Unblock(p, Greeter, v)
        PROVE  ListInv'
    BY <2>8, BlocksKeep, GreeterIsUser
  <2>9. CASE Midnight \/ UNCHANGED allVars
    BY <2>9, NoneMoves DEF Midnight, allVars, vars, tables, past
  <2>10. QED
    BY <2>4, <2>5, <2>6, <2>7, <2>8, <2>9 DEF GreetNext
<1>3. QED
  BY <1>1, <1>2, PTL DEF GreetSpec

(***************************************************************************)
(* CacheCatchesUp: an entry of Redis is behind its table only while a      *)
(* deletion is under way or was crossed, lost or forgotten, and for no     *)
(* longer than its time to live (get_blocked_user_ids, the recommended     *)
(* users, SystemConfig), for every number of users and requests.           *)
(***************************************************************************)
THEOREM CacheIsNotFarBehind == GreetSpec => []CacheCatchesUp
<1>1. ListInv => CacheCatchesUp
  <2> SUFFICES ASSUME ListInv, NEW k \in Keys, cache[k] # None, cache[k].value # Source(k)
               PROVE  (Deleting(k) \/ k \in excused) /\ calm[k] <= TTL(k)
    BY DEF CacheCatchesUp
  <2>1. /\ cache[k].age \in Nat /\ cache[k].age < TTL(k) /\ (Deleting(k) \/ k \in excused)
        /\ calm[k] <= cache[k].age + 1 /\ calm[k] \in Nat
    BY DEF ListInv, ListOK
  <2>2. TTL(k) \in Nat
    BY KeptTimes
  <2>3. QED
    BY <2>1, <2>2
<1>2. QED
  BY <1>1, ListsKept, PTL

-----------------------------------------------------------------------------
(* Moments *)

\* What a request does to the moments stays what it was.
SameWork(r, n) == n.op = r.op /\ n.step = r.step /\ n.what = r.what /\ n.got = r.got

\* The request neither binds media nor writes a review.
WorksElsewhere(r) == ~(r.op = "publish" /\ r.step = "bind") /\ ~(r.op = "review" /\ r.step = "write")

\* A step that binds no media, approves nothing, and shows no page.
MomentsFade ==
  /\ ProcsOK' /\ page' = page /\ hasty \subseteq hasty'
  /\ moments' = [m \in Ids |-> moments'[m]] /\ seen' = [m \in Ids |-> seen'[m]]
  /\ \A m \in Ids :
       /\ IsMoment(moments'[m]) /\ Bound(m)' \subseteq Bound(m) /\ seen[m] \subseteq seen'[m]
       /\ moments[m].status # "none" => moments'[m].status # "none"
       /\ moments'[m].status = "approved" => moments[m].status = "approved"
  /\ \A q \in Procs : SameWork(proc[q], proc'[q]) \/ WorksElsewhere(proc'[q])

\* What showed all media of a moment still does after such a step.
LEMMA ShowsAllFades ==
  ASSUME MomentsFade, NEW m, NEW xs, ShowsAll(m, xs)
  PROVE  ShowsAll(m, xs)'
  BY DEF MomentsFade, ShowsAll

\* Such a step keeps MomentInv.
LEMMA MomentsFadeKeep ==
  ASSUME MomentInv, MomentsFade
  PROVE  MomentInv'
<1>1. ASSUME NEW q \in Procs, Binds(q)'
      PROVE  Binds(q) /\ proc'[q].got = proc[q].got
  BY <1>1 DEF MomentsFade, Binds, At, SameWork, WorksElsewhere
<1>2. ASSUME NEW q \in Procs, Reviews(q)'
      PROVE  Reviews(q) /\ proc'[q].what = proc[q].what
  BY <1>2 DEF MomentsFade, Reviews, At, SameWork, WorksElsewhere
<1>3. \A m \in Ids : moments'[m].status = "approved" => m \in hasty' \/ Bound(m)' \subseteq seen'[m]
  BY DEF MomentInv, MomentsFade
<1>4. page' # None => ShowsAll(page.moment, page.media)'
  <2>1. PICK m, xs : m = page.moment /\ xs = page.media
    OBVIOUS
  <2>2. page # None => ShowsAll(m, xs)
    BY <2>1 DEF MomentInv
  <2>3. page' # None => ShowsAll(m, xs)'
    BY <2>2, ShowsAllFades DEF MomentsFade
  <2>4. page' = page
    BY DEF MomentsFade
  <2>5. QED
    BY <2>1, <2>3, <2>4 DEF ShowsAll, Bound
<1>5. ASSUME NEW p \in Procs
      PROVE  ReviewOK(p)'
  <2>1. PICK w : w = proc[p].what
    OBVIOUS
  <2>2. Reviews(p) => ShowsAll(w.moment, w.media) /\ w.verdict \in {"approved", "rejected"}
    BY <2>1 DEF MomentInv, ReviewOK
  <2>3. Reviews(p)' => ShowsAll(w.moment, w.media)' /\ w.verdict \in {"approved", "rejected"} /\ proc'[p].what = w
    BY <1>2, <2>1, <2>2, ShowsAllFades
  <2>4. QED
    BY <2>3 DEF ReviewOK, ShowsAll, Bound
<1>6. ASSUME NEW p \in Procs
      PROVE  BindOK(p)'
  <2> SUFFICES ASSUME Binds(p)'
               PROVE  \E m \in Ids : BindsTo(p, m)'
    BY DEF BindOK
  <2>1. Binds(p) /\ proc'[p].got = proc[p].got
    BY <1>1
  <2>2. PICK m \in Ids : BindsTo(p, m)
    BY <2>1 DEF MomentInv, BindOK
  <2>3. BindsTo(p, m)'
    BY <1>1, <1>2, <2>1, <2>2 DEF BindsTo, MomentsFade
  <2>4. QED
    BY <2>3
<1>7. QED
  BY <1>3, <1>4, <1>5, <1>6 DEF MomentInv, MomentsFade

\* The moments, their media and the page are what they were, and no request begins to bind or to review.
LEMMA MomentsRest ==
  ASSUME MomentInv, ProcsOK', UNCHANGED <<moments, media, page, seen, hasty>>,
         \A q \in Procs : SameWork(proc[q], proc'[q]) \/ WorksElsewhere(proc'[q])
  PROVE  MomentInv'
<1>1. MomentsFade
  BY DEF MomentsFade, MomentInv, Bound, IsMoment
<1>2. QED
  BY <1>1, MomentsFadeKeep

\* A request that is no review begins.
LEMMA BeginsElsewhere ==
  ASSUME MomentInv, NEW p \in Procs, NEW op, NEW u, NEW what, NEW step, NEW keys,
         Starts(p, Request(op, u, what, step, keys)), Opens(op, u, step, keys), op # "review",
         UNCHANGED <<moments, media, page, seen, hasty>>
  PROVE  MomentInv'
<1>1. ProcsOK /\ step # "bind"
  BY DEF MomentInv, Opens
<1>2. /\ ProcsOK' /\ proc'[p].op = op /\ proc'[p].step = step
      /\ \A q \in Procs \ {p} : proc'[q] = proc[q]
  BY <1>1, Begins
<1>3. \A q \in Procs : SameWork(proc[q], proc'[q]) \/ WorksElsewhere(proc'[q])
  BY <1>1, <1>2 DEF SameWork, WorksElsewhere
<1>4. QED
  BY <1>2, <1>3, MomentsRest

\* A request that ends no longer works on a moment.
LEMMA EndsWork ==
  ASSUME ProcsOK, NEW p \in Procs, proc' = [proc EXCEPT ![p] = Idle]
  PROVE  /\ ProcsOK' /\ \A q \in Procs : SameWork(proc[q], proc'[q]) \/ WorksElsewhere(proc'[q])
         /\ ~Binds(p)' /\ ~Reviews(p)'
<1>1. ProcsOK' /\ proc'[p].op = "idle" /\ \A q \in Procs \ {p} : proc'[q] = proc[q]
  BY EndsIdle
<1>2. QED
  BY <1>1 DEF SameWork, WorksElsewhere, Binds, Reviews, At

\* A request that is known to bind nothing ends.
LEMMA EndsElsewhere ==
  ASSUME MomentInv, NEW p \in Procs, proc' = [proc EXCEPT ![p] = Idle],
         UNCHANGED <<moments, media, page, seen, hasty>>
  PROVE  MomentInv'
  BY EndsWork, MomentsRest DEF MomentInv

\* A page with a pending moment is loaded, with the media bound by now.
LEMMA LooksKeep ==
  ASSUME MomentInv, NEW m \in Ids, Looks(m)
  PROVE  MomentInv'
<1>1. /\ moments[m].status = "pending" /\ page' = [moment |-> m, media |-> Bound(m)]
      /\ hasty' = hasty \cup {h \in {m} : \E p \in Procs : Binds(p) /\ h \in proc[p].got}
      /\ UNCHANGED <<moments, media, seen, proc>>
  BY DEF Looks, Binds
<1>2. hasty \subseteq hasty' /\ ProcsOK' /\ \A n \in Ids : Bound(n)' = Bound(n)
  BY <1>1 DEF MomentInv, ProcsOK, IsProc, IsRequest, Reader, Writer, Bound
<1>3. \A n, xs : ShowsAll(n, xs) => ShowsAll(n, xs)'
  BY <1>1, <1>2 DEF ShowsAll
<1>4. page'.moment = m /\ page'.media = Bound(m)
  BY <1>1
<1>5. ShowsAll(page.moment, page.media)'
  BY <1>1, <1>2, <1>4 DEF ShowsAll
<1>6. ASSUME NEW p \in Procs
      PROVE  ReviewOK(p)'
  <2>1. PICK w : w = proc[p].what
    OBVIOUS
  <2>2. Reviews(p) => ShowsAll(w.moment, w.media)' /\ w.verdict \in {"approved", "rejected"}
    BY <1>3, <2>1 DEF MomentInv, ReviewOK
  <2>3. Reviews(p)' => ShowsAll(w.moment, w.media)' /\ w.verdict \in {"approved", "rejected"} /\ proc'[p].what = w
    BY <1>1, <2>1, <2>2 DEF Reviews, At
  <2>4. QED
    BY <2>3 DEF ReviewOK, ShowsAll, Bound
<1>7. ASSUME NEW p \in Procs
      PROVE  BindOK(p)'
  <2> SUFFICES ASSUME Binds(p)'
               PROVE  \E n \in Ids : BindsTo(p, n)'
    BY DEF BindOK
  <2>1. Binds(p)
    BY <1>1 DEF Binds, At
  <2>2. PICK n \in Ids : BindsTo(p, n)
    BY <2>1 DEF MomentInv, BindOK
  <2>3. page'.moment = n => n \in hasty'
    BY <1>1, <1>4, <2>1, <2>2 DEF BindsTo
  <2>4. BindsTo(p, n)'
    BY <1>1, <1>2, <2>2, <2>3 DEF BindsTo, Binds, Reviews, At
  <2>5. QED
    BY <2>4
<1>8. QED
  BY <1>1, <1>2, <1>5, <1>6, <1>7 DEF MomentInv, IsMoment

\* A review begins with what the page shows.
LEMMA ReviewKeeps ==
  ASSUME MomentInv, NEW p \in Procs, NEW verdict \in {"approved", "rejected"}, Review(p, verdict)
  PROVE  MomentInv'
<1> DEFINE w == [moment |-> page.moment, media |-> page.media, verdict |-> verdict]
<1>1. /\ page # None /\ Starts(p, Request("review", None, w, "write", <<>>))
      /\ UNCHANGED <<moments, media, page, seen, hasty>>
  BY DEF Review, shows
<1>2. Opens("review", None, "write", <<>>)
  BY DEF Opens
<1>3. w.moment = page.moment /\ w.media = page.media /\ w.verdict = verdict
  OBVIOUS
<1> HIDE DEF w
<1>4. /\ ProcsOK' /\ proc'[p].op = "review" /\ proc'[p].what = w /\ proc'[p].step = "write"
      /\ \A q \in Procs \ {p} : proc'[q] = proc[q]
  <2>1. ProcsOK
    BY DEF MomentInv
  <2>2. QED
    BY <1>1, <1>2, <2>1, Begins
<1>5. \A n \in Ids : Bound(n)' = Bound(n)
  BY <1>1 DEF Bound
<1>6. \A n, xs : ShowsAll(n, xs) => ShowsAll(n, xs)'
  BY <1>1, <1>5 DEF ShowsAll
<1>7. ShowsAll(w.moment, w.media)
  BY <1>1, <1>3 DEF MomentInv
<1>8. ASSUME NEW q \in Procs
      PROVE  ReviewOK(q)'
  <2>1. CASE q = p
    <3>1. proc'[q].what = w
      BY <1>4, <2>1
    <3>2. PICK c : c = w
      OBVIOUS
    <3>3. ShowsAll(c.moment, c.media)' /\ c.verdict \in {"approved", "rejected"} /\ proc'[q].what = c
      BY <1>3, <1>6, <1>7, <3>1, <3>2
    <3>4. QED
      BY <3>3 DEF ReviewOK, ShowsAll, Bound
  <2>2. CASE q # p
    <3>1. PICK c : c = proc[q].what
      OBVIOUS
    <3>2. Reviews(q) => ShowsAll(c.moment, c.media)' /\ c.verdict \in {"approved", "rejected"}
      BY <1>6, <3>1 DEF MomentInv, ReviewOK
    <3>3. Reviews(q)' => ShowsAll(c.moment, c.media)' /\ c.verdict \in {"approved", "rejected"} /\ proc'[q].what = c
      BY <1>4, <2>2, <3>1, <3>2 DEF Reviews, At
    <3>4. QED
      BY <3>3 DEF ReviewOK, ShowsAll, Bound
  <2>3. QED
    BY <2>1, <2>2
<1>9. ASSUME NEW q \in Procs
      PROVE  BindOK(q)'
  <2> SUFFICES ASSUME Binds(q)'
               PROVE  \E n \in Ids : BindsTo(q, n)'
    BY DEF BindOK
  <2>1. q # p /\ Binds(q)
    BY <1>4 DEF Binds, At
  <2>2. PICK n \in Ids : BindsTo(q, n)
    BY <2>1 DEF MomentInv, BindOK
  <2>3. w.moment = n => n \in hasty
    BY <1>1, <1>3, <2>2 DEF BindsTo
  <2>4. \A o \in Procs : Reviews(o)' /\ proc'[o].what.moment = n => n \in hasty
    BY <1>4, <2>2, <2>3 DEF BindsTo, Reviews, At
  <2>5. \A o \in Procs \ {q} : Binds(o)' => proc'[o].got # {n}
    BY <1>4, <2>2 DEF BindsTo, Binds, At
  <2>6. proc'[q] = proc[q]
    BY <1>4, <2>1
  <2>7. BindsTo(q, n)'
    BY <1>1, <2>2, <2>4, <2>5, <2>6 DEF BindsTo
  <2>8. QED
    BY <2>7
<1>10. page' # None => ShowsAll(page.moment, page.media)'
  <2>1. PICK m, xs : m = page.moment /\ xs = page.media
    OBVIOUS
  <2>2. ShowsAll(m, xs)'
    BY <1>1, <1>6, <2>1 DEF MomentInv
  <2>3. QED
    BY <1>1, <2>1, <2>2 DEF ShowsAll, Bound
<1>11. QED
  BY <1>1, <1>4, <1>5, <1>8, <1>9, <1>10 DEF MomentInv, IsMoment

\* What a change of one field makes of a moment.
LEMMA MomentField ==
  ASSUME NEW r, IsMoment(r), NEW v
  PROVE  /\ IsMoment([r EXCEPT !.status = v]) /\ [r EXCEPT !.status = v].status = v
         /\ IsMoment([r EXCEPT !.override = v]) /\ [r EXCEPT !.override = v].status = r.status
<1>1. r \in [status : {r.status}, owner : {r.owner}, override : {r.override}]
  BY DEF IsMoment
<1>2. /\ [r EXCEPT !.status = v] = [status |-> v, owner |-> r.owner, override |-> r.override]
      /\ [r EXCEPT !.override = v] = [status |-> r.status, owner |-> r.owner, override |-> v]
  BY <1>1
<1> DEFINE a == [r EXCEPT !.status = v]
           b == [r EXCEPT !.override = v]
<1> HIDE DEF a, b
<1>3. IsMoment(a) /\ a.status = v
  BY <1>2 DEF IsMoment, a
<1>4. IsMoment(b) /\ b.status = r.status
  BY <1>2 DEF IsMoment, b
<1>5. QED
  BY <1>3, <1>4 DEF a, b

\* An administrator recommends a moment, or no longer.
LEMMA OverrideKeeps ==
  ASSUME MomentInv, NEW m \in Ids, NEW value, Override(m, value)
  PROVE  MomentInv'
<1> DEFINE r == [moments[m] EXCEPT !.override = value]
<1>1. moments' = [moments EXCEPT ![m] = r] /\ UNCHANGED <<media, page, seen, hasty, proc>>
  BY DEF Override, MomentInv
<1>2. IsMoment(r) /\ r.status = moments[m].status
  BY MomentField DEF MomentInv
<1> HIDE DEF r
<1>3. moments' = [n \in Ids |-> IF n = m THEN r ELSE moments[n]]
  BY <1>1 DEF MomentInv
<1>4. \A n \in Ids : IsMoment(moments'[n]) /\ moments'[n].status = moments[n].status
  BY <1>2, <1>3 DEF MomentInv
<1>5. moments' = [n \in Ids |-> moments'[n]]
  BY <1>3
<1>6. ProcsOK' /\ \A n \in Ids : Bound(n)' = Bound(n)
  BY <1>1 DEF MomentInv, ProcsOK, IsProc, IsRequest, Reader, Writer, Bound
<1>7. MomentsFade
  BY <1>1, <1>4, <1>5, <1>6 DEF MomentsFade, MomentInv, SameWork
<1>8. QED
  BY <1>7, MomentsFadeKeep

\* A moment loses its media,
LEMMA DeleteKeeps ==
  ASSUME MomentInv, NEW p \in Procs, NEW m, Delete(p, m)
  PROVE  MomentInv'
<1>1. /\ Starts(p, Request("delete", None, m, "write", <<>>)) /\ UNCHANGED <<moments, page, seen, hasty>>
      /\ media' = [x \in Media |-> IF media[x] = m THEN None ELSE media[x]]
  BY DEF Delete
<1>2. Opens("delete", None, "write", <<>>)
  BY DEF Opens
<1>3. /\ ProcsOK' /\ proc'[p].op = "delete" /\ \A q \in Procs \ {p} : proc'[q] = proc[q]
  <2>1. ProcsOK
    BY DEF MomentInv
  <2>2. QED
    BY <1>1, <1>2, <2>1, Begins
<1>4. \A n \in Ids : Bound(n)' \subseteq Bound(n)
  BY <1>1, NothingIsNoUser DEF Bound, Ids
<1>5. MomentsFade
  BY <1>1, <1>3, <1>4 DEF MomentsFade, MomentInv, SameWork, WorksElsewhere, IsMoment
<1>6. QED
  BY <1>5, MomentsFadeKeep

\* and is gone.
LEMMA DeleteWritesKeep ==
  ASSUME MomentInv, NEW p \in Procs, DeleteWrites(p)
  PROVE  MomentInv'
<1> DEFINE r == [NoMoment EXCEPT !.status = "gone"]
           m == proc[p].what
<1>1. /\ moments' = [moments EXCEPT ![m] = r] /\ UNCHANGED <<page, seen, hasty>>
      /\ media' = [x \in Media |-> IF media[x] = m THEN None ELSE media[x]]
      /\ proc' = [proc EXCEPT ![p] = Idle]
  BY DEF DeleteWrites, Ends
<1>2. IsMoment(r) /\ r.status = "gone"
  <2>1. IsMoment(NoMoment)
    BY DEF NoMoment, IsMoment
  <2>2. QED
    BY <2>1, MomentField
<1> HIDE DEF r, m
<1>3. moments' = [n \in Ids |-> IF n = m THEN r ELSE moments[n]]
  BY <1>1 DEF MomentInv
<1>4. \A n \in Ids : Bound(n)' \subseteq Bound(n)
  BY <1>1, NothingIsNoUser DEF Bound, Ids
<1>5. /\ ProcsOK' /\ \A q \in Procs : SameWork(proc[q], proc'[q]) \/ WorksElsewhere(proc'[q])
  BY <1>1, EndsWork DEF MomentInv
<1>6. \A n \in Ids : /\ IsMoment(moments'[n])
                     /\ moments[n].status # "none" => moments'[n].status # "none"
                     /\ moments'[n].status = "approved" => moments[n].status = "approved"
  BY <1>2, <1>3 DEF MomentInv
<1>7. moments' = [n \in Ids |-> moments'[n]]
  BY <1>3
<1>8. MomentsFade
  BY <1>1, <1>4, <1>5, <1>6, <1>7 DEF MomentsFade, MomentInv
<1>9. QED
  BY <1>8, MomentsFadeKeep

\* A moment is created, which nobody can have seen, and one request is to bind its media.
LEMMA PublishCreatesKeep ==
  ASSUME MomentInv, NEW p \in Procs, PublishCreates(p)
  PROVE  MomentInv'
<1>1. PICK m \in Moments :
        /\ At(p, "publish", "create") /\ moments[m] = NoMoment
        /\ moments' = [moments EXCEPT ![m] = [status |-> "pending", owner |-> proc[p].by, override |-> None]]
        /\ proc' = [proc EXCEPT ![p].step = "bind", ![p].got = {m}]
        /\ UNCHANGED <<media, page, seen, hasty>>
  BY DEF PublishCreates
<1> DEFINE r == [status |-> "pending", owner |-> proc[p].by, override |-> None]
<1>2. r.status = "pending" /\ IsMoment(r) /\ m \in Ids /\ moments[m].status = "none"
  BY <1>1 DEF IsMoment, Ids, NoMoment
<1>3. moments' = [n \in Ids |-> IF n = m THEN r ELSE moments[n]]
  BY <1>1 DEF MomentInv
<1> HIDE DEF r
<1>4. /\ ProcsOK' /\ \A q \in Procs \ {p} : proc'[q] = proc[q]
      /\ proc'[p].op = "publish" /\ proc'[p].step = "bind" /\ proc'[p].got = {m}
  <2>1. /\ ProcsOK /\ IsRequest(proc[p]) /\ Reader(proc[p]) /\ proc[p].op \notin Categories
        /\ proc[p].op = "publish"
    BY <1>1 DEF At, MomentInv, ProcsOK, IsProc, Idle, Writer, Categories, Feeds
  <2>2. QED
    BY <1>1, <2>1, GoesOn
<1>5. \A n \in Ids : Bound(n)' = Bound(n)
  BY <1>1 DEF Bound
<1>6. \A n, xs : ShowsAll(n, xs) => n # m /\ ShowsAll(n, xs)'
  BY <1>1, <1>2, <1>3, <1>5 DEF ShowsAll
<1>7. /\ moments' = [n \in Ids |-> moments'[n]]
      /\ \A n \in Ids : /\ IsMoment(moments'[n])
                        /\ moments'[n].status = "approved" => n \in hasty' \/ Bound(n)' \subseteq seen'[n]
  BY <1>1, <1>2, <1>3, <1>5 DEF MomentInv
<1>8. page' # None => ShowsAll(page.moment, page.media)'
  <2>1. PICK n, xs : n = page.moment /\ xs = page.media
    OBVIOUS
  <2>2. page # None => ShowsAll(n, xs)'
    BY <1>6, <2>1 DEF MomentInv
  <2>3. QED
    BY <1>1, <2>1, <2>2 DEF ShowsAll, Bound
<1>9. ASSUME NEW q \in Procs
      PROVE  ReviewOK(q)'
  <2>1. PICK c : c = proc[q].what
    OBVIOUS
  <2>2. Reviews(q) => ShowsAll(c.moment, c.media)' /\ c.verdict \in {"approved", "rejected"}
    BY <1>6, <2>1 DEF MomentInv, ReviewOK
  <2>3. Reviews(q)' => ShowsAll(c.moment, c.media)' /\ c.verdict \in {"approved", "rejected"} /\ proc'[q].what = c
    BY <1>4, <2>1, <2>2 DEF Reviews, At
  <2>4. QED
    BY <2>3 DEF ReviewOK, ShowsAll, Bound
<1>10. ASSUME NEW q \in Procs, Reviews(q)'
       PROVE  Reviews(q) /\ proc'[q].what = proc[q].what /\ proc[q].what.moment # m
  <2>1. Reviews(q) /\ proc'[q].what = proc[q].what
    BY <1>4, <1>10 DEF Reviews, At
  <2>2. QED
    BY <1>6, <2>1 DEF MomentInv, ReviewOK
<1>11. ASSUME NEW q \in Procs \ {p}, Binds(q)'
       PROVE  \E n \in Ids : n # m /\ BindsTo(q, n) /\ BindsTo(q, n)'
  <2>1. Binds(q) /\ proc'[q] = proc[q]
    BY <1>4, <1>11 DEF Binds, At
  <2>2. PICK n \in Ids : BindsTo(q, n)
    BY <2>1 DEF MomentInv, BindOK
  <2>3. n # m
    BY <1>2, <2>2 DEF BindsTo
  <2>4. \A o \in Procs \ {q} : Binds(o)' => proc'[o].got # {n}
    BY <1>4, <2>2, <2>3 DEF BindsTo, Binds, At
  <2>5. \A o \in Procs : Reviews(o)' /\ proc'[o].what.moment = n => n \in hasty
    BY <1>10, <2>2 DEF BindsTo
  <2>6. moments'[n] = moments[n]
    BY <1>3, <2>3
  <2>7. BindsTo(q, n)'
    BY <1>1, <2>1, <2>2, <2>4, <2>5, <2>6 DEF BindsTo
  <2>8. QED
    BY <2>2, <2>3, <2>7
<1>12. BindsTo(p, m)'
  <2>1. moments'[m].status = "pending"
    BY <1>2, <1>3
  <2>2. page # None => page.moment # m
    BY <1>6 DEF MomentInv
  <2>3. \A q \in Procs \ {p} : Binds(q)' => proc'[q].got # {m}
    BY <1>4, <1>11 DEF BindsTo
  <2>4. QED
    BY <1>1, <1>4, <1>10, <2>1, <2>2, <2>3 DEF BindsTo
<1>13. \A q \in Procs : BindOK(q)'
  BY <1>2, <1>11, <1>12 DEF BindOK
<1>14. QED
  BY <1>1, <1>4, <1>7, <1>8, <1>9, <1>13 DEF MomentInv

\* The media are bound to the moment: whoever has it before them has it too early, and nobody else binds to it.
LEMMA PublishBindsKeep ==
  ASSUME MomentInv, NEW p \in Procs, PublishBinds(p)
  PROVE  MomentInv'
<1>1. Binds(p)
  BY DEF PublishBinds, Binds
<1>2. PICK m \in Ids : BindsTo(p, m)
  BY <1>1 DEF MomentInv, BindOK
<1>3. /\ \A x \in Media : media'[x] = m \/ media'[x] = media[x]
      /\ media' = [x \in Media |-> media'[x]] /\ proc' = [proc EXCEPT ![p] = Idle]
      /\ UNCHANGED <<moments, page, seen, hasty>>
  <2>1. (CHOOSE n \in proc[p].got : TRUE) = m
    BY <1>2 DEF BindsTo
  <2>2. QED
    BY <2>1 DEF PublishBinds, Ends
<1>4. /\ ProcsOK' /\ \A q \in Procs : SameWork(proc[q], proc'[q]) \/ WorksElsewhere(proc'[q])
      /\ ~Binds(p)' /\ ~Reviews(p)'
  BY <1>3, EndsWork DEF MomentInv
<1>5. \A n \in Ids : n # m => Bound(n)' \subseteq Bound(n)
  BY <1>3 DEF Bound
<1>6. \A n, xs : ShowsAll(n, xs) /\ (n = m => m \in hasty) => ShowsAll(n, xs)'
  BY <1>3, <1>5 DEF ShowsAll
<1>7. \A n \in Ids : moments'[n].status = "approved" => n \in hasty' \/ Bound(n)' \subseteq seen'[n]
  BY <1>2, <1>3, <1>5 DEF MomentInv, BindsTo
<1>8. page' # None => ShowsAll(page.moment, page.media)'
  <2>1. PICK n, xs : n = page.moment /\ xs = page.media
    OBVIOUS
  <2>2. page # None => ShowsAll(n, xs)'
    BY <1>2, <1>6, <2>1 DEF MomentInv, BindsTo
  <2>3. QED
    BY <1>3, <2>1, <2>2 DEF ShowsAll, Bound
<1>9. ASSUME NEW q \in Procs, Reviews(q)'
      PROVE  Reviews(q) /\ proc'[q].what = proc[q].what
  BY <1>4, <1>9 DEF Reviews, At, SameWork, WorksElsewhere
<1>10. ASSUME NEW q \in Procs, Binds(q)'
       PROVE  Binds(q) /\ proc'[q].got = proc[q].got /\ q # p
  BY <1>4, <1>10 DEF Binds, At, SameWork, WorksElsewhere
<1>11. ASSUME NEW q \in Procs
       PROVE  ReviewOK(q)'
  <2>1. PICK c : c = proc[q].what
    OBVIOUS
  <2>2. Reviews(q) => ShowsAll(c.moment, c.media)' /\ c.verdict \in {"approved", "rejected"}
    BY <1>2, <1>6, <2>1 DEF MomentInv, ReviewOK, BindsTo
  <2>3. Reviews(q)' => ShowsAll(c.moment, c.media)' /\ c.verdict \in {"approved", "rejected"} /\ proc'[q].what = c
    BY <1>9, <2>1, <2>2
  <2>4. QED
    BY <2>3 DEF ReviewOK, ShowsAll, Bound
<1>12. ASSUME NEW q \in Procs
       PROVE  BindOK(q)'
  <2> SUFFICES ASSUME Binds(q)'
               PROVE  \E n \in Ids : BindsTo(q, n)'
    BY DEF BindOK
  <2>1. Binds(q) /\ proc'[q].got = proc[q].got
    BY <1>10
  <2>2. PICK n \in Ids : BindsTo(q, n)
    BY <2>1 DEF MomentInv, BindOK
  <2>3. BindsTo(q, n)'
    BY <1>3, <1>9, <1>10, <2>1, <2>2 DEF BindsTo
  <2>4. QED
    BY <2>3
<1>13. /\ moments' = [n \in Ids |-> moments'[n]] /\ seen' = [n \in Ids |-> seen'[n]]
       /\ \A n \in Ids : IsMoment(moments'[n])
  BY <1>3 DEF MomentInv
<1>14. QED
  BY <1>4, <1>7, <1>8, <1>11, <1>12, <1>13 DEF MomentInv

\* A verdict is written, on the media the administrator saw.
LEMMA ReviewWritesKeep ==
  ASSUME MomentInv, NEW p \in Procs, ReviewWrites(p)
  PROVE  MomentInv'
<1>1. PICK w : w = proc[p].what
  OBVIOUS
<1> DEFINE m == w.moment
           status == IF moments[m].status = "gone" THEN "gone" ELSE w.verdict
           r == [moments[m] EXCEPT !.status = status]
<1>2. Reviews(p) /\ m \in Ids /\ ShowsAll(m, w.media) /\ w.verdict \in {"approved", "rejected"}
  BY <1>1 DEF ReviewWrites, Reviews, MomentInv, ReviewOK, ShowsAll
<1>3. /\ moments' = [moments EXCEPT ![m] = r] /\ UNCHANGED <<media, page, hasty>>
      /\ seen' = [seen EXCEPT ![m] = IF w.verdict = "approved" THEN @ \cup w.media ELSE @]
      /\ proc' = [proc EXCEPT ![p] = Idle]
  BY <1>1, <1>2 DEF ReviewWrites, Reviewed, Ends, MomentInv
<1>4. IsMoment(r) /\ r.status = status
  <2>1. IsMoment(moments[m])
    BY <1>2 DEF MomentInv
  <2> HIDE DEF m, status
  <2>2. QED
    BY <2>1, MomentField
<1> HIDE DEF r
<1>5. moments' = [n \in Ids |-> IF n = m THEN r ELSE moments[n]]
  BY <1>3 DEF MomentInv
<1>6. seen' = [n \in Ids |-> IF n = m /\ w.verdict = "approved" THEN seen[n] \cup w.media ELSE seen[n]]
  BY <1>3 DEF MomentInv
<1>7. /\ ProcsOK' /\ \A q \in Procs : SameWork(proc[q], proc'[q]) \/ WorksElsewhere(proc'[q])
      /\ ~Binds(p)' /\ ~Reviews(p)'
  BY <1>3, EndsWork DEF MomentInv
<1>8. \A n \in Ids : Bound(n)' = Bound(n)
  BY <1>3 DEF Bound
<1>9. \A n \in Ids : /\ IsMoment(moments'[n]) /\ seen[n] \subseteq seen'[n]
                     /\ moments[n].status # "none" => moments'[n].status # "none"
                     /\ n # m => moments'[n].status = moments[n].status
  BY <1>2, <1>4, <1>5, <1>6 DEF MomentInv
<1>10. ASSUME NEW n \in Ids, moments'[n].status = "approved"
       PROVE  n \in hasty' \/ Bound(n)' \subseteq seen'[n]
  <2>1. CASE n # m
    BY <1>3, <1>8, <1>9, <1>10, <2>1 DEF MomentInv
  <2>2. CASE n = m
    <3>1. w.verdict = "approved"
      BY <1>2, <1>4, <1>5, <1>10, <2>2
    <3>2. w.media \subseteq seen'[n]
      BY <1>6, <2>2, <3>1
    <3>3. QED
      BY <1>2, <1>3, <1>8, <2>2, <3>2 DEF ShowsAll
  <2>3. QED
    BY <2>1, <2>2
<1>11. \A n, xs : ShowsAll(n, xs) => ShowsAll(n, xs)'
  BY <1>3, <1>8, <1>9 DEF ShowsAll
<1>12. page' # None => ShowsAll(page.moment, page.media)'
  <2>1. PICK n, xs : n = page.moment /\ xs = page.media
    OBVIOUS
  <2>2. page # None => ShowsAll(n, xs)'
    BY <1>11, <2>1 DEF MomentInv
  <2>3. QED
    BY <1>3, <2>1, <2>2 DEF ShowsAll, Bound
<1>13. ASSUME NEW q \in Procs, Reviews(q)'
       PROVE  Reviews(q) /\ proc'[q].what = proc[q].what
  BY <1>7, <1>13 DEF Reviews, At, SameWork, WorksElsewhere
<1>14. ASSUME NEW q \in Procs, Binds(q)'
       PROVE  Binds(q) /\ proc'[q].got = proc[q].got
  BY <1>7, <1>14 DEF Binds, At, SameWork, WorksElsewhere
<1>15. ASSUME NEW q \in Procs
       PROVE  ReviewOK(q)'
  <2>1. PICK c : c = proc[q].what
    OBVIOUS
  <2>2. Reviews(q) => ShowsAll(c.moment, c.media)' /\ c.verdict \in {"approved", "rejected"}
    BY <1>11, <2>1 DEF MomentInv, ReviewOK
  <2>3. Reviews(q)' => ShowsAll(c.moment, c.media)' /\ c.verdict \in {"approved", "rejected"} /\ proc'[q].what = c
    BY <1>13, <2>1, <2>2
  <2>4. QED
    BY <2>3 DEF ReviewOK, ShowsAll, Bound
<1>16. ASSUME NEW q \in Procs
       PROVE  BindOK(q)'
  <2> SUFFICES ASSUME Binds(q)'
               PROVE  \E n \in Ids : BindsTo(q, n)'
    BY DEF BindOK
  <2>1. Binds(q) /\ proc'[q].got = proc[q].got
    BY <1>14
  <2>2. PICK n \in Ids : BindsTo(q, n)
    BY <2>1 DEF MomentInv, BindOK
  <2>3. moments'[n].status = "approved" => n \in hasty
    BY <1>1, <1>2, <1>9, <2>2 DEF BindsTo
  <2>4. BindsTo(q, n)'
    BY <1>3, <1>9, <1>13, <1>14, <2>1, <2>2, <2>3 DEF BindsTo
  <2>5. QED
    BY <2>4
<1>17. moments' = [n \in Ids |-> moments'[n]] /\ seen' = [n \in Ids |-> seen'[n]]
  BY <1>5, <1>6
<1>18. QED
  BY <1>7, <1>9, <1>10, <1>12, <1>15, <1>16, <1>17 DEF MomentInv

(***************************************************************************)
(* An approved moment has media that an administrator saw when approving   *)
(* it, or a page of it was loaded before its media were bound: however     *)
(* create_moment, the pages, review_moment and delete_moment interleave.   *)
(***************************************************************************)
THEOREM MomentsKept == GreetSpec => []MomentInv
<1>1. GreetInit => MomentInv
  <2> SUFFICES ASSUME GreetInit
               PROVE  MomentInv
    OBVIOUS
  <2>1. /\ proc = [p \in Procs |-> Idle] /\ Idle.op = "idle" /\ page = None
        /\ moments = [m \in Ids |-> IF m = FirstMoment
                                    THEN [status |-> "approved", owner |-> FirstAuthor, override |-> None]
                                    ELSE NoMoment]
        /\ media = [x \in Media |-> None] /\ seen = [m \in Ids |-> {}]
    BY DEF GreetInit, Init, Idle
  <2>2. ProcsOK
    BY <2>1 DEF ProcsOK, IsProc
  <2>3. \A p \in Procs : ReviewOK(p) /\ BindOK(p)
    BY <2>1 DEF ReviewOK, BindOK, Reviews, Binds, At
  <2>4. IsMoment(NoMoment) /\ IsMoment([status |-> "approved", owner |-> FirstAuthor, override |-> None])
    BY DEF IsMoment, NoMoment
  <2>5. \A m \in Ids : IsMoment(moments[m])
    BY <2>1, <2>4
  <2>6. \A m \in Ids : Bound(m) = {}
    BY <2>1, NothingIsNoUser DEF Bound, Ids
  <2>7. moments = [m \in Ids |-> moments[m]] /\ seen = [m \in Ids |-> seen[m]]
    BY <2>1
  <2>8. QED
    BY <2>1, <2>2, <2>3, <2>5, <2>6, <2>7 DEF MomentInv
<1>2. MomentInv /\ [GreetNext]_allVars => MomentInv'
  <2> SUFFICES ASSUME MomentInv, [GreetNext]_allVars
               PROVE  MomentInv'
    OBVIOUS
  <2>1. ASSUME NEW p \in Procs, Continues(p)
        PROVE  MomentInv'
    <3>1. ASSUME proc[p].op # "publish" \/ proc[p].step # "bind", ProcsOK',
                 UNCHANGED <<moments, media, page, seen, hasty>>,
                 \A q \in Procs \ {p} : proc'[q] = proc[q],
                 proc'[p].op = proc[p].op, proc'[p].step \in Reading \cup {"go", "create"}
          PROVE  MomentInv'
      <4>1. \A q \in Procs : SameWork(proc[q], proc'[q]) \/ WorksElsewhere(proc'[q])
        BY <3>1 DEF SameWork, WorksElsewhere, Reading
      <4>2. QED
        BY <3>1, <4>1, MomentsRest
    <3>2. ASSUME proc[p] # Idle, proc[p].step \in Reading, NEW value, Gets(p, value),
                 UNCHANGED <<moments, media, page, seen, hasty>>
          PROVE  MomentInv'
      <4>1. ProcsOK
        BY DEF MomentInv
      <4>2. /\ ProcsOK' /\ \A q \in Procs \ {p} : proc'[q] = proc[q]
            /\ proc'[p].op = proc[p].op /\ proc'[p].step \in Reading \cup {"go", "create"}
        BY <3>2, <4>1, GetsOn DEF Reading
      <4>3. proc[p].step # "bind"
        BY <3>2 DEF Reading
      <4>4. QED
        BY <3>1, <3>2, <4>2, <4>3
    <3>3. CASE Hits(p)
      BY <3>2, <3>3 DEF Hits, Reads, Reading, shows
    <3>4. CASE Sets(p)
      BY <3>2, <3>4 DEF Sets, Reading, shows
    <3>5. CASE LoadsAround(p)
      BY <3>2, <3>5 DEF LoadsAround, Reads, Reading, shows
    <3>6. CASE Loads(p)
      <4> DEFINE n == [proc[p] EXCEPT !.step = "loaded", !.got = Source(Key(p))]
      <4>1. /\ proc' = [proc EXCEPT ![p].step = "loaded", ![p].got = Source(Key(p))]
            /\ proc[p] # Idle /\ proc[p].step \in Reading /\ proc[p].step = "read"
            /\ UNCHANGED <<moments, media, page, seen, hasty>> /\ ProcsOK
        BY <3>6 DEF Loads, Reads, Reading, shows, MomentInv
      <4>2. IsRequest(proc[p]) /\ proc[p].late \in BOOLEAN /\ Reader(proc[p])
        BY <4>1, ReadersKey
      <4>3. HasGot(n, proc[p], Source(Key(p)), proc[p].what, proc[p].keys, "loaded")
        BY <4>2, StepChanges
      <4>4. proc' = [proc EXCEPT ![p] = n]
        BY <4>1 DEF ProcsOK
      <4> HIDE DEF n
      <4>5. IsProc(n)
        <5>1. Reader(n)
          BY <4>1, <4>2, <4>3 DEF Reader, Reading, HasGot
        <5>2. QED
          BY <4>2, <4>3, <5>1 DEF IsProc, HasGot
      <4>6. ProcsOK' /\ proc'[p] = n /\ \A q \in Procs \ {p} : proc'[q] = proc[q]
        BY <4>1, <4>4, <4>5, OneChanges
      <4>7. QED
        BY <3>1, <4>1, <4>3, <4>6 DEF HasGot, Reading
    <3>7. CASE Invalidates(p) \/ Dies(p) \/ FollowWrites(p) \/ FeedAnswers(p)
      BY <3>7, EndsElsewhere DEF Invalidates, Dies, FollowWrites, FeedAnswers, Ends, shows
    <3>8. CASE PublishChecks(p)
      <4>1. /\ proc[p].op = "publish" /\ proc[p].step = "go"
            /\ UNCHANGED <<moments, media, page, seen, hasty>> /\ ProcsOK
        BY <3>8 DEF PublishChecks, At, shows, MomentInv
      <4>2. CASE proc' = [proc EXCEPT ![p].step = "create"]
        <5>1. IsRequest(proc[p]) /\ Reader(proc[p]) /\ proc[p].op \notin Categories
          BY <4>1 DEF ProcsOK, IsProc, Idle, Writer, Categories, Feeds
        <5>2. /\ ProcsOK' /\ \A q \in Procs \ {p} : proc'[q] = proc[q]
              /\ proc'[p].op = proc[p].op /\ proc'[p].step = "create"
          BY <4>1, <4>2, <5>1, GoesOn
        <5>3. QED
          BY <3>1, <4>1, <5>2
      <4>3. CASE proc' = [proc EXCEPT ![p] = Idle]
        BY <4>1, <4>3, EndsElsewhere
      <4>4. QED
        BY <3>8, <4>2, <4>3 DEF PublishChecks, GoesTo, Ends
    <3>9. QED
      BY <2>1, <3>3, <3>4, <3>5, <3>6, <3>7, <3>8, PublishCreatesKeep, PublishBindsKeep,
         ReviewWritesKeep, DeleteWritesKeep DEF Continues
  <2>2. ASSUME NEW p \in Procs, FeedBegins(p)
        PROVE  MomentInv'
    <3>1. PICK u \in Users : \/ \E c \in CategoriesFor : Feed(p, u, c)
                             \/ People(p, u)
                             \/ \E v \in Users \ {u} : UserMoments(p, u, v)
      BY <2>2 DEF FeedBegins
    <3>2. /\ CategoriesFor \subseteq Categories /\ "people" \in Categories /\ "user" \in Categories
          /\ "review" \notin Categories
      BY DEF Categories, CategoriesFor, Feeds
    <3>3. ASSUME NEW c \in CategoriesFor, Feed(p, u, c)
          PROVE  MomentInv'
      <4> DEFINE what == IF c = "following" THEN Following(u) ELSE {}
                 keys == IF c = "recommend" THEN <<"recommended", u>> ELSE <<u>>
      <4>1. /\ Starts(p, Request(c, u, what, "read", keys)) /\ keys \in {<<u>>, <<"recommended", u>>}
            /\ UNCHANGED <<moments, media, page, seen, hasty>>
        BY <3>3 DEF Feed, shows
      <4> HIDE DEF what, keys
      <4>2. Opens(c, u, "read", keys) /\ c # "review"
        BY <3>2, <4>1 DEF Opens
      <4>3. QED
        BY <4>1, <4>2, BeginsElsewhere
    <3>4. CASE People(p, u)
      <4>1. /\ Starts(p, Request("people", u, {}, "read", <<u>>))
            /\ UNCHANGED <<moments, media, page, seen, hasty>>
        BY <3>4 DEF People, shows
      <4>2. Opens("people", u, "read", <<u>>) /\ "people" # "review"
        BY <3>2 DEF Opens
      <4>3. QED
        BY <4>1, <4>2, BeginsElsewhere
    <3>5. ASSUME NEW v, UserMoments(p, u, v)
          PROVE  MomentInv'
      <4>1. /\ Starts(p, Request("user", u, {v}, "read", <<u>>))
            /\ UNCHANGED <<moments, media, page, seen, hasty>>
        BY <3>5 DEF UserMoments, shows
      <4>2. Opens("user", u, "read", <<u>>) /\ "user" # "review"
        BY <3>2 DEF Opens
      <4>3. QED
        BY <4>1, <4>2, BeginsElsewhere
    <3>6. QED
      BY <3>1, <3>3, <3>4, <3>5
  <2>3. ASSUME UNCHANGED <<proc, moments, media, page, seen, hasty>>
        PROVE  MomentInv'
    <3>1. ProcsOK' /\ \A q \in Procs : SameWork(proc[q], proc'[q])
      BY <2>3 DEF MomentInv, ProcsOK, IsProc, IsRequest, Reader, Writer, SameWork
    <3>2. QED
      BY <2>3, <3>1, MomentsRest
  <2>4. ASSUME NEW p \in Procs, NEW u, NEW v, Block(p, u, v) \/ Unblock(p, u, v) \/ Follow(p, u, v) \/ Unfollow(u, v)
        PROVE  MomentInv'
    <3>1. CASE Unfollow(u, v)
      BY <2>3, <3>1 DEF Unfollow, shows
    <3>2. CASE Block(p, u, v) \/ Unblock(p, u, v) \/ Follow(p, u, v)
      <4>1. /\ \/ Starts(p, Request("block", u, {u, v}, "invalidate", <<>>))
               \/ Starts(p, Request("unblock", u, {u, v}, "invalidate", <<>>))
               \/ Starts(p, Request("follow", u, v, "read", <<"config">>))
            /\ UNCHANGED <<moments, media, page, seen, hasty>>
        BY <3>2 DEF Block, Unblock, Follow, shows
      <4>2. /\ Opens("block", u, "invalidate", <<>>) /\ Opens("unblock", u, "invalidate", <<>>)
            /\ Opens("follow", u, "read", <<"config">>)
            /\ "block" # "review" /\ "unblock" # "review" /\ "follow" # "review"
        BY DEF Opens
      <4>3. QED
        BY <4>1, <4>2, BeginsElsewhere
    <3>3. QED
      BY <2>4, <3>1, <3>2
  <2>5. ASSUME NEW p \in Procs, ListBegins(p)
        PROVE  MomentInv'
    <3>1. ASSUME NEW rules, Configure(p, rules)
          PROVE  MomentInv'
      <4>1. /\ Starts(p, Request("configure", None, {"config"}, "invalidate", <<>>))
            /\ UNCHANGED <<moments, media, page, seen, hasty>>
        BY <3>1 DEF Configure, shows
      <4>2. Opens("configure", None, "invalidate", <<>>) /\ "configure" # "review"
        BY DEF Opens
      <4>3. QED
        BY <4>1, <4>2, BeginsElsewhere
    <3>2. ASSUME NEW x, Recommend(x) \/ CreateOrDeleteConfig(x)
          PROVE  MomentInv'
      BY <2>3, <3>2 DEF Recommend, CreateOrDeleteConfig, shows
    <3>3. QED
      BY <2>4, <2>5, <3>1, <3>2 DEF ListBegins
  <2>6. ASSUME NEW p \in Procs, MomentBegins(p)
        PROVE  MomentInv'
    <3>1. ASSUME NEW u, NEW xs, Publish(p, u, xs)
          PROVE  MomentInv'
      <4>1. /\ Starts(p, Request("publish", u, xs, "read", <<"config">>))
            /\ UNCHANGED <<moments, media, page, seen, hasty>>
        BY <3>1 DEF Publish, shows
      <4>2. Opens("publish", u, "read", <<"config">>) /\ "publish" # "review"
        BY DEF Opens
      <4>3. QED
        BY <4>1, <4>2, BeginsElsewhere
    <3>2. QED
      BY <2>6, <3>1, ReviewKeeps, LooksKeep, DeleteKeeps, OverrideKeeps DEF MomentBegins
  <2>7. CASE SocialNext
    <3>1. CASE RequestMoves
      <4>1. PICK p \in Procs :
              Continues(p) \/ FeedBegins(p) \/ RelationBegins(p) \/ ListBegins(p) \/ MomentBegins(p)
        BY <3>1 DEF RequestMoves
      <4>2. CASE RelationBegins(p)
        BY <2>4, <4>2 DEF RelationBegins
      <4>3. QED
        BY <2>1, <2>2, <2>5, <2>6, <4>1, <4>2
    <3>2. CASE TimePasses
      <4>1. ProcsOK' /\ \A q \in Procs : SameWork(proc[q], proc'[q])
        BY <3>2, TickMakesLate DEF MomentInv, SameWork
      <4>2. UNCHANGED <<moments, media, page, seen, hasty>>
        BY <3>2 DEF TimePasses, shows
      <4>3. QED
        BY <4>1, <4>2, MomentsRest
    <3>3. QED
      BY <2>7, <3>1, <3>2 DEF SocialNext
  <2>8. ASSUME NEW p \in Procs, Greet(p)
        PROVE  MomentInv'
    <3>1. /\ Starts(p, Request("greet", Greeter, day, "read", <<Greeter>>))
          /\ UNCHANGED <<moments, media, page, seen, hasty>>
      BY <2>8 DEF Greet, Still, shows
    <3>2. Opens("greet", Greeter, "read", <<Greeter>>) /\ "greet" # "review"
      BY DEF Opens
    <3>3. QED
      BY <3>1, <3>2, BeginsElsewhere
  <2>9. ASSUME NEW p \in Procs, Greets(p) \/ GivesBack(p) \/ Release(p) \/ Loses(p)
        PROVE  MomentInv'
    <3>1. /\ proc[p].op = "greet" /\ UNCHANGED <<moments, media, page, seen, hasty>> /\ ProcsOK
      BY <2>9 DEF Greets, GivesBack, Release, Loses, Dies, At, Still, shows, MomentInv
    <3>2. CASE proc' = [proc EXCEPT ![p] = Idle]
      BY <3>1, <3>2, EndsElsewhere
    <3>3. CASE proc' = [proc EXCEPT ![p].step = "release", ![p].got = {day}]
      <4>1. IsRequest(proc[p]) /\ Reader(proc[p]) /\ proc[p].op \notin Categories
        BY <3>1 DEF ProcsOK, IsProc, Idle, Writer, Categories, Feeds
      <4>2. /\ ProcsOK' /\ \A q \in Procs \ {p} : proc'[q] = proc[q]
            /\ proc'[p].op = proc[p].op /\ proc'[p].step = "release"
        BY <3>1, <3>3, <4>1, GoesOn
      <4>3. \A q \in Procs : SameWork(proc[q], proc'[q]) \/ WorksElsewhere(proc'[q])
        BY <4>2 DEF SameWork, WorksElsewhere
      <4>4. QED
        BY <3>1, <4>2, <4>3, MomentsRest
    <3>4. QED
      BY <2>9, <3>2, <3>3 DEF Greets, GivesBack, Release, Loses, Dies, Ends
  <2>10. CASE Midnight \/ UNCHANGED allVars
    BY <2>3, <2>10 DEF Midnight, allVars, vars, shows
  <2>11. QED
    BY <2>4, <2>7, <2>8, <2>9, <2>10 DEF GreetNext
<1>3. QED
  BY <1>1, <1>2, PTL DEF GreetSpec

(***************************************************************************)
(* FeedIsVetted: what a feed shows was seen by an administrator, and of a  *)
(* user with a block between them, or such a user, it shows something only *)
(* for the time a list is kept and one request (get_moment_feed,           *)
(* get_user_moments, certified_user_list, flirt_user_list), for every      *)
(* number of users, moments, media and requests.                           *)
(***************************************************************************)
THEOREM FeedShowsVetted == GreetSpec => []FeedIsVetted
<1>1. ListInv /\ MomentInv => FeedIsVetted
  <2> SUFFICES ASSUME ListInv, MomentInv, NEW p \in Procs, Answers(p)
               PROVE  /\ \A m \in Rows(p) : m \in hasty \/ Bound(m) \subseteq seen[m]
                      /\ \A v \in {moments[m].owner : m \in Rows(p)} \cup Listed(p) :
                           Related(proc[p].by, v) => calm[proc[p].by] <= ListTTL + 1
    BY DEF FeedIsVetted
  <2>1. \A m \in Rows(p) : m \in hasty \/ Bound(m) \subseteq seen[m]
    BY DEF MomentInv, Rows, Approved
  <2>2. ASSUME NEW v \in {moments[m].owner : m \in Rows(p)} \cup Listed(p), Related(proc[p].by, v)
        PROVE  calm[proc[p].by] <= ListTTL + 1
    <3>1. PICK u : u = proc[p].by
      OBVIOUS
    <3>2. u \in Users /\ proc[p].late \in BOOLEAN
      BY <3>1 DEF Answers, At, ListInv, ProcsOK, IsProc, Reader, Writer, Idle, Categories, Feeds
    <3>3. v \notin proc[p].got
      BY DEF Rows, Listed
    <3>4. v \in Users /\ v # u
      BY <2>2, <3>1, <3>2 DEF ListInv, Related, Blocked
    <3>5. v \in Source(u)
      BY <2>2, <3>1, <3>2, <3>4, UsersAreNoNames DEF Source
    <3>6. calm[u] <= ListTTL + Slow(proc[p])
      BY <3>1, <3>3, <3>5 DEF ListInv, AnswerOK
    <3>7. Slow(proc[p]) \in {0, 1} /\ calm[u] \in Nat /\ ListTTL \in Nat
      BY <3>2, KeptTimes DEF Slow, ListInv
    <3>8. QED
      BY <3>1, <3>6, <3>7
  <2>3. QED
    BY <2>1, <2>2
<1>2. QED
  BY <1>1, ListsKept, MomentsKept, PTL

-----------------------------------------------------------------------------
(* Of pages: steps, and parts of sequences *)

\* What holds of zero, and of each number if of the one before, holds of all.
LEMMA StepByStep ==
  ASSUME NEW n \in Nat, NEW G, 0 \in G, \A k \in 1..n : k - 1 \in G => k \in G
  PROVE  \A k \in 0..n : k \in G
<1> DEFINE Bad == (0..n) \ G
<1>1. ASSUME Bad # {}
      PROVE  FALSE
  <2>1. Bad \subseteq 0..n
    OBVIOUS
  <2>2. \A k \in 0..n : k \in Bad <=> k \notin G
    OBVIOUS
  <2> HIDE DEF Bad
  <2>3. PICK k \in Bad : \A i \in Bad : i >= k
    BY ONLY n \in Nat, <1>1, <2>1, LeastOfSome
  <2>4. k \in 0..n /\ k \notin G /\ k # 0
    BY <2>1, <2>2
  <2>5. k \in 1..n /\ k - 1 \in 0..n /\ ~(k - 1 >= k)
    BY <2>4
  <2>6. k - 1 \in G
    BY <2>2, <2>3, <2>5
  <2>7. QED
    BY <2>4, <2>5, <2>6
<1>2. QED
  BY <1>1

\* A part of a sequence is a sequence of what is there.
LEMMA PartIs ==
  ASSUME NEW S, NEW s \in Seq(S), NEW o \in Nat, NEW l \in Nat
  PROVE  /\ Part(s, o, l) \in Seq(S)
         /\ Len(Part(s, o, l)) = IF Len(s) <= o THEN 0 ELSE IF o + l < Len(s) THEN l ELSE Len(s) - o
         /\ \A i \in 1..Len(Part(s, o, l)) : Part(s, o, l)[i] = s[o + i]
<1> DEFINE m == IF o + l < Len(s) THEN o + l ELSE Len(s)
           p == SubSeq(s, o + 1, m)
<1>1. Len(s) \in Nat /\ o + 1 \in Int /\ m \in Int
  BY LenProperties
<1>2. \A i \in (o + 1)..m : s[i] \in S
  BY <1>1, ElementOfSeq
<1>3. Part(s, o, l) = p
  BY DEF Part
<1>4. /\ p \in Seq(S)
      /\ Len(p) = IF o + 1 <= m THEN m - (o + 1) + 1 ELSE 0
      /\ \A i \in 1..(m - (o + 1) + 1) : p[i] = s[o + 1 + i - 1]
  BY <1>1, <1>2, SubSeqProperties
<1> HIDE DEF p
<1>5. Len(p) = IF Len(s) <= o THEN 0 ELSE IF o + l < Len(s) THEN l ELSE Len(s) - o
  BY <1>1, <1>4
<1>6. \A i \in 1..Len(p) : p[i] = s[o + i]
  BY <1>1, <1>4
<1>7. QED
  BY <1>3, <1>4, <1>5, <1>6

\* With one more at the end a part is what it was, or has that one more.
LEMMA PartOfAppend ==
  ASSUME NEW S, NEW s \in Seq(S), NEW x \in S, NEW o \in Nat, NEW l \in Nat
  PROVE  Part(Append(s, x), o, l) =
           IF Len(s) < o \/ o + l <= Len(s) THEN Part(s, o, l) ELSE Append(Part(s, o, l), x)
<1> DEFINE t == Append(s, x)
           p == Part(s, o, l)
           q == Part(t, o, l)
<1>1. /\ t \in Seq(S) /\ Len(t) = Len(s) + 1 /\ t[Len(s) + 1] = x /\ Len(s) \in Nat
      /\ \A i \in 1..Len(s) : t[i] = s[i]
  BY AppendProperties, LenProperties
<1> HIDE DEF t
<1>2. /\ p \in Seq(S)
      /\ Len(p) = IF Len(s) <= o THEN 0 ELSE IF o + l < Len(s) THEN l ELSE Len(s) - o
      /\ \A i \in 1..Len(p) : p[i] = s[o + i]
  BY PartIs
<1>3. /\ q \in Seq(S)
      /\ Len(q) = IF Len(t) <= o THEN 0 ELSE IF o + l < Len(t) THEN l ELSE Len(t) - o
      /\ \A i \in 1..Len(q) : q[i] = t[o + i]
  <2>1. t \in Seq(S)
    BY <1>1
  <2>2. QED
    BY ONLY <2>1, o \in Nat, l \in Nat, PartIs
<1> HIDE DEF p, q
<1>4. CASE Len(s) < o \/ o + l <= Len(s)
  <2>1. Len(q) = Len(p)
    BY <1>1, <1>2, <1>3, <1>4
  <2>2. \A i \in 1..Len(q) : q[i] = p[i]
    BY <1>1, <1>2, <1>3, <1>4, <2>1
  <2>3. q = p
    BY <1>2, <1>3, <2>1, <2>2, SeqEqual
  <2>4. QED
    BY <1>4, <2>3 DEF p, q, t
<1>5. CASE ~(Len(s) < o \/ o + l <= Len(s))
  <2> DEFINE r == Append(p, x)
  <2>1. r \in Seq(S) /\ Len(r) = Len(p) + 1 /\ r[Len(p) + 1] = x /\ \A i \in 1..Len(p) : r[i] = p[i]
    BY <1>2, AppendProperties
  <2> HIDE DEF r
  <2>2. Len(p) = Len(s) - o /\ Len(q) = Len(s) - o + 1
    BY <1>1, <1>2, <1>3, <1>5
  <2>3. ASSUME NEW i \in 1..Len(q)
        PROVE  q[i] = r[i]
    <3>1. q[i] = t[o + i]
      BY <1>3
    <3>2. CASE i \in 1..Len(p)
      <4>1. o + i \in 1..Len(s)
        BY <1>1, <1>5, <2>2, <3>2
      <4>2. QED
        BY <1>1, <1>2, <2>1, <3>1, <3>2, <4>1
    <3>3. CASE i = Len(p) + 1
      <4>1. o + i = Len(s) + 1
        BY <1>1, <1>5, <2>2, <3>3
      <4>2. QED
        BY <1>1, <2>1, <3>1, <3>3, <4>1
    <3>4. QED
      BY <1>1, <1>5, <2>2, <3>2, <3>3
  <2>4. q = r
    BY <1>3, <2>1, <2>2, <2>3, SeqEqual
  <2>5. QED
    BY <1>5, <2>4 DEF p, q, r, t
<1>6. QED
  BY <1>4, <1>5

\* A part of two sequences is a part of the first, and what is left of it a part of the second.
LEMMA PartOfConcat ==
  ASSUME NEW S, NEW s \in Seq(S), NEW t \in Seq(S), NEW o \in Nat, NEW l \in Nat
  PROVE  Part(s \o t, o, l) = Part(s, o, l) \o Part(t, Less(o, Len(s)), l - Len(Part(s, o, l)))
<1> DEFINE u == s \o t
           p == Part(s, o, l)
           d == Less(o, Len(s))
           k == l - Len(p)
           q == Part(t, d, k)
           v == Part(u, o, l)
           w == p \o q
<1>1. Len(s) \in Nat /\ Len(t) \in Nat
  BY LenProperties
<1>2. /\ u \in Seq(S) /\ Len(u) = Len(s) + Len(t)
      /\ \A i \in 1..(Len(s) + Len(t)) : u[i] = IF i <= Len(s) THEN s[i] ELSE t[i - Len(s)]
  BY ConcatProperties
<1> HIDE DEF u
<1>3. /\ p \in Seq(S)
      /\ Len(p) = IF Len(s) <= o THEN 0 ELSE IF o + l < Len(s) THEN l ELSE Len(s) - o
      /\ \A i \in 1..Len(p) : p[i] = s[o + i]
  BY PartIs
<1> HIDE DEF p
<1>4. k \in Nat /\ d \in Nat /\ d = IF o > Len(s) THEN o - Len(s) ELSE 0
  BY <1>1, <1>3 DEF Less
<1> HIDE DEF k, d
<1>5. /\ q \in Seq(S)
      /\ Len(q) = IF Len(t) <= d THEN 0 ELSE IF d + k < Len(t) THEN k ELSE Len(t) - d
      /\ \A i \in 1..Len(q) : q[i] = t[d + i]
  <2>1. k \in Nat /\ d \in Nat
    BY <1>4
  <2>2. QED
    BY ONLY <2>1, t \in Seq(S), PartIs
<1> HIDE DEF q
<1>6. /\ v \in Seq(S)
      /\ Len(v) = IF Len(u) <= o THEN 0 ELSE IF o + l < Len(u) THEN l ELSE Len(u) - o
      /\ \A i \in 1..Len(v) : v[i] = u[o + i]
  <2>1. u \in Seq(S)
    BY <1>2
  <2>2. QED
    BY ONLY <2>1, o \in Nat, l \in Nat, PartIs
<1> HIDE DEF v
<1>7. /\ w \in Seq(S) /\ Len(w) = Len(p) + Len(q)
      /\ \A i \in 1..(Len(p) + Len(q)) : w[i] = IF i <= Len(p) THEN p[i] ELSE q[i - Len(p)]
  BY <1>3, <1>5, ConcatProperties
<1> HIDE DEF w
<1> DEFINE m == Len(s)
           n == Len(t)
           a == Len(p)
           b == Len(q)
           c == Len(v)
<1>8. /\ m \in Nat /\ n \in Nat /\ k = l - a
      /\ a = IF m <= o THEN 0 ELSE IF o + l < m THEN l ELSE m - o
      /\ b = IF n <= d THEN 0 ELSE IF d + k < n THEN k ELSE n - d
      /\ c = IF m + n <= o THEN 0 ELSE IF o + l < m + n THEN l ELSE m + n - o
      /\ d = IF o > m THEN o - m ELSE 0
  BY <1>1, <1>2, <1>3, <1>4, <1>5, <1>6, <1>7 DEF k
<1>9. /\ \A i \in 1..(m + n) : u[i] = IF i <= m THEN s[i] ELSE t[i - m]
      /\ \A i \in 1..a : p[i] = s[o + i]
      /\ \A i \in 1..b : q[i] = t[d + i]
      /\ \A i \in 1..c : v[i] = u[o + i]
      /\ \A i \in 1..(a + b) : w[i] = IF i <= a THEN p[i] ELSE q[i - a]
  BY <1>2, <1>3, <1>5, <1>6, <1>7
<1>10. /\ v \in Seq(S) /\ w \in Seq(S) /\ Len(w) = a + b /\ (c = Len(w) => Len(v) = Len(w))
       /\ (\A i \in 1..c : v[i] = w[i]) => \A i \in 1..Len(v) : v[i] = w[i]
  BY <1>3, <1>5, <1>6, <1>7
<1> HIDE DEF m, n, a, b, c
<1>11. c = a + b
  BY <1>8
<1>12. ASSUME NEW i \in 1..c
       PROVE  v[i] = w[i]
  <2>1. c \in Nat /\ o \in Nat /\ i \in Nat \ {0} /\ i <= c
    BY <1>8
  <2>2. o + i <= m + n
    BY <1>8, <2>1
  <2>3. v[i] = u[o + i] /\ o + i \in 1..(m + n) /\ i \in 1..(a + b)
    BY <1>8, <1>9, <1>11, <2>1, <2>2
  <2>4. CASE i <= a
    <3>1. o + i <= m /\ i \in 1..a
      BY <1>8, <2>1, <2>4
    <3>2. QED
      BY <1>9, <2>3, <2>4, <3>1
  <2>5. CASE ~(i <= a)
    <3>1. ~(o + i <= m) /\ d + (i - a) = (o + i) - m
      BY <1>8, <2>1, <2>2, <2>5
    <3>2. i - a \in 1..b
      BY <1>8, <1>11, <2>1, <2>5
    <3>3. w[i] = q[i - a]
      BY <1>9, <2>3, <2>5
    <3>4. q[i - a] = t[d + (i - a)]
      BY <1>9, <3>2
    <3>5. u[o + i] = t[(o + i) - m]
      <4> DEFINE j == o + i
      <4>1. j \in 1..(m + n) /\ ~(j <= m)
        BY <2>3, <3>1
      <4> HIDE DEF j
      <4>2. u[j] = t[j - m]
        BY <1>9, <4>1
      <4>3. QED
        BY <4>2 DEF j
    <3>6. QED
      BY <2>3, <3>1, <3>3, <3>4, <3>5
  <2>6. QED
    BY <1>8, <2>1, <2>4, <2>5
<1>13. v = w
  BY <1>8, <1>10, <1>11, <1>12, SeqEqual
<1>14. QED
  BY <1>13 DEF v, w, p, q, d, k, u

-----------------------------------------------------------------------------
(* The candidates of a rank *)

\* A function collects the candidates of a rank among the first n.
Selects(list, rank, n, f) ==
  f = [k \in 0..n |-> IF k = 0 THEN <<>>
                      ELSE IF list[k].rank = rank THEN Append(f[k - 1], list[k])
                      ELSE f[k - 1]]

Selected(list, rank) == CHOOSE f : Selects(list, rank, Len(list), f)

\* The candidates of a rank are collected to the last.
LEMMA OfRankIsSelected ==
  ASSUME NEW list, NEW rank
  PROVE  OfRank(list, rank) = Selected(list, rank)[Len(list)]
  BY DEF OfRank, Selected, Selects

\* There is such a function.
LEMMA SelectionExists ==
  ASSUME NEW list, NEW rank, Len(list) \in Nat
  PROVE  Selects(list, rank, Len(list), Selected(list, rank))
<1> DEFINE n == Len(list)
           G == {k \in 0..n : \E f : Selects(list, rank, k, f)}
<1>1. 0 \in G
  <2>1. Selects(list, rank, 0, [k \in 0..0 |-> <<>>])
    BY DEF Selects
  <2>2. QED
    BY <2>1
<1>2. ASSUME NEW k \in 1..n, k - 1 \in G
      PROVE  k \in G
  <2>1. PICK f : Selects(list, rank, k - 1, f)
    BY <1>2
  <2> DEFINE g == [i \in 0..k |-> IF i < k THEN f[i]
                                  ELSE IF list[k].rank = rank THEN Append(f[k - 1], list[k])
                                  ELSE f[k - 1]]
             Goes(i, h) == IF i = 0 THEN <<>>
                           ELSE IF list[i].rank = rank THEN Append(h[i - 1], list[i])
                           ELSE h[i - 1]
  <2>2. \A i \in 0..(k - 1) : f[i] = Goes(i, f)
    BY <2>1 DEF Selects
  <2>3. ASSUME NEW i \in 0..k
        PROVE  g[i] = Goes(i, g)
    <3>1. CASE i = 0
      BY <2>2, <3>1
    <3>2. CASE i # 0
      <4>1. i \in 1..k /\ i - 1 \in 0..k /\ i - 1 < k
        BY <3>2
      <4>2. g[i - 1] = f[i - 1]
        BY <4>1
      <4>3. CASE i = k
        BY <3>2, <4>2, <4>3
      <4>4. CASE i < k
        <5>1. g[i] = f[i] /\ i \in 0..(k - 1)
          BY <4>1, <4>4
        <5>2. QED
          BY <2>2, <3>2, <4>2, <5>1
      <4>5. QED
        BY <4>3, <4>4
    <3>3. QED
      BY <3>1, <3>2
  <2>4. g = [i \in 0..k |-> Goes(i, g)]
    BY <2>3
  <2>5. Selects(list, rank, k, g)
    BY <2>4 DEF Selects
  <2>6. QED
    BY <2>5
<1>3. n \in 0..n
  OBVIOUS
<1> HIDE DEF G
<1>4. n \in G
  BY <1>1, <1>2, <1>3, StepByStep
<1>5. QED
  BY <1>4 DEF G, Selected

\* It starts with none, and has one more at each candidate of the rank.
LEMMA SelectionGoesOn ==
  ASSUME NEW S, NEW list \in Seq(S), NEW rank, NEW F, F = Selected(list, rank)
  PROVE  /\ F[0] = <<>>
         /\ \A k \in 1..Len(list) :
              F[k] = IF list[k].rank = rank THEN Append(F[k - 1], list[k]) ELSE F[k - 1]
         /\ \A k \in 0..Len(list) : F[k] \in Seq(S)
<1> DEFINE n == Len(list)
           G == {k \in 0..n : F[k] \in Seq(S)}
<1>0. n \in Nat
  BY LenProperties
<1>1. F[0] = <<>>
  BY <1>0, SelectionExists DEF Selects
<1>2. ASSUME NEW k \in 1..n
      PROVE  F[k] = IF list[k].rank = rank THEN Append(F[k - 1], list[k]) ELSE F[k - 1]
  <2>1. Selects(list, rank, n, F)
    BY <1>0, SelectionExists
  <2>2. k \in 0..n /\ k # 0
    BY <1>0
  <2>3. QED
    BY <2>1, <2>2 DEF Selects
<1>3. 0 \in G
  <2>1. 0 \in 0..n
    BY <1>0
  <2>2. QED
    BY <1>1, <2>1, EmptySeq
<1>4. ASSUME NEW k \in 1..n, k - 1 \in G
      PROVE  k \in G
  <2>1. list[k] \in S
    BY ElementOfSeq
  <2>2. F[k - 1] \in Seq(S)
    BY <1>4
  <2>3. Append(F[k - 1], list[k]) \in Seq(S)
    BY <2>1, <2>2, AppendProperties
  <2>4. k \in 0..n
    BY <1>0
  <2>5. F[k] \in Seq(S)
    BY <1>2, <2>2, <2>3
  <2>6. QED
    BY <2>4, <2>5
<1>5. \A k \in 0..n : k \in G
  <2> HIDE DEF G, n
  <2>1. QED
    BY <1>0, <1>3, <1>4, StepByStep
<1>6. QED
  BY <1>1, <1>2, <1>5

-----------------------------------------------------------------------------
(* The walk through the candidates of a rank *)

\* A function walks through the first n candidates.
Walks(list, rank, o, l, n, f) ==
  f = [k \in 0..n |-> IF k = 0 THEN [seen |-> 0, taken |-> <<>>]
                      ELSE Visit(f[k - 1], list[k], rank, o, l)]

\* Of the candidates it met, the walk has counted those until the page was full, and taken a part.
Met(s, o, l) == [seen |-> IF o + l < Len(s) THEN o + l ELSE Len(s), taken |-> Part(s, o, l)]

\* A visit of a candidate of the rank goes on from what was met.
LEMMA VisitMeets ==
  ASSUME NEW S, NEW s \in Seq(S), NEW x \in S, NEW o \in Nat, NEW l \in Nat \ {0}
  PROVE  Visit(Met(s, o, l), x, x.rank, o, l) = Met(Append(s, x), o, l)
<1> DEFINE n == Len(s)
           p == Part(s, o, l)
           t == Append(s, x)
           w == Met(s, o, l)
<1>1. n \in Nat /\ Len(t) = n + 1 /\ l \in Nat
  BY LenProperties, AppendProperties
<1>2. /\ Len(p) \in Nat
      /\ Len(p) = IF n <= o THEN 0 ELSE IF o + l < n THEN l ELSE n - o
  <2>1. l \in Nat
    BY <1>1
  <2>2. p \in Seq(S) /\ Len(p) = IF n <= o THEN 0 ELSE IF o + l < n THEN l ELSE n - o
    BY ONLY <2>1, s \in Seq(S), o \in Nat, PartIs
  <2>3. QED
    BY <2>2, LenProperties
<1>3. Part(t, o, l) = IF n < o \/ o + l <= n THEN p ELSE Append(p, x)
  BY <1>1, PartOfAppend
<1>4. w.seen = (IF o + l < n THEN o + l ELSE n) /\ w.taken = p /\ w = [seen |-> w.seen, taken |-> p]
  BY DEF Met
<1>5. Met(t, o, l) = [seen |-> IF o + l < n + 1 THEN o + l ELSE n + 1, taken |-> Part(t, o, l)]
  BY <1>1 DEF Met
<1>6. Visit(w, x, x.rank, o, l) = IF Len(p) >= l THEN w
                                  ELSE IF w.seen < o THEN [w EXCEPT !.seen = @ + 1]
                                  ELSE [seen |-> w.seen + 1, taken |-> Append(p, x)]
  BY <1>4 DEF Visit, Full, PassesOver
<1> HIDE DEF n, p, t, w
<1>7. CASE o + l <= n
  <2>1. Len(p) >= l /\ w.seen = o + l
    BY <1>1, <1>2, <1>4, <1>7
  <2>2. Met(t, o, l) = [seen |-> o + l, taken |-> p]
    BY <1>1, <1>3, <1>5, <1>7
  <2>3. QED
    BY <1>4, <1>6, <2>1, <2>2 DEF n, p, t, w
<1>8. CASE n < o
  <2>1. ~(Len(p) >= l) /\ w.seen = n
    BY <1>1, <1>2, <1>4, <1>8
  <2>2. Met(t, o, l) = [seen |-> n + 1, taken |-> p]
    BY <1>1, <1>3, <1>5, <1>8
  <2>3. [w EXCEPT !.seen = @ + 1] = [seen |-> n + 1, taken |-> p]
    BY <1>4, <2>1
  <2>4. QED
    BY <1>6, <1>8, <2>1, <2>2, <2>3 DEF w, t
<1>9. CASE o <= n /\ n < o + l
  <2>1. ~(Len(p) >= l) /\ w.seen = n /\ ~(n < o)
    BY <1>1, <1>2, <1>4, <1>9
  <2>2. Met(t, o, l) = [seen |-> n + 1, taken |-> Append(p, x)]
    <3>1. Part(t, o, l) = Append(p, x)
      BY <1>1, <1>3, <1>9
    <3>2. (IF o + l < n + 1 THEN o + l ELSE n + 1) = n + 1
      BY <1>1, <1>9
    <3>3. QED
      BY <1>5, <3>1, <3>2
  <2>3. QED
    BY <1>6, <2>1, <2>2 DEF w, t
<1>10. QED
  BY <1>1, <1>7, <1>8, <1>9

\* The walk meets the candidates of the rank.
LEMMA WalkMeets ==
  ASSUME NEW S, NEW list \in Seq(S), NEW rank, NEW o \in Nat, NEW l \in Nat \ {0}, NEW m \in Nat, Len(list) <= m
  PROVE  FetchRank(list, rank, o, l, m) = Met(OfRank(list, rank), o, l)
<1> DEFINE n == Len(list)
           F == Selected(list, rank)
           f == CHOOSE h : Walks(list, rank, o, l, n, h)
           G == {k \in 0..n : f[k] = Met(F[k], o, l)}
<1>1. n \in Nat /\ (IF m < n THEN m ELSE n) = n
  BY LenProperties
<1>2. FetchRank(list, rank, o, l, m) = f[n]
  BY <1>1 DEF FetchRank, Walks
<1>3. /\ F[0] = <<>>
      /\ \A k \in 1..n : F[k] = IF list[k].rank = rank THEN Append(F[k - 1], list[k]) ELSE F[k - 1]
      /\ \A k \in 0..n : F[k] \in Seq(S)
  <2>1. F = Selected(list, rank)
    OBVIOUS
  <2> HIDE DEF F
  <2>2. QED
    BY <2>1, SelectionGoesOn
<1>4. OfRank(list, rank) = F[n]
  BY OfRankIsSelected
<1> HIDE DEF F
<1>5. Met(<<>>, o, l) = [seen |-> 0, taken |-> <<>>]
  <2>1. Part(<<>>, o, l) = <<>>
    <3> DEFINE e == <<>>
    <3>1. e \in Seq(S) /\ Len(e) = 0 /\ l \in Nat
      BY EmptySeq
    <3> HIDE DEF e
    <3>2. /\ Part(e, o, l) \in Seq(S)
          /\ Len(Part(e, o, l)) = IF Len(e) <= o THEN 0 ELSE IF o + l < Len(e) THEN l ELSE Len(e) - o
      <4>1. e \in Seq(S) /\ o \in Nat /\ l \in Nat
        BY <3>1
      <4>2. QED
        BY ONLY <4>1, PartIs
    <3>3. Len(e) <= o
      BY <3>1
    <3>4. QED
      BY <3>2, <3>3, EmptySeq DEF e
  <2>2. (IF o + l < 0 THEN o + l ELSE 0) = 0
    OBVIOUS
  <2>3. QED
    BY <2>1, <2>2, EmptySeq DEF Met
<1>6. ASSUME NEW k \in 1..n
      PROVE  Visit(Met(F[k - 1], o, l), list[k], rank, o, l) = Met(F[k], o, l)
  <2>1. list[k] \in S /\ F[k - 1] \in Seq(S)
    BY <1>1, <1>3, ElementOfSeq
  <2>2. CASE list[k].rank = rank
    BY <1>3, <2>1, <2>2, VisitMeets
  <2>3. CASE list[k].rank # rank
    BY <1>3, <2>3 DEF Visit
  <2>4. QED
    BY <2>2, <2>3
<1>7. Walks(list, rank, o, l, n, f)
  <2> DEFINE g == [k \in 0..n |-> Met(F[k], o, l)]
  <2>1. ASSUME NEW k \in 0..n
        PROVE  Met(F[k], o, l) = IF k = 0 THEN [seen |-> 0, taken |-> <<>>]
                                 ELSE Visit(g[k - 1], list[k], rank, o, l)
    <3>1. CASE k = 0
      BY <1>3, <1>5, <3>1
    <3>2. CASE k # 0
      <4>1. k \in 1..n /\ k - 1 \in 0..n
        BY <1>1, <3>2
      <4>2. QED
        BY <1>6, <3>2, <4>1
    <3>3. QED
      BY <3>1, <3>2
  <2>2. Walks(list, rank, o, l, n, g)
    BY <2>1 DEF Walks
  <2>3. QED
    BY <2>2
<1> HIDE DEF f
<1>8. 0 \in G
  <2>1. 0 \in 0..n
    BY <1>1
  <2>2. QED
    BY <1>3, <1>5, <1>7, <2>1 DEF Walks
<1>9. ASSUME NEW k \in 1..n, k - 1 \in G
      PROVE  k \in G
  <2>1. k \in 0..n /\ k # 0 /\ f[k - 1] = Met(F[k - 1], o, l)
    BY <1>1, <1>9
  <2>2. f[k] = Visit(f[k - 1], list[k], rank, o, l)
    BY <1>7, <2>1 DEF Walks
  <2>3. QED
    BY <1>6, <2>1, <2>2
<1>10. n \in G
  <2>1. n \in 0..n
    BY <1>1
  <2> HIDE DEF G, n
  <2>2. QED
    BY <1>1, <1>8, <1>9, <2>1, StepByStep
<1>11. QED
  BY <1>2, <1>4, <1>10

-----------------------------------------------------------------------------
(* The pages *)

\* The page after the candidates s of the first ranks.
PageOf(s, o, l) == [users |-> Part(s, o, l), offset |-> Less(o, Len(s))]

\* The candidates of a rank are a list of candidates.
LEMMA OfRankIsList ==
  ASSUME NEW S, NEW list \in Seq(S), NEW rank
  PROVE  OfRank(list, rank) \in Seq(S)
<1> DEFINE F == Selected(list, rank)
           n == Len(list)
<1>1. n \in 0..n
  BY LenProperties
<1>2. F = Selected(list, rank)
  OBVIOUS
<1> HIDE DEF F
<1>3. F[n] \in Seq(S)
  BY <1>1, <1>2, SelectionGoesOn
<1>4. QED
  BY <1>3, OfRankIsSelected DEF F

\* A part no longer than nothing is nothing.
LEMMA PartOfNone ==
  ASSUME NEW S, NEW s \in Seq(S), NEW o \in Nat
  PROVE  Part(s, o, 0) = <<>>
<1>1. 0 \in Nat
  OBVIOUS
<1>2. /\ Part(s, o, 0) \in Seq(S)
      /\ Len(Part(s, o, 0)) = IF Len(s) <= o THEN 0 ELSE IF o + 0 < Len(s) THEN 0 ELSE Len(s) - o
  BY ONLY <1>1, s \in Seq(S), o \in Nat, PartIs
<1>3. Len(Part(s, o, 0)) = 0
  BY <1>2, LenProperties
<1>4. QED
  BY <1>2, <1>3, EmptySeq

\* The candidates of one more rank are put after those of the ranks before.
LEMMA RankIsAppended ==
  ASSUME NEW S, NEW s \in Seq(S), NEW list \in Seq(S), NEW rank, NEW o \in Nat, NEW l \in Nat \ {0},
         NEW m \in Nat, Len(list) <= m
  PROVE  AppendRank(PageOf(s, o, l), list, rank, l, m) = PageOf(s \o OfRank(list, rank), o, l)
<1> DEFINE t     == OfRank(list, rank)
           p     == Part(s, o, l)
           d     == Less(o, Len(s))
           k     == l - Len(p)
           prior == PageOf(s, o, l)
           walk  == FetchRank(list, rank, d, k, m)
           a     == Len(s)
           b     == Len(t)
<1>1. l \in Nat /\ t \in Seq(S) /\ a \in Nat /\ b \in Nat
  BY OfRankIsList, LenProperties
<1>2. prior.users = p /\ prior.offset = d /\ prior = [users |-> p, offset |-> d]
  BY DEF PageOf
<1>3. AppendRank(prior, list, rank, l, m) = IF Len(p) >= l THEN prior
                                            ELSE [users |-> p \o walk.taken, offset |-> Less(d, walk.seen)]
  BY <1>2 DEF AppendRank
<1>4. s \o t \in Seq(S) /\ Len(s \o t) = a + b
  BY <1>1, ConcatProperties
<1>5. PageOf(s \o t, o, l) = [users |-> Part(s \o t, o, l), offset |-> Less(o, a + b)]
  BY <1>4 DEF PageOf
<1>6. Part(s \o t, o, l) = p \o Part(t, d, k)
  BY <1>1, PartOfConcat
<1>7. p \in Seq(S) /\ Len(p) = IF a <= o THEN 0 ELSE IF o + l < a THEN l ELSE a - o
  BY ONLY s \in Seq(S), o \in Nat, <1>1, PartIs
<1>8. d \in Nat /\ d = IF o > a THEN o - a ELSE 0
  BY <1>1 DEF Less
<1>9. Len(p) < l => walk = Met(t, d, k)
  <2>1. ASSUME Len(p) < l
        PROVE  walk = Met(t, d, k)
    <3>1. k \in Nat \ {0}
      BY <1>1, <1>7, <2>1
    <3> HIDE DEF k, d
    <3>2. QED
      BY <1>8, <3>1, WalkMeets
  <2>2. QED
    BY <2>1
<1> HIDE DEF walk, prior, t, a, b, d, p
<1>10. CASE Len(p) >= l
  <2>1. Len(p) = l /\ k = 0 /\ o + l <= a
    BY <1>1, <1>7, <1>10
  <2>2. Part(t, d, k) = <<>>
    BY <1>1, <1>8, <2>1, PartOfNone
  <2>3. p \o <<>> = p
    BY <1>7, ConcatEmptySeq
  <2>4. Less(o, a + b) = 0 /\ d = 0
    BY <1>1, <1>8, <2>1 DEF Less
  <2>5. QED
    BY <1>2, <1>3, <1>5, <1>6, <1>10, <2>2, <2>3, <2>4 DEF prior, t
<1>11. CASE ~(Len(p) >= l)
  <2>1. Len(p) \in Nat
    BY <1>7, LenProperties
  <2>2. walk = Met(t, d, k) /\ k \in Nat \ {0}
    BY <1>1, <1>9, <1>11, <2>1
  <2> HIDE DEF k
  <2>3. walk.taken = Part(t, d, k) /\ walk.seen = IF d + k < b THEN d + k ELSE b
    BY <2>2 DEF Met, b
  <2>4. Less(d, walk.seen) = Less(o, a + b)
    BY <1>1, <1>8, <2>2, <2>3 DEF Less
  <2>5. QED
    BY <1>3, <1>5, <1>6, <1>11, <2>3, <2>4 DEF prior, t
<1>12. QED
  BY <1>10, <1>11

\* A page is a part of all candidates in order.
LEMMA PageIsPart ==
  ASSUME NEW S, NEW list \in Seq(S), NEW n \in Nat \ {0}, NEW l \in Nat \ {0}, NEW m \in Nat, Len(list) <= m
  PROVE  FetchPage(list, n, l, Ranks, m) = Part(Ordered(list), (n - 1) * l, l)
<1> DEFINE o == (n - 1) * l
           r(rank) == OfRank(list, rank)
           Turn(k, f) == IF k = 0 THEN [users |-> <<>>, offset |-> o]
                         ELSE AppendRank(f[k - 1], list, Ranks[k], l, m)
           Turns(f) == f = [k \in 0..3 |-> Turn(k, f)]
           f == CHOOSE g : Turns(g)
<1>1. o \in Nat
  <2>1. \A i, j \in Nat : i * j \in Nat
    BY SMT
  <2>2. n - 1 \in Nat /\ l \in Nat
    OBVIOUS
  <2>3. QED
    BY <2>1, <2>2
<1>2. Len(Ranks) = 3 /\ Ranks[1] = 3 /\ Ranks[2] = 2 /\ Ranks[3] = 1
  BY DEF Ranks
<1>3. FetchPage(list, n, l, Ranks, m) = f[3].users
  BY <1>2 DEF FetchPage
<1> HIDE DEF o
<1>4. r(3) \in Seq(S) /\ r(2) \in Seq(S) /\ r(1) \in Seq(S)
  BY OfRankIsList
<1>5. /\ <<>> \in Seq(S) /\ <<>> \o r(3) = r(3)
      /\ r(3) \o r(2) \in Seq(S)
      /\ (r(3) \o r(2)) \o r(1) = Ordered(list)
  BY <1>4, EmptySeq, ConcatEmptySeq, ConcatProperties DEF Ordered
<1>6. PageOf(<<>>, o, l) = [users |-> <<>>, offset |-> o]
  <2> DEFINE e == <<>>
  <2>1. e \in Seq(S) /\ Len(e) = 0 /\ l \in Nat
    BY EmptySeq
  <2> HIDE DEF e
  <2>2. /\ Part(e, o, l) \in Seq(S)
        /\ Len(Part(e, o, l)) = IF Len(e) <= o THEN 0 ELSE IF o + l < Len(e) THEN l ELSE Len(e) - o
    <3>1. e \in Seq(S) /\ o \in Nat /\ l \in Nat
      BY <1>1, <2>1
    <3>2. QED
      BY ONLY <3>1, PartIs
  <2>3. Len(Part(e, o, l)) = 0
    BY <1>1, <2>1, <2>2
  <2>4. Part(e, o, l) = <<>>
    BY <2>2, <2>3, EmptySeq
  <2>5. Less(o, Len(e)) = o
    BY <1>1, <2>1 DEF Less
  <2>6. QED
    BY <2>4, <2>5 DEF PageOf, e
<1>7. /\ AppendRank(PageOf(<<>>, o, l), list, 3, l, m) = PageOf(r(3), o, l)
      /\ AppendRank(PageOf(r(3), o, l), list, 2, l, m) = PageOf(r(3) \o r(2), o, l)
      /\ AppendRank(PageOf(r(3) \o r(2), o, l), list, 1, l, m) = PageOf(Ordered(list), o, l)
  <2>1. AppendRank(PageOf(<<>>, o, l), list, 3, l, m) = PageOf(<<>> \o r(3), o, l)
    <3> DEFINE e == <<>>
    <3>1. e \in Seq(S)
      BY <1>5
    <3> HIDE DEF e
    <3>2. AppendRank(PageOf(e, o, l), list, 3, l, m) = PageOf(e \o r(3), o, l)
      BY <1>1, <3>1, RankIsAppended
    <3>3. QED
      BY <3>2 DEF e
  <2>2. AppendRank(PageOf(r(3), o, l), list, 2, l, m) = PageOf(r(3) \o r(2), o, l)
    BY <1>1, <1>4, RankIsAppended
  <2>3. AppendRank(PageOf(r(3) \o r(2), o, l), list, 1, l, m) = PageOf((r(3) \o r(2)) \o r(1), o, l)
    <3> DEFINE q == r(3) \o r(2)
    <3>1. q \in Seq(S)
      BY <1>5
    <3> HIDE DEF q
    <3>2. AppendRank(PageOf(q, o, l), list, 1, l, m) = PageOf(q \o r(1), o, l)
      BY <1>1, <3>1, RankIsAppended
    <3>3. QED
      BY <3>2 DEF q
  <2>4. QED
    BY <1>5, <2>1, <2>2, <2>3
<1>8. Turns(f)
  <2> DEFINE g == [k \in 0..3 |-> IF k = 0 THEN PageOf(<<>>, o, l)
                                  ELSE IF k = 1 THEN PageOf(r(3), o, l)
                                  ELSE IF k = 2 THEN PageOf(r(3) \o r(2), o, l)
                                  ELSE PageOf(Ordered(list), o, l)]
  <2>1. ASSUME NEW k \in 0..3
        PROVE  g[k] = Turn(k, g)
    <3>1. k = 0 \/ k = 1 \/ k = 2 \/ k = 3
      OBVIOUS
    <3>2. /\ g[0] = PageOf(<<>>, o, l) /\ g[1] = PageOf(r(3), o, l) /\ g[2] = PageOf(r(3) \o r(2), o, l)
          /\ g[3] = PageOf(Ordered(list), o, l)
      OBVIOUS
    <3> HIDE DEF g
    <3>3. QED
      BY <1>2, <1>6, <1>7, <3>1, <3>2
  <2>2. g = [k \in 0..3 |-> Turn(k, g)]
    BY <2>1
  <2>3. QED
    BY <2>2
<1> HIDE DEF f
<1>9. /\ f[0] = [users |-> <<>>, offset |-> o]
      /\ f[1] = AppendRank(f[0], list, 3, l, m)
      /\ f[2] = AppendRank(f[1], list, 2, l, m)
      /\ f[3] = AppendRank(f[2], list, 1, l, m)
  BY <1>2, <1>8
<1>10. f[3] = PageOf(Ordered(list), o, l)
  BY <1>6, <1>7, <1>9
<1>11. QED
  BY <1>3, <1>10 DEF PageOf, o

-----------------------------------------------------------------------------
(* All pages *)

\* Every candidate is in the order, at its rank.
LEMMA OrderedIsAll ==
  ASSUME NEW S, NEW list \in Seq(S), \A c \in S : c.rank \in {1, 2, 3}
  PROVE  Ordered(list) \in Seq(S) /\ Len(Ordered(list)) = Len(list)
<1> DEFINE n == Len(list)
           F(rank) == Selected(list, rank)
           L(rank, k) == Len(F(rank)[k])
           G == {k \in 0..n : L(1, k) + L(2, k) + L(3, k) = k}
<1>1. n \in Nat
  BY LenProperties
<1>2. ASSUME NEW rank
      PROVE  /\ L(rank, 0) = 0
             /\ \A k \in 1..n : L(rank, k) = IF list[k].rank = rank THEN L(rank, k - 1) + 1 ELSE L(rank, k - 1)
             /\ \A k \in 0..n : L(rank, k) \in Nat
             /\ F(rank)[n] \in Seq(S) /\ OfRank(list, rank) = F(rank)[n]
  <2> DEFINE f == F(rank)
  <2>1. f = Selected(list, rank)
    OBVIOUS
  <2> HIDE DEF f
  <2>2. /\ f[0] = <<>>
        /\ \A k \in 1..n : f[k] = IF list[k].rank = rank THEN Append(f[k - 1], list[k]) ELSE f[k - 1]
        /\ \A k \in 0..n : f[k] \in Seq(S)
    BY <2>1, SelectionGoesOn
  <2>3. Len(f[0]) = 0
    BY <2>2, EmptySeq
  <2>4. ASSUME NEW k \in 1..n
        PROVE  Len(f[k]) = IF list[k].rank = rank THEN Len(f[k - 1]) + 1 ELSE Len(f[k - 1])
    <3>1. list[k] \in S /\ k - 1 \in 0..n
      BY <1>1, ElementOfSeq
    <3>2. f[k - 1] \in Seq(S)
      BY <2>2, <3>1
    <3>3. Len(Append(f[k - 1], list[k])) = Len(f[k - 1]) + 1
      BY <3>1, <3>2, AppendProperties
    <3>4. QED
      BY <2>2, <3>3
  <2>5. \A k \in 0..n : Len(f[k]) \in Nat
    BY <2>2, LenProperties
  <2>6. n \in 0..n
    BY <1>1
  <2>7. QED
    BY <2>2, <2>3, <2>4, <2>5, <2>6, OfRankIsSelected DEF f
<1>3. ASSUME NEW k \in 1..n
      PROVE  list[k].rank \in {1, 2, 3} /\ k \in 0..n /\ k - 1 \in 0..n
  BY <1>1, ElementOfSeq
<1> HIDE DEF L, F
<1>4. 0 \in G
  <2>1. L(1, 0) = 0 /\ L(2, 0) = 0 /\ L(3, 0) = 0
    BY <1>2
  <2>2. 0 \in 0..n
    BY <1>1
  <2>3. QED
    BY <2>1, <2>2
<1>5. ASSUME NEW k \in 1..n, k - 1 \in G
      PROVE  k \in G
  <2>1. L(1, k - 1) + L(2, k - 1) + L(3, k - 1) = k - 1
    BY <1>5
  <2>2. L(1, k - 1) \in Nat /\ L(2, k - 1) \in Nat /\ L(3, k - 1) \in Nat
    BY <1>2, <1>3
  <2>3. /\ L(1, k) = IF list[k].rank = 1 THEN L(1, k - 1) + 1 ELSE L(1, k - 1)
        /\ L(2, k) = IF list[k].rank = 2 THEN L(2, k - 1) + 1 ELSE L(2, k - 1)
        /\ L(3, k) = IF list[k].rank = 3 THEN L(3, k - 1) + 1 ELSE L(3, k - 1)
    BY <1>2
  <2>4. L(1, k) + L(2, k) + L(3, k) = k
    BY <1>3, <2>1, <2>2, <2>3
  <2>5. QED
    BY <1>3, <2>4
<1>6. n \in G
  <2>1. n \in 0..n
    BY <1>1
  <2> HIDE DEF G, n
  <2>2. QED
    BY <1>1, <1>4, <1>5, <2>1, StepByStep
<1>7. L(1, n) + L(2, n) + L(3, n) = n
  BY <1>6
<1> DEFINE r(rank) == OfRank(list, rank)
<1>8. r(1) \in Seq(S) /\ r(2) \in Seq(S) /\ r(3) \in Seq(S)
  BY <1>2
<1>9. Len(r(1)) = L(1, n) /\ Len(r(2)) = L(2, n) /\ Len(r(3)) = L(3, n)
  BY <1>2 DEF L
<1> HIDE DEF r
<1>10. r(3) \o r(2) \in Seq(S) /\ Len(r(3) \o r(2)) = Len(r(3)) + Len(r(2))
  BY <1>8, ConcatProperties
<1>11. (r(3) \o r(2)) \o r(1) \in Seq(S) /\ Len((r(3) \o r(2)) \o r(1)) = Len(r(3) \o r(2)) + Len(r(1))
  BY <1>8, <1>10, ConcatProperties
<1>12. Len(r(1)) \in Nat /\ Len(r(2)) \in Nat /\ Len(r(3)) \in Nat
  BY <1>8, LenProperties
<1>13. Len((r(3) \o r(2)) \o r(1)) = n
  BY <1>7, <1>9, <1>10, <1>11, <1>12
<1>14. QED
  BY <1>11, <1>13 DEF Ordered, r

(***************************************************************************)
(* The pages of a list of any length part it in order, for pages of any    *)
(* size up to one more; there is more just if the next page has someone.   *)
(***************************************************************************)
THEOREM PagesPartTheList == GreetSpec => []PagesAreTheList
<1> DEFINE S == [id : Nat, rank : {1, 2, 3}]
<1>1. ASSUME NEW list \in Lists
      PROVE  list \in Seq(S) /\ Len(list) <= MaxListed /\ Len(list) \in Nat
  <2>1. PICK n \in 0..MaxListed : list \in {[i \in 1..n |-> [id |-> i, rank |-> r[i]]] : r \in [1..n -> {1, 2, 3}]}
    BY DEF Lists
  <2>2. n \in Nat /\ n <= MaxListed
    BY MaxListedIsNat
  <2>3. list \in [1..n -> S]
    BY <2>1, <2>2
  <2> HIDE DEF S
  <2>4. list \in Seq(S) /\ Len(list) = n
    BY <2>2, <2>3
  <2>5. QED
    BY <2>2, <2>4
<1>2. \A c \in S : c.rank \in {1, 2, 3}
  OBVIOUS
<1> HIDE DEF S
<1>3. ASSUME NEW list \in Lists, NEW size \in 1..(MaxListed + 1), NEW n \in 1..(MaxListed + 1)
      PROVE  /\ FetchPage(list, n, size, Ranks, MaxListed) = Part(Ordered(list), (n - 1) * size, size)
             /\ HasMore(list, n, size) <=> FetchPage(list, n + 1, size, Ranks, MaxListed) # <<>>
  <2> DEFINE o == n * size
             p == Part(Ordered(list), o, size)
  <2>1. list \in Seq(S) /\ Len(list) <= MaxListed /\ MaxListed \in Nat /\ Len(list) \in Nat
    BY <1>1, MaxListedIsNat
  <2>2. size \in Nat \ {0} /\ n \in Nat \ {0} /\ n + 1 \in Nat \ {0} /\ (n + 1) - 1 = n
    BY MaxListedIsNat
  <2>3. Ordered(list) \in Seq(S) /\ Len(Ordered(list)) = Len(list)
    BY <1>2, <2>1, OrderedIsAll
  <2>4. FetchPage(list, n, size, Ranks, MaxListed) = Part(Ordered(list), (n - 1) * size, size)
    BY <2>1, <2>2, PageIsPart
  <2>5. FetchPage(list, n + 1, size, Ranks, MaxListed) = p
    <3>1. FetchPage(list, n + 1, size, Ranks, MaxListed) = Part(Ordered(list), ((n + 1) - 1) * size, size)
      BY <2>1, <2>2, PageIsPart
    <3>2. QED
      BY <2>2, <3>1
  <2>6. o \in Nat
    <3>1. \A i, j \in Nat : i * j \in Nat
      BY SMT
    <3>2. QED
      BY <2>2, <3>1
  <2>7. HasMore(list, n, size) <=> Len(list) > o
    BY DEF HasMore
  <2> HIDE DEF o
  <2>8. /\ p \in Seq(S)
        /\ Len(p) = IF Len(Ordered(list)) <= o THEN 0
                    ELSE IF o + size < Len(Ordered(list)) THEN size ELSE Len(Ordered(list)) - o
    <3>1. Ordered(list) \in Seq(S) /\ o \in Nat /\ size \in Nat
      BY <2>2, <2>3, <2>6
    <3>2. QED
      BY ONLY <3>1, PartIs
  <2>9. Len(list) > o <=> Len(p) # 0
    BY <2>1, <2>2, <2>3, <2>6, <2>8
  <2>10. p # <<>> <=> Len(p) # 0
    BY <2>8, EmptySeq
  <2>11. QED
    BY <2>4, <2>5, <2>7, <2>9, <2>10
<1>4. PagesAreTheList
  BY <1>3 DEF PagesAreTheList
<1>5. QED
  BY <1>4, PTL
=============================================================================
