---------------------------- MODULE ConfigProofs ----------------------------
(***************************************************************************)
(* Proofs about the settings pages, for any rows, any values typed, and    *)
(* any number of forms, submits and failures.                              *)
(***************************************************************************)
EXTENDS ConfigSafety, FiniteSetTheorems, SequenceTheorems, TLAPS

-----------------------------------------------------------------------------
\* The inductive invariant.

FormParts == {"values", "touched", "behind", "sending"}
CallParts == {"place", "data", "touched", "behind", "state", "id", "live", "mounted"}

IsSeq(q) == q \in Seq(Range(q))

Shaped(tables) ==
  /\ DOMAIN tables = Tables
  /\ \A t \in Tables : \A id \in DOMAIN tables[t] : DOMAIN tables[t][id] = Columns(t)

\* New ids are fresh, and the page has no row that the database lacks.
IdsOK ==
  /\ DOMAIN saved["settings"] = {Settings}
  /\ \A t \in Tables \ {"settings"} : IsNumbered(DOMAIN saved[t])
  /\ \A t \in Tables : DOMAIN rows[t] \subseteq DOMAIN saved[t]
  /\ Settings \in DOMAIN rows["settings"]

PlaceOK(p, tables) ==
  /\ p.table \in Tables
  /\ p.id # None => /\ p = Edit(p.table, p.id)
                    /\ p.id \in DOMAIN tables[p.table]
  /\ p.table = "settings" => p.id = Settings

\* What nobody touched is what is saved.
Agrees(table, values, touched, row) ==
  \A f \in Columns(table) \ touched : values[f] = row[f]

FormOK(p) ==
  /\ PlaceOK(p, saved)
  /\ DOMAIN forms[p] = FormParts
  /\ DOMAIN forms[p].values = Columns(p.table)
  /\ p.id # None /\ ~forms[p].behind =>
       Agrees(p.table, forms[p].values, forms[p].touched, saved[p.table][p.id])

CallOK(c, tables) ==
  /\ DOMAIN c = CallParts
  /\ PlaceOK(c.place, tables)
  /\ DOMAIN c.data = Columns(c.place.table)
  /\ c.state \in {"called", "written"}
  /\ c.place.id # None => c.id = c.place.id
  /\ c.state = "called" /\ c.place.id # None /\ ~c.behind =>
       Agrees(c.place.table, c.data, c.touched, tables[c.place.table][c.place.id])
  /\ c.state = "written" =>
       /\ c.id \in DOMAIN tables[c.place.table]
       /\ tables[c.place.table][c.id] = c.data

\* A form that is not behind made every call of its row: the one it waits for.
Owns(p) ==
  p.id # None /\ ~forms[p].behind => \A i \in DOMAIN queue : queue[i].place = p =>
    /\ forms[p].sending /\ ~queue[i].behind
    /\ \A f \in Columns(p.table) \ forms[p].touched : queue[i].data[f] = forms[p].values[f]

\* Only the first call can have been written, and the second of a row is behind.
Ordered ==
  \A j \in DOMAIN queue : j # 1 =>
    /\ queue[j].state = "called"
    /\ queue[j].place.id # None => \A i \in 1..(j-1) :
         queue[i].place = queue[j].place => queue[j].behind

RowsOK == Shaped(saved) /\ Shaped(rows) /\ IdsOK /\ RowsAreSaved

FormsOK == \A p \in DOMAIN forms : FormOK(p) /\ Owns(p)

CallsOK == IsSeq(queue) /\ (\A i \in DOMAIN queue : CallOK(queue[i], saved)) /\ Ordered

ConfigInv == RowsOK /\ FormsOK /\ CallsOK

-----------------------------------------------------------------------------
\* Queues.

LEMMA Numbered ==
  ASSUME NEW q, IsSeq(q)
  PROVE  /\ Len(q) \in Nat /\ DOMAIN q = 1..Len(q)
         /\ q # << >> => 1 \in DOMAIN q /\ Head(q) = q[1]
<1>1. q \in Seq(Range(q))
  BY DEF IsSeq
<1>2. Len(q) \in Nat /\ DOMAIN q = 1..Len(q)
  BY <1>1, LenProperties
<1>3. ASSUME q # << >> PROVE 1 \in DOMAIN q /\ Head(q) = q[1]
  <2>1. Len(q) \in Nat \ {0}
    BY <1>1, <1>3, EmptySeq
  <2> QED BY <1>1, <1>2, <2>1
<1> QED BY <1>2, <1>3

LEMMA Indexed ==
  ASSUME NEW n \in Nat, NEW q, DOMAIN q = 1..n, q = [i \in DOMAIN q |-> q[i]]
  PROVE  IsSeq(q)
<1>1. q \in [1..n -> Range(q)]
  BY DEF Range
<1> QED BY <1>1, SeqDef DEF IsSeq

LEMMA TailOf ==
  ASSUME NEW q, IsSeq(q), q # << >>
  PROVE  /\ IsSeq(Tail(q))
         /\ \A i \in DOMAIN Tail(q) : i + 1 \in DOMAIN q /\ i + 1 # 1 /\ Tail(q)[i] = q[i + 1]
<1>1. q \in Seq(Range(q)) /\ Len(q) \in Nat /\ DOMAIN q = 1..Len(q)
  BY Numbered DEF IsSeq
<1> DEFINE t == Tail(q)
<1>2. /\ t \in Seq(Range(q)) /\ Len(t) = Len(q) - 1
      /\ \A i \in 1..Len(t) : t[i] = q[i + 1]
  BY <1>1, HeadTailProperties
<1>3. Len(t) \in Nat /\ DOMAIN t = 1..Len(t) /\ t = [i \in DOMAIN t |-> t[i]]
  <2> HIDE DEF t
  <2>1. Len(t) \in Nat /\ DOMAIN t = 1..Len(t) /\ t \in [1..Len(t) -> Range(q)]
    BY <1>2, LenProperties
  <2> QED BY <2>1
<1>4. IsSeq(t)
  <2> HIDE DEF t
  <2> QED BY <1>3, Indexed
<1>5. ASSUME NEW i \in DOMAIN t
      PROVE  i + 1 \in DOMAIN q /\ i + 1 # 1 /\ t[i] = q[i + 1]
  <2> HIDE DEF t
  <2> QED BY <1>1, <1>2, <1>3, <1>5
<1> QED BY <1>4, <1>5

LEMMA AppendOf ==
  ASSUME NEW q, IsSeq(q), NEW c
  PROVE  /\ IsSeq(Append(q, c))
         /\ \A i \in DOMAIN Append(q, c) :
              \/ i \in DOMAIN q /\ Append(q, c)[i] = q[i]
              \/ i \notin DOMAIN q /\ Append(q, c)[i] = c /\ DOMAIN q = 1..(i-1)
<1>1. q \in Seq(Range(q)) /\ Len(q) \in Nat /\ DOMAIN q = 1..Len(q)
  BY Numbered DEF IsSeq
<1> DEFINE r == Append(q, c)
           S == Range(q) \cup {c}
<1>2. q \in Seq(S)
  <2>1. Range(q) \subseteq S
    OBVIOUS
  <2> HIDE DEF S
  <2> QED BY <1>1, <2>1, SeqMonotonic
<1>3. /\ r \in Seq(S) /\ Len(r) = Len(q) + 1
      /\ r[Len(q) + 1] = c /\ \A i \in 1..Len(q) : r[i] = q[i]
  <2>1. c \in S
    OBVIOUS
  <2> HIDE DEF S
  <2> QED BY <1>2, <2>1, AppendProperties
<1>4. Len(r) \in Nat /\ DOMAIN r = 1..Len(r) /\ r = [i \in DOMAIN r |-> r[i]]
  <2> HIDE DEF r, S
  <2>1. Len(r) \in Nat /\ DOMAIN r = 1..Len(r) /\ r \in [1..Len(r) -> S]
    BY <1>3, LenProperties
  <2> QED BY <2>1
<1>5. IsSeq(r)
  <2> HIDE DEF r
  <2> QED BY <1>4, Indexed
<1>6. ASSUME NEW i \in DOMAIN r
      PROVE  \/ i \in DOMAIN q /\ r[i] = q[i]
             \/ i \notin DOMAIN q /\ r[i] = c /\ DOMAIN q = 1..(i-1)
  <2> HIDE DEF r
  <2>1. i \in 1..Len(q) \/ i = Len(q) + 1
    BY <1>1, <1>3, <1>4, <1>6
  <2>2. CASE i \in 1..Len(q)
    BY <1>1, <1>3, <2>2
  <2>3. CASE i = Len(q) + 1
    <3>1. i \notin 1..Len(q) /\ i - 1 = Len(q)
      BY <1>1, <2>3
    <3> QED BY <1>1, <1>3, <2>3, <3>1
  <2> QED BY <2>1, <2>2, <2>3
<1> QED BY <1>5, <1>6

LEMMA FirstReplaced ==
  ASSUME NEW q, IsSeq(q), q # << >>, NEW c
  PROVE  LET r == <<c>> \o Tail(q)
         IN  /\ IsSeq(r) /\ DOMAIN r = DOMAIN q
             /\ r[1] = c /\ \A i \in DOMAIN q : i # 1 => r[i] = q[i]
<1> DEFINE t == Tail(q)
           r == <<c>> \o t
           S == Range(q) \cup {c}
<1>1. q \in Seq(Range(q)) /\ Len(q) \in Nat /\ DOMAIN q = 1..Len(q) /\ 1 \in DOMAIN q
  BY Numbered DEF IsSeq
<1>2. /\ t \in Seq(Range(q)) /\ Len(t) = Len(q) - 1
      /\ \A i \in 1..Len(t) : t[i] = q[i + 1]
  BY <1>1, HeadTailProperties
<1>3. t \in Seq(S)
  <2> HIDE DEF t
  <2>1. Range(q) \subseteq S
    OBVIOUS
  <2> QED BY <1>2, <2>1, SeqMonotonic
<1>4. <<c>> \in Seq(S) /\ Len(<<c>>) = 1 /\ <<c>>[1] = c
  OBVIOUS
<1>5. /\ r \in Seq(S) /\ Len(r) = 1 + Len(t)
      /\ \A i \in 1..(1 + Len(t)) : r[i] = IF i <= 1 THEN <<c>>[i] ELSE t[i - 1]
  <2> HIDE DEF t, S
  <2>1. /\ <<c>> \o t \in Seq(S) /\ Len(<<c>> \o t) = Len(<<c>>) + Len(t)
        /\ \A i \in 1..(Len(<<c>>) + Len(t)) :
             (<<c>> \o t)[i] = IF i <= Len(<<c>>) THEN <<c>>[i] ELSE t[i - Len(<<c>>)]
    BY <1>3, <1>4, ConcatProperties
  <2> QED BY <2>1, <1>4
<1>6. Len(r) = Len(q) /\ DOMAIN r = DOMAIN q /\ r = [i \in DOMAIN r |-> r[i]]
  <2> HIDE DEF r, t, S
  <2>1. Len(r) \in Nat /\ DOMAIN r = 1..Len(r) /\ r \in [1..Len(r) -> S]
    BY <1>5, LenProperties
  <2> QED BY <2>1, <1>1, <1>2, <1>5
<1>7. IsSeq(r)
  <2> HIDE DEF r
  <2> QED BY <1>1, <1>6, Indexed
<1>8. r[1] = c
  <2> HIDE DEF r, t
  <2> QED BY <1>1, <1>2, <1>4, <1>5
<1>9. ASSUME NEW i \in DOMAIN q, i # 1 PROVE r[i] = q[i]
  <2> HIDE DEF r, t
  <2>1. i \in 1..(1 + Len(t)) /\ ~(i <= 1) /\ i - 1 \in 1..Len(t) /\ (i - 1) + 1 = i
    BY <1>1, <1>2, <1>9
  <2> QED BY <2>1, <1>2, <1>5
<1> QED BY <1>6, <1>7, <1>8, <1>9
-----------------------------------------------------------------------------
\* Steps that write nothing: the calls that are left, and the forms that are
\* left, are what they were.

Same(c, d) ==
  /\ DOMAIN d = CallParts
  /\ d.place = c.place /\ d.data = c.data /\ d.touched = c.touched
  /\ d.behind = c.behind /\ d.state = c.state /\ d.id = c.id

\* q, then without its first k calls.
Follows(q, r, k) ==
  \A i \in DOMAIN r : i + k \in DOMAIN q /\ Same(q[i + k], r[i])

\* A form keeps what nobody touched; what it wants is touched.
Keeps(f, g, table) ==
  /\ DOMAIN g = FormParts
  /\ DOMAIN g.values = Columns(table)
  /\ g.behind = f.behind
  /\ f.touched \subseteq g.touched
  /\ \A x \in Columns(table) \ g.touched : g.values[x] = f.values[x]

LEMMA CallStays ==
  ASSUME NEW c, NEW d, NEW tables, CallOK(c, tables), Same(c, d)
  PROVE  CallOK(d, tables)
BY DEF CallOK, Same

LEMMA CallsStay ==
  ASSUME CallsOK, saved' = saved, NEW k \in {0, 1}, IsSeq(queue'), Follows(queue, queue', k)
  PROVE  CallsOK'
<1>1. \A i \in DOMAIN queue' : CallOK(queue'[i], saved')
  BY CallStays DEF CallsOK, Follows
<1>2. ASSUME NEW j \in DOMAIN queue', j # 1
      PROVE  /\ queue'[j].state = "called"
             /\ queue'[j].place.id # None => \A i \in 1..(j-1) :
                  queue'[i].place = queue'[j].place => queue'[j].behind
  <2>1. DOMAIN queue' = 1..Len(queue') /\ Len(queue') \in Nat
    BY Numbered
  <2>2. j + k \in DOMAIN queue /\ j + k # 1 /\ Same(queue[j + k], queue'[j])
    BY <1>2, <2>1 DEF Follows
  <2>3. /\ queue[j + k].state = "called"
        /\ queue[j + k].place.id # None => \A i \in 1..((j + k)-1) :
             queue[i].place = queue[j + k].place => queue[j + k].behind
    BY <2>2 DEF CallsOK, Ordered
  <2>4. ASSUME queue'[j].place.id # None, NEW i \in 1..(j-1),
               queue'[i].place = queue'[j].place
        PROVE  queue'[j].behind
    <3>1. i \in DOMAIN queue' /\ i + k \in 1..((j + k)-1)
      BY <2>1
    <3>2. Same(queue[i + k], queue'[i])
      BY <3>1 DEF Follows
    <3>3. queue[j + k].place.id # None /\ queue[i + k].place = queue[j + k].place
      BY <2>2, <2>4, <3>2 DEF Same
    <3>4. queue[j + k].behind
      BY <2>3, <3>1, <3>3
    <3> QED BY <2>2, <3>4 DEF Same
  <2> QED BY <2>2, <2>3, <2>4 DEF Same
<1> QED BY <1>1, <1>2 DEF CallsOK, Ordered

LEMMA FormsStay ==
  ASSUME FormsOK, saved' = saved, NEW k \in {0, 1}, Follows(queue, queue', k),
         \A p \in DOMAIN forms' :
           /\ p \in DOMAIN forms
           /\ Keeps(forms[p], forms'[p], p.table)
           /\ \/ forms[p].sending => forms'[p].sending
              \/ p.id = None \/ forms[p].behind
              \/ \A i \in DOMAIN queue' : queue'[i].place # p
  PROVE  FormsOK'
<1> SUFFICES ASSUME NEW p \in DOMAIN forms'
             PROVE  FormOK(p)' /\ Owns(p)'
  BY DEF FormsOK
<1> DEFINE f == forms[p]
           g == forms'[p]
<1>1. p \in DOMAIN forms /\ Keeps(f, g, p.table) /\ FormOK(p) /\ Owns(p)
  BY DEF FormsOK
<1>2. FormOK(p)'
  <2>1. PlaceOK(p, saved')
    BY <1>1 DEF FormOK
  <2>2. DOMAIN g = FormParts /\ DOMAIN g.values = Columns(p.table)
    BY <1>1 DEF Keeps
  <2>3. ASSUME p.id # None, ~g.behind
        PROVE  Agrees(p.table, g.values, g.touched, saved'[p.table][p.id])
    <3>1. ~f.behind
      BY <1>1, <2>3 DEF Keeps
    <3>2. Agrees(p.table, f.values, f.touched, saved[p.table][p.id])
      BY <1>1, <2>3, <3>1 DEF FormOK
    <3> QED BY <1>1, <3>2 DEF Agrees, Keeps
  <2> QED BY <2>1, <2>2, <2>3 DEF FormOK
<1>3. Owns(p)'
  <2> SUFFICES ASSUME p.id # None, ~g.behind, NEW i \in DOMAIN queue', queue'[i].place = p
               PROVE  /\ g.sending /\ ~queue'[i].behind
                      /\ \A x \in Columns(p.table) \ g.touched : queue'[i].data[x] = g.values[x]
    BY DEF Owns
  <2>1. ~f.behind
    BY <1>1 DEF Keeps
  <2>2. i + k \in DOMAIN queue /\ queue[i + k].place = p /\ queue[i + k].data = queue'[i].data
        /\ queue[i + k].behind = queue'[i].behind
    BY DEF Follows, Same
  <2>3. /\ f.sending /\ ~queue[i + k].behind
        /\ \A x \in Columns(p.table) \ f.touched : queue[i + k].data[x] = f.values[x]
    BY <1>1, <2>1, <2>2 DEF Owns
  <2>4. g.sending
    BY <2>1, <2>3
  <2>5. \A x \in Columns(p.table) \ g.touched : queue'[i].data[x] = g.values[x]
    BY <1>1, <2>2, <2>3 DEF Keeps
  <2>6. ~queue'[i].behind
    BY <2>2, <2>3
  <2> QED BY <2>4, <2>5, <2>6
<1> QED BY <1>2, <1>3

LEMMA RowsStay ==
  ASSUME RowsOK, UNCHANGED <<saved, rows, unseen>>
  PROVE  RowsOK'
<1>1. Shaped(saved)' /\ Shaped(rows)'
  BY DEF RowsOK, Shaped
<1>2. IdsOK'
  BY DEF RowsOK, IdsOK
<1>3. RowsAreSaved'
  BY DEF RowsOK, RowsAreSaved
<1> QED BY <1>1, <1>2, <1>3 DEF RowsOK

LEMMA FollowsItself ==
  ASSUME CallsOK, UNCHANGED queue
  PROVE  IsSeq(queue') /\ Follows(queue, queue', 0)
<1>1. Len(queue) \in Nat /\ DOMAIN queue = 1..Len(queue)
  BY Numbered DEF CallsOK
<1>2. \A i \in DOMAIN queue : i + 0 = i
  BY <1>1
<1>3. \A i \in DOMAIN queue : Same(queue[i], queue[i])
  BY DEF Same, CallsOK, CallOK
<1> QED BY <1>2, <1>3 DEF Follows, CallsOK

LEMMA KeepsItself ==
  ASSUME FormsOK, NEW p \in DOMAIN forms
  PROVE  Keeps(forms[p], forms[p], p.table)
BY DEF Keeps, FormsOK, FormOK

\* The calls of the step, with only who hears them changed.
LEMMA Unheard ==
  ASSUME NEW q, NEW r, IsSeq(q), \A i \in DOMAIN q : CallOK(q[i], saved),
         r = [i \in DOMAIN q |-> r[i]],
         \A i \in DOMAIN q : Same(q[i], r[i])
  PROVE  IsSeq(r) /\ Follows(q, r, 0)
<1>1. Len(q) \in Nat /\ DOMAIN q = 1..Len(q) /\ DOMAIN r = DOMAIN q
  BY Numbered
<1>2. IsSeq(r)
  BY <1>1, Indexed
<1>3. \A i \in DOMAIN q : i + 0 = i
  BY <1>1
<1> QED BY <1>1, <1>2, <1>3 DEF Follows

LEMMA FirstAnswered ==
  ASSUME CallsOK, queue # << >>
  PROVE  /\ IsSeq(Tail(queue)) /\ Follows(queue, Tail(queue), 1)
         /\ 1 \in DOMAIN queue /\ Head(queue) = queue[1] /\ CallOK(Head(queue), saved)
<1>1. 1 \in DOMAIN queue /\ Head(queue) = queue[1]
  BY Numbered DEF CallsOK
<1>2. /\ IsSeq(Tail(queue))
      /\ \A i \in DOMAIN Tail(queue) : i + 1 \in DOMAIN queue /\ Tail(queue)[i] = queue[i + 1]
  BY TailOf DEF CallsOK
<1>3. \A i \in DOMAIN queue : Same(queue[i], queue[i])
  BY DEF Same, CallsOK, CallOK
<1> QED BY <1>1, <1>2, <1>3 DEF Follows, CallsOK

\* No second call of a row, where its form is not behind.
LEMMA NoSecondCall ==
  ASSUME CallsOK, queue # << >>, NEW i \in DOMAIN Tail(queue),
         Tail(queue)[i].place = Head(queue).place, Head(queue).place.id # None
  PROVE  Tail(queue)[i].behind
<1>1. DOMAIN queue = 1..Len(queue) /\ Len(queue) \in Nat /\ Head(queue) = queue[1]
  BY Numbered DEF CallsOK
<1>2. i + 1 \in DOMAIN queue /\ i + 1 # 1 /\ Tail(queue)[i] = queue[i + 1]
  BY TailOf DEF CallsOK
<1>3. 1 \in 1..((i + 1) - 1)
  <2>1. DOMAIN Tail(queue) = 1..Len(Tail(queue)) /\ Len(Tail(queue)) \in Nat
    BY Numbered, TailOf DEF CallsOK
  <2> QED BY <2>1
<1>4. \A j \in 1..((i + 1) - 1) : queue[j].place = queue[i + 1].place => queue[i + 1].behind
  BY <1>1, <1>2 DEF CallsOK, Ordered
<1> QED BY <1>1, <1>2, <1>3, <1>4
-----------------------------------------------------------------------------
\* The first state.

LEMMA InitConfig ==
  ASSUME Init
  PROVE  ConfigInv
<1>1. saved = InitialRows /\ rows = InitialRows /\ forms = << >> /\ queue = << >>
  BY DEF Init
<1>2. Shaped(saved) /\ Shaped(rows)
  BY <1>1, ConfigAssumption DEF Shaped
<1>3. IdsOK
  BY <1>1, ConfigAssumption DEF IdsOK, Tables
<1>4. RowsAreSaved
  BY <1>1 DEF RowsAreSaved, SameRow
<1>5. FormsOK
  BY <1>1 DEF FormsOK
<1>6. CallsOK
  <2>1. DOMAIN << >> = {} /\ << >> \in Seq(Range(<< >>))
    BY EmptySeq
  <2> QED BY <1>1, <2>1 DEF CallsOK, Ordered, IsSeq
<1> QED BY <1>2, <1>3, <1>4, <1>5, <1>6 DEF ConfigInv, RowsOK

-----------------------------------------------------------------------------
\* The pages load.

LEMMA PageLoaded ==
  ASSUME ConfigInv, NEW p, NEW opened, LoadPage(p, opened)
  PROVE  /\ RowsOK' /\ CallsOK' /\ saved' = saved /\ forms' = opened
         /\ Follows(queue, queue', 0)
<1>1. /\ saved' = saved /\ rows' = saved /\ unseen' = {} /\ forms' = opened
      /\ queue' = [i \in DOMAIN queue |->
                     [queue[i] EXCEPT !.live = FALSE, !.mounted = FALSE]]
  BY DEF LoadPage
<1>2. RowsOK'
  <2>1. Shaped(saved)' /\ Shaped(rows)'
    BY <1>1 DEF ConfigInv, RowsOK, Shaped
  <2>2. IdsOK'
    BY <1>1 DEF ConfigInv, RowsOK, IdsOK
  <2>3. RowsAreSaved'
    BY <1>1 DEF RowsAreSaved, SameRow
  <2> QED BY <2>1, <2>2, <2>3 DEF RowsOK
<1>3. ASSUME NEW i \in DOMAIN queue
      PROVE  Same(queue[i], queue'[i])
  <2>1. DOMAIN queue[i] = CallParts /\ queue'[i] = [queue[i] EXCEPT !.live = FALSE, !.mounted = FALSE]
    BY <1>1 DEF ConfigInv, CallsOK, CallOK
  <2> QED BY <2>1 DEF Same, CallParts
<1>4. IsSeq(queue') /\ Follows(queue, queue', 0)
  BY <1>1, <1>3, Unheard DEF ConfigInv, CallsOK
<1>5. CallsOK'
  BY <1>1, <1>4, CallsStay DEF ConfigInv
<1> QED BY <1>1, <1>2, <1>4, <1>5

LEMMA EmptyPageLoaded ==
  ASSUME ConfigInv, LoadBanksPage \/ LoadCategoriesPage
  PROVE  ConfigInv'
<1>1. RowsOK' /\ CallsOK' /\ forms' = << >>
  BY PageLoaded DEF LoadBanksPage, LoadCategoriesPage
<1>2. FormsOK'
  BY <1>1 DEF FormsOK
<1> QED BY <1>1, <1>2 DEF ConfigInv

\* A form that opens with the values of its row is not behind, unless a call
\* of the row is under way.
LEMMA Opened ==
  ASSUME NEW p, NEW values, NEW written,
         PlaceOK(p, saved'), DOMAIN values = Columns(p.table),
         forms'[p] = OpenedForm(values, written),
         p.id # None /\ ~written =>
           /\ Agrees(p.table, values, {}, saved'[p.table][p.id])
           /\ \A i \in DOMAIN queue' : queue'[i].place # p
  PROVE  FormOK(p)' /\ Owns(p)'
<1> DEFINE g == forms'[p]
<1>1. /\ DOMAIN g = FormParts /\ g.values = values /\ g.touched = {}
      /\ g.behind = written
  BY DEF OpenedForm, FormParts
<1>2. FormOK(p)'
  BY <1>1 DEF FormOK
<1>3. Owns(p)'
  BY <1>1 DEF Owns
<1> QED BY <1>2, <1>3

LEMMA SettingsLoaded ==
  ASSUME ConfigInv, LoadDisplaySettingsPage
  PROVE  ConfigInv'
<1> DEFINE p == Edit("settings", Settings)
           written == \E i \in DOMAIN queue : queue[i].place = p
           values == saved["settings"][Settings]
<1>1. /\ RowsOK' /\ CallsOK' /\ saved' = saved
      /\ forms' = Put(<< >>, p, OpenedForm(values, written))
      /\ Follows(queue, queue', 0)
  BY PageLoaded DEF LoadDisplaySettingsPage
<1>2. DOMAIN forms' = {p} /\ forms'[p] = OpenedForm(values, written)
  <2> HIDE DEF p, written, values
  <2> QED BY <1>1 DEF Put
<1>3. p.table = "settings" /\ p.id = Settings /\ PlaceOK(p, saved')
  BY <1>1 DEF ConfigInv, RowsOK, IdsOK, PlaceOK, Edit, Tables
<1>4. DOMAIN values = Columns("settings")
  BY DEF ConfigInv, RowsOK, IdsOK, Shaped, Tables
<1>5. ASSUME ~written PROVE \A i \in DOMAIN queue' : queue'[i].place # p
  <2> HIDE DEF p
  <2>1. \A i \in DOMAIN queue : i + 0 = i
    BY Numbered DEF ConfigInv, CallsOK
  <2>2. \A i \in DOMAIN queue' : i + 0 \in DOMAIN queue /\ queue'[i].place = queue[i + 0].place
    BY <1>1 DEF Follows, Same
  <2> QED BY <1>5, <2>2
<1>6. Agrees("settings", values, {}, saved'["settings"][Settings])
  BY <1>1 DEF Agrees
<1>7. FormOK(p)' /\ Owns(p)'
  <2> HIDE DEF p, written, values
  <2> QED BY <1>2, <1>3, <1>4, <1>5, <1>6, Opened
<1>8. FormsOK'
  <2> HIDE DEF p
  <2> QED BY <1>2, <1>7 DEF FormsOK
<1> QED BY <1>1, <1>8 DEF ConfigInv
-----------------------------------------------------------------------------
\* Opening a form.

\* Where a form can stand.
LEMMA PlacesOK ==
  ASSUME RowsOK, NEW p \in Places
  PROVE  /\ PlaceOK(p, saved)
         /\ p.table \in {"bank", "account", "category"}
         /\ p.id # None => p.id \in DOMAIN rows[p.table]
<1>1. /\ DOMAIN rows["bank"] \subseteq DOMAIN saved["bank"]
      /\ DOMAIN rows["account"] \subseteq DOMAIN saved["account"]
      /\ DOMAIN rows["category"] \subseteq DOMAIN saved["category"]
  BY DEF RowsOK, IdsOK, Tables
<1>2. \/ \E t \in {"bank", "account", "category"} : \E id \in DOMAIN rows[t] : p = Edit(t, id)
      \/ \E t \in {"bank", "account", "category"} : \E at : p = Add(t, at)
  <2>1. CASE page = "banks"
    <3>1. p \in BanksConfigPage
      BY <2>1 DEF Places
    <3>2. CASE p = Add("bank", None)
      BY <3>2
    <3>3. CASE \E a \in DOMAIN rows["account"] : p = Edit("account", a)
      BY <3>3
    <3>4. CASE \E b \in DOMAIN rows["bank"] : p \in BanksListItem(b)
      BY <3>4 DEF BanksListItem
    <3>5. \/ p \in UNION {BanksListItem(b) : b \in DOMAIN rows["bank"]}
          \/ p \in AccountsList \/ p = Add("bank", None)
      BY <3>1 DEF BanksConfigPage
    <3>6. p \in AccountsList => \E a \in DOMAIN rows["account"] : p = Edit("account", a)
      BY DEF AccountsList
    <3>7. p \in UNION {BanksListItem(b) : b \in DOMAIN rows["bank"]} =>
            \E b \in DOMAIN rows["bank"] : p \in BanksListItem(b)
      OBVIOUS
    <3> QED BY <3>2, <3>3, <3>4, <3>5, <3>6, <3>7
  <2>2. CASE page = "categories"
    <3>1. p \in CategoriesList \cup Actions
      BY <2>2 DEF Places
    <3>2. CASE p \in CategoriesList
      <4>1. ShownCategories(rows["category"], collapsed) \subseteq DOMAIN rows["category"]
        BY DEF ShownCategories, SortCategories
      <4> QED BY <3>2, <4>1 DEF CategoriesList
    <3>3. CASE p \in Actions
      BY <3>3 DEF Actions
    <3> QED BY <3>1, <3>2, <3>3
  <2>3. CASE page \notin {"banks", "categories"}
    BY <2>3 DEF Places
  <2> QED BY <2>1, <2>2, <2>3
<1>3. CASE \E t \in {"bank", "account", "category"} : \E id \in DOMAIN rows[t] : p = Edit(t, id)
  <2>1. PICK t \in {"bank", "account", "category"} : \E id \in DOMAIN rows[t] : p = Edit(t, id)
    BY <1>3
  <2>2. PICK id \in DOMAIN rows[t] : p = Edit(t, id)
    BY <2>1
  <2>3. p.table = t /\ p.id = id /\ id \in DOMAIN saved[t]
    BY <1>1, <2>1, <2>2 DEF Edit
  <2> QED BY <2>1, <2>2, <2>3 DEF PlaceOK, Tables
<1>4. CASE \E t \in {"bank", "account", "category"} : \E at : p = Add(t, at)
  <2>1. PICK t \in {"bank", "account", "category"} : \E at : p = Add(t, at)
    BY <1>4
  <2>2. p.table = t /\ p.id = None
    BY <2>1 DEF Add
  <2> QED BY <2>1, <2>2 DEF PlaceOK, Tables
<1> QED BY <1>2, <1>3, <1>4

\* A form opens with the columns of its table, and with the row it edits.
LEMMA DefaultShape ==
  ASSUME RowsOK, NEW p \in Places
  PROVE  /\ DOMAIN DefaultValues(p) = Columns(p.table)
         /\ p.id # None => DefaultValues(p) = rows[p.table][p.id]
<1>1. p.table \in {"bank", "account", "category"}
  BY PlacesOK
<1>2. ASSUME p.id # None
      PROVE  DOMAIN rows[p.table][p.id] = Columns(p.table)
  BY <1>2, <1>1, PlacesOK DEF RowsOK, Shaped, Tables
<1>3. CASE p.table = "bank"
  <2>1. DefaultValues(p) = BankFormDefaults(p) /\ Columns(p.table) = {"name", "order"}
    BY <1>3 DEF DefaultValues, Columns
  <2>2. CASE p.id # None
    BY <1>2, <1>3, <2>1, <2>2 DEF BankFormDefaults
  <2>3. CASE p.id = None
    BY <2>1, <2>3 DEF BankFormDefaults
  <2> QED BY <2>2, <2>3
<1>4. CASE p.table = "category"
  <2>1. /\ DefaultValues(p) = CategoryFormDefaults(p)
        /\ Columns(p.table) = {"name", "parent", "order"}
    BY <1>4 DEF DefaultValues, Columns
  <2>2. CASE p.id # None
    BY <1>2, <1>4, <2>1, <2>2 DEF CategoryFormDefaults
  <2>3. CASE p.id = None
    BY <2>1, <2>3 DEF CategoryFormDefaults
  <2> QED BY <2>2, <2>3
<1>5. CASE p.table = "account"
  <2>1. /\ DefaultValues(p) = UseInitialFormValues(p)
        /\ Columns(p.table) = {"name", "bank", "unit", "order"}
    BY <1>5 DEF DefaultValues, Columns
  <2>2. CASE p.id # None
    BY <1>2, <1>5, <2>1, <2>2 DEF UseInitialFormValues
  <2>3. CASE p.id = None
    BY <2>1, <2>3 DEF UseInitialFormValues
  <2> QED BY <2>2, <2>3
<1> QED BY <1>1, <1>3, <1>4, <1>5

\* What it opens with is what is saved, unless a save of the row is unheard.
LEMMA DefaultIsSaved ==
  ASSUME RowsOK, NEW p \in Places, p.id # None, ~HasNoUnit(p),
         <<p.table, p.id>> \notin unseen
  PROVE  Agrees(p.table, DefaultValues(p), {}, saved[p.table][p.id])
<1> DEFINE t == p.table
           id == p.id
<1>1. /\ t \in {"bank", "account", "category"} /\ t \in Tables
      /\ id \in DOMAIN rows[t] /\ DefaultValues(p) = rows[t][id]
  BY PlacesOK, DefaultShape DEF Tables
<1>2. id \in DOMAIN saved[t] /\ SameRow(rows[t][id], saved[t][id])
  BY <1>1 DEF RowsOK, RowsAreSaved
<1>3. DOMAIN saved[t][id] = Columns(t)
  BY <1>1, <1>2 DEF RowsOK, Shaped
<1>4. t = "account" => rows[t][id].unit # None
  BY DEF HasNoUnit
<1>5. t # "account" => "unit" \notin Columns(t)
  BY <1>1 DEF Columns
<1>6. ASSUME NEW x \in Columns(t) PROVE rows[t][id][x] = saved[t][id][x]
  <2>1. rows[t][id][x] = saved[t][id][x] \/ (x = "unit" /\ rows[t][id][x] = None)
    BY <1>2, <1>3, <1>6 DEF SameRow
  <2> QED BY <1>4, <1>5, <1>6, <2>1
<1> QED BY <1>1, <1>6 DEF Agrees

LEMMA FormOpened ==
  ASSUME ConfigInv, OpenForm
  PROVE  ConfigInv'
<1>1. UNCHANGED <<saved, rows, queue, unseen>>
  BY DEF OpenForm
<1>2. RowsOK' /\ CallsOK'
  BY <1>1, RowsStay, CallsStay, FollowsItself DEF ConfigInv
<1>3. PICK p \in Places :
        IF HasNoUnit(p) THEN forms' = << >>
        ELSE forms' = Put(forms, p, OpenedForm(DefaultValues(p), IsWritten(p.table, p.id)))
  BY DEF OpenForm
<1>4. CASE HasNoUnit(p)
  <2>1. FormsOK'
    BY <1>3, <1>4 DEF FormsOK
  <2> QED BY <1>2, <2>1 DEF ConfigInv
<1>5. CASE ~HasNoUnit(p)
  <2> DEFINE written == IsWritten(p.table, p.id)
             values == DefaultValues(p)
  <2>1. /\ DOMAIN forms' = DOMAIN forms \cup {p}
        /\ forms'[p] = OpenedForm(values, written)
        /\ \A o \in DOMAIN forms' : o # p => o \in DOMAIN forms /\ forms'[o] = forms[o]
    <3> HIDE DEF values, written
    <3> QED BY <1>3, <1>5 DEF Put, values, written
  <2>2. PlaceOK(p, saved') /\ DOMAIN values = Columns(p.table)
    BY <1>1, PlacesOK, DefaultShape DEF ConfigInv
  <2>3. ASSUME p.id # None, ~written
        PROVE  /\ Agrees(p.table, values, {}, saved'[p.table][p.id])
               /\ \A i \in DOMAIN queue' : queue'[i].place # p
    <3>1. <<p.table, p.id>> \notin unseen /\ \A i \in DOMAIN queue : queue[i].place # p
      BY <2>2, <2>3 DEF IsWritten, PlaceOK
    <3>2. Agrees(p.table, values, {}, saved[p.table][p.id])
      BY <1>5, <2>3, <3>1, DefaultIsSaved DEF ConfigInv
    <3> QED BY <1>1, <3>1, <3>2
  <2>4. FormOK(p)' /\ Owns(p)'
    <3> HIDE DEF values, written
    <3> QED BY <2>1, <2>2, <2>3, Opened
  <2>5. ASSUME NEW o \in DOMAIN forms', o # p
        PROVE  FormOK(o)' /\ Owns(o)'
    <3>1. o \in DOMAIN forms /\ forms'[o] = forms[o] /\ FormOK(o) /\ Owns(o)
      BY <2>1, <2>5 DEF ConfigInv, FormsOK
    <3> QED BY <1>1, <3>1 DEF FormOK, Owns
  <2>6. FormsOK'
    BY <2>4, <2>5 DEF FormsOK
  <2> QED BY <1>2, <2>6 DEF ConfigInv
<1> QED BY <1>4, <1>5
-----------------------------------------------------------------------------
\* Filling in and leaving forms.

\* Steps of the forms alone.
LEMMA OnlyForms ==
  ASSUME ConfigInv, UNCHANGED <<saved, rows, queue, unseen>>,
         \A p \in DOMAIN forms' :
           /\ p \in DOMAIN forms
           /\ Keeps(forms[p], forms'[p], p.table)
           /\ forms[p].sending => forms'[p].sending
  PROVE  ConfigInv'
<1>1. RowsOK' /\ CallsOK'
  BY RowsStay, CallsStay, FollowsItself DEF ConfigInv
<1>2. FormsOK'
  BY FollowsItself, FormsStay DEF ConfigInv
<1> QED BY <1>1, <1>2 DEF ConfigInv

LEMMA FieldSet ==
  ASSUME ConfigInv, UNCHANGED <<saved, rows, queue, unseen>>,
         NEW place, NEW field, NEW value, SetField(place, field, value)
  PROVE  ConfigInv'
<1>1. forms' = [forms EXCEPT ![place].values[field] = value,
                             ![place].touched = @ \cup {field}]
  BY DEF SetField
<1>2. DOMAIN forms' = DOMAIN forms
  BY <1>1
<1>3. ASSUME NEW p \in DOMAIN forms'
      PROVE  /\ Keeps(forms[p], forms'[p], p.table)
             /\ forms[p].sending => forms'[p].sending
  <2>1. p \in DOMAIN forms /\ Keeps(forms[p], forms[p], p.table)
    BY <1>2, KeepsItself DEF ConfigInv
  <2>2. DOMAIN forms[p] = FormParts /\ DOMAIN forms[p].values = Columns(p.table)
    BY <2>1 DEF Keeps
  <2>3. CASE p # place
    BY <1>1, <2>1, <2>3
  <2>4. CASE p = place
    <3> DEFINE f == forms[p]
               g == [[f EXCEPT !.values = [f.values EXCEPT ![field] = value]]
                       EXCEPT !.touched = @ \cup {field}]
    <3>1. forms'[p] = g
      BY <1>1, <2>1, <2>2, <2>4 DEF FormParts
    <3>2. /\ DOMAIN g = FormParts /\ g.behind = f.behind /\ g.sending = f.sending
          /\ g.touched = f.touched \cup {field}
          /\ g.values = [f.values EXCEPT ![field] = value]
      <4> HIDE DEF f
      <4>1. DOMAIN f = FormParts
        BY <2>2 DEF f
      <4> QED BY <4>1 DEF FormParts
    <3>3. Keeps(f, g, p.table)
      <4> HIDE DEF g
      <4> QED BY <2>2, <3>2 DEF Keeps
    <3> QED BY <3>1, <3>2, <3>3
  <2> QED BY <2>3, <2>4
<1> QED BY <1>2, <1>3, OnlyForms

LEMMA FieldChanged ==
  ASSUME ConfigInv, ChangeField
  PROVE  ConfigInv'
BY FieldSet DEF ChangeField

LEMMA UnitPicked ==
  ASSUME ConfigInv, PickUnit
  PROVE  ConfigInv'
BY FieldSet DEF PickUnit

LEMMA FormClosed ==
  ASSUME ConfigInv, CloseForm
  PROVE  ConfigInv'
<1>1. UNCHANGED <<saved, rows, queue, unseen>>
  BY DEF CloseForm
<1>2. PICK place \in DOMAIN forms : forms' = Restrict(forms, DOMAIN forms \ {place})
  BY DEF CloseForm
<1>3. \A p \in DOMAIN forms' : p \in DOMAIN forms /\ forms'[p] = forms[p]
  BY <1>2 DEF Restrict
<1> QED BY <1>1, <1>3, KeepsItself, OnlyForms DEF ConfigInv

LEMMA PageKept ==
  ASSUME ConfigInv, UNCHANGED <<saved, rows, queue, unseen, forms>>
  PROVE  ConfigInv'
BY KeepsItself, OnlyForms DEF ConfigInv

\* Calls whose forms may have gone.
LEMMA WithFormsSame ==
  ASSUME NEW q, NEW keep, IsSeq(q), \A i \in DOMAIN q : CallOK(q[i], saved)
  PROVE  IsSeq(WithForms(keep, q)) /\ Follows(q, WithForms(keep, q), 0)
<1> DEFINE r == WithForms(keep, q)
<1>1. r = [i \in DOMAIN q |-> [q[i] EXCEPT !.mounted = @ /\ q[i].place \in keep]]
  BY DEF WithForms
<1>2. ASSUME NEW i \in DOMAIN q PROVE Same(q[i], r[i])
  <2> DEFINE m == q[i].mounted /\ q[i].place \in keep
  <2>1. r[i] = [q[i] EXCEPT !.mounted = m]
    BY <1>1
  <2>2. DOMAIN q[i] = CallParts
    BY DEF CallOK
  <2> HIDE DEF m, r
  <2> QED BY <2>1, <2>2 DEF Same, CallParts
<1>3. r = [i \in DOMAIN q |-> r[i]]
  BY <1>1
<1> HIDE DEF r
<1>4. IsSeq(r) /\ Follows(q, r, 0)
  BY <1>2, <1>3, Unheard
<1> QED BY <1>4 DEF r

LEMMA Folded ==
  ASSUME ConfigInv, NEW folded, Fold(folded)
  PROVE  ConfigInv'
<1>1. UNCHANGED <<saved, rows, unseen>>
  BY DEF Fold
<1>2. PICK keep :
        /\ keep \subseteq DOMAIN forms
        /\ forms' = Restrict(forms, keep) /\ queue' = WithForms(keep, queue)
  <2> DEFINE keep == {place \in DOMAIN forms : place.id # None =>
                         place.id \in ShownCategories(rows["category"], folded)}
  <2>1. keep \subseteq DOMAIN forms
    OBVIOUS
  <2>2. forms' = Restrict(forms, keep) /\ queue' = WithForms(keep, queue)
    BY DEF Fold
  <2> HIDE DEF keep
  <2> QED BY <2>1, <2>2
<1>3. IsSeq(queue') /\ Follows(queue, queue', 0)
  BY <1>2, WithFormsSame DEF ConfigInv, CallsOK
<1>4. \A p \in DOMAIN forms' : p \in DOMAIN forms /\ forms'[p] = forms[p]
  BY <1>2 DEF Restrict
<1>5. RowsOK' /\ CallsOK'
  BY <1>1, <1>3, RowsStay, CallsStay DEF ConfigInv
<1>6. FormsOK'
  BY <1>1, <1>3, <1>4, KeepsItself, FormsStay DEF ConfigInv
<1> QED BY <1>5, <1>6 DEF ConfigInv

\* A form that is not behind has no call under way when it is submitted.
LEMMA FormSubmitted ==
  ASSUME ConfigInv, HandleSubmit
  PROVE  ConfigInv'
<1>1. UNCHANGED <<saved, rows, unseen>>
  BY DEF HandleSubmit
<1>2. PICK place \in DOMAIN forms :
        /\ ~forms[place].sending
        /\ forms' = [forms EXCEPT ![place].sending = TRUE]
        /\ queue' = Append(queue, [place |-> place, data |-> forms[place].values,
                                   touched |-> forms[place].touched,
                                   behind |-> forms[place].behind,
                                   state |-> "called", id |-> place.id,
                                   live |-> TRUE, mounted |-> TRUE])
  BY DEF HandleSubmit
<1> DEFINE f == forms[place]
           yes == TRUE
           call == [place |-> place, data |-> f.values, touched |-> f.touched,
                    behind |-> f.behind, state |-> "called", id |-> place.id,
                    live |-> yes, mounted |-> yes]
<1>3. FormOK(place) /\ Owns(place)
  BY DEF ConfigInv, FormsOK
<1>4. /\ DOMAIN call = CallParts
      /\ call.place = place /\ call.data = f.values /\ call.touched = f.touched
      /\ call.behind = f.behind /\ call.state = "called" /\ call.id = place.id
  <2> HIDE DEF f, yes
  <2> QED BY DEF CallParts
<1>5. /\ IsSeq(queue')
      /\ \A i \in DOMAIN queue' :
           \/ i \in DOMAIN queue /\ queue'[i] = queue[i]
           \/ i \notin DOMAIN queue /\ queue'[i] = call /\ DOMAIN queue = 1..(i-1)
  <2>1. queue' = Append(queue, call)
    BY <1>2
  <2> HIDE DEF call
  <2> QED BY <2>1, AppendOf DEF ConfigInv, CallsOK
<1> HIDE DEF call
<1>6. CallOK(call, saved)
  BY <1>3, <1>4 DEF CallOK, FormOK
<1>7. RowsOK'
  BY <1>1, RowsStay DEF ConfigInv
<1>8. CallsOK'
  <2>1. \A i \in DOMAIN queue' : CallOK(queue'[i], saved')
    BY <1>1, <1>5, <1>6 DEF ConfigInv, CallsOK
  <2>2. ASSUME NEW j \in DOMAIN queue', j # 1
        PROVE  /\ queue'[j].state = "called"
               /\ queue'[j].place.id # None => \A i \in 1..(j-1) :
                    queue'[i].place = queue'[j].place => queue'[j].behind
    <3>1. DOMAIN queue = 1..Len(queue) /\ Len(queue) \in Nat
      BY Numbered DEF ConfigInv, CallsOK
    <3>2. DOMAIN queue' = 1..Len(queue') /\ Len(queue') \in Nat
      BY <1>5, Numbered
    <3>3. CASE j \in DOMAIN queue
      <4>1. queue'[j] = queue[j] /\ \A i \in 1..(j-1) : i \in DOMAIN queue'
        BY <1>5, <3>2, <3>3
      <4>2. \A i \in 1..(j-1) : i \in DOMAIN queue /\ queue'[i] = queue[i]
        BY <1>5, <3>1, <3>3, <4>1
      <4> QED BY <2>2, <3>3, <4>1, <4>2 DEF ConfigInv, CallsOK, Ordered
    <3>4. CASE j \notin DOMAIN queue
      <4>1. queue'[j] = call /\ DOMAIN queue = 1..(j-1)
        BY <1>5, <3>4
      <4>2. \A i \in 1..(j-1) : i \in DOMAIN queue'
        BY <3>2
      <4>3. \A i \in 1..(j-1) : i \in DOMAIN queue /\ queue'[i] = queue[i]
        BY <1>5, <4>1, <4>2
      <4>4. ASSUME place.id # None, NEW i \in 1..(j-1), queue[i].place = place
            PROVE  f.behind
        BY <1>2, <1>3, <4>3, <4>4 DEF Owns
      <4> QED BY <1>4, <4>1, <4>3, <4>4
    <3> QED BY <3>3, <3>4
  <2> QED BY <1>5, <2>1, <2>2 DEF CallsOK, Ordered
<1>9. FormsOK'
  <2> SUFFICES ASSUME NEW p \in DOMAIN forms'
               PROVE  FormOK(p)' /\ Owns(p)'
    BY DEF FormsOK
  <2> DEFINE g == forms'[p]
  <2>1. p \in DOMAIN forms /\ FormOK(p) /\ Owns(p)
    BY <1>2 DEF ConfigInv, FormsOK
  <2>2. /\ DOMAIN g = FormParts /\ g.values = forms[p].values
        /\ g.touched = forms[p].touched /\ g.behind = forms[p].behind
        /\ forms[p].sending \/ p = place => g.sending
    <3>1. DOMAIN forms[p] = FormParts
      BY <2>1 DEF FormOK
    <3>2. CASE p = place
      BY <1>2, <3>1, <3>2 DEF FormParts
    <3>3. CASE p # place
      BY <1>2, <2>1, <3>1, <3>3
    <3> QED BY <3>2, <3>3
  <2>3. FormOK(p)'
    <3> HIDE DEF g
    <3>1. PlaceOK(p, saved') /\ DOMAIN g.values = Columns(p.table)
      BY <1>1, <2>1, <2>2 DEF FormOK
    <3>2. p.id # None /\ ~g.behind =>
            Agrees(p.table, g.values, g.touched, saved'[p.table][p.id])
      BY <1>1, <2>1, <2>2 DEF FormOK
    <3> QED BY <2>2, <3>1, <3>2 DEF FormOK, g
  <2>4. Owns(p)'
    <3> SUFFICES ASSUME p.id # None, ~g.behind, NEW i \in DOMAIN queue', queue'[i].place = p
                 PROVE  /\ g.sending /\ ~queue'[i].behind
                        /\ \A x \in Columns(p.table) \ g.touched :
                             queue'[i].data[x] = g.values[x]
      BY DEF Owns
    <3>1. CASE i \in DOMAIN queue /\ queue'[i] = queue[i]
      BY <2>1, <2>2, <3>1 DEF Owns
    <3>2. CASE queue'[i] = call
      BY <1>4, <2>2, <3>2
    <3> QED BY <1>5, <3>1, <3>2
  <2> QED BY <2>3, <2>4
<1> QED BY <1>7, <1>8, <1>9 DEF ConfigInv
-----------------------------------------------------------------------------
\* The server writes the first call.

\* The row a write puts, and the id it puts it under.
LEMMA Written ==
  ASSUME ConfigInv, NEW t \in Tables, Write(t)
  PROVE  LET call == Head(queue)
             id   == IF call.place.id = None THEN NewId(t) ELSE call.place.id
         IN  /\ queue # << >> /\ 1 \in DOMAIN queue /\ call = queue[1]
             /\ CallOK(call, saved) /\ call.state = "called" /\ call.place.table = t
             /\ call.place.id = None => t # "settings" /\ id \notin DOMAIN saved[t]
             /\ id # None
             /\ saved' = [saved EXCEPT ![t] = Put(saved[t], id, call.data)]
             /\ unseen' = unseen \cup {<<t, id>>}
             /\ queue' = <<[call EXCEPT !.state = "written", !.id = id]>> \o Tail(queue)
             /\ UNCHANGED <<rows, forms>>
<1> DEFINE call == Head(queue)
           id == IF call.place.id = None THEN NewId(t) ELSE call.place.id
<1>1. /\ queue # << >> /\ call.state = "called" /\ call.place.table = t
      /\ saved' = [saved EXCEPT ![t] = Put(saved[t], id, call.data)]
      /\ unseen' = unseen \cup {<<t, id>>}
      /\ queue' = <<[call EXCEPT !.state = "written", !.id = id]>> \o Tail(queue)
      /\ UNCHANGED <<rows, forms>>
  <2>1. DOMAIN saved = Tables
    BY DEF ConfigInv, RowsOK, Shaped
  <2> QED BY <2>1 DEF Write
<1>2. 1 \in DOMAIN queue /\ call = queue[1] /\ CallOK(call, saved)
  BY <1>1, FirstAnswered DEF ConfigInv
<1>3. ASSUME call.place.id = None
      PROVE  t # "settings" /\ id \notin DOMAIN saved[t] /\ id # None
  <2>1. t # "settings"
    BY <1>1, <1>2, <1>3, ConfigAssumption DEF CallOK, PlaceOK, Settings
  <2>2. IsFiniteSet(DOMAIN saved[t]) /\ DOMAIN saved[t] = 1..Cardinality(DOMAIN saved[t])
    BY <2>1 DEF ConfigInv, RowsOK, IdsOK, IsNumbered
  <2>3. Cardinality(DOMAIN saved[t]) \in Nat
    BY <2>2, FS_CardinalityType
  <2>4. id = Cardinality(DOMAIN saved[t]) + 1
    BY <1>3 DEF NewId
  <2>5. id \notin 1..Cardinality(DOMAIN saved[t]) /\ id \in Nat
    BY <2>3, <2>4
  <2> QED BY <2>1, <2>2, <2>5, ConfigAssumption
<1>4. id # None
  BY <1>3
<1> QED BY <1>1, <1>2, <1>3, <1>4

\* The rows after it.
LEMMA RowsWritten ==
  ASSUME ConfigInv, NEW t \in Tables, Write(t)
  PROVE  RowsOK'
<1> DEFINE call == Head(queue)
           id == IF call.place.id = None THEN NewId(t) ELSE call.place.id
<1>1. /\ CallOK(call, saved) /\ call.place.table = t
      /\ call.place.id = None => t # "settings" /\ id = NewId(t)
      /\ call.place.id # None => id = call.place.id
      /\ saved' = [saved EXCEPT ![t] = Put(saved[t], id, call.data)]
      /\ unseen' = unseen \cup {<<t, id>>} /\ rows' = rows
  BY Written
<1> HIDE DEF call, id
<1>2. /\ DOMAIN saved = Tables /\ DOMAIN saved' = Tables
      /\ DOMAIN saved'[t] = DOMAIN saved[t] \cup {id}
      /\ saved'[t][id] = call.data
      /\ \A i \in DOMAIN saved'[t] : i # id => i \in DOMAIN saved[t] /\ saved'[t][i] = saved[t][i]
      /\ \A u \in Tables : u # t => saved'[u] = saved[u]
  BY <1>1 DEF ConfigInv, RowsOK, Shaped, Put
<1>3. Shaped(saved)' /\ Shaped(rows)'
  <2>1. DOMAIN saved'[t][id] = Columns(t)
    BY <1>1, <1>2 DEF CallOK
  <2>2. \A u \in Tables : \A i \in DOMAIN saved'[u] : DOMAIN saved'[u][i] = Columns(u)
    BY <1>2, <2>1 DEF ConfigInv, RowsOK, Shaped
  <2> QED BY <1>1, <1>2, <2>2 DEF ConfigInv, RowsOK, Shaped
<1>4. IdsOK'
  <2>1. CASE call.place.id # None
    <3>1. DOMAIN saved'[t] = DOMAIN saved[t]
      BY <1>1, <1>2, <2>1 DEF CallOK, PlaceOK
    <3>2. \A u \in Tables : DOMAIN saved'[u] = DOMAIN saved[u]
      BY <1>2, <3>1
    <3> QED BY <1>1, <3>2 DEF ConfigInv, RowsOK, IdsOK, Tables
  <2>2. CASE call.place.id = None
    <3>1. IsFiniteSet(DOMAIN saved[t]) /\ DOMAIN saved[t] = 1..Cardinality(DOMAIN saved[t])
      BY <1>1, <2>2 DEF ConfigInv, RowsOK, IdsOK, IsNumbered
    <3> DEFINE n == Cardinality(DOMAIN saved[t])
    <3>2. n \in Nat /\ id = n + 1
      BY <1>1, <2>2, <3>1, FS_CardinalityType DEF NewId
    <3>3. DOMAIN saved'[t] = 1..(n + 1)
      BY <1>2, <3>1, <3>2
    <3>4. IsNumbered(1..(n + 1))
      <4> HIDE DEF n
      <4>1. n + 1 \in Int /\ 1 \in Int
        BY <3>2
      <4>2. /\ IsFiniteSet(1..(n + 1))
            /\ Cardinality(1..(n + 1)) = IF 1 > n + 1 THEN 0 ELSE (n + 1) - 1 + 1
        BY <4>1, FS_Interval
      <4>3. Cardinality(1..(n + 1)) = n + 1
        BY <3>2, <4>2
      <4> QED BY <4>2, <4>3 DEF IsNumbered
    <3>5. \A u \in Tables \ {"settings"} : IsNumbered(DOMAIN saved'[u])
      <4> HIDE DEF n
      <4>1. IsNumbered(DOMAIN saved'[t])
        BY <3>3, <3>4
      <4> QED BY <1>2, <4>1 DEF ConfigInv, RowsOK, IdsOK
    <3>6. DOMAIN saved'["settings"] = {Settings}
      BY <1>1, <1>2, <2>2 DEF ConfigInv, RowsOK, IdsOK, Tables
    <3>7. \A u \in Tables : DOMAIN rows'[u] \subseteq DOMAIN saved'[u]
      BY <1>1, <1>2 DEF ConfigInv, RowsOK, IdsOK
    <3> QED BY <1>1, <3>5, <3>6, <3>7 DEF ConfigInv, RowsOK, IdsOK
  <2> QED BY <2>1, <2>2
<1>5. RowsAreSaved'
  <2> SUFFICES ASSUME NEW u \in Tables, NEW i \in DOMAIN saved'[u] \cup DOMAIN rows'[u],
                      <<u, i>> \notin unseen'
               PROVE  /\ i \in DOMAIN saved'[u] \cap DOMAIN rows'[u]
                      /\ SameRow(rows'[u][i], saved'[u][i])
    BY DEF RowsAreSaved, SameRow
  <2>1. <<u, i>> \notin unseen /\ (u # t \/ i # id)
    BY <1>1
  <2>2. i \in DOMAIN saved[u] \cup DOMAIN rows[u]
    BY <1>1, <1>2, <2>1
  <2>3. i \in DOMAIN saved[u] \cap DOMAIN rows[u] /\ SameRow(rows[u][i], saved[u][i])
    BY <2>1, <2>2 DEF ConfigInv, RowsOK, RowsAreSaved
  <2>4. i \in DOMAIN saved'[u] /\ saved'[u][i] = saved[u][i] /\ rows' = rows
    BY <1>1, <1>2, <2>1, <2>3
  <2> QED BY <2>3, <2>4
<1> QED BY <1>3, <1>4, <1>5 DEF RowsOK

\* What the other forms and calls rely on after it.
LEMMA RowsKept ==
  ASSUME ConfigInv, NEW t \in Tables, Write(t),
         NEW p, PlaceOK(p, saved)
  PROVE  /\ PlaceOK(p, saved')
         /\ p.id # None /\ p # Head(queue).place =>
              saved'[p.table][p.id] = saved[p.table][p.id]
<1> DEFINE call == Head(queue)
           id == IF call.place.id = None THEN NewId(t) ELSE call.place.id
<1>1. /\ CallOK(call, saved) /\ call.place.table = t
      /\ call.place.id = None => id \notin DOMAIN saved[t]
      /\ call.place.id # None => id = call.place.id
      /\ saved' = [saved EXCEPT ![t] = Put(saved[t], id, call.data)]
  BY Written
<1> HIDE DEF call, id
<1>2. /\ DOMAIN saved'[t] = DOMAIN saved[t] \cup {id}
      /\ \A i \in DOMAIN saved[t] : i # id => saved'[t][i] = saved[t][i]
      /\ \A u \in Tables : u # t => saved'[u] = saved[u]
  BY <1>1 DEF ConfigInv, RowsOK, Shaped, Put
<1>3. PlaceOK(p, saved')
  BY <1>2 DEF PlaceOK
<1>4. ASSUME p.id # None, p # call.place
      PROVE  saved'[p.table][p.id] = saved[p.table][p.id]
  <2>1. p = Edit(p.table, p.id) /\ p.id \in DOMAIN saved[p.table] /\ p.table \in Tables
    BY <1>4 DEF PlaceOK
  <2>2. CASE p.table # t
    BY <1>2, <2>1, <2>2
  <2>3. CASE p.table = t
    <3>1. p.id # id
      <4> SUFFICES ASSUME p.id = id PROVE FALSE
        OBVIOUS
      <4>1. call.place.id # None /\ id = call.place.id
        BY <1>1, <2>1, <2>3
      <4>2. call.place = Edit(t, id)
        BY <1>1, <4>1 DEF CallOK, PlaceOK
      <4> QED BY <1>4, <2>1, <2>3, <4>2
    <3> QED BY <1>2, <2>1, <2>3, <3>1
  <2> QED BY <2>2, <2>3
<1> QED BY <1>3, <1>4 DEF call

LEMMA CallWritten ==
  ASSUME ConfigInv, NEW t \in Tables, Write(t)
  PROVE  ConfigInv'
<1> DEFINE call == Head(queue)
           id == IF call.place.id = None THEN NewId(t) ELSE call.place.id
           done == [call EXCEPT !.state = "written", !.id = id]
<1>1. /\ queue # << >> /\ 1 \in DOMAIN queue /\ call = queue[1]
      /\ CallOK(call, saved) /\ call.state = "called" /\ call.place.table = t
      /\ call.place.id # None => id = call.place.id
      /\ saved' = [saved EXCEPT ![t] = Put(saved[t], id, call.data)]
      /\ queue' = <<done>> \o Tail(queue) /\ forms' = forms
  BY Written
<1> HIDE DEF id
<1>2. /\ DOMAIN done = CallParts
      /\ done.place = call.place /\ done.data = call.data /\ done.touched = call.touched
      /\ done.behind = call.behind /\ done.state = "written" /\ done.id = id
  <2>1. DOMAIN call = CallParts
    BY <1>1 DEF CallOK
  <2> HIDE DEF call
  <2> QED BY <2>1 DEF CallParts
<1> HIDE DEF done
<1>3. /\ IsSeq(queue') /\ DOMAIN queue' = DOMAIN queue
      /\ queue'[1] = done /\ \A i \in DOMAIN queue : i # 1 => queue'[i] = queue[i]
  BY <1>1, FirstReplaced DEF ConfigInv, CallsOK
<1> HIDE DEF call
<1>4. id \in DOMAIN saved'[t] /\ saved'[t][id] = call.data
  BY <1>1 DEF ConfigInv, RowsOK, Shaped, Put
<1>5. CallOK(done, saved')
  <2>1. PlaceOK(call.place, saved')
    BY <1>1, RowsKept DEF CallOK
  <2> QED BY <1>1, <1>2, <1>4, <2>1 DEF CallOK
<1>6. ASSUME NEW j \in DOMAIN queue, j # 1
      PROVE  CallOK(queue[j], saved')
  <2> DEFINE c == queue[j]
  <2>1. /\ CallOK(c, saved) /\ c.state = "called"
        /\ c.place.id # None => \A i \in 1..(j-1) : queue[i].place = c.place => c.behind
    BY <1>6 DEF ConfigInv, CallsOK, Ordered
  <2>2. 1 \in 1..(j-1)
    <3>1. DOMAIN queue = 1..Len(queue) /\ Len(queue) \in Nat
      BY Numbered DEF ConfigInv, CallsOK
    <3> QED BY <1>6, <3>1
  <2> HIDE DEF c
  <2>3. /\ PlaceOK(c.place, saved')
        /\ c.place.id # None /\ c.place # call.place =>
             saved'[c.place.table][c.place.id] = saved[c.place.table][c.place.id]
    BY <2>1, RowsKept DEF CallOK, call
  <2>4. ASSUME c.place.id # None, ~c.behind
        PROVE  Agrees(c.place.table, c.data, c.touched, saved'[c.place.table][c.place.id])
    <3>1. c.place # call.place
      BY <1>1, <2>1, <2>2, <2>4
    <3> QED BY <2>1, <2>3, <2>4, <3>1 DEF CallOK
  <2>5. CallOK(c, saved')
    BY <2>1, <2>3, <2>4 DEF CallOK
  <2> QED BY <2>5 DEF c
<1>7. CallsOK'
  <2>1. \A i \in DOMAIN queue' : CallOK(queue'[i], saved')
    BY <1>3, <1>5, <1>6
  <2>2. \A i \in DOMAIN queue' : queue'[i].place = queue[i].place /\ queue'[i].behind = queue[i].behind
    BY <1>1, <1>2, <1>3
  <2>3. ASSUME NEW j \in DOMAIN queue', j # 1
        PROVE  /\ queue'[j].state = "called"
               /\ queue'[j].place.id # None => \A i \in 1..(j-1) :
                    queue'[i].place = queue'[j].place => queue'[j].behind
    <3>1. DOMAIN queue = 1..Len(queue) /\ Len(queue) \in Nat
      BY Numbered DEF ConfigInv, CallsOK
    <3>2. \A i \in 1..(j-1) : i \in DOMAIN queue'
      BY <1>3, <3>1
    <3>3. queue'[j] = queue[j] /\ j \in DOMAIN queue
      BY <1>3, <2>3
    <3>4. /\ queue[j].state = "called"
          /\ queue[j].place.id # None => \A i \in 1..(j-1) :
               queue[i].place = queue[j].place => queue[j].behind
      BY <2>3, <3>3 DEF ConfigInv, CallsOK, Ordered
    <3> QED BY <2>2, <3>2, <3>3, <3>4
  <2> QED BY <1>3, <2>1, <2>3 DEF CallsOK, Ordered
<1>8. FormsOK'
  <2> SUFFICES ASSUME NEW p \in DOMAIN forms
               PROVE  FormOK(p)' /\ Owns(p)'
    BY <1>1 DEF FormsOK
  <2> DEFINE f == forms[p]
  <2>1. FormOK(p) /\ Owns(p)
    BY DEF ConfigInv, FormsOK
  <2>2. /\ PlaceOK(p, saved')
        /\ p.id # None /\ p # call.place =>
             saved'[p.table][p.id] = saved[p.table][p.id]
    BY <2>1, RowsKept DEF FormOK, call
  <2>3. ASSUME p.id # None, ~f.behind
        PROVE  Agrees(p.table, f.values, f.touched, saved'[p.table][p.id])
    <3>1. CASE p # call.place
      BY <2>1, <2>2, <2>3, <3>1 DEF FormOK
    <3>2. CASE p = call.place
      <4>1. \A x \in Columns(p.table) \ f.touched : call.data[x] = f.values[x]
        BY <1>1, <2>1, <2>3, <3>2 DEF Owns
      <4>2. saved'[p.table][p.id] = call.data
        BY <1>1, <1>4, <2>3, <3>2
      <4> QED BY <4>1, <4>2 DEF Agrees
    <3> QED BY <3>1, <3>2
  <2>4. FormOK(p)'
    BY <1>1, <2>1, <2>2, <2>3 DEF FormOK
  <2>5. \A i \in DOMAIN queue' : /\ i \in DOMAIN queue
                                 /\ queue'[i].place = queue[i].place
                                 /\ queue'[i].data = queue[i].data
                                 /\ queue'[i].behind = queue[i].behind
    BY <1>1, <1>2, <1>3
  <2>6. Owns(p)'
    BY <1>1, <2>1, <2>5 DEF Owns
  <2> QED BY <2>4, <2>6
<1> QED BY <1>7, <1>8, RowsWritten DEF ConfigInv
-----------------------------------------------------------------------------
\* The first call is answered.

LEMMA AnswerLost ==
  ASSUME ConfigInv, HearNothing
  PROVE  ConfigInv'
<1>1. UNCHANGED <<saved, rows, unseen, forms>> /\ queue # << >> /\ queue' = Tail(queue)
  BY DEF HearNothing
<1>2. IsSeq(queue') /\ Follows(queue, queue', 1)
  BY <1>1, FirstAnswered DEF ConfigInv
<1>3. RowsOK' /\ CallsOK'
  BY <1>1, <1>2, RowsStay, CallsStay DEF ConfigInv
<1>4. FormsOK'
  BY <1>1, <1>2, KeepsItself, FormsStay DEF ConfigInv
<1> QED BY <1>3, <1>4 DEF ConfigInv

\* The form of the answered call waits no more, and no other call is its.
LEMMA WaitsNoMore ==
  ASSUME ConfigInv, queue # << >>, queue' = Tail(queue), saved' = saved,
         forms' = [forms EXCEPT ![Head(queue).place].sending = FALSE]
  PROVE  FormsOK'
<1> DEFINE call == Head(queue)
           no == FALSE
<1>1. /\ IsSeq(queue') /\ Follows(queue, queue', 1)
      /\ 1 \in DOMAIN queue /\ call = queue[1] /\ CallOK(call, saved)
  BY FirstAnswered DEF ConfigInv
<1>2. forms' = [forms EXCEPT ![call.place].sending = no] /\ DOMAIN forms' = DOMAIN forms
  OBVIOUS
<1> HIDE DEF no, call
<1>3. ASSUME NEW p \in DOMAIN forms'
      PROVE  /\ p \in DOMAIN forms
             /\ Keeps(forms[p], forms'[p], p.table)
             /\ p # call.place => forms'[p].sending = forms[p].sending
  <2>1. p \in DOMAIN forms /\ Keeps(forms[p], forms[p], p.table)
    BY <1>2, KeepsItself DEF ConfigInv
  <2>2. CASE p # call.place
    BY <1>2, <2>1, <2>2
  <2>3. CASE p = call.place
    <3>1. forms'[p] = [forms[p] EXCEPT !.sending = no] /\ DOMAIN forms[p] = FormParts
      BY <1>2, <2>1, <2>3 DEF Keeps
    <3>2. /\ DOMAIN forms'[p] = FormParts /\ forms'[p].values = forms[p].values
          /\ forms'[p].touched = forms[p].touched /\ forms'[p].behind = forms[p].behind
      BY <3>1 DEF FormParts
    <3> QED BY <2>1, <2>3, <3>2 DEF Keeps
  <2> QED BY <2>2, <2>3
<1>4. ASSUME NEW p \in DOMAIN forms'
      PROVE  \/ forms[p].sending => forms'[p].sending
             \/ p.id = None \/ forms[p].behind
             \/ \A i \in DOMAIN queue' : queue'[i].place # p
  <2> SUFFICES ASSUME p.id # None, ~forms[p].behind, p = call.place,
                      NEW i \in DOMAIN queue', queue'[i].place = p
               PROVE  FALSE
    BY <1>3, <1>4
  <2>1. queue'[i].behind
    BY NoSecondCall DEF ConfigInv, call
  <2>2. i + 1 \in DOMAIN queue /\ queue[i + 1].place = p /\ queue[i + 1].behind
    BY <1>1, <2>1 DEF Follows, Same
  <2>3. p \in DOMAIN forms /\ Owns(p)
    BY <1>2 DEF ConfigInv, FormsOK
  <2> QED BY <2>2, <2>3 DEF Owns
<1> QED BY <1>1, <1>3, <1>4, FormsStay DEF ConfigInv

LEMMA ErrorHeard ==
  ASSUME ConfigInv, HearError
  PROVE  ConfigInv'
<1>1. UNCHANGED <<saved, rows, unseen>> /\ queue # << >> /\ queue' = Tail(queue)
  BY DEF HearError
<1>2. IsSeq(queue') /\ Follows(queue, queue', 1)
  BY <1>1, FirstAnswered DEF ConfigInv
<1>3. RowsOK' /\ CallsOK'
  BY <1>1, <1>2, RowsStay, CallsStay DEF ConfigInv
<1>4. FormsOK'
  <2>1. CASE forms' = forms
    BY <1>1, <1>2, <2>1, KeepsItself, FormsStay DEF ConfigInv
  <2>2. CASE forms' = [forms EXCEPT ![Head(queue).place].sending = FALSE]
    BY <1>1, <2>2, WaitsNoMore
  <2>3. forms' = forms \/ forms' = [forms EXCEPT ![Head(queue).place].sending = FALSE]
    BY Zenon DEF HearError
  <2> QED BY <2>1, <2>2, <2>3
<1> QED BY <1>3, <1>4 DEF ConfigInv

\* The page takes the row returned: the one saved, but for an account's unit.
LEMMA RowTaken ==
  ASSUME RowsOK, NEW call, CallOK(call, saved), call.state = "written",
         call.id \in DOMAIN rows[call.place.table] \/ call.place.table # "settings",
         UNCHANGED saved,
         unseen' = unseen \ {<<call.place.table, call.id>>},
         rows' = [rows EXCEPT ![call.place.table] = Put(rows[call.place.table], call.id, Returned(call))]
  PROVE  RowsOK'
<1> DEFINE t == call.place.table
           id == call.id
           row == Returned(call)
<1>1. /\ t \in Tables /\ id \in DOMAIN saved[t] /\ saved[t][id] = call.data
      /\ DOMAIN call.data = Columns(t)
  BY DEF CallOK, PlaceOK
<1>2. DOMAIN row = Columns(t) /\ SameRow(row, call.data)
  <2>1. CASE t = "account"
    <3>1. row = [call.data EXCEPT !.unit = None]
      BY <2>1 DEF Returned
    <3> QED BY <1>1, <3>1 DEF SameRow
  <2>2. CASE t # "account"
    <3>1. row = call.data
      BY <2>2 DEF Returned
    <3> QED BY <1>1, <3>1 DEF SameRow
  <2> QED BY <2>1, <2>2
<1> HIDE DEF row
<1>3. /\ DOMAIN rows' = Tables
      /\ DOMAIN rows'[t] = DOMAIN rows[t] \cup {id}
      /\ rows'[t][id] = row
      /\ \A i \in DOMAIN rows[t] : i # id => rows'[t][i] = rows[t][i]
      /\ \A u \in Tables : u # t => rows'[u] = rows[u]
  <2>1. DOMAIN rows = Tables /\ rows' = [rows EXCEPT ![t] = Put(rows[t], id, row)]
    BY DEF RowsOK, Shaped, row
  <2> QED BY <1>1, <2>1 DEF Put
<1>4. Shaped(saved)' /\ Shaped(rows)'
  <2>1. \A u \in Tables : \A i \in DOMAIN rows'[u] : DOMAIN rows'[u][i] = Columns(u)
    BY <1>2, <1>3 DEF RowsOK, Shaped
  <2> QED BY <1>3, <2>1 DEF RowsOK, Shaped
<1>5. IdsOK'
  <2>1. \A u \in Tables : DOMAIN rows'[u] \subseteq DOMAIN saved[u]
    BY <1>1, <1>3 DEF RowsOK, IdsOK
  <2>2. Settings \in DOMAIN rows'["settings"]
    <3>1. "settings" \in Tables /\ Settings \in DOMAIN rows["settings"]
      BY DEF RowsOK, IdsOK, Tables
    <3> QED BY <1>3, <3>1
  <2> QED BY <2>1, <2>2 DEF RowsOK, IdsOK
<1>6. RowsAreSaved'
  <2> SUFFICES ASSUME NEW u \in Tables, NEW i \in DOMAIN saved[u] \cup DOMAIN rows'[u],
                      <<u, i>> \notin unseen'
               PROVE  /\ i \in DOMAIN saved[u] \cap DOMAIN rows'[u]
                      /\ SameRow(rows'[u][i], saved[u][i])
    BY DEF RowsAreSaved, SameRow
  <2>1. CASE u = t /\ i = id
    BY <1>1, <1>2, <1>3, <2>1
  <2>2. CASE u # t \/ i # id
    <3>1. <<u, i>> \notin unseen /\ i \in DOMAIN saved[u] \cup DOMAIN rows[u]
      BY <1>3, <2>2
    <3>2. i \in DOMAIN saved[u] \cap DOMAIN rows[u] /\ SameRow(rows[u][i], saved[u][i])
      BY <3>1 DEF RowsOK, RowsAreSaved
    <3>3. i \in DOMAIN rows'[u] /\ rows'[u][i] = rows[u][i]
      BY <1>3, <2>2, <3>2
    <3> QED BY <3>2, <3>3
  <2> QED BY <2>1, <2>2
<1> QED BY <1>4, <1>5, <1>6 DEF RowsOK

LEMMA SettingsTaken ==
  ASSUME ConfigInv, SetDbDisplaySettings
  PROVE  ConfigInv'
<1> DEFINE call == Head(queue)
<1>1. /\ queue # << >> /\ call.state = "written" /\ UNCHANGED saved
      /\ unseen' = unseen \ {<<call.place.table, call.id>>}
      /\ call.place.table = "settings"
      /\ rows' = [rows EXCEPT !["settings"][Settings] = Returned(call)]
      /\ queue' = Tail(queue)
  BY DEF SetDbDisplaySettings, Heard
<1>2. forms' = [forms EXCEPT ![call.place].sending = FALSE]
  BY Zenon DEF SetDbDisplaySettings
<1>3. IsSeq(queue') /\ Follows(queue, queue', 1) /\ CallOK(call, saved)
  BY <1>1, FirstAnswered DEF ConfigInv
<1>4. CallsOK'
  BY <1>1, <1>3, CallsStay DEF ConfigInv
<1>5. FormsOK'
  BY <1>1, <1>2, WaitsNoMore
<1> HIDE DEF call
<1>6. RowsOK'
  <2>1. call.id = Settings
    BY <1>1, <1>3, ConfigAssumption DEF CallOK, PlaceOK, Settings
  <2>2. Settings \in DOMAIN rows["settings"] /\ "settings" \in DOMAIN rows
    BY DEF ConfigInv, RowsOK, Shaped, IdsOK, Tables
  <2>3. rows' = [rows EXCEPT ![call.place.table] =
                   Put(rows[call.place.table], call.id, Returned(call))]
    <3> DEFINE row == Returned(call)
    <3>1. rows' = [rows EXCEPT !["settings"] = [rows["settings"] EXCEPT ![Settings] = row]]
      BY <1>1
    <3>2. [rows["settings"] EXCEPT ![Settings] = row] = Put(rows["settings"], Settings, row)
      <4> HIDE DEF row
      <4> QED BY <2>2 DEF Put
    <3> QED BY <1>1, <2>1, <3>1, <3>2
  <2> QED BY <1>1, <1>3, <2>1, <2>2, <2>3, RowTaken DEF ConfigInv
<1> QED BY <1>4, <1>5, <1>6 DEF ConfigInv

LEMMA RowAddedOrUpdated ==
  ASSUME ConfigInv, OnAddedOrUpdated
  PROVE  ConfigInv'
<1> DEFINE call == Head(queue)
<1>1. /\ queue # << >> /\ call.state = "written" /\ UNCHANGED saved
      /\ unseen' = unseen \ {<<call.place.table, call.id>>}
      /\ call.place.table # "settings"
      /\ rows' = [rows EXCEPT ![call.place.table] = UpdateOrAppend(@, call.id, Returned(call))]
  BY DEF OnAddedOrUpdated, Heard
<1>2. PICK keep : /\ keep \subseteq DOMAIN forms
                  /\ forms' = Restrict(forms, keep)
                  /\ queue' = WithForms(keep, Tail(queue))
  <2> DEFINE new == [rows EXCEPT ![call.place.table] =
                       UpdateOrAppend(@, call.id, Returned(call))]
             keep == {place \in DOMAIN forms : StaysOpen(place, call, new)}
  <2>1. keep \subseteq DOMAIN forms
    OBVIOUS
  <2>2. forms' = Restrict(forms, keep) /\ queue' = WithForms(keep, Tail(queue))
    BY DEF OnAddedOrUpdated
  <2> HIDE DEF keep
  <2> QED BY <2>1, <2>2
<1>3. IsSeq(Tail(queue)) /\ Follows(queue, Tail(queue), 1) /\ CallOK(call, saved)
  BY <1>1, FirstAnswered DEF ConfigInv
<1>4. IsSeq(queue') /\ Follows(queue, queue', 1)
  <2> DEFINE t == Tail(queue)
  <2>1. \A i \in DOMAIN t : CallOK(t[i], saved)
    BY <1>3 DEF Follows, ConfigInv, CallsOK, CallOK, Same
  <2>2. IsSeq(queue') /\ Follows(t, queue', 0)
    <3> HIDE DEF t
    <3>1. IsSeq(t)
      BY <1>3 DEF t
    <3>2. queue' = WithForms(keep, t)
      BY <1>2 DEF t
    <3> QED BY <2>1, <3>1, <3>2, WithFormsSame
  <2>3. ASSUME NEW i \in DOMAIN queue'
        PROVE  i + 1 \in DOMAIN queue /\ Same(queue[i + 1], queue'[i])
    <3>1. i + 0 = i
      <4>1. DOMAIN queue' = 1..Len(queue') /\ Len(queue') \in Nat
        BY <2>2, Numbered
      <4> QED BY <4>1
    <3>2. i \in DOMAIN t /\ Same(t[i], queue'[i])
      BY <2>2, <2>3, <3>1 DEF Follows
    <3>3. i + 1 \in DOMAIN queue /\ Same(queue[i + 1], t[i])
      BY <1>3, <3>2 DEF Follows
    <3> QED BY <3>2, <3>3 DEF Same
  <2> QED BY <2>2, <2>3 DEF Follows
<1>5. \A p \in DOMAIN forms' : p \in DOMAIN forms /\ forms'[p] = forms[p]
  BY <1>2 DEF Restrict
<1>6. CallsOK'
  BY <1>1, <1>4, CallsStay DEF ConfigInv
<1>7. FormsOK'
  BY <1>1, <1>4, <1>5, KeepsItself, FormsStay DEF ConfigInv
<1> HIDE DEF call
<1>8. RowsOK'
  <2>1. \A list, id, item : UpdateOrAppend(list, id, item) = Put(list, id, item)
    BY DEF UpdateOrAppend, Put
  <2>2. rows' = [rows EXCEPT ![call.place.table] =
                   Put(rows[call.place.table], call.id, Returned(call))]
    BY <1>1, <2>1
  <2> QED BY <1>1, <1>3, <2>2, RowTaken DEF ConfigInv
<1> QED BY <1>6, <1>7, <1>8 DEF ConfigInv
-----------------------------------------------------------------------------
\* Every step.

LEMMA NextConfig ==
  ASSUME ConfigInv, [Next]_vars
  PROVE  ConfigInv'
<1>1. CASE LoadBanksPage \/ LoadCategoriesPage
  BY <1>1, EmptyPageLoaded
<1>2. CASE LoadDisplaySettingsPage
  BY <1>2, SettingsLoaded
<1>3. CASE OpenForm
  BY <1>3, FormOpened
<1>4. CASE ChangeField
  BY <1>4, FieldChanged
<1>5. CASE CloseForm
  BY <1>5, FormClosed
<1>6. CASE HandleSubmit
  BY <1>6, FormSubmitted
<1>7. CASE UpsertBank \/ UpsertBankAccount \/ UpsertCategory \/ UpdateDisplaySettings
  BY <1>7, CallWritten DEF UpsertBank, UpsertBankAccount, UpsertCategory,
       UpdateDisplaySettings, Tables
<1>8. CASE OnAddedOrUpdated
  BY <1>8, RowAddedOrUpdated
<1>9. CASE SetDbDisplaySettings
  BY <1>9, SettingsTaken
<1>10. CASE HearNothing
  BY <1>10, AnswerLost
<1>11. CASE HearError
  BY <1>11, ErrorHeard
<1>12. CASE ToggleCollapsedState \/ ToggleCollapsedStateAll
  BY <1>12, Folded DEF ToggleCollapsedState, ToggleCollapsedStateAll
<1>13. CASE PickUnit
  BY <1>13, UnitPicked
<1>14. CASE OpenPicker \/ SearchUnits \/ ClosePicker
  <2>1. UNCHANGED <<saved, rows, queue, unseen, forms>>
    BY <1>14 DEF OpenPicker, SearchUnits, ClosePicker
  <2> QED BY <2>1, PageKept
<1>15. CASE UNCHANGED vars
  <2>1. UNCHANGED <<saved, rows, queue, unseen, forms>>
    BY <1>15 DEF vars
  <2> QED BY <2>1, PageKept
<1> QED BY <1>1, <1>2, <1>3, <1>4, <1>5, <1>6, <1>7, <1>8, <1>9, <1>10, <1>11,
       <1>12, <1>13, <1>14, <1>15 DEF Next

\* The inductive invariant of the settings pages: what each open form and each
\* call under way may rely on about the rows saved.
THEOREM ConfigInvariant == Spec => []ConfigInv
<1>1. Init => ConfigInv
  BY InitConfig
<1>2. ConfigInv /\ [Next]_vars => ConfigInv'
  BY NextConfig
<1> QED BY <1>1, <1>2, PTL DEF Spec

\* However many forms are open and saving, in whichever order the answers come
\* and whichever forms are gone by then, the page shows what is saved
\* (updateOrAppend, and the handlers that call it).
THEOREM RowsShownAreSaved == Spec => []RowsAreSaved
<1>1. ConfigInv => RowsAreSaved
  BY DEF ConfigInv, RowsOK
<1> QED BY <1>1, ConfigInvariant, PTL

-----------------------------------------------------------------------------
\* What a save changes.

Untouched == \A table \in Tables : \A id \in DOMAIN saved[table] :
  saved'[table][id] # saved[table][id] =>
     LET call == Head(queue)
     IN  /\ call.place = Edit(table, id)
         /\ ~call.behind => \A field \in DOMAIN saved[table][id] :
              saved'[table][id][field] # saved[table][id][field] =>
                 field \in call.touched

LEMMA WriteKeepsUntouched ==
  ASSUME ConfigInv, NEW t \in Tables, Write(t)
  PROVE  Untouched
<1> SUFFICES ASSUME NEW table \in Tables, NEW id \in DOMAIN saved[table],
                    saved'[table][id] # saved[table][id]
             PROVE  LET call == Head(queue)
                    IN  /\ call.place = Edit(table, id)
                        /\ ~call.behind => \A field \in DOMAIN saved[table][id] :
                             saved'[table][id][field] # saved[table][id][field] =>
                                field \in call.touched
  BY DEF Untouched
<1> DEFINE call == Head(queue)
           new == IF call.place.id = None THEN NewId(t) ELSE call.place.id
<1>1. /\ CallOK(call, saved) /\ call.place.table = t /\ call.state = "called"
      /\ call.place.id = None => new \notin DOMAIN saved[t]
      /\ call.place.id # None => new = call.place.id
      /\ saved' = [saved EXCEPT ![t] = Put(saved[t], new, call.data)]
  BY Written
<1> HIDE DEF call, new
<1>2. /\ saved'[t][new] = call.data
      /\ \A i \in DOMAIN saved[t] : i # new => saved'[t][i] = saved[t][i]
      /\ \A u \in Tables : u # t => saved'[u] = saved[u]
  BY <1>1 DEF ConfigInv, RowsOK, Shaped, Put
<1>3. table = t /\ id = new
  BY <1>2
<1>4. call.place.id # None /\ call.place.id = id
  BY <1>1, <1>3
<1>5. call.place = Edit(table, id)
  BY <1>1, <1>3, <1>4 DEF CallOK, PlaceOK
<1>6. ASSUME ~call.behind, NEW field \in DOMAIN saved[table][id],
             saved'[table][id][field] # saved[table][id][field]
      PROVE  field \in call.touched
  <2>1. Agrees(t, call.data, call.touched, saved[t][id])
    BY <1>1, <1>4, <1>6 DEF CallOK
  <2>2. field \in Columns(t)
    BY <1>3, <1>6 DEF ConfigInv, RowsOK, Shaped
  <2> QED BY <1>2, <1>3, <1>6, <2>1, <2>2 DEF Agrees
<1> QED BY <1>5, <1>6 DEF call

\* A save that writes a whole row changes the fields its user changed and no
\* other, unless an earlier save of the row was under way or unheard when the
\* form was opened (BankForm, AccountForm, CategoryForm, DisplaySettingsPage).
THEOREM SavesKeepUntouched == Spec => SaveKeepsUntouched
<1>1. ConfigInv /\ [Next]_vars => [Untouched]_vars
  <2> SUFFICES ASSUME ConfigInv, Next PROVE Untouched
    BY DEF vars
  <2>1. CASE UNCHANGED saved
    BY <2>1 DEF Untouched
  <2>2. CASE UpsertBank \/ UpsertBankAccount \/ UpsertCategory \/ UpdateDisplaySettings
    BY <2>2, WriteKeepsUntouched DEF UpsertBank, UpsertBankAccount, UpsertCategory,
         UpdateDisplaySettings, Tables
  <2>3. \/ UNCHANGED saved
        \/ UpsertBank \/ UpsertBankAccount \/ UpsertCategory \/ UpdateDisplaySettings
    BY DEF Next, LoadBanksPage, LoadCategoriesPage, LoadDisplaySettingsPage, LoadPage,
         OpenForm, ChangeField, CloseForm, HandleSubmit, OnAddedOrUpdated, Heard,
         SetDbDisplaySettings, HearNothing, HearError, ToggleCollapsedState,
         ToggleCollapsedStateAll, Fold, OpenPicker, SearchUnits, PickUnit, ClosePicker
  <2> QED BY <2>1, <2>2, <2>3
<1>2. SaveKeepsUntouched <=> [][Untouched]_vars
  BY DEF SaveKeepsUntouched, Untouched
<1> QED BY <1>1, <1>2, ConfigInvariant, PTL DEF Spec
=============================================================================
