---- MODULE DocStore_proof ----
(***************************************************************************)
(* The document store's properties, for any documents, processes, refs and *)
(* bounds: settled files follow the index, what is called committed is in  *)
(* the index, and the entries change by whole operations. The invariant    *)
(* says where the transaction under way, or the one a dead process left,   *)
(* aims at, and that every file off that aim is in somebody's list of jobs *)
(* or in the list the next recovery will make.                             *)
(***************************************************************************)
EXTENDS DocStore, FiniteSetTheorems, TLAPS

Creates == {"create", "adopt"}
FileJobs == {"write", "mirror", "remove"}

Active(h) == han[h].pc \in {"mutating", "revoking"}
Working(h) == Active(h) /\ han[h].todo # <<>>
Busy(h) == Recovering(h) /\ (han[h].queue # {} \/ han[h].todo # <<>>)

Jobs(m) == ToSet(m.todo)

\* The last transaction, as it began, and the documents it changes.
Now == Len(journal)
Latest == [journal[Now] EXCEPT !.status = "pending"]
Touched(tx) == {tx.d, tx.to} \union tx.mirrored

\* A job that settles the file of d at the path.
Fixes(job, d, path) == job.do \in FileJobs /\ job.d = d /\ job.at = path

\* A document, archived.
Retired(rec) == IF rec.arch THEN rec ELSE [rec EXCEPT !.arch = TRUE, !.rev = @ + 1]

\* Where a recovery goes: a complete archived copy is rolled forward.
Goal == IF journal # <<>> /\ Latest.op = "archive" /\ file[Latest.d].archived # Nothing
        THEN [index EXCEPT ![Latest.d] = Retired(index[Latest.d])] ELSE index

-----------------------------------------------------------------------------
\* Transactions and handles belong together, whatever the store has met.
InJournal ==
  \A h \in Handles :
    /\ Active(h) <=> lock = h
    /\ Active(h) => han[h].tx \in DOMAIN journal
    /\ Recovering(h) => han[h].queue \subseteq DOMAIN journal
    /\ Recovering(h) /\ han[h].todo # <<>> => han[h].tx \in DOMAIN journal

Whole == TypeOK /\ InJournal

-----------------------------------------------------------------------------
(* A transaction, number n, and what a handle plans for it. *)

\* Entries before or after tx.
Fits(n, tx, ents) ==
  /\ tx.op \in Creates => /\ IsLive(ents, tx.d) => ents[tx.d].by = n
                          /\ \A t \in tx.mirrored : IsLive(ents, t)
  /\ tx.op \in {"update", "link"} => \A t \in Touched(tx) : IsLive(ents, t)
  /\ tx.op = "update" => (ents[tx.d].rev >= tx.rev => ents[tx.d].by = n)
  /\ tx.op = "link" => (ents[tx.d].rev >= tx.rev => <<tx.to, "strong">> \in ents[tx.d].out)
  /\ tx.op = "archive" => /\ ents[tx.d] # Nothing
                          /\ ~ents[tx.d].arch => CanArchive(ents, tx.d)
                          /\ Retired(ents[tx.d]).rev = tx.rev

\* Entries of the same archiving have the same document to archive.
Alike(tx, ents, other) == tx.op = "archive" => Retired(ents[tx.d]) = Retired(other[tx.d])

TxShape(tx) ==
  /\ tx.op # "link" => tx.to = tx.d
  /\ tx.op = "link" => tx.mirrored \subseteq {tx.to}
  /\ tx.op = "archive" => tx.mirrored = {}
  /\ tx.d \notin tx.mirrored

\* Entries after tx.
Achieved(n, tx, ents) ==
  /\ ents[tx.d] # Nothing
  /\ tx.op \in {"create", "adopt", "update"} => ents[tx.d].by = n
  /\ tx.op = "archive" => ents[tx.d].arch
  /\ tx.op = "link" => <<tx.to, "strong">> \in ents[tx.d].out

\* One operation of the store.
Changes(n, before, after) ==
  \/ \E d \in Docs, out \in SUBSET Relations :
        \/ CanCreate(before, d, out) /\ after = Created(before, d, out, n)
        \/ CanUpdate(before, d, out) /\ after = Updated(before, d, out, n)
  \/ \E d \in Docs : \/ CanArchive(before, d) /\ after = Archived(before, d)
                     \/ \E t \in Docs : CanLink(before, d, t) /\ after = Linked(before, d, t)

\* A job makes a file follow the handle's entries.
Agrees(tx, m, job) ==
  /\ job.do \in FileJobs => job.d \in Touched(tx)
  /\ job.do = "write" => job.rec # Nothing /\ job.rec = m.mem[job.d] /\ job.at = PathOf(job.rec)
  /\ job.do = "mirror" => IsLive(m.mem, job.d) /\ job.at = "live"
  /\ job.do = "remove" => FileOf(m.mem[job.d])[job.at] = Nothing
  /\ job.do = "revert" => m.mem = m.before
  /\ job.do = "log" => job.st # "pending"

\* The last job, only, settles the transaction; the index is written just before.
LogLast(todo) == \A i \in DOMAIN todo : todo[i].do = "log" <=> i = Len(todo)
IndexNext(todo) == \A i \in DOMAIN todo : todo[i].do = "index" => i = Len(todo) - 1

\* The jobs agree, and end with the settlement.
Listed(tx, m) ==
  /\ \A job \in Jobs(m) : Agrees(tx, m, job)
  /\ LogLast(m.todo)

Writes(m) == {i \in DOMAIN m.todo : m.todo[i].do = "write"}

\* A create writes the document first, an adopt after it has moved the source.
WriteFirst(tx, m) ==
  /\ m.before[tx.d] = Nothing /\ IsLive(m.mem, tx.d)
  /\ \A i \in DOMAIN m.todo : m.todo[i].do = "move" => i = 1 /\ m.todo[i].d = tx.d /\ Writes(m) # {}
  /\ \A i \in Writes(m) : /\ i = 1 \/ (i = 2 /\ m.todo[1].do = "move")
                          /\ m.todo[i].d = tx.d

Planned(n, tx, m) ==
  /\ Fits(n, tx, m.mem) /\ Fits(n, tx, m.before) /\ Alike(tx, m.mem, m.before)
  /\ \A d \in Docs \ Touched(tx) : m.mem[d] = m.before[d]
  /\ Listed(tx, m)
  /\ m.pc = "mutating" =>
       /\ Changes(n, m.before, m.mem) /\ Achieved(n, tx, m.mem)
       /\ IndexNext(m.todo)
       /\ \A job \in Jobs(m) : job.do # "revert" /\ (job.do = "log" => job.st = "committed")
       /\ tx.op \in Creates => WriteFirst(tx, m)
       /\ tx.op \notin Creates => \A job \in Jobs(m) : job.do # "move"
  /\ m.pc = "revoking" =>
       /\ m.mem = m.before
       /\ \A job \in Jobs(m) : job.do \notin {"index", "move"} /\ (job.do = "log" => job.st = "aborted")

-----------------------------------------------------------------------------
(* The state of the store, while it has met no weakness. *)

\* Whose turn it is.
Placed(h) ==
  /\ Active(h) => /\ han[h].tx = Now
                  /\ han[h].todo # <<>> <=> Pending(Now)
  /\ Busy(h) => /\ lock = Nothing
                /\ han[h].queue \subseteq {Now}
                /\ han[h].todo # <<>> => han[h].queue = {} /\ han[h].tx = Now

OneAtATime ==
  /\ \A i \in DOMAIN journal : Pending(i) => i = Now
  /\ \A h \in Handles : Placed(h)

\* What the last transaction's files can be.
LastFits ==
  journal # <<>> =>
    /\ TxShape(Latest) /\ Fits(Now, Latest, index)
    /\ Latest.op = "archive" => file[Latest.d].archived \in {Nothing, Retired(index[Latest.d])}

\* A mutation, or its rollback, that has jobs left.
UnderWay(m) ==
  /\ Planned(Now, Latest, m)
  /\ Alike(Latest, index, m.before)
  /\ \A d \in Docs \ Touched(Latest) : index[d] = m.before[d]
  /\ m.pc = "mutating" =>
       /\ index = m.before \/ index = m.mem
       /\ (\E job \in Jobs(m) : job.do = "index") => index = m.before
       /\ Latest.op = "archive" => IsLive(m.before, Latest.d)
       /\ Latest.op \in Creates =>
            /\ Writes(m) # {} =>
                 /\ index = m.before
                 /\ \A d \in Docs \ {Latest.d}, path \in Paths : file[d][path] = FileOf(index[d])[path]
            /\ Writes(m) = {} => file[Latest.d].live = m.mem[Latest.d]

Mutation == \A h \in Handles : Working(h) => UnderWay(han[h])

\* A recovering handle still has to settle a file that a create left.
Held(d, path) == \E h \in Handles : /\ Recovering(h) /\ Latest.op \in Creates
                                    /\ \E job \in Jobs(han[h]) : Fixes(job, d, path)

\* What is not settled yet is still to be done, by the handle or by another.
Covers(m) ==
  /\ \A d \in Docs, path \in Paths :
       \/ file[d][path] = FileOf(m.mem[d])[path]
       \/ \E job \in Jobs(m) : Fixes(job, d, path)
       \/ Held(d, path)
  /\ \/ index = m.mem
     \/ \E job \in Jobs(m) : job.do \in {"index", "revert"}

Settling(h) == Working(h) \/ (Recovering(h) /\ han[h].todo # <<>>)
Covered == \A h \in Handles : Settling(h) => Covers(han[h])

\* A handle has read the index before another rolled an archive forward.
Behind(mem) == /\ Latest.op = "archive" /\ index[Latest.d].arch
               /\ mem = [index EXCEPT ![Latest.d] = mem[Latest.d]]
               /\ file[Latest.d].archived = index[Latest.d]

Recovers(m) ==
  /\ m.todo # <<>> =>
       /\ m.mem = Goal
       /\ Listed(Latest, m)
       /\ \A job \in Jobs(m) :
            /\ job.do \notin {"revert", "move"}
            /\ job.do = "log" /\ job.st = "committed" => Achieved(Now, Latest, m.mem)
            /\ job.do \in {"write", "mirror"} /\ Latest.op \in Creates => job.d # Latest.d
  /\ m.queue # {} => /\ m.mem = index \/ Behind(m.mem)
                     /\ Fits(Now, Latest, m.mem) /\ Alike(Latest, m.mem, index)

Recoverers == \A h \in Handles : Recovering(h) => Recovers(han[h])

\* What the next recovery puts right.
Coverable(d, path) ==
  \/ Latest.op \in {"update", "link"} /\ path = "live" /\ d \in Touched(Latest)
  \/ Latest.op = "archive" /\ d = Latest.d
  \/ /\ Latest.op \in Creates
     /\ path = "live" /\ file[Latest.d].live # Nothing
     /\ d \in Latest.mirrored \/ (d = Latest.d /\ ~IsLive(index, d))

\* The rollback of a create: a death in it is a weakness.
Undoing == \E h \in Handles : Working(h) /\ han[h].pc = "revoking" /\ Latest.op \in Creates

Follows(d, path) == file[d][path] = FileOf(Goal[d])[path]

Recoverable ==
  ~Undoing => \A d \in Docs, path \in Paths :
    \/ Follows(d, path)
    \/ journal # <<>> /\ (Held(d, path) \/ (Pending(Now) /\ Coverable(d, path)))

Settled == journal # <<>> /\ ~Pending(Now) => Goal = index

Sane == /\ OneAtATime /\ LastFits /\ Mutation /\ Covered
        /\ Recoverers /\ Recoverable /\ Settled

DocInv == Whole /\ (spoilt = {} => Sane)
-----------------------------------------------------------------------------
(* The entries. *)

\* What WithMirrors leaves: d has its record, but for the mirrors in it, and only
\* live documents change besides, which stay live.
LEMMA Mirroring ==
  ASSUME NEW ents \in Entries, NEW d \in Docs, NEW rec \in Record, NEW old \in SUBSET Relations,
         TargetsLive(ents, old, rec.out)
  PROVE  /\ WithMirrors(ents, d, rec, old) \in Entries
         /\ LET new == WithMirrors(ents, d, rec, old)[d]
            IN /\ new \in Record /\ new.rev = rec.rev /\ new.arch = rec.arch
               /\ new.out = rec.out /\ new.by = rec.by
         /\ \A t \in Docs \ {d} :
              LET new == WithMirrors(ents, d, rec, old)[t]
              IN new # ents[t] => ents[t] # Nothing /\ ~ents[t].arch /\ new \in Record /\ ~new.arch
<1> DEFINE inb(t) == MirrorsAdjusted(IF t = d THEN rec.inb ELSE ents[t].inb, d, t, old, rec.out)
           new == WithMirrors(ents, d, rec, old)
<1>0. ents \in [Docs -> Record \union {Nothing}] /\ Nothing \notin Record
  BY StoreAssumption DEF Entries
<1>1. new = [t \in Docs |->
        IF t = d THEN [rec EXCEPT !.inb = inb(d)]
        ELSE IF ents[t] = Nothing \/ inb(t) = ents[t].inb THEN ents[t]
        ELSE [ents[t] EXCEPT !.inb = inb(t), !.rev = @ + 1]]
  BY Zenon DEF WithMirrors
<1>2. new[d] = [rec EXCEPT !.inb = inb(d)] /\ DOMAIN new = Docs
  <2> HIDE DEF inb
  <2> QED BY <1>1, Zenon
<1>3. ASSUME NEW t \in Docs, t # d
      PROVE  new[t] = IF ents[t] = Nothing \/ inb(t) = ents[t].inb THEN ents[t]
                      ELSE [ents[t] EXCEPT !.inb = inb(t), !.rev = @ + 1]
  <2> HIDE DEF inb
  <2> QED BY <1>1, <1>3, Zenon
<1>4. ASSUME NEW t \in Docs, t = d \/ ents[t] # Nothing
      PROVE  inb(t) \in SUBSET Relations
  <2> DEFINE base == IF t = d THEN rec.inb ELSE ents[t].inb
  <2>1. base \in SUBSET Relations
    BY <1>0, <1>4 DEF Record
  <2>2. \A s \in Strengths : <<d, s>> \in Relations
    BY DEF Relations
  <2>3. inb(t) \subseteq base \union {<<d, s>> : s \in Strengths}
    <3>1. inb(t) = MirrorsAdjusted(base, d, t, old, rec.out)
      OBVIOUS
    <3> HIDE DEF base, inb
    <3> QED BY <3>1 DEF MirrorsAdjusted
  <2> HIDE DEF inb, base
  <2> QED BY <2>1, <2>2, <2>3
<1>5. new[d] = [rec EXCEPT !.inb = inb(d)]
  BY <1>2
<1>6. /\ new[d] \in Record /\ new[d].rev = rec.rev /\ new[d].arch = rec.arch
      /\ new[d].out = rec.out /\ new[d].by = rec.by
  <2>1. inb(d) \in SUBSET Relations
    BY <1>4
  <2> HIDE DEF inb, new
  <2> QED BY <1>5, <2>1 DEF Record
<1>7. ASSUME NEW t \in Docs, t # d, ents[t] # Nothing, inb(t) # ents[t].inb
      PROVE  IsLive(ents, t)
  <2>1. PICK s \in Strengths : <<t, s>> \in Differing(old, rec.out)
    BY <1>7 DEF MirrorsAdjusted, Differing
  <2> QED BY <2>1 DEF TargetsLive
<1>8. ASSUME NEW t \in Docs, t # d, ents[t] # Nothing, inb(t) # ents[t].inb
      PROVE  new[t] \in Record /\ ~new[t].arch
  <2>1. /\ ents[t] \in Record /\ ~ents[t].arch /\ inb(t) \in SUBSET Relations
        /\ new[t] = [ents[t] EXCEPT !.inb = inb(t), !.rev = @ + 1]
    <3> HIDE DEF inb, new
    <3> QED BY <1>0, <1>3, <1>4, <1>7, <1>8 DEF IsLive
  <2> DEFINE r == ents[t].rev + 1
  <2>2. r \in Nat \ {0} /\ new[t] = [ents[t] EXCEPT !.inb = inb(t), !.rev = r]
    <3> HIDE DEF inb, new
    <3> QED BY <2>1 DEF Record
  <2> HIDE DEF inb, new, r
  <2> QED BY <2>1, <2>2 DEF Record
<1>9. \A t \in Docs : new[t] \in Record \union {Nothing}
  <2> HIDE DEF inb, new
  <2> QED BY <1>0, <1>3, <1>6, <1>8
<1>10. new \in Entries
  <2>1. new = [t \in Docs |-> new[t]]
    <3> HIDE DEF inb
    <3> QED BY <1>1
  <2> HIDE DEF new
  <2> QED BY <2>1, <1>9 DEF Entries
<1>11. ASSUME NEW t \in Docs \ {d}, new[t] # ents[t]
       PROVE  ents[t] # Nothing /\ ~ents[t].arch /\ new[t] \in Record /\ ~new[t].arch
  <2>1. t \in Docs /\ t # d
    OBVIOUS
  <2>2. ents[t] # Nothing /\ inb(t) # ents[t].inb
    <3> HIDE DEF inb, new
    <3> QED BY <1>3, <2>1, <1>11
  <2>3. IsLive(ents, t)
    <3> HIDE DEF inb, new
    <3> QED BY <1>7, <2>1, <2>2
  <2>4. new[t] \in Record /\ ~new[t].arch
    <3> HIDE DEF inb, new
    <3> QED BY <1>8, <2>1, <2>2
  <2> QED BY <2>3, <2>4 DEF IsLive
<1> HIDE DEF inb
<1> QED BY <1>6, <1>10, <1>11

-----------------------------------------------------------------------------
(* Lists of jobs. *)

\* One job after the other.
LEMMA Concatenated ==
  ASSUME NEW s \in Seq(Job), NEW t \in Seq(Job)
  PROVE  /\ s \o t \in Seq(Job) /\ Len(s \o t) = Len(s) + Len(t)
         /\ ToSet(s \o t) = ToSet(s) \union ToSet(t)
         /\ \A i \in DOMAIN s : (s \o t)[i] = s[i]
         /\ \A i \in DOMAIN t : (s \o t)[i + Len(s)] = t[i]
<1>1. /\ s \o t \in Seq(Job) /\ Len(s \o t) = Len(s) + Len(t)
      /\ Len(s) \in Nat /\ Len(t) \in Nat
      /\ DOMAIN s = 1..Len(s) /\ DOMAIN t = 1..Len(t) /\ DOMAIN (s \o t) = 1..(Len(s) + Len(t))
  OBVIOUS
<1>2. \A i \in DOMAIN s : (s \o t)[i] = s[i]
  OBVIOUS
<1>3. \A i \in 1..(Len(s) + Len(t)) : i > Len(s) => (s \o t)[i] = t[i - Len(s)]
  OBVIOUS
<1>4. \A i \in DOMAIN t : (s \o t)[i + Len(s)] = t[i]
  BY <1>1, <1>3
<1>5. ToSet(s) \union ToSet(t) \subseteq ToSet(s \o t)
  <2>1. ASSUME NEW i \in DOMAIN s PROVE s[i] \in ToSet(s \o t)
    BY <1>1, <1>2 DEF ToSet
  <2>2. ASSUME NEW i \in DOMAIN t PROVE t[i] \in ToSet(s \o t)
    BY <1>1, <1>4, i + Len(s) \in 1..(Len(s) + Len(t)) DEF ToSet
  <2> QED BY <2>1, <2>2 DEF ToSet
<1>6. ASSUME NEW i \in DOMAIN (s \o t) PROVE (s \o t)[i] \in ToSet(s) \union ToSet(t)
  <2>1. CASE i <= Len(s)
    BY <2>1, <1>1, <1>2 DEF ToSet
  <2>2. CASE i > Len(s)
    <3>1. i - Len(s) \in DOMAIN t /\ (s \o t)[i] = t[i - Len(s)]
      BY <2>2, <1>1, <1>3
    <3> QED BY <3>1 DEF ToSet
  <2> QED BY <2>1, <2>2, <1>1
<1>7. ToSet(s \o t) \subseteq ToSet(s) \union ToSet(t)
  BY <1>6 DEF ToSet
<1> QED BY <1>1, <1>2, <1>4, <1>5, <1>7

\* A short list.
LEMMA Single ==
  ASSUME NEW a \in Job
  PROVE  /\ <<a>> \in Seq(Job) /\ Len(<<a>>) = 1 /\ ToSet(<<a>>) = {a} /\ <<a>>[1] = a
         /\ 1 \in DOMAIN <<a>>
<1>1. /\ <<a>> \in Seq(Job) /\ Len(<<a>>) = 1 /\ <<a>>[1] = a /\ DOMAIN <<a>> = 1..1
  OBVIOUS
<1>2. ToSet(<<a>>) = {a}
  BY <1>1 DEF ToSet
<1> QED BY <1>1, <1>2

\* Lists of no, one and two jobs.
LEMMA Short ==
  ASSUME NEW a \in Job, NEW b \in Job
  PROVE  /\ <<a>> \in Seq(Job) /\ Len(<<a>>) = 1 /\ ToSet(<<a>>) = {a} /\ <<a>>[1] = a
         /\ <<a, b>> \in Seq(Job) /\ Len(<<a, b>>) = 2 /\ ToSet(<<a, b>>) = {a, b}
         /\ <<a, b>>[1] = a /\ <<a, b>>[2] = b
         /\ <<>> \in Seq(Job) /\ Len(<<>>) = 0 /\ ToSet(<<>>) = {}
<1>1. /\ <<a>> \in Seq(Job) /\ Len(<<a>>) = 1 /\ <<a>>[1] = a /\ DOMAIN <<a>> = 1..1
      /\ <<a, b>> \in Seq(Job) /\ Len(<<a, b>>) = 2
      /\ <<a, b>>[1] = a /\ <<a, b>>[2] = b /\ DOMAIN <<a, b>> = 1..2
      /\ <<>> \in Seq(Job) /\ Len(<<>>) = 0 /\ DOMAIN <<>> = {}
  OBVIOUS
<1>2. ToSet(<<a>>) = {a}
  BY <1>1 DEF ToSet
<1>3. ToSet(<<a, b>>) = {a, b}
  BY <1>1 DEF ToSet
<1>4. ToSet(<<>>) = {}
  BY <1>1 DEF ToSet
<1> QED BY <1>1, <1>2, <1>3, <1>4

\* The first job and the others.
LEMMA FirstJob ==
  ASSUME NEW s \in Seq(Job), s # <<>>
  PROVE  /\ Head(s) = s[1] /\ Head(s) \in Job /\ Head(s) \in ToSet(s) /\ 1 \in DOMAIN s
         /\ Tail(s) \in Seq(Job) /\ Len(Tail(s)) = Len(s) - 1 /\ Len(s) \in Nat \ {0}
         /\ DOMAIN Tail(s) = 1..(Len(s) - 1) /\ DOMAIN s = 1..Len(s)
         /\ \A i \in DOMAIN Tail(s) : Tail(s)[i] = s[i + 1] /\ i + 1 \in DOMAIN s
         /\ ToSet(s) = {Head(s)} \union ToSet(Tail(s))
<1>1. /\ Head(s) = s[1] /\ Head(s) \in Job /\ 1 \in DOMAIN s
      /\ Tail(s) \in Seq(Job) /\ Len(Tail(s)) = Len(s) - 1 /\ Len(s) \in Nat \ {0}
      /\ DOMAIN Tail(s) = 1..(Len(s) - 1) /\ DOMAIN s = 1..Len(s)
      /\ \A i \in 1..(Len(s) - 1) : Tail(s)[i] = s[i + 1] /\ i + 1 \in 1..Len(s)
  OBVIOUS
<1>2. ASSUME NEW i \in DOMAIN s PROVE s[i] \in {Head(s)} \union ToSet(Tail(s))
  <2>1. CASE i = 1
    BY <2>1, <1>1
  <2>2. CASE i # 1
    <3>1. i - 1 \in DOMAIN Tail(s) /\ Tail(s)[i - 1] = s[i]
      BY <2>2, <1>1
    <3> QED BY <3>1 DEF ToSet
  <2> QED BY <2>1, <2>2
<1>3. ASSUME NEW i \in DOMAIN Tail(s) PROVE Tail(s)[i] \in ToSet(s)
  BY <1>1 DEF ToSet
<1>4. Head(s) \in ToSet(s)
  BY <1>1 DEF ToSet
<1>5. ToSet(s) = {Head(s)} \union ToSet(Tail(s))
  BY <1>2, <1>3, <1>4 DEF ToSet
<1> QED BY <1>1, <1>4, <1>5

\* The elements of a finite set in some order.
LEMMA InSomeOrder ==
  ASSUME NEW S, IsFiniteSet(S), NEW job, \A d \in S : job[d] \in Job
  PROVE  /\ Each(S, job) \in Seq(Job)
         /\ ToSet(Each(S, job)) = {job[d] : d \in S}
<1> DEFINE order == SetToSeq(S)
           n == Cardinality(S)
<1>1. n \in Nat /\ ExistsBijection(1..n, S)
  BY FS_CardinalityType
<1>2. \E f \in [1..n -> S] : IsInjective(f)
  BY <1>1 DEF ExistsBijection, Bijection, Injection
<1>3. order \in [1..n -> S] /\ IsInjective(order)
  BY <1>2 DEF SetToSeq
<1>4. order \in Injection(1..n, S)
  BY <1>3 DEF Injection
<1>5. Cardinality(1..n) = n
  BY <1>1, FS_Interval
<1>6. order \in Surjection(1..n, S)
  <2> HIDE DEF order
  <2> QED BY <1>4, <1>5, <1>1, FS_Injection
<1>7. \A d \in S : \E i \in 1..n : order[i] = d
  BY <1>6 DEF Surjection
<1>8. Each(S, job) = [i \in 1..n |-> job[order[i]]]
  BY <1>3 DEF Each
<1> HIDE DEF order, n
<1>9. Each(S, job) \in Seq(Job)
  BY <1>1, <1>3, <1>8
<1>10. DOMAIN Each(S, job) = 1..n /\ \A i \in 1..n : Each(S, job)[i] = job[order[i]]
  BY <1>8
<1>11. ToSet(Each(S, job)) = {job[d] : d \in S}
  BY <1>3, <1>7, <1>10 DEF ToSet
<1> QED BY <1>9, <1>11

\* The jobs.
LEMMA JobFields ==
  ASSUME NEW d \in Docs, NEW rec \in Record \union {Nothing}, NEW path \in Paths, NEW st \in Status
  PROVE  /\ Write(d, rec) = [do |-> "write", d |-> d, rec |-> rec, at |-> PathOf(rec), st |-> "pending"]
         /\ Mirror(d) = [do |-> "mirror", d |-> d, rec |-> Nothing, at |-> "live", st |-> "pending"]
         /\ RemoveFile(d, path) = [do |-> "remove", d |-> d, rec |-> Nothing, at |-> path, st |-> "pending"]
         /\ Move(d) = [do |-> "move", d |-> d, rec |-> Nothing, at |-> "live", st |-> "pending"]
         /\ Return(d) = [do |-> "return", d |-> d, rec |-> Nothing, at |-> "live", st |-> "pending"]
         /\ PersistIndex = [do |-> "index", d |-> Nothing, rec |-> Nothing, at |-> "live", st |-> "pending"]
         /\ RevertIndex = [do |-> "revert", d |-> Nothing, rec |-> Nothing, at |-> "live", st |-> "pending"]
         /\ Log(st) = [do |-> "log", d |-> Nothing, rec |-> Nothing, at |-> "live", st |-> st]
         /\ {Write(d, rec), Mirror(d), RemoveFile(d, path), Move(d), Return(d),
             PersistIndex, RevertIndex, Log(st)} \subseteq Job
<1>1. PathOf(rec) \in Paths
  BY DEF PathOf, Paths
<1> HIDE DEF PathOf
<1>2. /\ Write(d, rec) = [do |-> "write", d |-> d, rec |-> rec, at |-> PathOf(rec), st |-> "pending"]
      /\ Mirror(d) = [do |-> "mirror", d |-> d, rec |-> Nothing, at |-> "live", st |-> "pending"]
      /\ RemoveFile(d, path) = [do |-> "remove", d |-> d, rec |-> Nothing, at |-> path, st |-> "pending"]
      /\ Move(d) = [do |-> "move", d |-> d, rec |-> Nothing, at |-> "live", st |-> "pending"]
      /\ Return(d) = [do |-> "return", d |-> d, rec |-> Nothing, at |-> "live", st |-> "pending"]
  BY Zenon DEF Write, Mirror, RemoveFile, Move, Return, FileJob, JobOf
<1>3. /\ PersistIndex = [do |-> "index", d |-> Nothing, rec |-> Nothing, at |-> "live", st |-> "pending"]
      /\ RevertIndex = [do |-> "revert", d |-> Nothing, rec |-> Nothing, at |-> "live", st |-> "pending"]
      /\ Log(st) = [do |-> "log", d |-> Nothing, rec |-> Nothing, at |-> "live", st |-> st]
  BY Zenon DEF PersistIndex, RevertIndex, Log, FileJob, JobOf
<1>4. {Write(d, rec), Mirror(d), RemoveFile(d, path), Move(d), Return(d)} \subseteq Job
  BY <1>1, <1>2 DEF Job, Status, Paths
<1>5. {PersistIndex, RevertIndex, Log(st)} \subseteq Job
  BY <1>3 DEF Job, Status, Paths
<1> QED BY <1>2, <1>3, <1>4, <1>5

\* The jobs that name no document.
LEMMA EndJobs ==
  /\ PersistIndex = [do |-> "index", d |-> Nothing, rec |-> Nothing, at |-> "live", st |-> "pending"]
  /\ RevertIndex = [do |-> "revert", d |-> Nothing, rec |-> Nothing, at |-> "live", st |-> "pending"]
  /\ \A st \in Status : Log(st) = [do |-> "log", d |-> Nothing, rec |-> Nothing, at |-> "live", st |-> st]
  /\ {PersistIndex, RevertIndex, Log("committed"), Log("aborted")} \subseteq Job
<1>1. /\ PersistIndex = [do |-> "index", d |-> Nothing, rec |-> Nothing, at |-> "live", st |-> "pending"]
      /\ RevertIndex = [do |-> "revert", d |-> Nothing, rec |-> Nothing, at |-> "live", st |-> "pending"]
      /\ \A st \in Status : Log(st) = [do |-> "log", d |-> Nothing, rec |-> Nothing, at |-> "live", st |-> st]
  BY Zenon DEF PersistIndex, RevertIndex, Log, FileJob, JobOf
<1> QED BY <1>1 DEF Job, Status, Paths

-----------------------------------------------------------------------------
(* The operations. *)

\* Entries that differ in d and in documents that are and stay live.
Local(ents, after, d) ==
  /\ after \in Entries /\ after[d] \in Record
  /\ \A t \in Docs \ {d} : after[t] # ents[t] => IsLive(ents, t) /\ IsLive(after, t)

\* A create changes the document, which becomes live, and live documents it refers to.
LEMMA Creating ==
  ASSUME NEW ents \in Entries, NEW d \in Docs, NEW out \in SUBSET Relations, NEW n \in Nat,
         CanCreate(ents, d, out)
  PROVE  LET after == Created(ents, d, out, n)
         IN /\ Local(ents, after, d) /\ ents[d] = Nothing
            /\ IsLive(after, d) /\ after[d].by = n
<1>1. /\ NewRecord(out, n) \in Record /\ NewRecord(out, n).out = out
      /\ NewRecord(out, n).arch = FALSE /\ NewRecord(out, n).by = n
  BY DEF NewRecord, Record
<1>2. TargetsLive(ents, {}, NewRecord(out, n).out) /\ {} \in SUBSET Relations
  BY <1>1 DEF CanCreate
<1> DEFINE after == WithMirrors(ents, d, NewRecord(out, n), {})
<1>3. /\ after \in Entries
      /\ after[d] \in Record /\ ~after[d].arch /\ after[d].by = n
      /\ \A t \in Docs \ {d} :
           after[t] # ents[t] => ents[t] # Nothing /\ ~ents[t].arch /\ after[t] \in Record /\ ~after[t].arch
  <2> HIDE DEF NewRecord
  <2> QED BY <1>1, <1>2, Mirroring
<1> HIDE DEF after
<1>4. Local(ents, after, d) /\ IsLive(after, d)
  BY <1>3, StoreAssumption DEF Local, IsLive
<1> QED BY <1>3, <1>4 DEF after, Created, CanCreate

\* An update changes the document, which stays live, and live documents its refs add or drop.
LEMMA Updating ==
  ASSUME NEW ents \in Entries, NEW d \in Docs, NEW out \in SUBSET Relations, NEW n \in Nat,
         CanUpdate(ents, d, out)
  PROVE  LET after == Updated(ents, d, out, n)
         IN /\ Local(ents, after, d) /\ IsLive(ents, d) /\ ents[d] \in Record
            /\ IsLive(after, d) /\ after[d].by = n /\ after[d].rev = ents[d].rev + 1
<1> DEFINE r == ents[d].rev + 1
           rec == [ents[d] EXCEPT !.out = out, !.rev = r, !.by = n]
           after == WithMirrors(ents, d, rec, ents[d].out)
<1>1. ents[d] \in Record /\ IsLive(ents, d) /\ r \in Nat \ {0}
  BY DEF CanUpdate, IsLive, Entries, Record
<1>2. rec \in Record /\ rec.out = out /\ rec.rev = r /\ rec.by = n /\ rec.arch = FALSE
  <2>1. ents[d].arch = FALSE
    BY <1>1 DEF IsLive, Record
  <2> HIDE DEF r
  <2> QED BY <1>1, <2>1 DEF Record
<1>3. after = Updated(ents, d, out, n)
  BY Zenon DEF Updated
<1> HIDE DEF rec
<1>4. TargetsLive(ents, ents[d].out, rec.out) /\ ents[d].out \in SUBSET Relations
  BY <1>1, <1>2 DEF CanUpdate, Record
<1>5. /\ after \in Entries
      /\ after[d] \in Record /\ ~after[d].arch /\ after[d].by = n /\ after[d].rev = r
      /\ \A t \in Docs \ {d} :
           after[t] # ents[t] => ents[t] # Nothing /\ ~ents[t].arch /\ after[t] \in Record /\ ~after[t].arch
  BY <1>2, <1>4, Mirroring
<1> HIDE DEF after
<1>6. Local(ents, after, d) /\ IsLive(after, d)
  BY <1>5, StoreAssumption DEF Local, IsLive
<1> QED BY <1>1, <1>3, <1>5, <1>6

\* A link changes its two documents at most, both of which stay live.
LEMMA Linking ==
  ASSUME NEW ents \in Entries, NEW d \in Docs, NEW t \in Docs, CanLink(ents, d, t)
  PROVE  LET after == Linked(ents, d, t)
         IN /\ Local(ents, after, d) /\ IsLive(ents, d) /\ IsLive(ents, t) /\ ents[d] \in Record
            /\ IsLive(after, d) /\ <<t, "strong">> \in after[d].out
            /\ after # ents => after[d].rev = ents[d].rev + 1
            /\ \A x \in Docs \ {d, t} : after[x] = ents[x]
<1> DEFINE out == StrongOnly(ents[d].out, t)
           r == ents[d].rev + 1
           rec == [ents[d] EXCEPT !.out = out, !.rev = r]
           after == WithMirrors(ents, d, rec, ents[d].out)
<1>1. /\ ents[d] \in Record /\ IsLive(ents, d) /\ IsLive(ents, t) /\ r \in Nat \ {0}
      /\ ents[d].arch = FALSE
  BY DEF CanLink, IsLive, Entries, Record
<1>2. out \in SUBSET Relations /\ <<t, "strong">> \in out /\ ents[d].out \in SUBSET Relations
  BY <1>1 DEF StrongOnly, Relations, Strengths, Record
<1>3. \A rel \in Differing(ents[d].out, out) : rel[1] = t
  BY <1>2 DEF StrongOnly, Differing
<1>4. CASE out = ents[d].out
  <2>1. Linked(ents, d, t) = ents
    BY <1>4, Zenon DEF Linked
  <2> QED BY <1>1, <1>2, <1>4, <2>1 DEF Local
<1>5. CASE out # ents[d].out
  <2>1. Linked(ents, d, t) = after
    BY <1>5, Zenon DEF Linked
  <2> HIDE DEF out
  <2>2. rec \in Record /\ rec.out = out /\ rec.rev = r /\ rec.arch = FALSE
    <3> HIDE DEF r
    <3> QED BY <1>1, <1>2 DEF Record
  <2> HIDE DEF rec
  <2>3. TargetsLive(ents, ents[d].out, rec.out)
    BY <1>1, <1>3, <2>2 DEF TargetsLive
  <2>4. /\ after \in Entries
        /\ after[d] \in Record /\ ~after[d].arch /\ after[d].rev = r /\ after[d].out = out
        /\ \A x \in Docs \ {d} :
             after[x] # ents[x] => ents[x] # Nothing /\ ~ents[x].arch /\ after[x] \in Record /\ ~after[x].arch
    BY <1>2, <2>2, <2>3, Mirroring
  <2>5. ASSUME NEW x \in Docs \ {d, t} PROVE after[x] = ents[x]
    <3> DEFINE inb == MirrorsAdjusted(ents[x].inb, d, x, ents[d].out, rec.out)
    <3>1. after[x] = IF ents[x] = Nothing \/ inb = ents[x].inb THEN ents[x]
                     ELSE [ents[x] EXCEPT !.inb = inb, !.rev = @ + 1]
      <4>1. x # d /\ x \in Docs
        OBVIOUS
      <4> QED BY <4>1, Zenon DEF WithMirrors
    <3>2. \A s \in Strengths : <<x, s>> \notin ents[d].out \ rec.out /\ <<x, s>> \notin rec.out \ ents[d].out
      BY <1>3, <2>2 DEF Differing
    <3>3. inb = ents[x].inb
      BY <3>2 DEF MirrorsAdjusted
    <3> HIDE DEF inb, after
    <3> QED BY <3>1, <3>3
  <2> HIDE DEF after
  <2>6. Local(ents, after, d) /\ IsLive(after, d)
    BY <2>4, StoreAssumption DEF Local, IsLive
  <2> QED BY <1>1, <1>2, <2>1, <2>4, <2>5, <2>6
<1> HIDE DEF out
<1> QED BY <1>4, <1>5

\* An archiving changes its document alone.
LEMMA Archiving ==
  ASSUME NEW ents \in Entries, NEW d \in Docs, CanArchive(ents, d)
  PROVE  LET after == Archived(ents, d)
         IN /\ Local(ents, after, d) /\ IsLive(ents, d) /\ ents[d] \in Record
            /\ after = [ents EXCEPT ![d] = Retired(ents[d])]
            /\ after[d].arch = TRUE /\ after[d].rev = ents[d].rev + 1
            /\ \A x \in Docs \ {d} : after[x] = ents[x]
<1> DEFINE r == ents[d].rev + 1
           rec == [ents[d] EXCEPT !.arch = TRUE, !.rev = r]
<1>1. /\ ents[d] \in Record /\ IsLive(ents, d) /\ r \in Nat \ {0} /\ ents[d].arch = FALSE
  BY DEF CanArchive, IsLive, Entries, Record
<1>2. rec \in Record /\ rec.arch = TRUE /\ rec.rev = r
  <2> HIDE DEF r
  <2> QED BY <1>1 DEF Record
<1>3. Retired(ents[d]) = rec
  BY <1>1, Zenon DEF Retired
<1>4. Archived(ents, d) = [ents EXCEPT ![d] = rec]
  BY DEF Archived, Entries
<1> HIDE DEF rec
<1>5. /\ [ents EXCEPT ![d] = rec] \in Entries /\ [ents EXCEPT ![d] = rec][d] = rec
      /\ \A x \in Docs \ {d} : [ents EXCEPT ![d] = rec][x] = ents[x]
  BY <1>2 DEF Entries
<1> QED BY <1>1, <1>2, <1>3, <1>4, <1>5 DEF Local

-----------------------------------------------------------------------------
(* What a mutation plans. *)

\* A list of these jobs, the last of which settles the transaction.
ListOf(todo, S) == todo \in Seq(Job) /\ todo # <<>> /\ ToSet(todo) = S /\ LogLast(todo)

\* Lists of one to four jobs, the last of which settles.
LEMMA Endings ==
  ASSUME NEW a \in Job, NEW b \in Job, NEW c \in Job, NEW log \in Job,
         a.do # "log", b.do # "log", c.do # "log", log.do = "log"
  PROVE  /\ ListOf(<<log>>, {log})
         /\ ListOf(<<c, log>>, {c, log}) /\ IndexNext(<<c, log>>)
         /\ ListOf(<<b, c, log>>, {b, c, log})
         /\ ListOf(<<a, b, c, log>>, {a, b, c, log})
         /\ b.do # "index" => IndexNext(<<b, c, log>>)
         /\ a.do # "index" /\ b.do # "index" => IndexNext(<<a, b, c, log>>)
<1>1. /\ <<log>> \in Seq(Job) /\ Len(<<log>>) = 1 /\ DOMAIN <<log>> = 1..1 /\ <<log>>[1] = log
      /\ <<c, log>> \in Seq(Job) /\ Len(<<c, log>>) = 2 /\ DOMAIN <<c, log>> = 1..2
      /\ <<c, log>>[1] = c /\ <<c, log>>[2] = log
  OBVIOUS
<1>2. /\ <<b, c, log>> \in Seq(Job) /\ Len(<<b, c, log>>) = 3 /\ DOMAIN <<b, c, log>> = 1..3
      /\ <<b, c, log>>[1] = b /\ <<b, c, log>>[2] = c /\ <<b, c, log>>[3] = log
  OBVIOUS
<1>3. /\ <<a, b, c, log>> \in Seq(Job) /\ Len(<<a, b, c, log>>) = 4 /\ DOMAIN <<a, b, c, log>> = 1..4
      /\ <<a, b, c, log>>[1] = a /\ <<a, b, c, log>>[2] = b
      /\ <<a, b, c, log>>[3] = c /\ <<a, b, c, log>>[4] = log
  OBVIOUS
<1>4. ListOf(<<log>>, {log})
  BY <1>1 DEF ListOf, ToSet, LogLast
<1>5. ListOf(<<c, log>>, {c, log}) /\ IndexNext(<<c, log>>)
  BY <1>1 DEF ListOf, ToSet, LogLast, IndexNext
<1>6. ListOf(<<b, c, log>>, {b, c, log}) /\ (b.do # "index" => IndexNext(<<b, c, log>>))
  BY <1>2 DEF ListOf, ToSet, LogLast, IndexNext
<1>7. ListOf(<<a, b, c, log>>, {a, b, c, log})
  BY <1>3 DEF ListOf, ToSet, LogLast
<1>8. a.do # "index" /\ b.do # "index" => IndexNext(<<a, b, c, log>>)
  BY <1>3 DEF IndexNext
<1> QED BY <1>4, <1>5, <1>6, <1>7, <1>8

\* Jobs that settle nothing, put before a list.
LEMMA Prefixed ==
  ASSUME NEW s \in Seq(Job), NEW t, NEW S, ListOf(t, S), \A job \in ToSet(s) : job.do # "log"
  PROVE  /\ ListOf(s \o t, ToSet(s) \union S)
         /\ Len(s \o t) = Len(s) + Len(t)
         /\ \A i \in DOMAIN s : (s \o t)[i] = s[i]
         /\ \A i \in DOMAIN (s \o t) : i \in DOMAIN s \/ (i - Len(s) \in DOMAIN t /\ (s \o t)[i] = t[i - Len(s)])
         /\ IndexNext(t) /\ (\A job \in ToSet(s) : job.do # "index") => IndexNext(s \o t)
<1> DEFINE l == s \o t
<1>1. /\ t \in Seq(Job) /\ t # <<>> /\ ToSet(t) = S /\ LogLast(t)
  BY DEF ListOf
<1>2. /\ l \in Seq(Job) /\ Len(l) = Len(s) + Len(t) /\ ToSet(l) = ToSet(s) \union S
      /\ \A i \in DOMAIN s : l[i] = s[i]
      /\ \A i \in DOMAIN t : l[i + Len(s)] = t[i]
  BY <1>1, Concatenated
<1>3. /\ Len(s) \in Nat /\ Len(t) \in Nat \ {0}
      /\ DOMAIN s = 1..Len(s) /\ DOMAIN t = 1..Len(t) /\ DOMAIN l = 1..Len(l)
      /\ l # <<>>
  BY <1>1, <1>2
<1> HIDE DEF l
<1>4. ASSUME NEW i \in DOMAIN l, i \notin DOMAIN s
      PROVE  i - Len(s) \in DOMAIN t /\ l[i] = t[i - Len(s)]
  <2>1. i - Len(s) \in DOMAIN t /\ (i - Len(s)) + Len(s) = i
    BY <1>2, <1>3, <1>4
  <2> QED BY <1>2, <2>1
<1>5. \A i \in DOMAIN s : s[i] \in ToSet(s)
  BY DEF ToSet
<1>6. LogLast(l)
  <2> SUFFICES ASSUME NEW i \in DOMAIN l PROVE l[i].do = "log" <=> i = Len(l)
    BY DEF LogLast
  <2>1. CASE i \in DOMAIN s
    BY <2>1, <1>2, <1>3, <1>5
  <2>2. CASE i \notin DOMAIN s
    <3>1. l[i].do = "log" <=> i - Len(s) = Len(t)
      BY <2>2, <1>1, <1>4 DEF LogLast
    <3> QED BY <3>1, <1>2, <1>3
  <2> QED BY <2>1, <2>2
<1>7. ASSUME IndexNext(t), \A job \in ToSet(s) : job.do # "index"
      PROVE  IndexNext(l)
  <2> SUFFICES ASSUME NEW i \in DOMAIN l, l[i].do = "index" PROVE i = Len(l) - 1
    BY DEF IndexNext
  <2>1. i \notin DOMAIN s
    BY <1>2, <1>5, <1>7
  <2>2. i - Len(s) = Len(t) - 1
    BY <2>1, <1>4, <1>7 DEF IndexNext
  <2> QED BY <2>2, <1>2, <1>3
<1>8. ListOf(l, ToSet(s) \union S)
  BY <1>2, <1>3, <1>6 DEF ListOf
<1> QED BY <1>2, <1>4, <1>7, <1>8 DEF l

\* The file of an entry.
LEMMA FileFacts ==
  ASSUME NEW ents \in Entries, NEW d \in Docs
  PROVE  /\ ents[d] = Nothing => FileOf(ents[d])["live"] = Nothing /\ FileOf(ents[d])["archived"] = Nothing
         /\ IsLive(ents, d) => /\ FileOf(ents[d])["live"] = ents[d] /\ FileOf(ents[d])["archived"] = Nothing
                               /\ PathOf(ents[d]) = "live"
         /\ ents[d] # Nothing /\ ents[d].arch =>
              /\ FileOf(ents[d])["live"] = Nothing /\ FileOf(ents[d])["archived"] = ents[d]
              /\ PathOf(ents[d]) = "archived"
         /\ FileOf(ents[d])["live"] # Nothing => IsLive(ents, d)
         /\ FileOf(ents[d])["archived"] # Nothing => ents[d] # Nothing /\ ents[d].arch
         /\ ents[d] # Nothing => FileOf(ents[d])[PathOf(ents[d])] = ents[d]
         /\ ents[d] # Nothing => ents[d] \in Record
BY DEF FileOf, PathOf, IsLive, Paths, Entries

\* Mirroring a set of documents, writing a set of them.
LEMMA MirrorList ==
  ASSUME NEW S \in SUBSET Docs
  PROVE  /\ Each(S, [t \in S |-> Mirror(t)]) \in Seq(Job)
         /\ ToSet(Each(S, [t \in S |-> Mirror(t)])) = {Mirror(t) : t \in S}
<1> DEFINE job == [t \in S |-> Mirror(t)]
<1>1. IsFiniteSet(S)
  BY StoreAssumption, FS_Subset
<1>2. ASSUME NEW t \in S PROVE job[t] = Mirror(t) /\ job[t] \in Job
  <2>1. Mirror(t) \in Job
    BY JobFields DEF Paths, Status
  <2> QED BY <2>1
<1>3. {job[t] : t \in S} = {Mirror(t) : t \in S}
  BY <1>2
<1> HIDE DEF job
<1>4. Each(S, job) \in Seq(Job) /\ ToSet(Each(S, job)) = {job[t] : t \in S}
  BY <1>1, <1>2, InSomeOrder
<1> QED BY <1>3, <1>4 DEF job

\* A list of restored documents.
LEMMA RestoreList ==
  ASSUME NEW ents \in Entries, NEW S \in SUBSET Docs
  PROVE  /\ RestoreMirrored(ents, S) \in Seq(Job)
         /\ ToSet(RestoreMirrored(ents, S)) = {Write(t, ents[t]) : t \in {d \in S : ents[d] # Nothing}}
<1> DEFINE kept == {d \in S : ents[d] # Nothing}
           job == [t \in kept |-> Write(t, ents[t])]
<1>1. IsFiniteSet(kept)
  BY StoreAssumption, FS_Subset
<1>2. ASSUME NEW t \in kept PROVE job[t] = Write(t, ents[t]) /\ job[t] \in Job
  <2>1. ents[t] \in Record \union {Nothing} /\ t \in Docs
    BY DEF Entries
  <2>2. Write(t, ents[t]) \in Job
    BY <2>1, JobFields DEF Paths, Status
  <2> QED BY <2>2
<1>3. {job[t] : t \in kept} = {Write(t, ents[t]) : t \in kept}
  BY <1>2
<1>4. RestoreMirrored(ents, S) = Each(kept, job)
  BY DEF RestoreMirrored
<1> HIDE DEF job, kept
<1>5. Each(kept, job) \in Seq(Job) /\ ToSet(Each(kept, job)) = {job[t] : t \in kept}
  BY <1>1, <1>2, InSomeOrder
<1> QED BY <1>3, <1>4, <1>5 DEF kept

\* A handle that has begun tx.
Opening(after, jobs, pc) ==
  [pc |-> pc, mem |-> after, before |-> index, tx |-> Now + 1, queue |-> {}, todo |-> jobs]

Typed(tx, after, jobs) ==
  /\ tx \in Tx /\ tx.status = "pending" /\ after \in Entries
  /\ jobs \in Seq(Job) /\ jobs # <<>>

\* The plan puts right every file and entry it makes differ.
Ready(tx, m) ==
  /\ TxShape(tx) /\ Fits(Now + 1, tx, index) /\ Planned(Now + 1, tx, m)
  /\ tx.op = "archive" => IsLive(index, tx.d)
  /\ tx.op \in Creates /\ m.pc = "mutating" => Writes(m) # {}
  /\ \A d \in Docs, path \in Paths :
       \/ FileOf(index[d])[path] = FileOf(m.mem[d])[path]
       \/ \E job \in Jobs(m) : Fixes(job, d, path)
  /\ \/ index = m.mem
     \/ \E job \in Jobs(m) : job.do \in {"index", "revert"}
  /\ index # m.mem => m.pc = "mutating"

\* The journal entry of an operation that changes live documents alone.
LEMMA EntryFields ==
  ASSUME TypeOK, NEW d \in Docs, NEW after, Local(index, after, d),
         NEW op \in Ops
  PROVE  LET tx == Entry(op, d, after) IN
         /\ tx \in Tx /\ tx.op = op /\ tx.d = d /\ tx.to = d /\ tx.rev = after[d].rev
         /\ tx.mirrored = Mirrored(index, after, d) /\ tx.status = "pending"
         /\ Mirrored(index, after, d) \in SUBSET Docs /\ d \notin Mirrored(index, after, d)
         /\ \A t \in Mirrored(index, after, d) : IsLive(index, t) /\ IsLive(after, t)
         /\ \A t \in Docs \ Touched(tx) : after[t] = index[t]
<1>1. after[d].rev \in Nat
  BY DEF Local, Record
<1>2. /\ Mirrored(index, after, d) \in SUBSET Docs /\ d \notin Mirrored(index, after, d)
      /\ \A t \in Mirrored(index, after, d) : IsLive(index, t) /\ IsLive(after, t)
      /\ \A t \in Docs : t = d \/ t \in Mirrored(index, after, d) \/ after[t] = index[t]
  BY DEF Mirrored, Local
<1> HIDE DEF Mirrored
<1>3. Entry(op, d, after) \in Tx
  BY <1>1, <1>2 DEF Entry, Tx, Status
<1> QED BY <1>2, <1>3 DEF Entry, Touched

\* What every mutation ends with: the mirrors, the index, the settlement.
LEMMA CommitList ==
  ASSUME TypeOK, NEW d \in Docs, NEW after, Local(index, after, d)
  PROVE  /\ ListOf(Commit(d, after), {Mirror(t) : t \in Mirrored(index, after, d)}
                                       \union {PersistIndex, Log("committed")})
         /\ IndexNext(Commit(d, after))
<1> DEFINE S == Mirrored(index, after, d)
           s == Each(S, [t \in S |-> Mirror(t)])
           e == <<PersistIndex, Log("committed")>>
<1>1. S \in SUBSET Docs
  BY DEF Mirrored
<1>2. s \in Seq(Job) /\ ToSet(s) = {Mirror(t) : t \in S}
  <2> HIDE DEF S
  <2> QED BY <1>1, MirrorList
<1>3. \A job \in ToSet(s) : job.do # "log" /\ job.do # "index"
  <2>1. \A t \in S : Mirror(t).do = "mirror"
    BY <1>1, JobFields DEF Paths, Status
  <2> HIDE DEF S, s
  <2> QED BY <1>2, <2>1
<1>4. /\ PersistIndex \in Job /\ Log("committed") \in Job
      /\ PersistIndex.do = "index" /\ Log("committed").do = "log"
  BY JobFields DEF Paths, Status
<1>5. ListOf(e, {PersistIndex, Log("committed")}) /\ IndexNext(e)
  BY <1>4, Endings
<1>6. Commit(d, after) = s \o e
  BY DEF Commit
<1>7. ListOf(s \o e, ToSet(s) \union {PersistIndex, Log("committed")}) /\ IndexNext(s \o e)
  <2> HIDE DEF s, e, S
  <2> QED BY <1>2, <1>3, <1>5, Prefixed
<1> HIDE DEF s, e
<1> QED BY <1>2, <1>6, <1>7

\* What is live before and after has no archived file.
LEMMA LiveFiles ==
  ASSUME NEW ents \in Entries, NEW after \in Entries, NEW t \in Docs,
         ents[t] = Nothing \/ IsLive(ents, t), IsLive(after, t)
  PROVE  FileOf(ents[t])["archived"] = FileOf(after[t])["archived"]
BY FileFacts

\* A create, or an adoption, begins with a plan that is ready.
LEMMA CreateBegins ==
  ASSUME TypeOK, NEW h \in Handles, NEW op \in Creates, NEW d \in Docs, NEW out \in SUBSET Relations,
         Create(h, op, d, out)
  PROVE  \E tx, after, jobs : /\ Begin(h, tx, after, jobs, "mutating", {}) /\ Typed(tx, after, jobs)
                              /\ Ready(tx, Opening(after, jobs, "mutating"))
<1> DEFINE after == Created(index, d, out, NextId)
           tx == Entry(op, d, after)
           first == IF op = "adopt" THEN <<Move(d)>> ELSE <<>>
           pre == first \o <<Write(d, after[d])>>
           end == Commit(d, after)
           jobs == pre \o end
           m == Opening(after, jobs, "mutating")
<1>0. index \in Entries /\ CanCreate(index, d, out) /\ Now + 1 \in Nat /\ NextId = Now + 1 /\ op \in Ops
  BY DEF TypeOK, Create, NextId, Now, Creates, Ops
<1>1. Begin(h, tx, after, jobs, "mutating", {})
  BY DEF Create
<1>2. /\ Local(index, after, d) /\ index[d] = Nothing
      /\ IsLive(after, d) /\ after[d].by = NextId
  BY <1>0, Creating
<1>3. Changes(Now + 1, index, after)
  BY <1>0 DEF Changes
<1> HIDE DEF after
<1>4. /\ tx \in Tx /\ tx.op = op /\ tx.d = d /\ tx.to = d /\ tx.rev = after[d].rev
      /\ tx.mirrored = Mirrored(index, after, d) /\ tx.status = "pending"
      /\ tx.mirrored \in SUBSET Docs /\ d \notin tx.mirrored
      /\ \A t \in tx.mirrored : IsLive(index, t) /\ IsLive(after, t)
      /\ \A t \in Docs \ Touched(tx) : after[t] = index[t]
  BY <1>0, <1>2, EntryFields
<1>5. ListOf(end, {Mirror(t) : t \in tx.mirrored} \union {PersistIndex, Log("committed")}) /\ IndexNext(end)
  BY <1>2, <1>4, CommitList
<1>6. after \in Entries /\ after[d] \in Record
  BY <1>2 DEF Local
<1> DEFINE w == Write(d, after[d])
<1>7. /\ w = [do |-> "write", d |-> d, rec |-> after[d], at |-> "live", st |-> "pending"]
      /\ Move(d) = [do |-> "move", d |-> d, rec |-> Nothing, at |-> "live", st |-> "pending"]
      /\ w \in Job /\ Move(d) \in Job
  <2>1. PathOf(after[d]) = "live"
    BY <1>2, <1>6, FileFacts
  <2> QED BY <1>6, <2>1, JobFields DEF Paths, Status
<1> HIDE DEF tx, end, w
<1>8. /\ pre \in Seq(Job) /\ ToSet(pre) = {w} \union (IF op = "adopt" THEN {Move(d)} ELSE {})
      /\ op = "adopt" => Len(pre) = 2 /\ pre[1] = Move(d) /\ pre[2] = w
      /\ op # "adopt" => Len(pre) = 1 /\ pre[1] = w
  <2>1. CASE op = "adopt"
    <3>1. first = <<Move(d)>>
      BY <2>1
    <3>2. pre = <<Move(d)>> \o <<w>>
      BY <3>1 DEF w
    <3> HIDE DEF pre
    <3>3. /\ <<Move(d)>> \in Seq(Job) /\ Len(<<Move(d)>>) = 1 /\ ToSet(<<Move(d)>>) = {Move(d)}
          /\ <<Move(d)>>[1] = Move(d) /\ 1 \in DOMAIN <<Move(d)>>
          /\ <<w>> \in Seq(Job) /\ Len(<<w>>) = 1 /\ ToSet(<<w>>) = {w} /\ <<w>>[1] = w /\ 1 \in DOMAIN <<w>>
      <4>1. Move(d) \in Job /\ w \in Job
        BY <1>7
      <4> QED BY <4>1, Single
    <3>4. /\ pre \in Seq(Job) /\ ToSet(pre) = {Move(d), w}
          /\ Len(pre) = 2 /\ pre[1] = Move(d) /\ pre[2] = w
      BY <3>2, <3>3, Concatenated
    <3> QED BY <3>4, <2>1
  <2>2. CASE op # "adopt"
    <3>1. first = <<>>
      BY <2>2
    <3>2. pre = <<>> \o <<w>>
      BY <3>1 DEF w
    <3>3. pre = <<w>>
      <4> HIDE DEF pre
      <4> QED BY <1>7, <3>2
    <3> HIDE DEF pre
    <3> QED BY <3>3, <1>7, <2>2, Short
  <2> QED BY <2>1, <2>2
<1> HIDE DEF pre
<1>9. \A job \in ToSet(pre) : job.do \in {"write", "move"}
  BY <1>7, <1>8
<1>10. /\ ListOf(jobs, ToSet(pre) \union ({Mirror(t) : t \in tx.mirrored} \union {PersistIndex, Log("committed")}))
       /\ IndexNext(jobs)
       /\ \A i \in DOMAIN pre : jobs[i] = pre[i]
       /\ \A i \in DOMAIN jobs : i \in DOMAIN pre \/ (i - Len(pre) \in DOMAIN end /\ jobs[i] = end[i - Len(pre)])
       /\ Len(jobs) = Len(pre) + Len(end)
  BY <1>5, <1>8, <1>9, Prefixed
<1> HIDE DEF jobs
<1>11. m.todo = jobs /\ m.mem = after /\ m.before = index /\ m.pc = "mutating"
  BY DEF Opening
<1> HIDE DEF m
<1>12. \A t \in tx.mirrored : Mirror(t) = [do |-> "mirror", d |-> t, rec |-> Nothing, at |-> "live", st |-> "pending"]
  BY <1>4, JobFields DEF Paths, Status
<1>13. /\ PersistIndex.do = "index" /\ Log("committed").do = "log" /\ Log("committed").st = "committed"
  BY EndJobs DEF Status
<1>14. ASSUME NEW job \in Jobs(m)
       PROVE  /\ job \in {w, Move(d), PersistIndex, Log("committed")} \/ \E t \in tx.mirrored : job = Mirror(t)
              /\ job = Move(d) => op = "adopt"
  <2>1. job \in ToSet(pre) \union ({Mirror(t) : t \in tx.mirrored} \union {PersistIndex, Log("committed")})
    BY <1>10, <1>11 DEF Jobs, ListOf
  <2>2. Move(d).do = "move"
    BY <1>7
  <2> QED BY <2>1, <2>2, <1>7, <1>8, <1>12, <1>13
<1>15. ASSUME NEW job \in Jobs(m)
       PROVE  Agrees(tx, m, job) /\ job.do # "revert" /\ (job.do = "log" => job.st = "committed")
  <2>1. CASE job = w \/ job = Move(d)
    <3>1. PathOf(after[d]) = "live"
      BY <1>2, <1>6, FileFacts
    <3>2. after[d] # Nothing
      BY <1>2 DEF IsLive
    <3> QED BY <2>1, <3>1, <3>2, <1>4, <1>7, <1>11 DEF Agrees, Touched, FileJobs
  <2>2. CASE job = PersistIndex \/ job = Log("committed")
    BY <2>2, <1>13 DEF Agrees, FileJobs
  <2>3. ASSUME NEW t \in tx.mirrored, job = Mirror(t)
        PROVE  Agrees(tx, m, job) /\ job.do = "mirror"
    BY <2>3, <1>4, <1>11, <1>12 DEF Agrees, Touched, FileJobs
  <2> QED BY <1>14, <1>7, <1>13, <2>1, <2>2, <2>3
<1>16. \A i \in DOMAIN end : end[i].do \in {"mirror", "index", "log"}
  <2>1. \A i \in DOMAIN end : end[i] \in ToSet(end)
    BY DEF ToSet
  <2>2. \A job \in ToSet(end) : job.do \in {"mirror", "index", "log"}
    BY <1>5, <1>12, <1>13 DEF ListOf
  <2> QED BY <2>1, <2>2
<1>17. ASSUME NEW i \in DOMAIN jobs
       PROVE  /\ jobs[i].do = "move" => i = 1 /\ op = "adopt" /\ jobs[i] = Move(d)
              /\ jobs[i].do = "write" => i = Len(pre) /\ jobs[i] = w
  <2>1. i \in DOMAIN pre \/ jobs[i].do \in {"mirror", "index", "log"}
    BY <1>10, <1>16
  <2>2. DOMAIN pre = 1..Len(pre)
    BY <1>8
  <2>3. ASSUME i \in DOMAIN pre
        PROVE  (op = "adopt" /\ ((i = 1 /\ jobs[i] = Move(d)) \/ (i = 2 /\ jobs[i] = w)))
               \/ (op # "adopt" /\ i = 1 /\ jobs[i] = w)
    BY <2>2, <2>3, <1>8, <1>10
  <2>4. CASE i \in DOMAIN pre
    <3>1. w.do = "write" /\ Move(d).do = "move"
      BY <1>7
    <3> QED BY <2>3, <2>4, <3>1, <1>8
  <2>5. CASE i \notin DOMAIN pre
    BY <2>1, <2>5
  <2> QED BY <2>4, <2>5
<1>18. DOMAIN pre = 1..Len(pre) /\ Len(pre) \in DOMAIN pre /\ pre[Len(pre)] = w /\ DOMAIN pre \subseteq DOMAIN jobs
       /\ (op = "adopt" => Len(pre) = 2 /\ jobs[1] = Move(d))
       /\ (op # "adopt" => Len(pre) = 1)
  <2>1. jobs \in Seq(Job) /\ end \in Seq(Job)
    BY <1>10, <1>5 DEF ListOf
  <2>2. DOMAIN jobs = 1..Len(jobs) /\ Len(end) \in Nat
    BY <2>1
  <2>3. DOMAIN pre = 1..Len(pre) /\ Len(pre) \in DOMAIN pre
    BY <1>8
  <2> QED BY <2>2, <2>3, <1>8, <1>10
<1>19. Writes(m) = {Len(pre)}
  BY <1>7, <1>10, <1>11, <1>17, <1>18 DEF Writes
<1>20. WriteFirst(tx, m)
  <2>1. /\ m.before[tx.d] = Nothing /\ IsLive(m.mem, tx.d)
    BY <1>2, <1>4, <1>11
  <2>2. ASSUME NEW i \in DOMAIN jobs, jobs[i].do = "move"
        PROVE  i = 1 /\ jobs[i].d = tx.d /\ Writes(m) # {}
    BY <2>2, <1>4, <1>7, <1>17, <1>19
  <2>3. ASSUME NEW i \in Writes(m)
        PROVE  (i = 1 \/ (i = 2 /\ jobs[1].do = "move")) /\ jobs[i].d = tx.d
    <3>1. i = Len(pre) /\ jobs[i] = w
      BY <2>3, <1>10, <1>18, <1>19
    <3> QED BY <3>1, <1>4, <1>7, <1>18
  <2> QED BY <2>1, <2>2, <2>3, <1>11 DEF WriteFirst
<1>21. /\ TxShape(tx) /\ Fits(Now + 1, tx, index) /\ Fits(Now + 1, tx, after)
       /\ Alike(tx, after, index) /\ Achieved(Now + 1, tx, after)
  BY <1>0, <1>2, <1>4 DEF TxShape, Fits, Alike, Achieved, Creates, IsLive
<1>22. Planned(Now + 1, tx, m)
  BY <1>3, <1>4, <1>10, <1>11, <1>15, <1>20, <1>21 DEF Planned, Listed, ListOf, Creates
<1>23. ASSUME NEW x \in Docs, NEW path \in Paths
       PROVE  \/ FileOf(index[x])[path] = FileOf(m.mem[x])[path]
              \/ \E job \in Jobs(m) : Fixes(job, x, path)
  <2>1. CASE x \notin Touched(tx)
    BY <2>1, <1>4, <1>11
  <2>2. CASE x \in Touched(tx) /\ path = "archived"
    <3>1. (index[x] = Nothing \/ IsLive(index, x)) /\ IsLive(after, x)
      BY <2>2, <1>2, <1>4 DEF Touched
    <3> QED BY <3>1, <2>2, <1>0, <1>6, <1>11, LiveFiles
  <2>3. CASE x = d /\ path = "live"
    <3>1. w \in Jobs(m) /\ Fixes(w, d, "live")
      BY <1>7, <1>8, <1>10, <1>11 DEF Jobs, ListOf, Fixes, FileJobs
    <3> QED BY <3>1, <2>3
  <2>4. CASE x \in tx.mirrored /\ path = "live"
    <3>1. Mirror(x) \in Jobs(m) /\ Fixes(Mirror(x), x, "live")
      BY <2>4, <1>10, <1>11, <1>12 DEF Jobs, ListOf, Fixes, FileJobs
    <3> QED BY <3>1, <2>4
  <2> QED BY <2>1, <2>2, <2>3, <2>4, <1>4 DEF Touched, Paths
<1>24. \E job \in Jobs(m) : job.do \in {"index", "revert"}
  BY <1>10, <1>11, <1>13 DEF Jobs, ListOf
<1>25. Ready(tx, m)
  BY <1>4, <1>11, <1>19, <1>21, <1>22, <1>23, <1>24 DEF Ready, Creates
<1>26. Typed(tx, after, jobs)
  BY <1>4, <1>6, <1>10 DEF Typed, ListOf
<1> QED BY <1>1, <1>25, <1>26 DEF m

\* The jobs of an update and of a link: the document, its mirrors, the index.
Writing(tx, m, d, after) ==
  /\ Local(index, after, d) /\ IsLive(index, d) /\ IsLive(after, d)
  /\ tx.d = d /\ tx.mirrored = Mirrored(index, after, d)
  /\ \A t \in Docs \ Touched(tx) : after[t] = index[t]
  /\ tx.to # d => index[tx.to] = after[tx.to] \/ tx.to \in tx.mirrored
  /\ m.mem = after /\ m.todo = <<Write(d, after[d])>> \o Commit(d, after)

Written(tx, m) ==
  /\ m.todo \in Seq(Job) /\ m.todo # <<>> /\ IndexNext(m.todo) /\ Listed(tx, m)
  /\ \A job \in Jobs(m) : job.do \notin {"revert", "move"} /\ (job.do = "log" => job.st = "committed")
  /\ index = m.mem \/ \E job \in Jobs(m) : job.do \in {"index", "revert"}
  /\ \A x \in Docs, path \in Paths :
       \/ FileOf(index[x])[path] = FileOf(m.mem[x])[path]
       \/ \E job \in Jobs(m) : Fixes(job, x, path)

\* Writing the document and then committing settles all that the operation changes.
LEMMA WriteThenCommit ==
  ASSUME TypeOK, NEW d \in Docs, NEW after, NEW tx, NEW m, Writing(tx, m, d, after)
  PROVE  Written(tx, m)
<1> USE DEF Writing
<1> DEFINE w == Write(d, after[d])
           end == Commit(d, after)
<1>1. after \in Entries /\ after[d] \in Record /\ index \in Entries
  BY DEF Local, TypeOK
<1>2. /\ tx.mirrored \in SUBSET Docs
      /\ \A t \in tx.mirrored : IsLive(index, t) /\ IsLive(after, t)
  BY DEF Mirrored, Local
<1>3. ListOf(end, {Mirror(t) : t \in tx.mirrored} \union {PersistIndex, Log("committed")}) /\ IndexNext(end)
  BY CommitList
<1>4. PathOf(after[d]) = "live" /\ after[d] # Nothing
  BY <1>1, FileFacts DEF IsLive
<1>5. w = [do |-> "write", d |-> d, rec |-> after[d], at |-> "live", st |-> "pending"] /\ w \in Job
  BY <1>1, <1>4, JobFields DEF Paths, Status
<1> HIDE DEF w, end
<1>6. <<w>> \in Seq(Job) /\ ToSet(<<w>>) = {w}
  BY <1>5, Single
<1>7. \A job \in ToSet(<<w>>) : job.do = "write"
  BY <1>5, <1>6
<1>8. ListOf(<<w>> \o end, {w} \union ({Mirror(t) : t \in tx.mirrored} \union {PersistIndex, Log("committed")}))
      /\ IndexNext(<<w>> \o end)
  BY <1>3, <1>6, <1>7, Prefixed
<1>9. m.todo = <<w>> \o end
  BY DEF w, end
<1>10. \A t \in tx.mirrored : Mirror(t) = [do |-> "mirror", d |-> t, rec |-> Nothing, at |-> "live", st |-> "pending"]
  BY <1>2, JobFields DEF Paths, Status
<1>11. PersistIndex.do = "index" /\ Log("committed").do = "log" /\ Log("committed").st = "committed"
  BY EndJobs DEF Status
<1>12. /\ m.todo \in Seq(Job) /\ m.todo # <<>> /\ LogLast(m.todo)
       /\ Jobs(m) = {w} \union ({Mirror(t) : t \in tx.mirrored} \union {PersistIndex, Log("committed")})
  BY <1>8, <1>9 DEF ListOf, Jobs
<1>13. ASSUME NEW job \in Jobs(m)
       PROVE  Agrees(tx, m, job) /\ job.do \notin {"revert", "move"} /\ (job.do = "log" => job.st = "committed")
  <2>1. CASE job = w
    BY <2>1, <1>4, <1>5 DEF Agrees, Touched, FileJobs
  <2>2. CASE job = PersistIndex \/ job = Log("committed")
    BY <2>2, <1>11 DEF Agrees, FileJobs
  <2>3. ASSUME NEW t \in tx.mirrored, job = Mirror(t)
        PROVE  Agrees(tx, m, job) /\ job.do = "mirror"
    BY <2>3, <1>2, <1>10 DEF Agrees, Touched, FileJobs
  <2>4. job = w \/ job = PersistIndex \/ job = Log("committed") \/ \E t \in tx.mirrored : job = Mirror(t)
    BY <1>12
  <2> QED BY <2>1, <2>2, <2>3, <2>4, <1>5, <1>11
<1>14. \E job \in Jobs(m) : job.do \in {"index", "revert"}
  BY <1>11, <1>12
<1>15. ASSUME NEW x \in Docs, NEW path \in Paths
       PROVE  \/ FileOf(index[x])[path] = FileOf(m.mem[x])[path]
              \/ \E job \in Jobs(m) : Fixes(job, x, path)
  <2>1. CASE index[x] = after[x]
    BY <2>1
  <2>2. CASE x \in tx.mirrored \union {d} /\ path = "archived"
    <3>1. IsLive(index, x) /\ IsLive(after, x)
      BY <2>2, <1>2
    <3> QED BY <3>1, <2>2, <1>1, LiveFiles
  <2>3. CASE x = d /\ path = "live"
    <3>1. w \in Jobs(m) /\ Fixes(w, d, "live")
      BY <1>5, <1>12 DEF Fixes, FileJobs
    <3> QED BY <3>1, <2>3
  <2>4. CASE x \in tx.mirrored /\ path = "live"
    <3>1. Mirror(x) \in Jobs(m) /\ Fixes(Mirror(x), x, "live")
      BY <2>4, <1>10, <1>12 DEF Fixes, FileJobs
    <3> QED BY <3>1, <2>4
  <2>5. x \notin Touched(tx) => index[x] = after[x]
    OBVIOUS
  <2> QED BY <2>1, <2>2, <2>3, <2>4, <2>5 DEF Touched, Paths
<1> QED BY <1>8, <1>9, <1>12, <1>13, <1>14, <1>15 DEF Listed, Written

\* An update begins with a plan that is ready.
LEMMA UpdateBegins ==
  ASSUME TypeOK, NEW h \in Handles, NEW d \in Docs, NEW out \in SUBSET Relations, Update(h, d, out)
  PROVE  \E tx, after, jobs : /\ Begin(h, tx, after, jobs, "mutating", {}) /\ Typed(tx, after, jobs)
                              /\ Ready(tx, Opening(after, jobs, "mutating"))
<1> DEFINE after == Updated(index, d, out, NextId)
           tx == Entry("update", d, after)
           jobs == <<Write(d, after[d])>> \o Commit(d, after)
           m == Opening(after, jobs, "mutating")
<1>0. index \in Entries /\ CanUpdate(index, d, out) /\ Now + 1 \in Nat /\ NextId = Now + 1
  BY DEF TypeOK, Update, NextId, Now
<1>1. Begin(h, tx, after, jobs, "mutating", {})
  BY DEF Update
<1>2. /\ Local(index, after, d) /\ IsLive(index, d) /\ index[d] \in Record
      /\ IsLive(after, d) /\ after[d].by = NextId /\ after[d].rev = index[d].rev + 1
  BY <1>0, Updating
<1>3. Changes(Now + 1, index, after)
  BY <1>0 DEF Changes
<1> HIDE DEF after
<1>4. /\ tx \in Tx /\ tx.op = "update" /\ tx.d = d /\ tx.to = d /\ tx.rev = after[d].rev
      /\ tx.mirrored = Mirrored(index, after, d) /\ tx.status = "pending"
      /\ tx.mirrored \in SUBSET Docs /\ d \notin tx.mirrored
      /\ \A t \in tx.mirrored : IsLive(index, t) /\ IsLive(after, t)
      /\ \A t \in Docs \ Touched(tx) : after[t] = index[t]
  BY <1>2, EntryFields DEF Ops
<1>5. after \in Entries /\ index[d].rev \in Nat
  BY <1>2 DEF Local, Record
<1>6. m.todo = jobs /\ m.mem = after /\ m.before = index /\ m.pc = "mutating"
  BY DEF Opening
<1> HIDE DEF tx, m
<1>7. Written(tx, m)
  <2>1. Writing(tx, m, d, after)
    BY <1>2, <1>4, <1>6 DEF Writing
  <2> QED BY <2>1, WriteThenCommit
<1>8. /\ TxShape(tx) /\ Fits(Now + 1, tx, index) /\ Fits(Now + 1, tx, after)
      /\ Alike(tx, after, index) /\ Achieved(Now + 1, tx, after)
  BY <1>0, <1>2, <1>4, <1>5 DEF TxShape, Fits, Alike, Achieved, Creates, IsLive, Touched
<1>9. Planned(Now + 1, tx, m)
  BY <1>3, <1>4, <1>6, <1>7, <1>8 DEF Planned, Creates, Written
<1>10. Ready(tx, m)
  BY <1>4, <1>6, <1>7, <1>8, <1>9 DEF Ready, Creates, Written
<1>11. Typed(tx, after, jobs)
  BY <1>4, <1>5, <1>6, <1>7 DEF Typed, Written
<1> QED BY <1>1, <1>10, <1>11 DEF m

\* A link begins with a plan that is ready.
LEMMA LinkBegins ==
  ASSUME TypeOK, NEW h \in Handles, NEW d \in Docs, NEW t \in Docs, Link(h, d, t)
  PROVE  \E tx, after, jobs : /\ Begin(h, tx, after, jobs, "mutating", {}) /\ Typed(tx, after, jobs)
                              /\ Ready(tx, Opening(after, jobs, "mutating"))
<1> DEFINE after == Linked(index, d, t)
           e == Entry("link", d, after)
           tx == [e EXCEPT !.to = t, !.rev = index[d].rev + 1, !.toRev = index[t].rev + 1]
           jobs == IF after = index THEN <<Log("committed")>>
                   ELSE <<Write(d, after[d])>> \o Commit(d, after)
           m == Opening(after, jobs, "mutating")
<1>0. index \in Entries /\ CanLink(index, d, t) /\ Now + 1 \in Nat
  BY DEF TypeOK, Link, Now
<1>1. Begin(h, tx, after, jobs, "mutating", {})
  BY Zenon DEF Link
<1>2. /\ Local(index, after, d) /\ IsLive(index, d) /\ IsLive(index, t) /\ index[d] \in Record
      /\ IsLive(after, d) /\ <<t, "strong">> \in after[d].out
      /\ \A x \in Docs \ {d, t} : after[x] = index[x]
  BY <1>0, Linking
<1>3. Changes(Now + 1, index, after)
  BY <1>0 DEF Changes
<1> HIDE DEF after
<1>4. /\ e \in Tx /\ e.op = "link" /\ e.d = d
      /\ e.mirrored = Mirrored(index, after, d) /\ e.status = "pending"
      /\ e.mirrored \in SUBSET Docs /\ d \notin e.mirrored
      /\ \A x \in e.mirrored : IsLive(index, x) /\ IsLive(after, x)
  BY <1>2, EntryFields DEF Ops
<1>5. after \in Entries /\ index[d].rev \in Nat /\ index[d].rev + 1 \in Nat /\ index[t].rev + 1 \in Nat
  BY <1>0, <1>2 DEF Local, Record, IsLive, Entries
<1> HIDE DEF e
<1>6. /\ tx \in Tx /\ tx.op = "link" /\ tx.d = d /\ tx.to = t /\ tx.rev = index[d].rev + 1
      /\ tx.mirrored = Mirrored(index, after, d) /\ tx.status = "pending"
      /\ tx.mirrored \in SUBSET Docs /\ d \notin tx.mirrored
      /\ \A x \in tx.mirrored : IsLive(index, x) /\ IsLive(after, x)
  BY <1>4, <1>5 DEF Tx
<1>7. m.todo = jobs /\ m.mem = after /\ m.before = index /\ m.pc = "mutating"
  BY DEF Opening
<1> HIDE DEF tx, m
<1>8. /\ tx.mirrored \subseteq {t} /\ Touched(tx) = {d, t}
      /\ t # d => index[t] = after[t] \/ t \in tx.mirrored
  BY <1>2, <1>6 DEF Mirrored, Touched
<1>9. IsLive(after, t)
  BY <1>2, <1>6, <1>8 DEF IsLive
<1>10. /\ TxShape(tx) /\ Fits(Now + 1, tx, index) /\ Fits(Now + 1, tx, after)
       /\ Alike(tx, after, index) /\ Achieved(Now + 1, tx, after)
  BY <1>0, <1>2, <1>5, <1>6, <1>8, <1>9 DEF TxShape, Fits, Alike, Achieved, Creates, IsLive
<1>11. \A x \in Docs \ Touched(tx) : after[x] = index[x]
  BY <1>2, <1>8
<1>12. Written(tx, m)
  <2>1. CASE after = index
    <3>1. m.todo = <<Log("committed")>>
      BY <2>1, <1>7
    <3>2. /\ Log("committed") \in Job /\ Log("committed").do = "log" /\ Log("committed").st = "committed"
          /\ PersistIndex \in Job /\ PersistIndex.do = "index"
      BY JobFields DEF Paths, Status
    <3>3. ListOf(m.todo, {Log("committed")})
      BY <3>1, <3>2, Endings
    <3>4. IndexNext(m.todo)
      BY <3>1, <3>2 DEF IndexNext
    <3>5. Jobs(m) = {Log("committed")}
      BY <3>3 DEF ListOf, Jobs
    <3>6. Agrees(tx, m, Log("committed"))
      BY <3>2 DEF Agrees, FileJobs
    <3> QED BY <2>1, <3>2, <3>3, <3>4, <3>5, <3>6, <1>7 DEF ListOf, Listed, Written
  <2>2. CASE after # index
    <3>1. m.todo = <<Write(d, after[d])>> \o Commit(d, after)
      BY <2>2, <1>7
    <3>2. Writing(tx, m, d, after)
      BY <3>1, <1>2, <1>6, <1>7, <1>8, <1>11 DEF Writing
    <3> QED BY <3>2, WriteThenCommit
  <2> QED BY <2>1, <2>2
<1>13. Planned(Now + 1, tx, m)
  BY <1>3, <1>6, <1>7, <1>10, <1>11, <1>12 DEF Planned, Creates, Written
<1>14. Ready(tx, m)
  BY <1>6, <1>7, <1>10, <1>12, <1>13 DEF Ready, Creates, Written
<1>15. Typed(tx, after, jobs)
  BY <1>5, <1>6, <1>7, <1>12 DEF Typed, Written
<1> QED BY <1>1, <1>14, <1>15 DEF m

\* An archiving begins with a plan that is ready.
LEMMA ArchiveBegins ==
  ASSUME TypeOK, NEW h \in Handles, NEW d \in Docs, Archive(h, d)
  PROVE  \E tx, after, jobs : /\ Begin(h, tx, after, jobs, "mutating", {}) /\ Typed(tx, after, jobs)
                              /\ Ready(tx, Opening(after, jobs, "mutating"))
<1> DEFINE after == Archived(index, d)
           tx == Entry("archive", d, after)
           w == Write(d, after[d])
           r == RemoveFile(d, "live")
           log == Log("committed")
           jobs == <<w, r, PersistIndex, log>>
           m == Opening(after, jobs, "mutating")
<1>0. index \in Entries /\ CanArchive(index, d) /\ Now + 1 \in Nat
  BY DEF TypeOK, Archive, Now
<1>1. Begin(h, tx, after, jobs, "mutating", {})
  BY DEF Archive
<1>2. /\ Local(index, after, d) /\ IsLive(index, d) /\ index[d] \in Record
      /\ after = [index EXCEPT ![d] = Retired(index[d])]
      /\ after[d].arch = TRUE /\ after[d].rev = index[d].rev + 1
      /\ \A x \in Docs \ {d} : after[x] = index[x]
  BY <1>0, Archiving
<1>3. Changes(Now + 1, index, after)
  BY <1>0 DEF Changes
<1> HIDE DEF after
<1>4. /\ tx \in Tx /\ tx.op = "archive" /\ tx.d = d /\ tx.to = d /\ tx.rev = after[d].rev
      /\ tx.mirrored = Mirrored(index, after, d) /\ tx.status = "pending"
  <2>1. Local(index, after, d) /\ "archive" \in Ops
    BY <1>2 DEF Ops
  <2> QED BY <2>1, EntryFields
<1>5. after \in Entries /\ after[d] \in Record /\ after[d] = Retired(index[d]) /\ after[d] # Nothing
  BY <1>0, <1>2, StoreAssumption DEF Local, Entries
<1>6. tx.mirrored = {} /\ Touched(tx) = {d}
  BY <1>2, <1>4, ZenonT(60) DEF Mirrored, Touched
<1>7. PathOf(after[d]) = "archived" /\ FileOf(after[d])["live"] = Nothing
  BY <1>2, <1>5, FileFacts
<1>8. /\ w = [do |-> "write", d |-> d, rec |-> after[d], at |-> "archived", st |-> "pending"]
      /\ r = [do |-> "remove", d |-> d, rec |-> Nothing, at |-> "live", st |-> "pending"]
      /\ w \in Job /\ r \in Job
  BY <1>5, <1>7, JobFields DEF Paths, Status
<1>9. /\ PersistIndex \in Job /\ PersistIndex.do = "index"
      /\ log \in Job /\ log.do = "log" /\ log.st = "committed"
  BY EndJobs DEF Status
<1> HIDE DEF w, r, log, tx
<1>10. ListOf(jobs, {w, r, PersistIndex, log}) /\ IndexNext(jobs)
  BY <1>8, <1>9, Endings
<1>11. m.todo = jobs /\ m.mem = after /\ m.before = index /\ m.pc = "mutating"
  BY DEF Opening
<1> HIDE DEF jobs, m
<1>12. jobs \in Seq(Job) /\ jobs # <<>> /\ LogLast(jobs) /\ Jobs(m) = {w, r, PersistIndex, log}
  BY <1>10, <1>11 DEF ListOf, Jobs
<1>13. ASSUME NEW job \in Jobs(m)
       PROVE  Agrees(tx, m, job) /\ job.do \notin {"revert", "move"} /\ (job.do = "log" => job.st = "committed")
  <2>1. CASE job = w
    BY <2>1, <1>4, <1>5, <1>7, <1>8, <1>11 DEF Agrees, Touched, FileJobs
  <2>2. CASE job = r
    BY <2>2, <1>4, <1>7, <1>8, <1>11 DEF Agrees, Touched, FileJobs
  <2>3. CASE job = PersistIndex \/ job = log
    BY <2>3, <1>9 DEF Agrees, FileJobs
  <2> QED BY <2>1, <2>2, <2>3, <1>12
<1>14. /\ Retired(after[d]) = after[d]
       /\ after[d].rev = tx.rev
  BY <1>2, <1>4 DEF Retired
<1>15. /\ TxShape(tx) /\ Fits(Now + 1, tx, index) /\ Fits(Now + 1, tx, after)
       /\ Alike(tx, after, index) /\ Achieved(Now + 1, tx, after)
  BY <1>0, <1>2, <1>4, <1>5, <1>6, <1>14 DEF TxShape, Fits, Alike, Achieved, Creates, IsLive
<1>16. Planned(Now + 1, tx, m)
  BY <1>2, <1>3, <1>4, <1>6, <1>10, <1>11, <1>12, <1>13, <1>15 DEF Planned, Creates, Listed
<1>17. ASSUME NEW x \in Docs, NEW path \in Paths
       PROVE  \/ FileOf(index[x])[path] = FileOf(m.mem[x])[path]
              \/ \E job \in Jobs(m) : Fixes(job, x, path)
  <2>1. CASE x # d
    BY <2>1, <1>2, <1>11
  <2>2. CASE x = d
    <3>1. w \in Jobs(m) /\ Fixes(w, d, "archived") /\ r \in Jobs(m) /\ Fixes(r, d, "live")
      BY <1>8, <1>12 DEF Fixes, FileJobs
    <3> QED BY <3>1, <2>2 DEF Paths
  <2> QED BY <2>1, <2>2
<1>18. \E job \in Jobs(m) : job.do \in {"index", "revert"}
  BY <1>9, <1>12
<1>19. Ready(tx, m)
  BY <1>2, <1>4, <1>11, <1>15, <1>16, <1>17, <1>18 DEF Ready, Creates
<1>20. Typed(tx, after, jobs)
  BY <1>4, <1>5, <1>12 DEF Typed
<1> QED BY <1>1, <1>19, <1>20 DEF m

\* A create of a document that is there, archived, removes no file.
LEMMA RefusedBegins ==
  ASSUME TypeOK, NEW h \in Handles, NEW op \in Creates, NEW d \in Docs, NEW out \in SUBSET Relations,
         CreateRefused(h, op, d, out)
  PROVE  \E tx, after, jobs, w : /\ Begin(h, tx, after, jobs, "revoking", w) /\ Typed(tx, after, jobs)
                                 /\ w \subseteq {"refused"}
                                 /\ "refused" \notin w => Ready(tx, Opening(after, jobs, "revoking"))
<1> DEFINE new == WithMirrors(index, d, NewRecord(out, NextId), {})
           tx == [op |-> op, d |-> d, to |-> d, rev |-> 1, toRev |-> 1, status |-> "pending",
                  mirrored |-> Mirrored(index, new, d)]
           r == RemoveFile(d, "live")
           log == Log("aborted")
           jobs == <<r, RevertIndex, log>>
           w == IF IsLive(index, d) THEN {"refused"} ELSE {}
           m == Opening(index, jobs, "revoking")
<1>0. /\ index \in Entries /\ index[d] # Nothing /\ TargetsLive(index, {}, out)
      /\ NextId \in Nat /\ op \in Ops
  BY DEF TypeOK, CreateRefused, NextId, Creates, Ops
<1>1. Begin(h, tx, index, jobs, "revoking", w)
  BY DEF CreateRefused
<1>2. NewRecord(out, NextId) \in Record /\ NewRecord(out, NextId).out = out /\ {} \in SUBSET Relations
  BY <1>0 DEF NewRecord, Record
<1>3. \A t \in Docs \ {d} : new[t] # index[t] => IsLive(index, t)
  <2> HIDE DEF NewRecord
  <2> QED BY <1>0, <1>2, Mirroring DEF IsLive
<1> HIDE DEF new
<1>4. /\ Mirrored(index, new, d) \in SUBSET Docs /\ d \notin Mirrored(index, new, d)
      /\ \A t \in Mirrored(index, new, d) : IsLive(index, t)
  BY <1>3 DEF Mirrored
<1>5. /\ tx \in Tx /\ tx.op = op /\ tx.d = d /\ tx.to = d /\ tx.status = "pending"
      /\ d \notin tx.mirrored /\ \A t \in tx.mirrored : IsLive(index, t)
  <2> HIDE DEF Mirrored
  <2> QED BY <1>0, <1>4 DEF Tx, Status
<1> HIDE DEF tx
<1>6. r = [do |-> "remove", d |-> d, rec |-> Nothing, at |-> "live", st |-> "pending"] /\ r \in Job
  BY JobFields DEF Paths, Status
<1>7. /\ RevertIndex \in Job /\ RevertIndex.do = "revert"
      /\ log \in Job /\ log.do = "log" /\ log.st = "aborted"
  BY EndJobs DEF Status
<1> HIDE DEF r, log
<1>8. ListOf(jobs, {r, RevertIndex, log})
  BY <1>6, <1>7, Endings
<1>9. m.todo = jobs /\ m.mem = index /\ m.before = index /\ m.pc = "revoking"
  BY DEF Opening
<1> HIDE DEF jobs, m
<1>10. jobs \in Seq(Job) /\ jobs # <<>> /\ LogLast(jobs) /\ Jobs(m) = {r, RevertIndex, log}
  BY <1>8, <1>9 DEF ListOf, Jobs
<1>11. Typed(tx, index, jobs)
  BY <1>0, <1>5, <1>10 DEF Typed
<1>12. ASSUME ~IsLive(index, d) PROVE Ready(tx, m)
  <2>1. FileOf(index[d])["live"] = Nothing
    BY <1>0, <1>12, FileFacts
  <2>2. ASSUME NEW job \in Jobs(m)
        PROVE  Agrees(tx, m, job) /\ job.do \notin {"index", "move"} /\ (job.do = "log" => job.st = "aborted")
    <3>1. CASE job = r
      BY <3>1, <2>1, <1>5, <1>6, <1>9 DEF Agrees, Touched, FileJobs
    <3>2. CASE job = RevertIndex \/ job = log
      BY <3>2, <1>7, <1>9 DEF Agrees, FileJobs
    <3> QED BY <3>1, <3>2, <1>10
  <2>3. TxShape(tx) /\ Fits(Now + 1, tx, index)
    BY <1>5, <1>12 DEF TxShape, Fits, Creates
  <2>4. Planned(Now + 1, tx, m)
    BY <2>2, <2>3, <1>9, <1>10 DEF Planned, Listed, Alike
  <2> QED BY <2>3, <2>4, <1>5, <1>9 DEF Ready, Creates
<1>13. "refused" \notin w => Ready(tx, m)
  BY <1>12
<1>14. w \subseteq {"refused"}
  OBVIOUS
<1> QED BY <1>1, <1>11, <1>13, <1>14 DEF m

\* Every mutation begins a transaction, and with a plan unless it is a create that is
\* refused for a live document.
LEMMA MutationBegins ==
  ASSUME TypeOK, NEW h \in Handles, Mutate(h)
  PROVE  \E tx, after, jobs, w : \E pc \in {"mutating", "revoking"} :
           /\ Begin(h, tx, after, jobs, pc, w) /\ Typed(tx, after, jobs) /\ w \subseteq {"refused"}
           /\ "refused" \notin w => Ready(tx, Opening(after, jobs, pc))
<1>1. PICK d \in Docs :
    \/ \E out \in Refs : Create(h, "create", d, out) \/ CreateRefused(h, "create", d, out)
                                       \/ Update(h, d, out)
    \/ Create(h, "adopt", d, {}) \/ CreateRefused(h, "adopt", d, {})
    \/ Archive(h, d)
    \/ \E t \in Docs : Link(h, d, t)
  BY DEF Mutate
<1>2. {} \in SUBSET Relations /\ \A out \in Refs : out \in SUBSET Relations
  BY StoreAssumption
<1>3. "create" \in Creates /\ "adopt" \in Creates
  BY DEF Creates
<1>4. CASE \E out \in Refs : Create(h, "create", d, out)
  BY <1>2, <1>3, <1>4, CreateBegins
<1>5. CASE \E out \in Refs : CreateRefused(h, "create", d, out)
  BY <1>2, <1>3, <1>5, RefusedBegins
<1>6. CASE \E out \in Refs : Update(h, d, out)
  BY <1>2, <1>6, UpdateBegins
<1>7. CASE Create(h, "adopt", d, {})
  BY <1>2, <1>3, <1>7, CreateBegins
<1>8. CASE CreateRefused(h, "adopt", d, {})
  BY <1>2, <1>3, <1>8, RefusedBegins
<1>9. CASE Archive(h, d)
  BY <1>9, ArchiveBegins
<1>10. CASE \E t \in Docs : Link(h, d, t)
  BY <1>10, LinkBegins
<1> QED BY <1>1, <1>4, <1>5, <1>6, <1>7, <1>8, <1>9, <1>10

-----------------------------------------------------------------------------
(* What a rollback and a recovery plan. *)

\* The writes that restore mirrored documents.
Kept(ents, S) == {Write(t, ents[t]) : t \in {d \in S : ents[d] # Nothing}}

\* The jobs that write documents back.
LEMMA KeptFields ==
  ASSUME NEW ents \in Entries, NEW S \in SUBSET Docs
  PROVE  \A job \in Kept(ents, S) :
           \E t \in S : /\ ents[t] # Nothing /\ job.do = "write" /\ job.d = t
                        /\ job.rec = ents[t] /\ job.at = PathOf(ents[t])
<1>1. ASSUME NEW t \in S, ents[t] # Nothing
      PROVE  Write(t, ents[t]) = [do |-> "write", d |-> t, rec |-> ents[t], at |-> PathOf(ents[t]), st |-> "pending"]
  <2>1. t \in Docs /\ ents[t] \in Record \union {Nothing}
    BY DEF Entries
  <2> QED BY <2>1, JobFields DEF Paths, Status
<1>2. ASSUME NEW job \in Kept(ents, S)
      PROVE  \E t \in S : /\ ents[t] # Nothing /\ job.do = "write" /\ job.d = t
                          /\ job.rec = ents[t] /\ job.at = PathOf(ents[t])
  <2>1. PICK t \in S : ents[t] # Nothing /\ job = Write(t, ents[t])
    BY DEF Kept
  <2>2. job = [do |-> "write", d |-> t, rec |-> ents[t], at |-> PathOf(ents[t]), st |-> "pending"]
    BY <1>1, <2>1
  <2> QED BY <2>1, <2>2
<1> QED BY <1>2

\* Writes that restore mirrored documents, then the rest.
LEMMA RestoreThen ==
  ASSUME NEW ents \in Entries, NEW S \in SUBSET Docs, NEW t, NEW T, ListOf(t, T)
  PROVE  ListOf(RestoreMirrored(ents, S) \o t, Kept(ents, S) \union T)
<1> DEFINE s == RestoreMirrored(ents, S)
<1>1. s \in Seq(Job) /\ ToSet(s) = Kept(ents, S)
  BY RestoreList DEF Kept
<1>2. \A job \in ToSet(s) : job.do # "log"
  BY <1>1, KeptFields
<1> HIDE DEF s
<1>3. ListOf(s \o t, ToSet(s) \union T)
  BY <1>1, <1>2, Prefixed
<1> QED BY <1>1, <1>3 DEF s

\* One job, then the rest.
LEMMA JobThen ==
  ASSUME NEW a \in Job, a.do # "log", NEW t, NEW T, ListOf(t, T)
  PROVE  ListOf(<<a>> \o t, {a} \union T)
<1>1. <<a>> \in Seq(Job) /\ ToSet(<<a>>) = {a}
  BY Single
<1>2. ListOf(<<a>> \o t, ToSet(<<a>>) \union T)
  BY <1>1, Prefixed
<1> QED BY <1>1, <1>2

\* Chains of lists.
LEMMA Associated ==
  ASSUME NEW a \in Seq(Job), NEW b \in Seq(Job), NEW c \in Seq(Job)
  PROVE  (a \o b) \o c = a \o (b \o c)
OBVIOUS

\* The jobs of a rollback.
Undone(tx, old, todo) ==
  LET done == {RevertIndex, Log("aborted")} IN
  /\ tx.op \in Creates =>
       \E back \in SUBSET {Return(tx.d)} :
         ListOf(todo, Kept(old, tx.mirrored) \union {RemoveFile(tx.d, "live")} \union back \union done)
  /\ tx.op = "update" => ListOf(todo, {Write(tx.d, old[tx.d])} \union Kept(old, tx.mirrored) \union done)
  /\ tx.op = "link" => ListOf(todo, {Write(tx.d, old[tx.d]), Write(tx.to, old[tx.to])} \union done)
  /\ tx.op = "archive" => ListOf(todo, {RemoveFile(tx.d, "archived"), Write(tx.d, old[tx.d])} \union done)

\* A rollback restores what its operation touches, and then the index.
LEMMA RollbackList ==
  ASSUME TypeOK, NEW h \in Handles, han[h].tx \in DOMAIN journal
  PROVE  /\ Undone(journal[han[h].tx], han[h].before, Rollback(h))
         /\ Rollback(h) \in Seq(Job) /\ Rollback(h) # <<>>
<1> DEFINE tx == journal[han[h].tx]
           old == han[h].before
           log == Log("aborted")
           done == <<RevertIndex, log>>
           restored == RestoreMirrored(old, tx.mirrored)
           back == IF tx.op = "adopt" /\ tx.d \notin source THEN <<Return(tx.d)>> ELSE <<>>
           todo == Rollback(h)
<1>1. /\ tx \in Tx /\ old \in Entries
      /\ tx.op \in Ops /\ tx.d \in Docs /\ tx.to \in Docs /\ tx.mirrored \in SUBSET Docs
      /\ \A d \in Docs : old[d] \in Record \union {Nothing}
  <2>1. tx \in Tx
    BY DEF TypeOK
  <2>2. han[h] \in Handle
    BY DEF TypeOK
  <2>3. old \in [Docs -> Record \union {Nothing}]
    BY <2>2 DEF Handle, Entries
  <2> HIDE DEF tx, old
  <2> QED BY <2>1, <2>3 DEF Tx, Entries
<1>2. Rollback(h) = CASE tx.op \in {"create", "adopt"} ->
            restored \o <<RemoveFile(tx.d, "live")>> \o back \o done
       [] tx.op = "update"  -> <<Write(tx.d, old[tx.d])>> \o restored \o done
       [] tx.op = "link"    -> <<Write(tx.d, old[tx.d]), Write(tx.to, old[tx.to])>> \o done
       [] tx.op = "archive" -> <<RemoveFile(tx.d, "archived"), Write(tx.d, old[tx.d])>> \o done
  BY Zenon DEF Rollback
<1> HIDE DEF tx, old
<1> DEFINE wd == Write(tx.d, old[tx.d])
           wt == Write(tx.to, old[tx.to])
           rl == RemoveFile(tx.d, "live")
           ra == RemoveFile(tx.d, "archived")
           ret == Return(tx.d)
<1>3. /\ wd \in Job /\ wt \in Job /\ rl \in Job /\ ra \in Job /\ ret \in Job
      /\ wd.do = "write" /\ wt.do = "write" /\ rl.do = "remove" /\ ra.do = "remove" /\ ret.do = "return"
  BY <1>1, JobFields DEF Paths, Status
<1>4. /\ RevertIndex \in Job /\ RevertIndex.do = "revert"
      /\ log \in Job /\ log.do = "log"
  BY EndJobs DEF Status
<1>5. restored \in Seq(Job)
  BY <1>1, RestoreList
<1> HIDE DEF todo, wd, wt, rl, ra, ret, log
<1>6. ListOf(done, {RevertIndex, log}) /\ done \in Seq(Job)
  <2>1. ListOf(<<RevertIndex, log>>, {RevertIndex, log})
    BY <1>4, RevertIndex.do # "log", Endings
  <2> QED BY <2>1 DEF ListOf
<1>7. CASE tx.op \in {"create", "adopt"}
  <2>1. todo = ((restored \o <<rl>>) \o back) \o done
    <3> HIDE DEF restored, back, done
    <3> QED BY <1>2, <1>7, Zenon DEF todo, rl
  <2>2. PICK b \in SUBSET {ret} : ListOf(back \o done, b \union {RevertIndex, log}) /\ back \in Seq(Job)
    <3>1. CASE tx.op = "adopt" /\ tx.d \notin source
      <4>1. back = <<ret>>
        BY <3>1 DEF ret
      <4>2. ListOf(<<ret>> \o done, {ret} \union {RevertIndex, log}) /\ <<ret>> \in Seq(Job)
        <5> HIDE DEF done
        <5> QED BY <1>3, <1>6, JobThen, Single
      <4> QED BY <4>1, <4>2
    <3>2. CASE ~(tx.op = "adopt" /\ tx.d \notin source)
      <4>1. back = <<>>
        BY <3>2
      <4>2. <<>> \in Seq(Job) /\ ToSet(<<>>) = {}
        BY Short, <1>3
      <4>3. ListOf(<<>> \o done, {} \union {RevertIndex, log})
        <5> HIDE DEF done
        <5> QED BY <1>6, <4>2, Prefixed
      <4> QED BY <4>1, <4>2, <4>3
    <3> QED BY <3>1, <3>2
  <2> HIDE DEF back, done, restored
  <2> DEFINE rest == back \o done
             end == <<rl>> \o rest
  <2>3. ListOf(end, {rl} \union (b \union {RevertIndex, log}))
    <3> HIDE DEF rest
    <3>1. ListOf(rest, b \union {RevertIndex, log})
      BY <2>2 DEF rest
    <3> QED BY <3>1, <1>3, JobThen
  <2>4. todo = restored \o end
    <3>1. <<rl>> \in Seq(Job) /\ rest \in Seq(Job) /\ restored \o <<rl>> \in Seq(Job)
      BY <1>3, <1>5, <1>6, <2>2, Single, Concatenated
    <3>2. todo = (restored \o <<rl>>) \o rest
      BY <2>1, <2>2, <3>1, <1>6, Associated
    <3> HIDE DEF rest
    <3> QED BY <3>1, <3>2, <1>5, Associated
  <2>5. ListOf(todo, Kept(old, tx.mirrored) \union ({rl} \union (b \union {RevertIndex, log})))
    <3> HIDE DEF end
    <3> QED BY <2>3, <2>4, <1>1, RestoreThen DEF restored
  <2>6. Kept(old, tx.mirrored) \union ({rl} \union (b \union {RevertIndex, log}))
         = Kept(old, tx.mirrored) \union {rl} \union b \union {RevertIndex, log}
    OBVIOUS
  <2>7. Undone(tx, old, todo)
    BY <2>5, <2>6, <1>7 DEF Undone, rl, ret, log
  <2>8. todo \in Seq(Job) /\ todo # <<>>
    BY <2>5 DEF ListOf
  <2> QED BY <2>7, <2>8 DEF tx, old, todo
<1>8. CASE tx.op = "update"
  <2> DEFINE end == restored \o done
  <2>1. todo = (<<wd>> \o restored) \o done
    <3> HIDE DEF restored, back, done
    <3> QED BY <1>2, <1>8, Zenon DEF todo, wd
  <2> HIDE DEF restored, back, done
  <2>2. ListOf(end, Kept(old, tx.mirrored) \union {RevertIndex, log})
    BY <1>1, <1>6, RestoreThen DEF restored
  <2>3. todo = <<wd>> \o end
    <3>1. <<wd>> \in Seq(Job)
      BY <1>3, Single
    <3> QED BY <2>1, <3>1, <1>5, <1>6, Associated
  <2>4. ListOf(todo, {wd} \union (Kept(old, tx.mirrored) \union {RevertIndex, log}))
    <3> HIDE DEF end
    <3> QED BY <2>2, <2>3, <1>3, JobThen
  <2>5. {wd} \union (Kept(old, tx.mirrored) \union {RevertIndex, log})
         = {wd} \union Kept(old, tx.mirrored) \union {RevertIndex, log}
    OBVIOUS
  <2>6. Undone(tx, old, todo)
    BY <2>4, <2>5, <1>8 DEF Undone, wd, log, Creates
  <2>7. todo \in Seq(Job) /\ todo # <<>>
    BY <2>4 DEF ListOf
  <2> QED BY <2>6, <2>7 DEF tx, old, todo
<1>9. ASSUME NEW x \in {wd, ra}, NEW y \in {wd, wt}
      PROVE  ListOf(<<x, y>> \o done, {x, y} \union {RevertIndex, log})
  <2>1. <<x, y>> \in Seq(Job) /\ ToSet(<<x, y>>) = {x, y}
    <3>1. x \in Job /\ y \in Job
      BY <1>3
    <3> QED BY <3>1, Short
  <2>2. \A job \in {x, y} : job.do # "log"
    BY <1>3
  <2> HIDE DEF done
  <2> QED BY <2>1, <2>2, <1>6, Prefixed
<1>10. CASE tx.op = "link"
  <2>1. todo = <<wd, wt>> \o done
    <3> HIDE DEF restored, back, done
    <3> QED BY <1>2, <1>10, Zenon DEF todo, wd, wt
  <2> HIDE DEF done
  <2>2. ListOf(todo, {wd, wt} \union {RevertIndex, log})
    BY <2>1, <1>9
  <2>3. Undone(tx, old, todo)
    BY <2>2, <1>10 DEF Undone, wd, wt, log, Creates
  <2> QED BY <2>2, <2>3 DEF ListOf, tx, old, todo
<1>11. CASE tx.op = "archive"
  <2>1. todo = <<ra, wd>> \o done
    <3> HIDE DEF restored, back, done
    <3> QED BY <1>2, <1>11, Zenon DEF todo, wd, ra
  <2> HIDE DEF done
  <2>2. ListOf(todo, {ra, wd} \union {RevertIndex, log})
    BY <2>1, <1>9
  <2>3. Undone(tx, old, todo)
    BY <2>2, <1>11 DEF Undone, wd, ra, log, Creates
  <2> QED BY <2>2, <2>3 DEF ListOf, tx, old, todo
<1> QED BY <1>1, <1>7, <1>8, <1>10, <1>11 DEF Ops

\* The entries and the jobs of a recovery.
Recovered(ents, tx, mem, todo) ==
  LET exists    == file[tx.d].live # Nothing
      copy      == file[tx.d].archived
      archived  == Reached(ents, tx.d, tx.rev) /\ ents[tx.d].arch
      forwarded == ~archived /\ copy # Nothing /\ copy.rev >= tx.rev
      kept      == Kept(ents, tx.mirrored)
      Ended(done) == Log(IF done THEN "committed" ELSE "aborted")
  IN
  /\ tx.op \in Creates =>
       /\ IsLive(ents, tx.d) /\ exists => mem = ents /\ ListOf(todo, kept \union {Ended(TRUE)})
       /\ ~IsLive(ents, tx.d) /\ exists =>
            mem = ents /\ ListOf(todo, {RemoveFile(tx.d, "live")} \union kept \union {Ended(FALSE)})
       /\ ~IsLive(ents, tx.d) /\ ~exists => mem = ents /\ ListOf(todo, {Ended(FALSE)})
  /\ tx.op = "update" =>
       /\ mem = ents
       /\ ListOf(todo, {Restore(ents, tx.d, "live")} \union kept \union {Ended(Reached(ents, tx.d, tx.rev))})
  /\ tx.op = "link" =>
       /\ mem = ents
       /\ ListOf(todo, {Restore(ents, tx.d, "live"), Restore(ents, tx.to, "live")} \union kept
                         \union {Ended(Reached(ents, tx.d, tx.rev) /\ Reached(ents, tx.to, tx.toRev))})
  /\ tx.op = "archive" =>
       /\ archived => /\ mem = ents
                      /\ ListOf(todo, {Write(tx.d, ents[tx.d]), RemoveFile(tx.d, "live"), Ended(TRUE)})
       /\ forwarded => /\ mem = [ents EXCEPT ![tx.d] = copy]
                       /\ ListOf(todo, {PersistIndex, RemoveFile(tx.d, "live"), Ended(TRUE)})
       /\ ~archived /\ ~forwarded =>
            /\ mem = ents
            /\ ListOf(todo, {Restore(ents, tx.d, "live"), RemoveFile(tx.d, "archived"), Ended(FALSE)})

\* A recovery plans what its transaction, and the files it finds, call for.
LEMMA RecoveryList ==
  ASSUME TypeOK, NEW ents \in Entries, NEW tx \in Tx
  PROVE  LET rec == Recovery(ents, tx) IN
         /\ Recovered(ents, tx, rec.mem, rec.todo)
         /\ rec.mem \in Entries /\ rec.todo \in Seq(Job) /\ rec.todo # <<>>
<1> DEFINE Result(rec) == /\ Recovered(ents, tx, rec.mem, rec.todo)
                          /\ rec.mem \in Entries /\ rec.todo \in Seq(Job) /\ rec.todo # <<>>
           exists == file[tx.d].live # Nothing
           matches == IsLive(ents, tx.d)
           kept == Kept(ents, tx.mirrored)
           mirrors == RestoreMirrored(ents, tx.mirrored)
           yes == Log("committed")
           no == Log("aborted")
           rl == RemoveFile(tx.d, "live")
           ra == RemoveFile(tx.d, "archived")
           sd == Restore(ents, tx.d, "live")
           st == Restore(ents, tx.to, "live")
           wd == Write(tx.d, ents[tx.d])
<1>1. /\ tx.op \in Ops /\ tx.d \in Docs /\ tx.to \in Docs /\ tx.mirrored \in SUBSET Docs
      /\ \A d \in Docs : ents[d] \in Record \union {Nothing}
  BY DEF Tx, Entries
<1>2. /\ rl \in Job /\ ra \in Job /\ sd \in Job /\ st \in Job /\ wd \in Job
      /\ rl.do # "log" /\ ra.do # "log" /\ sd.do # "log" /\ st.do # "log" /\ wd.do # "log"
  <2>1. ASSUME NEW d \in Docs
        PROVE  /\ Write(d, ents[d]) \in Job /\ Write(d, ents[d]).do = "write"
               /\ RemoveFile(d, "live") \in Job /\ RemoveFile(d, "live").do = "remove"
               /\ RemoveFile(d, "archived") \in Job /\ RemoveFile(d, "archived").do = "remove"
    BY <1>1, JobFields DEF Paths, Status
  <2>2. ASSUME NEW d \in Docs PROVE Restore(ents, d, "live") \in Job /\ Restore(ents, d, "live").do # "log"
    BY <2>1 DEF Restore
  <2> QED BY <2>1, <2>2, <1>1
<1>3. /\ PersistIndex \in Job /\ PersistIndex.do # "log"
      /\ yes \in Job /\ no \in Job /\ yes.do = "log" /\ no.do = "log"
  BY EndJobs DEF Status
<1> HIDE DEF yes, no, rl, ra, sd, st, wd, kept, mirrors
<1>4. ASSUME NEW log \in {yes, no}
      PROVE  /\ log \in Job /\ log.do = "log"
             /\ ListOf(<<log>>, {log})
             /\ ListOf(mirrors \o <<log>>, kept \union {log}) /\ mirrors \in Seq(Job)
             /\ <<log>> \in Seq(Job)
             /\ \A a \in {rl, sd, PersistIndex} :
                  ListOf((<<a>> \o mirrors) \o <<log>>, {a} \union kept \union {log})
             /\ ListOf((<<sd, st>> \o mirrors) \o <<log>>, {sd, st} \union kept \union {log})
  <2>1. log \in Job /\ log.do = "log"
    BY <1>3
  <2>2. ListOf(<<log>>, {log})
    BY <2>1, <1>2, Endings
  <2>3. <<log>> \in Seq(Job)
    BY <2>2 DEF ListOf
  <2>4. mirrors \in Seq(Job)
    BY <1>1, RestoreList DEF mirrors
  <2>5. ListOf(mirrors \o <<log>>, kept \union {log})
    BY <2>2, <1>1, RestoreThen DEF mirrors, kept
  <2>6. ASSUME NEW a \in {rl, sd, PersistIndex}
        PROVE  ListOf((<<a>> \o mirrors) \o <<log>>, {a} \union kept \union {log})
    <3>1. a \in Job /\ a.do # "log"
      BY <1>2, <1>3
    <3>2. ListOf(<<a>> \o (mirrors \o <<log>>), {a} \union (kept \union {log}))
      BY <3>1, <2>5, JobThen
    <3>3. <<a>> \in Seq(Job)
      BY <3>1, Single
    <3>4. (<<a>> \o mirrors) \o <<log>> = <<a>> \o (mirrors \o <<log>>)
      BY <3>3, <2>3, <2>4, Associated
    <3>5. {a} \union (kept \union {log}) = {a} \union kept \union {log}
      OBVIOUS
    <3> QED BY <3>2, <3>4, <3>5
  <2>7. ListOf((<<sd, st>> \o mirrors) \o <<log>>, {sd, st} \union kept \union {log})
    <3>1. <<sd, st>> \in Seq(Job) /\ ToSet(<<sd, st>>) = {sd, st}
      <4>1. sd \in Job /\ st \in Job
        BY <1>2
      <4> QED BY <4>1, Short
    <3>2. \A job \in ToSet(<<sd, st>>) : job.do # "log"
      BY <3>1, <1>2
    <3>3. ListOf(<<sd, st>> \o (mirrors \o <<log>>), {sd, st} \union (kept \union {log}))
      <4> DEFINE front == <<sd, st>>
      <4>1. front \in Seq(Job) /\ ToSet(front) = {sd, st} /\ \A job \in ToSet(front) : job.do # "log"
        BY <3>1, <3>2
      <4> HIDE DEF front
      <4>2. ListOf(front \o (mirrors \o <<log>>), ToSet(front) \union (kept \union {log}))
        BY <4>1, <2>5, Prefixed
      <4> QED BY <4>1, <4>2 DEF front
    <3>4. (<<sd, st>> \o mirrors) \o <<log>> = <<sd, st>> \o (mirrors \o <<log>>)
      BY <3>1, <2>3, <2>4, Associated
    <3>5. {sd, st} \union (kept \union {log}) = {sd, st} \union kept \union {log}
      OBVIOUS
    <3> QED BY <3>3, <3>4, <3>5
  <2> QED BY <2>1, <2>2, <2>3, <2>4, <2>5, <2>6, <2>7
<1>5. [ents EXCEPT ![tx.d] = Nothing] \in Entries
  BY <1>1 DEF Entries
<1>6. ASSUME tx.op \in Creates
      PROVE  Result(Recovery(ents, tx))
  <2>0. Recovery(ents, tx) = CreateRecovery(ents, tx)
    <3>1. tx.op # "update" /\ tx.op # "link" /\ tx.op # "archive" /\ tx.op \in {"create", "adopt"}
      BY <1>6 DEF Creates
    <3> QED BY <3>1, Zenon DEF Recovery
  <2>1. CreateRecovery(ents, tx) =
     CASE matches /\ exists   -> [mem |-> ents, todo |-> mirrors \o <<yes>>]
       [] ~matches /\ exists  -> [mem |-> ents, todo |-> <<rl>> \o mirrors \o <<no>>]
       [] matches /\ ~exists  -> [mem |-> [ents EXCEPT ![tx.d] = Nothing],
                                  todo |-> <<PersistIndex>> \o mirrors \o <<no>>]
       [] ~matches /\ ~exists -> [mem |-> ents, todo |-> <<no>>]
    BY Zenon DEF CreateRecovery, mirrors, yes, no, rl
  <2> HIDE DEF matches, exists
  <2>2. CASE matches /\ exists
    <3>1. CreateRecovery(ents, tx) = [mem |-> ents, todo |-> mirrors \o <<yes>>]
      BY <2>1, <2>2, Zenon
    <3>2. ListOf(mirrors \o <<yes>>, kept \union {yes})
      BY <1>4
    <3> QED BY <2>0, <2>2, <3>1, <3>2, <1>6 DEF Recovered, ListOf, Creates, matches, exists, kept, yes
  <2>3. CASE ~matches /\ exists
    <3>1. CreateRecovery(ents, tx) = [mem |-> ents, todo |-> (<<rl>> \o mirrors) \o <<no>>]
      BY <2>1, <2>3, Zenon
    <3>2. ListOf((<<rl>> \o mirrors) \o <<no>>, {rl} \union kept \union {no})
      BY <1>4
    <3> DEFINE rec == Recovery(ents, tx)
    <3>3. rec.mem = ents /\ rec.todo = (<<rl>> \o mirrors) \o <<no>>
      BY <2>0, <3>1
    <3> HIDE DEF rec
    <3>4. ListOf(rec.todo, {rl} \union kept \union {no})
      BY <3>2, <3>3
    <3>5. rec.mem \in Entries /\ rec.todo \in Seq(Job) /\ rec.todo # <<>>
      BY <3>3, <3>4 DEF ListOf
    <3>6. tx.op \notin {"update", "link", "archive"}
      BY <1>6 DEF Creates
    <3>7. Recovered(ents, tx, rec.mem, rec.todo)
      BY <2>3, <3>3, <3>4, <3>6 DEF Recovered, matches, exists, kept, no, rl
    <3> QED BY <3>5, <3>7 DEF rec
  <2>4. CASE matches /\ ~exists
    <3>1. CreateRecovery(ents, tx) = [mem |-> [ents EXCEPT ![tx.d] = Nothing],
                                      todo |-> (<<PersistIndex>> \o mirrors) \o <<no>>]
      BY <2>1, <2>4, Zenon
    <3>2. ListOf((<<PersistIndex>> \o mirrors) \o <<no>>, {PersistIndex} \union kept \union {no})
      BY <1>4
    <3> QED BY <2>0, <2>4, <3>1, <3>2, <1>5, <1>6 DEF Recovered, ListOf, Creates, matches, exists
  <2>5. CASE ~matches /\ ~exists
    <3>1. CreateRecovery(ents, tx) = [mem |-> ents, todo |-> <<no>>]
      BY <2>1, <2>5, Zenon
    <3>2. ListOf(<<no>>, {no})
      BY <1>4
    <3> QED BY <2>0, <2>5, <3>1, <3>2, <1>6 DEF Recovered, ListOf, Creates, matches, exists, no
  <2> QED BY <2>2, <2>3, <2>4, <2>5
<1>7. ASSUME tx.op = "update"
      PROVE  Result(Recovery(ents, tx))
  <2> DEFINE done == Reached(ents, tx.d, tx.rev)
             log == Log(IF done THEN "committed" ELSE "aborted")
  <2>0. Recovery(ents, tx) = UpdateRecovery(ents, tx)
    <3>1. tx.op \notin {"create", "adopt"} /\ tx.op # "link" /\ tx.op # "archive"
      BY <1>7
    <3> QED BY <3>1, <1>7, Zenon DEF Recovery
  <2>1. UpdateRecovery(ents, tx) = [mem |-> ents, todo |-> (<<sd>> \o mirrors) \o <<log>>]
    BY Zenon DEF UpdateRecovery, mirrors, sd
  <2>2. log \in {yes, no}
    BY DEF yes, no
  <2> HIDE DEF log
  <2>3. ListOf((<<sd>> \o mirrors) \o <<log>>, {sd} \union kept \union {log})
    BY <1>4, <2>2
  <2> QED BY <2>0, <2>1, <2>3, <1>7 DEF Recovered, ListOf, Creates, kept, log, sd
<1>8. ASSUME tx.op = "link"
      PROVE  Result(Recovery(ents, tx))
  <2> DEFINE done == Reached(ents, tx.d, tx.rev) /\ Reached(ents, tx.to, tx.toRev)
             log == Log(IF done THEN "committed" ELSE "aborted")
  <2>0. Recovery(ents, tx) = LinkRecovery(ents, tx)
    <3>1. tx.op \notin {"create", "adopt"} /\ tx.op # "update" /\ tx.op # "archive"
      BY <1>8
    <3> QED BY <3>1, <1>8, Zenon DEF Recovery
  <2>1. LinkRecovery(ents, tx) = [mem |-> ents, todo |-> (<<sd, st>> \o mirrors) \o <<log>>]
    BY Zenon DEF LinkRecovery, mirrors, sd, st
  <2>2. log \in {yes, no}
    BY DEF yes, no
  <2> HIDE DEF log
  <2>3. ListOf((<<sd, st>> \o mirrors) \o <<log>>, {sd, st} \union kept \union {log})
    BY <1>4, <2>2
  <2> DEFINE rec == Recovery(ents, tx)
  <2>4. rec.mem = ents /\ rec.todo = (<<sd, st>> \o mirrors) \o <<log>>
    BY <2>0, <2>1
  <2> HIDE DEF rec
  <2>5. ListOf(rec.todo, {sd, st} \union kept \union {log})
    BY <2>3, <2>4
  <2>6. rec.mem \in Entries /\ rec.todo \in Seq(Job) /\ rec.todo # <<>>
    BY <2>4, <2>5 DEF ListOf
  <2>7. tx.op \notin Creates /\ tx.op # "update" /\ tx.op # "archive"
    BY <1>8 DEF Creates
  <2>8. Recovered(ents, tx, rec.mem, rec.todo)
    BY <2>4, <2>5, <2>7 DEF Recovered, kept, log, sd, st
  <2> QED BY <2>6, <2>8 DEF rec
<1>9. ASSUME tx.op = "archive"
      PROVE  Result(Recovery(ents, tx))
  <2> DEFINE copy == file[tx.d].archived
             archived == Reached(ents, tx.d, tx.rev) /\ ents[tx.d].arch
             forwarded == ~archived /\ copy # Nothing /\ copy.rev >= tx.rev
  <2>0. Recovery(ents, tx) = ArchiveRecovery(ents, tx)
    <3>1. tx.op \notin {"create", "adopt"} /\ tx.op # "update" /\ tx.op # "link"
      BY <1>9
    <3> QED BY <3>1, <1>9, Zenon DEF Recovery
  <2>1. ArchiveRecovery(ents, tx) =
     CASE archived -> [mem |-> ents, todo |-> <<wd, rl, yes>>]
       [] forwarded -> [mem |-> [ents EXCEPT ![tx.d] = copy], todo |-> <<PersistIndex, rl, yes>>]
       [] OTHER -> [mem |-> ents, todo |-> <<sd, ra, no>>]
    BY Zenon DEF ArchiveRecovery, wd, rl, yes, sd, ra, no
  <2>2. copy # Nothing => [ents EXCEPT ![tx.d] = copy] \in Entries
    <3>1. copy # Nothing => copy \in Record
      BY <1>1 DEF TypeOK, Content, Paths
    <3> HIDE DEF copy
    <3> QED BY <3>1, <1>1 DEF Entries
  <2>3. /\ ListOf(<<wd, rl, yes>>, {wd, rl, yes}) /\ ListOf(<<PersistIndex, rl, yes>>, {PersistIndex, rl, yes})
        /\ ListOf(<<sd, ra, no>>, {sd, ra, no})
    BY <1>2, <1>3, Endings
  <2>4. archived => ~forwarded
    OBVIOUS
  <2> HIDE DEF archived, forwarded
  <2>5. CASE archived
    <3>1. ArchiveRecovery(ents, tx) = [mem |-> ents, todo |-> <<wd, rl, yes>>]
      BY <2>1, <2>4, <2>5, Zenon
    <3> QED BY <2>0, <2>3, <2>5, <3>1, <1>9 DEF Recovered, ListOf, Creates, archived, wd, rl, yes
  <2>6. CASE forwarded
    <3>1. ArchiveRecovery(ents, tx) = [mem |-> [ents EXCEPT ![tx.d] = copy], todo |-> <<PersistIndex, rl, yes>>]
      BY <2>1, <2>4, <2>6, Zenon
    <3> QED BY <2>0, <2>2, <2>3, <2>6, <3>1, <1>9 DEF Recovered, ListOf, Creates, archived, forwarded, rl, yes
  <2>7. CASE ~archived /\ ~forwarded
    <3>1. ArchiveRecovery(ents, tx) = [mem |-> ents, todo |-> <<sd, ra, no>>]
      BY <2>1, <2>7, Zenon
    <3> QED BY <2>0, <2>3, <2>7, <3>1, <1>9 DEF Recovered, ListOf, Creates, archived, forwarded, sd, ra, no
  <2> QED BY <2>5, <2>6, <2>7
<1> QED BY <1>1, <1>6, <1>7, <1>8, <1>9 DEF Ops, Creates

-----------------------------------------------------------------------------
(* The steps, one by one: types, and which transaction is whose. *)

\* What a job does, by its kind.
LEMMA JobCases ==
  ASSUME NEW h, NEW job \in Job, DoJob(h, job)
  PROVE  /\ job.do = "write" => file' = [file EXCEPT ![job.d][job.at] = job.rec]
         /\ job.do = "mirror" /\ han[h].mem[job.d] = Nothing => file' = file
         /\ job.do = "mirror" /\ han[h].mem[job.d] # Nothing =>
              file' = [file EXCEPT ![job.d][PathOf(han[h].mem[job.d])] = han[h].mem[job.d]]
         /\ job.do = "remove" => file' = [file EXCEPT ![job.d][job.at] = Nothing]
         /\ job.do = "move" => file' = [file EXCEPT ![job.d]["live"] = RawText]
         /\ job.do \notin {"write", "mirror", "remove", "move"} => file' = file
         /\ job.do = "move" => source' = source \ {job.d}
         /\ job.do = "return" => source' = source \union {job.d}
         /\ job.do \notin {"move", "return"} => source' = source
         /\ job.do = "index" => index' = han[h].mem
         /\ job.do = "revert" => index' = han[h].before
         /\ job.do \notin {"index", "revert"} => index' = index
         /\ job.do = "log" => journal' = [journal EXCEPT ![han[h].tx].status = job.st]
         /\ job.do # "log" => journal' = journal
<1> DEFINE kind == job.do
           d == job.d
           mem == han[h].mem
           written == [file EXCEPT ![job.d][job.at] = job.rec]
           mirrored == [file EXCEPT ![job.d][PathOf(han[h].mem[job.d])] = han[h].mem[job.d]]
           removed == [file EXCEPT ![job.d][job.at] = Nothing]
           moved == [file EXCEPT ![job.d]["live"] = RawText]
           gone == mem[d] = Nothing
<1>1. file' = CASE kind = "write"  -> written
               [] kind = "mirror" -> (IF gone THEN file ELSE mirrored)
               [] kind = "remove" -> removed
               [] kind = "move"   -> moved
               [] OTHER             -> file
  BY DEF DoJob
<1>2. source' = CASE kind = "move"   -> source \ {d}
                 [] kind = "return" -> source \union {d}
                 [] OTHER             -> source
  BY DEF DoJob
<1>3. index' = CASE kind = "index"  -> mem
                [] kind = "revert" -> han[h].before
                [] OTHER             -> index
  BY DEF DoJob
<1>4. journal' = IF kind = "log" THEN [journal EXCEPT ![han[h].tx].status = job.st] ELSE journal
  BY DEF DoJob
<1>5. /\ "write" # "mirror" /\ "write" # "remove" /\ "write" # "move" /\ "mirror" # "remove"
      /\ "mirror" # "move" /\ "remove" # "move" /\ "move" # "return" /\ "index" # "revert"
  OBVIOUS
<1> HIDE DEF kind, written, mirrored, removed, moved, mem, d, gone
<1>6. kind = "write" => file' = written
  BY <1>1, <1>5, Zenon
<1>7. kind = "mirror" => file' = IF gone THEN file ELSE mirrored
  BY <1>1, <1>5, Zenon
<1>8. kind = "remove" => file' = removed
  BY <1>1, <1>5, Zenon
<1>9. kind = "move" => file' = moved /\ source' = source \ {d}
  BY <1>1, <1>2, <1>5, Zenon
<1>10. kind \notin {"write", "mirror", "remove", "move"} => file' = file
  <2>1. kind # "write" /\ kind # "mirror" /\ kind # "remove" /\ kind # "move" => file' = file
    BY <1>1, Zenon
  <2> QED BY <2>1
<1>11. kind = "return" => source' = source \union {d}
  BY <1>2, <1>5, Zenon
<1>12. kind \notin {"move", "return"} => source' = source
  <2>1. kind # "move" /\ kind # "return" => source' = source
    BY <1>2, Zenon
  <2> QED BY <2>1
<1>13. kind = "index" => index' = mem
  BY <1>3, <1>5, Zenon
<1>14. kind = "revert" => index' = han[h].before
  BY <1>3, <1>5, Zenon
<1>15. kind \notin {"index", "revert"} => index' = index
  <2>1. kind # "index" /\ kind # "revert" => index' = index
    BY <1>3, Zenon
  <2> QED BY <2>1
<1>16. /\ kind = "mirror" /\ gone => file' = file
       /\ kind = "mirror" /\ ~gone => file' = mirrored
  BY <1>7
<1>17. /\ kind = "log" => journal' = [journal EXCEPT ![han[h].tx].status = job.st]
       /\ kind # "log" => journal' = journal
  BY <1>4
<1> QED BY <1>6, <1>8, <1>9, <1>10, <1>11, <1>12, <1>13, <1>14, <1>15, <1>16, <1>17
        DEF kind, written, mirrored, removed, moved, mem, d, gone

\* A job keeps the types, and the journal but for the status of its handle's transaction.
LEMMA JobTypes ==
  ASSUME TypeOK, NEW h \in Handles, NEW job \in Job, DoJob(h, job),
         job.do = "log" => han[h].tx \in DOMAIN journal
  PROVE  /\ index' \in Entries
         /\ file' \in [Docs -> [Paths -> Content]] /\ \A d \in Docs : file'[d].archived # RawText
         /\ source' \in SUBSET Docs
         /\ journal' \in Seq(Tx) /\ Len(journal') = Len(journal) /\ DOMAIN journal' = DOMAIN journal
         /\ job.do = "log" => \A i \in DOMAIN journal : i # han[h].tx => journal'[i] = journal[i]
         /\ job.do = "log" => journal'[han[h].tx] = [journal[han[h].tx] EXCEPT !.status = job.st]
<1>1. /\ index \in Entries /\ han[h].mem \in Entries /\ han[h].before \in Entries
      /\ file \in [Docs -> [Paths -> Content]] /\ \A d \in Docs : file[d].archived # RawText
      /\ source \in SUBSET Docs /\ journal \in Seq(Tx)
  BY DEF TypeOK, Handle
<1>2. /\ job.at \in Paths /\ job.st \in Status /\ job.rec \in Record \union {Nothing}
      /\ job.do \in {"write", "mirror", "remove", "move", "return"} => job.d \in Docs
  BY DEF Job
<1>3. index' \in Entries
  BY <1>1, JobCases
<1>4. source' \in SUBSET Docs
  BY <1>1, <1>2, JobCases, ZenonT(60)
<1>5. ASSUME NEW path \in Paths, NEW value \in Content, path = "archived" => value # RawText,
             job.d \in Docs, file' = [file EXCEPT ![job.d][path] = value]
      PROVE  file' \in [Docs -> [Paths -> Content]] /\ \A d \in Docs : file'[d].archived # RawText
  BY <1>1, <1>5 DEF Paths
<1>6. Record \union {Nothing} \subseteq Content /\ RawText \in Content /\ RawText \notin Record \union {Nothing}
  BY StoreAssumption DEF Content
<1>7. file' \in [Docs -> [Paths -> Content]] /\ \A d \in Docs : file'[d].archived # RawText
  <2>1. CASE job.do = "write"
    <3>1. file' = [file EXCEPT ![job.d][job.at] = job.rec]
      BY <2>1, JobCases
    <3> QED BY <3>1, <2>1, <1>2, <1>5, <1>6
  <2>2. CASE job.do = "mirror"
    <3>1. CASE han[h].mem[job.d] = Nothing
      <4>1. file' = file
        BY <2>2, <3>1, JobCases
      <4> QED BY <4>1, <1>1
    <3>2. CASE han[h].mem[job.d] # Nothing
      <4>1. file' = [file EXCEPT ![job.d][PathOf(han[h].mem[job.d])] = han[h].mem[job.d]]
        BY <2>2, <3>2, JobCases
      <4>2. PathOf(han[h].mem[job.d]) \in Paths
        BY DEF PathOf, Paths
      <4>3. han[h].mem[job.d] \in Record
        BY <1>1, <1>2, <2>2, <3>2 DEF Entries
      <4> QED BY <4>1, <4>2, <4>3, <2>2, <1>2, <1>5, <1>6
    <3> QED BY <3>1, <3>2
  <2>3. CASE job.do = "remove"
    <3>1. file' = [file EXCEPT ![job.d][job.at] = Nothing]
      BY <2>3, JobCases
    <3> QED BY <3>1, <2>3, <1>2, <1>5, <1>6
  <2>4. CASE job.do = "move"
    <3>1. file' = [file EXCEPT ![job.d]["live"] = RawText]
      BY <2>4, JobCases
    <3> QED BY <3>1, <2>4, <1>2, <1>5, <1>6 DEF Paths
  <2>5. CASE job.do \notin {"write", "mirror", "remove", "move"}
    BY <2>5, <1>1, JobCases
  <2> QED BY <2>1, <2>2, <2>3, <2>4, <2>5
<1>8. CASE job.do # "log"
  <2>1. journal' = journal
    BY <1>8, JobCases
  <2> QED BY <2>1, <1>1, <1>3, <1>4, <1>7, <1>8
<1>9. CASE job.do = "log"
  <2> DEFINE i == han[h].tx
             tx == [journal[i] EXCEPT !.status = job.st]
  <2>1. journal' = [journal EXCEPT ![i] = tx] /\ i \in DOMAIN journal
    BY <1>9, JobCases, ZenonT(60)
  <2>2. journal[i] \in Tx
    BY <2>1, <1>1
  <2>3. tx \in Tx
    BY <2>2, <1>2 DEF Tx
  <2> HIDE DEF tx, i
  <2>4. /\ journal' \in Seq(Tx) /\ Len(journal') = Len(journal) /\ DOMAIN journal' = DOMAIN journal
        /\ journal'[i] = tx /\ \A j \in DOMAIN journal : j # i => journal'[j] = journal[j]
    BY <2>1, <2>3, <1>1
  <2> QED BY <2>4, <1>3, <1>4, <1>7 DEF i, tx
<1> QED BY <1>8, <1>9

\* One handle changes.
LEMMA HandleStep ==
  ASSUME TypeOK, NEW h \in Handles, NEW m \in Handle, han' = [han EXCEPT ![h] = m]
  PROVE  /\ han' \in [Handles -> Handle] /\ han'[h] = m
         /\ \A g \in Handles \ {h} : han'[g] = han[g]
BY DEF TypeOK

\* A step of one handle that keeps its own place keeps everybody's.
LEMMA StillInJournal ==
  ASSUME Whole, NEW h \in Handles, \A g \in Handles \ {h} : han'[g] = han[g],
         DOMAIN journal \subseteq DOMAIN journal',
         \A g \in Handles \ {h} : lock' = g <=> lock = g,
         Active(h)' <=> lock' = h,
         Active(h)' \/ (Recovering(h)' /\ han'[h].todo # <<>>) => han'[h].tx \in DOMAIN journal',
         Recovering(h)' => han'[h].queue \subseteq DOMAIN journal'
  PROVE  InJournal'
<1> SUFFICES ASSUME NEW g \in Handles
             PROVE  /\ Active(g)' <=> lock' = g
                    /\ Active(g)' => han'[g].tx \in DOMAIN journal'
                    /\ Recovering(g)' => han'[g].queue \subseteq DOMAIN journal'
                    /\ Recovering(g)' /\ han'[g].todo # <<>> => han'[g].tx \in DOMAIN journal'
  BY DEF InJournal
<1>1. CASE g = h
  BY <1>1
<1>2. CASE g # h
  BY <1>2 DEF Whole, InJournal, Active, Recovering
<1> QED BY <1>1, <1>2

\* The types of a handle's parts.
LEMMA HandleFields ==
  ASSUME TypeOK, NEW h \in Handles
  PROVE  /\ han[h] \in Handle /\ han[h].mem \in Entries /\ han[h].before \in Entries
         /\ han[h].tx \in 0..MaxTx /\ han[h].todo \in Seq(Job) /\ han[h].queue \in SUBSET (1..MaxTx)
         /\ han[h].pc \in Phase
         /\ han[h].todo # <<>> => [han[h] EXCEPT !.todo = Tail(han[h].todo)] \in Handle
         /\ Closed \in Handle /\ [Closed EXCEPT !.pc = "open"] \in Handle
         /\ index \in Entries /\ journal \in Seq(Tx) /\ Len(journal) \in 0..MaxTx
         /\ DOMAIN journal = 1..Len(journal) /\ \A i \in DOMAIN journal : journal[i] \in Tx
<1>1. han[h] \in Handle
  BY DEF TypeOK
<1>2. /\ han[h].mem \in Entries /\ han[h].before \in Entries
      /\ han[h].tx \in 0..MaxTx /\ han[h].todo \in Seq(Job) /\ han[h].queue \in SUBSET (1..MaxTx)
      /\ han[h].pc \in Phase
  BY <1>1 DEF Handle
<1>3. han[h].todo # <<>> => [han[h] EXCEPT !.todo = Tail(han[h].todo)] \in Handle
  <2>1. han[h].todo # <<>> => Tail(han[h].todo) \in Seq(Job)
    BY <1>2, FirstJob
  <2> DEFINE t == Tail(han[h].todo)
  <2> HIDE DEF t
  <2>2. t \in Seq(Job) => [han[h] EXCEPT !.todo = t] \in Handle
    BY <1>1 DEF Handle
  <2> QED BY <2>1, <2>2 DEF t
<1>4. Closed \in Handle /\ [Closed EXCEPT !.pc = "open"] \in Handle
  <2>1. NoEntries \in Entries /\ 0 \in 0..MaxTx /\ <<>> \in Seq(Job) /\ {} \in SUBSET (1..MaxTx)
    BY StoreAssumption DEF NoEntries, Entries
  <2>2. Closed \in Handle
    BY <2>1 DEF Closed, Handle, Phase
  <2> QED BY <2>2 DEF Handle, Phase
<1>5. /\ index \in Entries /\ journal \in Seq(Tx) /\ Len(journal) \in 0..MaxTx
      /\ DOMAIN journal = 1..Len(journal) /\ \A i \in DOMAIN journal : journal[i] \in Tx
  BY StoreAssumption DEF TypeOK
<1> QED BY <1>1, <1>2, <1>3, <1>4, <1>5

\* Beginning a transaction keeps the types.
LEMMA BeginWhole ==
  ASSUME Whole, NEW h \in Handles, NEW tx, NEW after, NEW jobs, NEW pc \in {"mutating", "revoking"}, NEW w,
         Begin(h, tx, after, jobs, pc, w), Typed(tx, after, jobs), w \subseteq Weaknesses
  PROVE  Whole'
<1> DEFINE m == Opening(after, jobs, pc)
<1>0. TypeOK /\ InJournal
  BY DEF Whole
<1>1. /\ han[h].pc = "open" /\ lock = Nothing /\ Len(journal) < MaxTx /\ lock' = h
      /\ journal' = Append(journal, tx) /\ han' = [han EXCEPT ![h] = m]
      /\ spoilt' = spoilt \union StartWeakness \union w
      /\ UNCHANGED <<index, file, source, faults>>
  BY DEF Begin, Opening, Now
<1>2. m \in Handle /\ Now + 1 \in 1..MaxTx
  <2>1. Now + 1 \in 0..MaxTx /\ Now + 1 \in 1..MaxTx /\ index \in Entries
    <3>1. MaxTx \in Nat /\ Now \in Nat /\ Now < MaxTx
      BY <1>0, <1>1, StoreAssumption, HandleFields DEF Now
    <3>2. index \in Entries
      BY <1>0, HandleFields
    <3> QED BY <3>1, <3>2
  <2> QED BY <2>1 DEF Typed, Handle, Phase, Opening
<1>3. /\ m.pc = pc /\ m.tx = Now + 1 /\ m.queue = {} /\ m.todo = jobs
  BY DEF Opening
<1> HIDE DEF m
<1>4. han' \in [Handles -> Handle] /\ han'[h] = m /\ \A g \in Handles \ {h} : han'[g] = han[g]
  BY <1>0, <1>1, <1>2, HandleStep
<1>5. /\ journal' \in Seq(Tx) /\ Len(journal') = Now + 1 /\ DOMAIN journal' = 1..(Now + 1)
      /\ DOMAIN journal \subseteq DOMAIN journal'
  <2>1. journal \in Seq(Tx) /\ tx \in Tx
    BY <1>0 DEF Typed, TypeOK
  <2> QED BY <1>1, <2>1 DEF Now
<1>6. spoilt' \subseteq Weaknesses
  BY <1>0, <1>1 DEF TypeOK, StartWeakness, Weaknesses
<1>7. TypeOK'
  BY <1>0, <1>1, <1>2, <1>4, <1>5, <1>6 DEF TypeOK
<1>8. Active(h)' /\ ~Recovering(h)' /\ han'[h].tx \in DOMAIN journal'
  BY <1>2, <1>3, <1>4, <1>5 DEF Active, Recovering
<1>9. \A g \in Handles \ {h} : lock' = g <=> lock = g
  BY <1>1, StoreAssumption
<1> QED BY <1>1, <1>4, <1>5, <1>7, <1>8, <1>9, StillInJournal DEF Whole

\* A job done.
LEMMA JobWhole ==
  ASSUME Whole, NEW h \in Handles, Work(h) \/ RecoverWork(h)
  PROVE  Whole'
<1> DEFINE m == [han[h] EXCEPT !.todo = Tail(han[h].todo)]
           job == Head(han[h].todo)
<1>0. TypeOK /\ InJournal
  BY DEF Whole
<1>1. /\ (Active(h) \/ Recovering(h)) /\ han[h].todo # <<>> /\ DoJob(h, job)
      /\ han' = [han EXCEPT ![h] = m] /\ UNCHANGED <<lock, faults, spoilt>>
  BY DEF Work, RecoverWork, Active
<1>2. han[h].todo # <<>> /\ DoJob(h, job)
  BY DEF Work, RecoverWork
<1>3. m \in Handle /\ job \in Job /\ han[h].tx \in DOMAIN journal
  BY <1>0, <1>1, <1>2, HandleFields, FirstJob DEF InJournal
<1>4. m.pc = han[h].pc /\ m.tx = han[h].tx /\ m.queue = han[h].queue
  BY <1>0, HandleFields DEF Handle
<1> HIDE DEF m, job
<1>5. han' \in [Handles -> Handle] /\ han'[h] = m /\ \A g \in Handles \ {h} : han'[g] = han[g]
  BY <1>0, <1>1, <1>3, HandleStep
<1>6. /\ index' \in Entries
      /\ file' \in [Docs -> [Paths -> Content]] /\ \A d \in Docs : file'[d].archived # RawText
      /\ source' \in SUBSET Docs
      /\ journal' \in Seq(Tx) /\ Len(journal') = Len(journal) /\ DOMAIN journal' = DOMAIN journal
  BY <1>0, <1>2, <1>3, JobTypes
<1>7. TypeOK'
  BY <1>0, <1>1, <1>5, <1>6 DEF TypeOK
<1>8. /\ Active(h)' <=> Active(h)
      /\ Recovering(h)' <=> Recovering(h)
  BY <1>4, <1>5 DEF Active, Recovering
<1> QED BY <1>0, <1>1, <1>3, <1>4, <1>5, <1>6, <1>7, <1>8, StillInJournal DEF Whole, InJournal

\* A handle takes on a state, and nothing is written.
Becomes(h, m) ==
  /\ m \in Handle /\ han' = [han EXCEPT ![h] = m]
  /\ lock' \in Handles \union {Nothing} /\ \A g \in Handles \ {h} : lock' = g <=> lock = g
  /\ faults' \in 0..MaxFaults /\ spoilt' \subseteq Weaknesses
  /\ m.pc \in {"mutating", "revoking"} <=> lock' = h
  /\ m.pc \in {"mutating", "revoking"} => m.tx \in DOMAIN journal
  /\ m.pc = "recovering" => m.queue \subseteq DOMAIN journal /\ (m.todo # <<>> => m.tx \in DOMAIN journal)

\* The other steps leave the files and the index alone.
Idle == UNCHANGED <<index, file, source, journal>>

\* Every step but a beginning and a job keeps the types, and writes nothing.
LEMMA OtherWhole ==
  ASSUME Whole, NEW h \in Handles,
         Finish(h) \/ WriteFails(h) \/ Read(h) \/ Die(h) \/ Open(h) \/ RecoverNext(h) \/ Opened(h) \/ Close(h)
  PROVE  Whole' /\ Idle
<1>0. TypeOK /\ InJournal /\ Idle
  BY DEF Whole, Finish, WriteFails, Read, Die, Open, RecoverNext, Opened, Close, Idle
<1>1. ASSUME NEW m, Becomes(h, m)
      PROVE  Whole'
  <2>1. han' \in [Handles -> Handle] /\ han'[h] = m /\ \A g \in Handles \ {h} : han'[g] = han[g]
    BY <1>0, <1>1, HandleStep DEF Becomes
  <2>2. TypeOK'
    BY <1>0, <1>1, <2>1 DEF TypeOK, Idle, Becomes
  <2>3. /\ Active(h)' <=> m.pc \in {"mutating", "revoking"}
        /\ Recovering(h)' <=> m.pc = "recovering"
    BY <2>1 DEF Active, Recovering
  <2> QED BY <1>0, <1>1, <2>1, <2>2, <2>3, StillInJournal DEF Whole, Idle, Becomes
<1>2. /\ lock \in Handles \union {Nothing} /\ faults \in 0..MaxFaults /\ spoilt \subseteq Weaknesses
      /\ Nothing \notin Handles /\ MaxFaults \in Nat
      /\ Active(h) <=> lock = h
  BY <1>0, StoreAssumption DEF TypeOK, InJournal
<1>3. /\ Closed.pc = "closed" /\ [Closed EXCEPT !.pc = "open"].pc = "open"
      /\ Closed \in Handle /\ [Closed EXCEPT !.pc = "open"] \in Handle
  BY <1>0, HandleFields DEF Closed
<1>4. CASE Finish(h)
  <2> DEFINE m == [Closed EXCEPT !.pc = "open"]
  <2>1. /\ Active(h) /\ lock' = Nothing /\ han' = [han EXCEPT ![h] = m] /\ UNCHANGED <<faults, spoilt>>
    BY <1>4 DEF Finish, Active
  <2> HIDE DEF m
  <2>2. m \in Handle /\ m.pc = "open"
    BY <1>3 DEF m
  <2>9. Becomes(h, m)
    BY <1>2, <2>1, <2>2 DEF Becomes
  <2> QED BY <1>0, <1>1, <2>9
<1>5. CASE WriteFails(h)
  <2> DEFINE m == [han[h] EXCEPT !.pc = "revoking", !.mem = han[h].before, !.todo = Rollback(h)]
  <2>1. /\ Active(h) /\ lock' = lock /\ han' = [han EXCEPT ![h] = m] /\ spoilt' = spoilt
        /\ faults < MaxFaults /\ faults' = faults + 1
    BY <1>5 DEF WriteFails, Active, Fault
  <2>2. han[h].tx \in DOMAIN journal
    BY <1>0, <2>1 DEF InJournal
  <2>3. m \in Handle /\ m.pc = "revoking" /\ m.tx = han[h].tx
    <3>1. Rollback(h) \in Seq(Job) /\ han[h].before \in Entries /\ han[h] \in Handle
      BY <1>0, <2>2, RollbackList, HandleFields
    <3> QED BY <3>1 DEF Handle, Phase
  <2> HIDE DEF m
  <2>9. Becomes(h, m)
    BY <1>2, <2>1, <2>2, <2>3 DEF Becomes
  <2> QED BY <1>0, <1>1, <2>9
<1>6. CASE Read(h)
  <2> DEFINE m == [han[h] EXCEPT !.mem = index]
  <2>1. /\ Active(h) /\ lock' = lock /\ han' = [han EXCEPT ![h] = m] /\ spoilt' = spoilt \union {"read"}
        /\ faults < MaxFaults /\ faults' = faults + 1
    BY <1>6 DEF Read, Active, Fault
  <2>2. han[h].tx \in DOMAIN journal
    BY <1>0, <2>1 DEF InJournal
  <2>3. m \in Handle /\ m.pc = han[h].pc /\ m.tx = han[h].tx
    <3>1. index \in Entries /\ han[h] \in Handle
      BY <1>0, HandleFields
    <3> QED BY <3>1 DEF Handle
  <2>4. spoilt' \subseteq Weaknesses /\ m.pc \in {"mutating", "revoking"}
    BY <1>2, <2>1, <2>3 DEF Weaknesses, Active
  <2> HIDE DEF m
  <2>9. Becomes(h, m)
    BY <1>2, <2>1, <2>2, <2>3, <2>4 DEF Becomes
  <2> QED BY <1>0, <1>1, <2>9
<1>7. CASE Die(h)
  <2>1. /\ lock' = (IF lock = h THEN Nothing ELSE lock) /\ han' = [han EXCEPT ![h] = Closed]
        /\ faults < MaxFaults /\ faults' = faults + 1
    BY <1>7 DEF Die, Fault
  <2>2. spoilt' \subseteq Weaknesses
    BY <1>7, <1>2 DEF Die, Weaknesses
  <2>9. Becomes(h, Closed)
    BY <1>2, <1>3, <2>1, <2>2 DEF Becomes
  <2> QED BY <1>0, <1>1, <2>9
<1>8. CASE Open(h)
  <2> DEFINE q == {i \in DOMAIN journal : Pending(i)}
             m == [Closed EXCEPT !.pc = "recovering", !.mem = index, !.queue = q]
  <2>1. /\ han[h].pc = "closed" /\ lock' = lock /\ han' = [han EXCEPT ![h] = m] /\ faults' = faults
    BY <1>8 DEF Open
  <2>2. spoilt' \subseteq Weaknesses
    BY <1>8, <1>2 DEF Open, Weaknesses
  <2>3. q \in SUBSET (1..MaxTx) /\ q \subseteq DOMAIN journal /\ index \in Entries
    <3>1. DOMAIN journal \subseteq 1..MaxTx /\ index \in Entries
      BY <1>0, StoreAssumption DEF TypeOK
    <3> QED BY <3>1
  <2> HIDE DEF q
  <2>4. m \in Handle /\ m.pc = "recovering" /\ m.queue = q /\ m.todo = <<>>
    BY <1>3, <2>3 DEF Handle, Phase, Closed
  <2> HIDE DEF m
  <2>5. lock # h
    BY <1>2, <2>1 DEF Active
  <2>9. Becomes(h, m)
    BY <1>2, <2>1, <2>2, <2>3, <2>4, <2>5 DEF Becomes
  <2> QED BY <1>0, <1>1, <2>9
<1>9. CASE RecoverNext(h)
  <2>1. PICK i \in han[h].queue :
          LET rec == Recovery(han[h].mem, journal[i])
          IN han' = [han EXCEPT ![h].queue = @ \ {i}, ![h].tx = i, ![h].mem = rec.mem, ![h].todo = rec.todo]
    BY <1>9 DEF RecoverNext
  <2> DEFINE rec == Recovery(han[h].mem, journal[i])
             m == [han[h] EXCEPT !.queue = han[h].queue \ {i}, !.tx = i, !.mem = rec.mem, !.todo = rec.todo]
  <2>2. /\ han[h].pc = "recovering" /\ lock' = lock /\ faults' = faults /\ spoilt' = spoilt
    BY <1>9 DEF RecoverNext, Recovering
  <2>3. han' = [han EXCEPT ![h] = m]
    BY <2>1, Zenon
  <2>4. han[h].queue \subseteq DOMAIN journal /\ i \in DOMAIN journal /\ i \in 0..MaxTx
    <3>1. DOMAIN journal \subseteq 1..MaxTx
      BY <1>0, StoreAssumption DEF TypeOK
    <3> QED BY <1>0, <2>2, <3>1 DEF InJournal, Recovering
  <2>5. rec.mem \in Entries /\ rec.todo \in Seq(Job)
    BY <1>0, <2>4, HandleFields, RecoveryList
  <2> HIDE DEF rec
  <2>6. m \in Handle /\ m.pc = "recovering" /\ m.tx = i /\ m.queue = han[h].queue \ {i}
    <3>1. han[h] \in Handle
      BY <1>0, HandleFields
    <3> QED BY <2>2, <2>4, <2>5, <3>1 DEF Handle
  <2> HIDE DEF m
  <2>7. lock # h
    BY <1>2, <2>2 DEF Active
  <2>9. Becomes(h, m)
    BY <1>2, <2>2, <2>3, <2>4, <2>6, <2>7 DEF Becomes
  <2> QED BY <1>0, <1>1, <2>9
<1>10. CASE Opened(h)
  <2> DEFINE m == [Closed EXCEPT !.pc = "open"]
  <2>1. /\ lock # h /\ lock' = lock /\ han' = [han EXCEPT ![h] = m] /\ UNCHANGED <<faults, spoilt>>
    BY <1>10, <1>2 DEF Opened, Recovering, Active
  <2> HIDE DEF m
  <2>2. m \in Handle /\ m.pc = "open"
    BY <1>3 DEF m
  <2>9. Becomes(h, m)
    BY <1>2, <2>1, <2>2 DEF Becomes
  <2> QED BY <1>0, <1>1, <2>9
<1>11. CASE Close(h)
  <2>1. /\ lock # h /\ lock' = lock /\ han' = [han EXCEPT ![h] = Closed] /\ UNCHANGED <<faults, spoilt>>
    BY <1>11, <1>2 DEF Close, Active
  <2>9. Becomes(h, Closed)
    BY <1>2, <1>3, <2>1 DEF Becomes
  <2> QED BY <1>0, <1>1, <2>9
<1> QED BY <1>0, <1>4, <1>5, <1>6, <1>7, <1>8, <1>9, <1>10, <1>11

\* Types, and transactions that are in the journal.
THEOREM TypeCorrect == Spec => []Whole
<1>1. Init => Whole
  <2> SUFFICES ASSUME Init PROVE Whole
    OBVIOUS
  <2>1. index \in Entries /\ \A d \in Docs : index[d] \in Record \union {Nothing}
    BY StoreAssumption DEF Init, Entries
  <2>2. ASSUME NEW d \in Docs
        PROVE  FileOf(index[d]) \in [Paths -> Content] /\ FileOf(index[d]).archived # RawText
    BY <2>1, StoreAssumption DEF FileOf, Content, Paths
  <2>3. file \in [Docs -> [Paths -> Content]] /\ \A d \in Docs : file[d].archived # RawText
    BY <2>2 DEF Init
  <2>4. Closed \in Handle /\ Closed.pc = "closed"
    <3>1. NoEntries \in Entries /\ 0 \in 0..MaxTx /\ <<>> \in Seq(Job) /\ {} \in SUBSET (1..MaxTx)
      BY StoreAssumption DEF NoEntries, Entries
    <3> QED BY <3>1 DEF Closed, Handle, Phase
  <2>5. /\ source \in SUBSET Docs /\ journal = <<>> /\ lock = Nothing /\ faults = 0 /\ spoilt = {}
        /\ han = [h \in Handles |-> Closed]
    BY DEF Init
  <2>6. TypeOK
    BY <2>1, <2>3, <2>4, <2>5, StoreAssumption DEF TypeOK
  <2>7. InJournal
    BY <2>4, <2>5, StoreAssumption DEF InJournal, Active, Recovering
  <2> QED BY <2>6, <2>7 DEF Whole
<1>2. Whole /\ [Next]_vars => Whole'
  <2> SUFFICES ASSUME Whole, Next PROVE Whole'
    <3>1. ASSUME Whole, UNCHANGED vars PROVE Whole'
      BY <3>1 DEF vars, Whole, TypeOK, InJournal, Active, Recovering
    <3> QED BY <3>1
  <2>1. PICK h \in Handles : Mutate(h) \/ Advance(h) \/ Open(h) \/ Close(h) \/ WriteFails(h) \/ Read(h) \/ Die(h)
    BY DEF Next
  <2>2. CASE Mutate(h)
    <3>1. PICK tx, after, jobs, w : \E pc \in {"mutating", "revoking"} :
            Begin(h, tx, after, jobs, pc, w) /\ Typed(tx, after, jobs) /\ w \subseteq {"refused"}
      BY <2>2, MutationBegins DEF Whole
    <3>2. w \subseteq Weaknesses
      BY <3>1 DEF Weaknesses
    <3> QED BY <3>1, <3>2, BeginWhole
  <2>3. CASE Work(h) \/ RecoverWork(h)
    BY <2>3, JobWhole
  <2> QED BY <2>1, <2>2, <2>3, OtherWhole DEF Advance
<1> QED BY <1>1, <1>2, PTL DEF Spec

-----------------------------------------------------------------------------
(* The steps, one by one, of a store that has met no weakness. *)

Steady == Whole /\ Sane

\* A step that writes nothing leaves what is said of the files alone.
LEMMA IdleSame ==
  ASSUME Idle
  PROVE  /\ Now' = Now /\ Latest' = Latest /\ Goal' = Goal
         /\ \A i : Pending(i)' <=> Pending(i)
         /\ LastFits => LastFits'
         /\ Settled => Settled'
<1>1. index' = index /\ file' = file /\ journal' = journal
  BY DEF Idle
<1>2. Now' = Now /\ Latest' = Latest
  BY <1>1 DEF Now, Latest
<1>3. Goal' = Goal
  BY <1>1, <1>2 DEF Goal
<1>4. \A i : Pending(i)' <=> Pending(i)
  BY <1>1 DEF Pending
<1>5. LastFits => LastFits'
  BY <1>1, <1>2 DEF LastFits
<1>6. Settled => Settled'
  BY <1>1, <1>2, <1>3, <1>4 DEF Settled
<1> QED BY <1>2, <1>3, <1>4, <1>5, <1>6

\* A step that writes nothing leaves what a handle plans alone.
LEMMA IdleHandle ==
  ASSUME Idle, NEW m
  PROVE  /\ UnderWay(m) => UnderWay(m)'
         /\ Recovers(m) => Recovers(m)'
<1>1. index' = index /\ file' = file /\ journal' = journal
  BY DEF Idle
<1>2. Now' = Now /\ Latest' = Latest /\ Goal' = Goal
  BY IdleSame
<1>3. UnderWay(m) => UnderWay(m)'
  BY <1>1, <1>2 DEF UnderWay
<1>4. Recovers(m) => Recovers(m)'
  BY <1>1, <1>2 DEF Recovers, Behind
<1> QED BY <1>3, <1>4

\* One handle becomes m; what it is in the middle of, it goes on with.
Turns(h, m) ==
  /\ han'[h] = m /\ \A g \in Handles \ {h} : han'[g] = han[g]
  /\ lock' \in {lock, Nothing}
  /\ Working(h) /\ han[h].pc = "revoking" /\ Latest.op \in Creates => Working(h)' /\ m.pc = "revoking"
  /\ Recovering(h) /\ Latest.op \in Creates => han[h].todo = <<>>
  /\ Placed(h)'
  /\ Working(h)' => UnderWay(m)
  /\ Recovering(h)' => Recovers(m)
  /\ Settling(h)' => Covers(m)

\* A step that writes nothing keeps the invariant if it keeps it for its own handle.
LEMMA IdleSane ==
  ASSUME Steady, Idle, NEW h \in Handles, NEW m, Turns(h, m)
  PROVE  Sane'
<1>0. /\ OneAtATime /\ LastFits /\ Mutation /\ Covered /\ Recoverers /\ Recoverable /\ Settled
      /\ TypeOK
  BY DEF Steady, Sane, Whole
<1>1. /\ han'[h] = m /\ \A g \in Handles \ {h} : han'[g] = han[g]
      /\ lock' \in {lock, Nothing}
      /\ index' = index /\ file' = file /\ journal' = journal
  BY DEF Turns, Idle
<1>2. /\ Now' = Now /\ Latest' = Latest /\ Goal' = Goal /\ LastFits' /\ Settled'
      /\ \A i : Pending(i)' <=> Pending(i)
  BY <1>0, IdleSame
<1>3. ASSUME NEW g \in Handles \ {h}
      PROVE  /\ Active(g)' <=> Active(g)
             /\ Recovering(g)' <=> Recovering(g)
             /\ Working(g)' <=> Working(g)
             /\ Busy(g)' <=> Busy(g)
             /\ Settling(g)' <=> Settling(g)
  BY <1>1 DEF Active, Recovering, Working, Busy, Settling
<1>4. OneAtATime'
  <2>1. ASSUME NEW g \in Handles PROVE Placed(g)'
    <3>1. CASE g = h
      BY <3>1 DEF Turns
    <3>2. CASE g # h
      <4>1. Placed(g) /\ g \in Handles \ {h}
        BY <1>0, <3>2 DEF OneAtATime
      <4> QED BY <4>1, <1>1, <1>2, <1>3 DEF Placed
    <3> QED BY <3>1, <3>2
  <2>2. \A i \in DOMAIN journal' : Pending(i)' => i = Now'
    BY <1>0, <1>1, <1>2 DEF OneAtATime
  <2> QED BY <2>1, <2>2 DEF OneAtATime
<1>5. Mutation'
  <2>1. ASSUME NEW g \in Handles, Working(g)' PROVE UnderWay(han[g])'
    <3>1. CASE g = h
      <4>1. UnderWay(m)'
        BY <2>1, <3>1, IdleHandle DEF Turns
      <4>2. m = han'[g]
        BY <3>1, <1>1
      <4> QED BY <4>1, <4>2 DEF UnderWay
    <3>2. CASE g # h
      <4> DEFINE n == han[g]
      <4>1. UnderWay(han[g])
        BY <1>0, <1>3, <2>1, <3>2 DEF Mutation
      <4>2. han'[g] = han[g]
        BY <1>1, <3>2
      <4> QED BY <4>1, <4>2, <1>1, <1>2 DEF UnderWay
    <3> QED BY <3>1, <3>2
  <2> QED BY <2>1 DEF Mutation
<1>6. Recoverers'
  <2>1. ASSUME NEW g \in Handles, Recovering(g)' PROVE Recovers(han[g])'
    <3>1. CASE g = h
      <4>1. Recovers(m)'
        BY <2>1, <3>1, IdleHandle DEF Turns
      <4>2. m = han'[g]
        BY <3>1, <1>1
      <4> QED BY <4>1, <4>2 DEF Recovers
    <3>2. CASE g # h
      <4>1. Recovers(han[g])
        BY <1>0, <1>3, <2>1, <3>2 DEF Recoverers
      <4>2. han'[g] = han[g]
        BY <1>1, <3>2
      <4> QED BY <4>1, <4>2, <1>1, <1>2 DEF Recovers, Behind
    <3> QED BY <3>1, <3>2
  <2> QED BY <2>1 DEF Recoverers
<1>7. ASSUME NEW d, NEW path, Held(d, path) PROVE Held(d, path)'
  <2>1. PICK g \in Handles : /\ Recovering(g) /\ Latest.op \in Creates
                             /\ \E job \in Jobs(han[g]) : Fixes(job, d, path)
    BY <1>7 DEF Held
  <2>2. g # h
    <3>1. ToSet(<<>>) = {}
      BY Short DEF ToSet
    <3> QED BY <2>1, <3>1 DEF Turns, Jobs
  <2>3. Recovering(g)' /\ han'[g] = han[g]
    BY <2>1, <2>2, <1>1, <1>3
  <2> QED BY <2>1, <2>3, <1>2 DEF Held, Jobs, Fixes
<1>8. Covered'
  <2>1. ASSUME NEW g \in Handles, Settling(g)' PROVE Covers(han[g])'
    <3>1. Covers(han'[g])
      <4>1. CASE g = h
        BY <2>1, <4>1, <1>1 DEF Turns
      <4>2. CASE g # h
        BY <2>1, <4>2, <1>0, <1>1, <1>3 DEF Covered
      <4> QED BY <4>1, <4>2
    <3> QED BY <3>1, <1>1, <1>7 DEF Covers
  <2> QED BY <2>1 DEF Covered
<1>9. Recoverable'
  <2> SUFFICES ASSUME ~Undoing', NEW d \in Docs, NEW path \in Paths
               PROVE  \/ Follows(d, path)'
                      \/ journal' # <<>> /\ (Held(d, path)' \/ (Pending(Now)' /\ Coverable(d, path)'))
    BY DEF Recoverable
  <2>1. ~Undoing
    <3> SUFFICES ASSUME Undoing PROVE FALSE
      OBVIOUS
    <3>1. PICK g \in Handles : Working(g) /\ han[g].pc = "revoking" /\ Latest.op \in Creates
      BY DEF Undoing
    <3>2. Working(g)' /\ han'[g].pc = "revoking"
      BY <3>1, <1>1, <1>3 DEF Turns
    <3> QED BY <3>1, <3>2, <1>2 DEF Undoing
  <2>2. \/ Follows(d, path)
        \/ journal # <<>> /\ (Held(d, path) \/ (Pending(Now) /\ Coverable(d, path)))
    BY <2>1, <1>0 DEF Recoverable
  <2>3. Follows(d, path) => Follows(d, path)'
    BY <1>1, <1>2 DEF Follows
  <2>4. Coverable(d, path) => Coverable(d, path)'
    BY <1>1, <1>2 DEF Coverable
  <2>5. Pending(Now) => Pending(Now)'
    BY <1>1, <1>2 DEF Pending
  <2> QED BY <2>2, <2>3, <2>4, <2>5, <1>1, <1>7
<1> QED BY <1>2, <1>4, <1>5, <1>6, <1>8, <1>9 DEF Sane

\* The latest transaction is the journal's last, but for its status.
LEMMA LatestFields ==
  ASSUME TypeOK, journal # <<>>
  PROVE  /\ Now \in DOMAIN journal /\ Now \in Nat /\ Latest \in Tx
         /\ Latest.op = journal[Now].op /\ Latest.d = journal[Now].d /\ Latest.to = journal[Now].to
         /\ Latest.rev = journal[Now].rev /\ Latest.toRev = journal[Now].toRev
         /\ Latest.mirrored = journal[Now].mirrored
         /\ Latest.op \in Ops /\ Latest.d \in Docs /\ Latest.to \in Docs /\ Latest.mirrored \subseteq Docs
         /\ Touched(Latest) \subseteq Docs
<1>1. Now \in DOMAIN journal /\ Now \in Nat /\ journal[Now] \in Tx
  BY DEF TypeOK, Now
<1> DEFINE tx == journal[Now]
<1>2. tx \in Tx
  BY <1>1
<1>3. Latest = [tx EXCEPT !.status = "pending"]
  BY DEF Latest
<1> HIDE DEF tx
<1>4. /\ Latest \in Tx /\ Latest.op = tx.op /\ Latest.d = tx.d /\ Latest.to = tx.to
      /\ Latest.rev = tx.rev /\ Latest.toRev = tx.toRev /\ Latest.mirrored = tx.mirrored
  BY <1>2, <1>3 DEF Tx, Status
<1> HIDE DEF Latest
<1>5. Latest.op \in Ops /\ Latest.d \in Docs /\ Latest.to \in Docs /\ Latest.mirrored \subseteq Docs
  BY <1>4 DEF Tx
<1>6. Touched(Latest) \subseteq Docs
  BY <1>5 DEF Touched
<1> QED BY <1>1, <1>4, <1>5, <1>6 DEF tx

\* While a mutation has jobs left, nobody else has.
LEMMA Alone ==
  ASSUME Steady, NEW h \in Handles, Working(h)
  PROVE  /\ lock = h /\ Active(h) /\ han[h].tx = Now /\ Pending(Now) /\ journal # <<>> /\ han[h].todo # <<>>
         /\ \A g \in Handles \ {h} : ~Active(g)
         /\ \A g \in Handles : Recovering(g) => han[g].todo = <<>> /\ han[g].queue = {}
         /\ \A d, path : ~Held(d, path)
         /\ UnderWay(han[h]) /\ Covers(han[h])
<1>1. InJournal /\ OneAtATime /\ Mutation /\ Covered /\ TypeOK
  BY DEF Steady, Whole, Sane
<1>2. Active(h) /\ han[h].todo # <<>> /\ lock = h /\ lock # Nothing
  BY <1>1, StoreAssumption DEF Working, InJournal
<1>3. han[h].tx = Now /\ Pending(Now) /\ han[h].tx \in DOMAIN journal
  BY <1>1, <1>2 DEF OneAtATime, Placed, InJournal
<1>4. journal # <<>>
  BY <1>3
<1>5. \A g \in Handles \ {h} : ~Active(g)
  BY <1>1, <1>2 DEF InJournal
<1>6. \A g \in Handles : Recovering(g) => han[g].todo = <<>> /\ han[g].queue = {}
  BY <1>1, <1>2 DEF OneAtATime, Placed, Busy
<1>7. \A d, path : ~Held(d, path)
  <2>1. ToSet(<<>>) = {}
    BY DEF ToSet
  <2> QED BY <1>6, <2>1 DEF Held, Jobs
<1>8. UnderWay(han[h]) /\ Covers(han[h])
  BY <1>1 DEF Mutation, Covered, Settling
<1> QED BY <1>2, <1>3, <1>4, <1>5, <1>6, <1>7, <1>8

\* A handle that leaves.
LEMMA LeavingSane ==
  ASSUME Steady, NEW h \in Handles, Finish(h) \/ Die(h) \/ Opened(h) \/ Close(h), spoilt' = {}
  PROVE  Sane'
<1>0. Whole /\ InJournal /\ OneAtATime /\ TypeOK
  BY DEF Steady, Whole, Sane
<1>1. Idle
  BY <1>0, OtherWhole
<1>2. PICK m \in {Closed, [Closed EXCEPT !.pc = "open"]} : han' = [han EXCEPT ![h] = m]
  BY DEF Finish, Die, Opened, Close
<1>3. m \in Handle /\ m.pc \in {"closed", "open"}
  <2>1. /\ Closed.pc = "closed" /\ [Closed EXCEPT !.pc = "open"].pc = "open"
        /\ Closed \in Handle /\ [Closed EXCEPT !.pc = "open"] \in Handle
    BY <1>0, HandleFields DEF Closed
  <2> QED BY <2>1
<1>4. han'[h] = m /\ \A g \in Handles \ {h} : han'[g] = han[g]
  BY <1>0, <1>2, <1>3, HandleStep
<1>5. ~Active(h)' /\ ~Recovering(h)' /\ ~Working(h)' /\ ~Busy(h)' /\ ~Settling(h)' /\ Placed(h)'
  BY <1>3, <1>4 DEF Active, Recovering, Working, Busy, Settling, Placed
<1>6. lock' \in {lock, Nothing}
  BY DEF Finish, Die, Opened, Close
<1>7. ASSUME Latest.op \in Creates
      PROVE  /\ ~(Working(h) /\ han[h].pc = "revoking")
             /\ Recovering(h) => han[h].todo = <<>>
  <2>1. CASE Finish(h) \/ Opened(h) \/ Close(h)
    BY <2>1 DEF Finish, Opened, Close, Working, Recovering
  <2>2. CASE Die(h)
    <3>1. ~(/\ han[h].pc \in {"revoking", "recovering"} /\ han[h].todo # <<>>
            /\ journal[han[h].tx].op \in {"create", "adopt"})
      BY <2>2 DEF Die
    <3>2. ASSUME han[h].todo # <<>>, han[h].pc \in {"revoking", "recovering"}
          PROVE  han[h].tx = Now /\ han[h].tx \in DOMAIN journal
      BY <1>0, <3>2 DEF OneAtATime, Placed, InJournal, Active, Recovering, Busy
    <3>3. ASSUME han[h].todo # <<>>, han[h].pc \in {"revoking", "recovering"}
          PROVE  FALSE
      <4>1. journal # <<>>
        BY <3>2, <3>3
      <4> QED BY <1>0, <1>7, <3>1, <3>2, <3>3, <4>1, LatestFields DEF Creates
    <3> QED BY <3>3 DEF Working, Recovering
  <2> QED BY <2>1, <2>2
<1>8. Turns(h, m)
  BY <1>4, <1>5, <1>6, <1>7 DEF Turns
<1> QED BY <1>1, <1>8, IdleSane

\* A handle that comes, when no mutation is under way.
LEMMA OpenSane ==
  ASSUME Steady, NEW h \in Handles, Open(h), spoilt' = {}
  PROVE  Sane'
<1> DEFINE q == {i \in DOMAIN journal : Pending(i)}
           m == [Closed EXCEPT !.pc = "recovering", !.mem = index, !.queue = q]
<1>0. Whole /\ InJournal /\ OneAtATime /\ TypeOK /\ LastFits
  BY DEF Steady, Whole, Sane
<1>1. Idle /\ Whole'
  BY <1>0, OtherWhole
<1>2. /\ han[h].pc = "closed" /\ han' = [han EXCEPT ![h] = m] /\ lock' = lock
      /\ \A i \in DOMAIN journal : Pending(i) => ~Owned(i)
  BY DEF Open
<1> HIDE DEF q
<1>3. m.pc = "recovering" /\ m.mem = index /\ m.queue = q /\ m.todo = <<>>
  BY DEF Closed
<1> HIDE DEF m
<1>4. han'[h] = m /\ \A g \in Handles \ {h} : han'[g] = han[g]
  BY <1>0, <1>2 DEF TypeOK
<1>5. ~Active(h)' /\ Recovering(h)' /\ ~Working(h)' /\ ~Settling(h)' /\ ~Working(h) /\ ~Recovering(h)
  BY <1>2, <1>3, <1>4 DEF Active, Recovering, Working, Settling
<1>6. q \subseteq {Now} /\ Now' = Now
  BY <1>0, <1>1, IdleSame DEF q, OneAtATime
<1>7. ASSUME q # {} PROVE lock = Nothing /\ journal # <<>>
  <2>1. PICK i \in DOMAIN journal : Pending(i) /\ ~Owned(i) /\ i = Now
    BY <1>7, <1>2, <1>6 DEF q
  <2>2. ASSUME NEW g \in Handles, Active(g) PROVE FALSE
    BY <2>1, <2>2, <1>0 DEF Active, Owned, OneAtATime, Placed
  <2> QED BY <1>0, <2>1, <2>2 DEF TypeOK, InJournal
<1>8. Placed(h)'
  BY <1>2, <1>3, <1>4, <1>5, <1>6, <1>7 DEF Placed, Busy
<1>9. Recovers(m)
  <2>1. Alike(Latest, index, index)
    BY DEF Alike
  <2> QED BY <1>0, <1>3, <1>7, <2>1 DEF Recovers, LastFits
<1>10. Turns(h, m)
  BY <1>2, <1>4, <1>5, <1>8, <1>9 DEF Turns
<1> QED BY <1>1, <1>10, IdleSane

\* The kinds of jobs.
LEMMA JobKinds ==
  ASSUME NEW d \in Docs, NEW ents \in Entries
  PROVE  /\ Write(d, ents[d]).do = "write" /\ Write(d, ents[d]).d = d /\ Write(d, ents[d]).rec = ents[d]
         /\ Write(d, ents[d]).at = PathOf(ents[d])
         /\ RemoveFile(d, "live").do = "remove" /\ RemoveFile(d, "live").d = d /\ RemoveFile(d, "live").at = "live"
         /\ RemoveFile(d, "archived").do = "remove" /\ RemoveFile(d, "archived").d = d
         /\ RemoveFile(d, "archived").at = "archived"
         /\ Return(d).do = "return"
         /\ PersistIndex.do = "index" /\ RevertIndex.do = "revert"
         /\ Log("committed").do = "log" /\ Log("committed").st = "committed"
         /\ Log("aborted").do = "log" /\ Log("aborted").st = "aborted"
<1>1. ents[d] \in Record \union {Nothing} /\ "live" \in Paths /\ "archived" \in Paths
      /\ "committed" \in Status /\ "aborted" \in Status
  BY DEF Entries, Paths, Status
<1> QED BY <1>1, JobFields, EndJobs

\* What a rollback puts back, in entries it fits.
Restores(tx, m, old) ==
  /\ \A job \in Jobs(m) : /\ Agrees(tx, m, job) /\ job.do \notin {"index", "move"}
                          /\ job.do = "log" => job.st = "aborted"
  /\ \E job \in Jobs(m) : job.do = "revert"
  /\ tx.op \in {"create", "adopt", "update", "link"} =>
       \A d \in Touched(tx) : \E job \in Jobs(m) : Fixes(job, d, "live")
  /\ tx.op = "archive" => \A path \in Paths : \E job \in Jobs(m) : Fixes(job, tx.d, path)

\* A rollback's list settles all that its operation may have changed.
LEMMA Restoring ==
  ASSUME NEW tx, tx.d \in Docs, tx.to \in Docs, tx.mirrored \subseteq Docs, tx.op \in Ops, TxShape(tx),
         NEW n, NEW old \in Entries, Fits(n, tx, old),
         tx.op \in Creates => old[tx.d] = Nothing,
         tx.op = "archive" => IsLive(old, tx.d),
         NEW m, m.mem = old, m.before = old, Undone(tx, old, m.todo)
  PROVE  Restores(tx, m, old) /\ LogLast(m.todo)
<1> DEFINE done == {RevertIndex, Log("aborted")}
<1>1. ASSUME NEW job \in done
      PROVE  /\ Agrees(tx, m, job) /\ job.do \notin {"index", "move"}
             /\ job.do = "log" => job.st = "aborted"
  BY JobKinds DEF Agrees, FileJobs
<1>2. ASSUME NEW d \in Touched(tx), d \in Docs, old[d] # Nothing, NEW job, job.do = "write", job.d = d,
             job.rec = old[d], job.at = PathOf(old[d])
      PROVE  Agrees(tx, m, job)
  BY <1>2 DEF Agrees
<1>3. ASSUME NEW job \in Kept(old, tx.mirrored)
      PROVE  Agrees(tx, m, job) /\ job.do \notin {"index", "move", "log"}
  <2>1. PICK t \in tx.mirrored : /\ old[t] # Nothing /\ job.do = "write" /\ job.d = t
                                 /\ job.rec = old[t] /\ job.at = PathOf(old[t])
    BY KeptFields
  <2>2. t \in Touched(tx) /\ t \in Docs
    BY DEF Touched
  <2> QED BY <1>2, <2>1, <2>2
<1>4. ASSUME NEW t \in Docs, IsLive(old, t)
      PROVE  /\ Fixes(Write(t, old[t]), t, "live")
             /\ t \in Touched(tx) => Agrees(tx, m, Write(t, old[t]))
             /\ Write(t, old[t]).do \notin {"index", "move", "log"}
  <2>1. old[t] # Nothing /\ PathOf(old[t]) = "live"
    BY <1>4 DEF IsLive, PathOf
  <2> QED BY <1>2, <2>1, JobKinds DEF Fixes, FileJobs
<1>5. ASSUME NEW t \in tx.mirrored, IsLive(old, t)
      PROVE  Write(t, old[t]) \in Kept(old, tx.mirrored) /\ Fixes(Write(t, old[t]), t, "live")
  BY <1>4, <1>5 DEF Kept, IsLive
<1>6. /\ tx.d \in Touched(tx) /\ tx.to \in Touched(tx)
      /\ \A d \in Touched(tx) : d = tx.d \/ d = tx.to \/ d \in tx.mirrored
  BY DEF Touched
<1>7. RevertIndex \in done /\ RevertIndex.do = "revert"
  BY JobKinds
<1>8. CASE tx.op \in Creates
  <2>1. PICK back \in SUBSET {Return(tx.d)} :
          ListOf(m.todo, Kept(old, tx.mirrored) \union {RemoveFile(tx.d, "live")} \union back \union done)
    BY <1>8 DEF Undone
  <2>2. /\ Jobs(m) = Kept(old, tx.mirrored) \union {RemoveFile(tx.d, "live")} \union back \union done
        /\ LogLast(m.todo)
    BY <2>1 DEF ListOf, Jobs
  <2>3. /\ Agrees(tx, m, RemoveFile(tx.d, "live")) /\ RemoveFile(tx.d, "live").do \notin {"index", "move", "log"}
        /\ Fixes(RemoveFile(tx.d, "live"), tx.d, "live")
    BY <1>8, <1>6, JobKinds, FileFacts DEF Agrees, Fixes, FileJobs
  <2>4. \A job \in back : Agrees(tx, m, job) /\ job.do \notin {"index", "move", "log"}
    BY JobKinds DEF Agrees, FileJobs
  <2>5. \A t \in tx.mirrored : IsLive(old, t)
    BY <1>8 DEF Fits
  <2>6. tx.to = tx.d
    BY <1>8 DEF TxShape, Creates
  <2>7. \A job \in Jobs(m) : /\ Agrees(tx, m, job) /\ job.do \notin {"index", "move"}
                             /\ job.do = "log" => job.st = "aborted"
    BY <1>1, <1>3, <2>2, <2>3, <2>4
  <2>8. \A d \in Touched(tx) : \E job \in Jobs(m) : Fixes(job, d, "live")
    BY <1>5, <1>6, <2>2, <2>3, <2>5, <2>6
  <2> HIDE DEF done
  <2> QED BY <1>7, <1>8, <2>2, <2>7, <2>8 DEF Restores, Creates
<1>9. CASE tx.op = "update"
  <2>1. /\ Jobs(m) = {Write(tx.d, old[tx.d])} \union Kept(old, tx.mirrored) \union done
        /\ LogLast(m.todo)
    BY <1>9 DEF Undone, ListOf, Jobs
  <2>2. \A t \in Touched(tx) : IsLive(old, t)
    BY <1>9 DEF Fits
  <2>3. /\ Agrees(tx, m, Write(tx.d, old[tx.d])) /\ Write(tx.d, old[tx.d]).do \notin {"index", "move", "log"}
        /\ Fixes(Write(tx.d, old[tx.d]), tx.d, "live")
    BY <1>4, <1>6, <2>2
  <2>4. tx.to = tx.d
    BY <1>9 DEF TxShape
  <2>5. \A job \in Jobs(m) : /\ Agrees(tx, m, job) /\ job.do \notin {"index", "move"}
                             /\ job.do = "log" => job.st = "aborted"
    BY <1>1, <1>3, <2>1, <2>3
  <2>6. \A d \in Touched(tx) : \E job \in Jobs(m) : Fixes(job, d, "live")
    BY <1>5, <1>6, <2>1, <2>2, <2>3, <2>4
  <2> HIDE DEF done
  <2> QED BY <1>7, <1>9, <2>1, <2>5, <2>6 DEF Restores
<1>10. CASE tx.op = "link"
  <2>1. /\ Jobs(m) = {Write(tx.d, old[tx.d]), Write(tx.to, old[tx.to])} \union done
        /\ LogLast(m.todo)
    BY <1>10 DEF Undone, ListOf, Jobs
  <2>2. \A t \in Touched(tx) : IsLive(old, t)
    BY <1>10 DEF Fits
  <2>3. ASSUME NEW t \in {tx.d, tx.to}
        PROVE  /\ Agrees(tx, m, Write(t, old[t])) /\ Write(t, old[t]).do \notin {"index", "move", "log"}
               /\ Fixes(Write(t, old[t]), t, "live")
    BY <1>4, <1>6, <2>2
  <2>4. Touched(tx) \subseteq {tx.d, tx.to}
    BY <1>10 DEF TxShape, Touched
  <2>5. \A job \in Jobs(m) : /\ Agrees(tx, m, job) /\ job.do \notin {"index", "move"}
                             /\ job.do = "log" => job.st = "aborted"
    BY <1>1, <2>1, <2>3
  <2>6. \A d \in Touched(tx) : \E job \in Jobs(m) : Fixes(job, d, "live")
    BY <2>1, <2>3, <2>4
  <2> HIDE DEF done
  <2> QED BY <1>7, <1>10, <2>1, <2>5, <2>6 DEF Restores
<1>11. CASE tx.op = "archive"
  <2>1. /\ Jobs(m) = {RemoveFile(tx.d, "archived"), Write(tx.d, old[tx.d])} \union done
        /\ LogLast(m.todo)
    BY <1>11 DEF Undone, ListOf, Jobs
  <2>2. /\ Agrees(tx, m, Write(tx.d, old[tx.d])) /\ Write(tx.d, old[tx.d]).do \notin {"index", "move", "log"}
        /\ Fixes(Write(tx.d, old[tx.d]), tx.d, "live")
    BY <1>4, <1>6, <1>11
  <2>3. /\ Agrees(tx, m, RemoveFile(tx.d, "archived"))
        /\ RemoveFile(tx.d, "archived").do \notin {"index", "move", "log"}
        /\ Fixes(RemoveFile(tx.d, "archived"), tx.d, "archived")
    BY <1>11, <1>6, JobKinds, FileFacts DEF Agrees, Fixes, FileJobs
  <2>4. \A job \in Jobs(m) : /\ Agrees(tx, m, job) /\ job.do \notin {"index", "move"}
                             /\ job.do = "log" => job.st = "aborted"
    BY <1>1, <2>1, <2>2, <2>3
  <2>5. \A path \in Paths : \E job \in Jobs(m) : Fixes(job, tx.d, path)
    BY <2>1, <2>2, <2>3 DEF Paths
  <2> HIDE DEF done
  <2> QED BY <1>7, <1>11, <2>1, <2>4, <2>5 DEF Restores
<1> QED BY <1>8, <1>9, <1>10, <1>11 DEF Ops, Creates

\* Entries that fit have live documents where the transaction is about live ones.
LEMMA TouchedLive ==
  ASSUME NEW n, NEW tx, NEW ents \in Entries, Fits(n, tx, ents), TxShape(tx), tx.op \in Ops, tx.op # "archive",
         NEW d \in Touched(tx), d \in Docs, tx.op \in Creates /\ d = tx.d => ents[d] = Nothing \/ IsLive(ents, d)
  PROVE  FileOf(ents[d])["archived"] = Nothing
<1>1. ents[d] = Nothing \/ IsLive(ents, d)
  BY DEF Fits, TxShape, Ops, Creates, Touched
<1> QED BY <1>1, FileFacts

\* A write that fails: the rollback that is planned puts all right.
LEMMA FailingSane ==
  ASSUME Steady, NEW h \in Handles, WriteFails(h)
  PROVE  Sane'
<1> DEFINE old == han[h].before
           m == [han[h] EXCEPT !.pc = "revoking", !.mem = han[h].before, !.todo = Rollback(h)]
<1>0. Whole /\ TypeOK /\ LastFits /\ Recoverable /\ OneAtATime
  BY DEF Steady, Whole, Sane
<1>1. Idle
  BY <1>0, OtherWhole
<1>2. /\ Working(h) /\ han[h].pc = "mutating" /\ han' = [han EXCEPT ![h] = m] /\ lock' = lock
  BY DEF WriteFails, Working, Active
<1>3. /\ lock = h /\ Active(h) /\ han[h].tx = Now /\ Pending(Now) /\ journal # <<>>
      /\ \A g \in Handles \ {h} : ~Active(g)
      /\ \A d, path : ~Held(d, path)
      /\ UnderWay(han[h])
  BY <1>2, Alone
<1>4. /\ Now \in DOMAIN journal /\ Latest.op \in Ops /\ Latest.d \in Docs /\ Latest.to \in Docs
      /\ Latest.mirrored \subseteq Docs /\ Touched(Latest) \subseteq Docs
      /\ Latest.op = journal[Now].op /\ Latest.d = journal[Now].d /\ Latest.to = journal[Now].to
      /\ Latest.mirrored = journal[Now].mirrored
  BY <1>0, <1>3, LatestFields
<1>5. /\ Undone(journal[Now], old, Rollback(h))
      /\ Rollback(h) \in Seq(Job) /\ Rollback(h) # <<>>
  BY <1>0, <1>3, <1>4, RollbackList
<1>6. han[h] \in Handle /\ old \in Entries /\ index \in Entries /\ han[h].mem \in Entries
  BY <1>0, HandleFields
<1>7. /\ m.pc = "revoking" /\ m.mem = old /\ m.before = old /\ m.todo = Rollback(h) /\ m.tx = Now
      /\ m.queue = han[h].queue
  BY <1>3, <1>6 DEF Handle
<1>8. Undone(Latest, old, m.todo)
  BY <1>4, <1>5, <1>7 DEF Undone
<1>9. /\ Planned(Now, Latest, han[h]) /\ Fits(Now, Latest, old) /\ Fits(Now, Latest, han[h].mem)
      /\ Fits(Now, Latest, index) /\ TxShape(Latest)
      /\ index = old \/ index = han[h].mem
      /\ Latest.op \in Creates => WriteFirst(Latest, han[h])
      /\ Latest.op = "archive" => IsLive(old, Latest.d)
      /\ \A d \in Docs \ Touched(Latest) : index[d] = old[d]
  BY <1>0, <1>2, <1>3 DEF UnderWay, Planned, LastFits
<1> HIDE DEF m
<1>10. han'[h] = m /\ \A g \in Handles \ {h} : han'[g] = han[g]
  BY <1>0, <1>2 DEF TypeOK
<1>11. Latest.op \in Creates => old[Latest.d] = Nothing
  BY <1>9 DEF WriteFirst
<1> HIDE DEF old
<1>12. Restores(Latest, m, old) /\ LogLast(m.todo)
  BY <1>4, <1>6, <1>7, <1>8, <1>9, <1>11, Restoring
<1>13. UnderWay(m)
  <2>1. Listed(Latest, m)
    BY <1>12 DEF Listed, Restores
  <2>2. \A job \in Jobs(m) : job.do \notin {"index", "move"} /\ (job.do = "log" => job.st = "aborted")
    BY <1>12 DEF Restores
  <2>3. Alike(Latest, old, old) /\ Alike(Latest, index, old)
    BY <1>3 DEF Alike, UnderWay, old
  <2>4. Planned(Now, Latest, m)
    BY <2>1, <2>2, <2>3, <1>7, <1>9 DEF Planned
  <2> QED BY <2>3, <2>4, <1>7, <1>9 DEF UnderWay
<1>14. ASSUME NEW d \in Docs, NEW path \in Paths
       PROVE  \/ file[d][path] = FileOf(m.mem[d])[path]
              \/ \E job \in Jobs(m) : Fixes(job, d, path)
  <2>1. ~Undoing
    BY <1>2, <1>3 DEF Undoing, Working
  <2>2. Follows(d, path) \/ Coverable(d, path)
    BY <2>1, <1>0, <1>3 DEF Recoverable
  <2>3. CASE d \notin Touched(Latest)
    <3>1. Follows(d, path) /\ d # Latest.d
      BY <2>2, <2>3 DEF Coverable, Touched
    <3>2. Goal[d] = index[d]
      BY <3>1, <1>6 DEF Goal, Entries
    <3> QED BY <3>1, <3>2, <2>3, <1>7, <1>9 DEF Follows
  <2>4. CASE d \in Touched(Latest) /\ Latest.op = "archive"
    <3>1. d = Latest.d
      BY <2>4, <1>9 DEF TxShape, Touched
    <3> QED BY <3>1, <2>4, <1>12 DEF Restores
  <2>5. CASE d \in Touched(Latest) /\ Latest.op # "archive" /\ path = "live"
    BY <2>5, <1>4, <1>12 DEF Restores, Ops
  <2>6. CASE d \in Touched(Latest) /\ Latest.op # "archive" /\ path = "archived"
    <3>1. Follows(d, path) /\ Goal = index
      BY <2>2, <2>6 DEF Coverable, Goal
    <3>2. Latest.op \in Creates => IsLive(han[h].mem, Latest.d)
      BY <1>9 DEF WriteFirst
    <3>3. FileOf(index[d])["archived"] = Nothing
      BY <3>2, <2>6, <1>4, <1>6, <1>9, <1>11, TouchedLive
    <3>4. FileOf(old[d])["archived"] = Nothing
      BY <2>6, <1>4, <1>6, <1>9, <1>11, TouchedLive
    <3> QED BY <3>1, <3>3, <3>4, <2>6, <1>7 DEF Follows
  <2> QED BY <2>3, <2>4, <2>5, <2>6 DEF Paths
<1>15. Covers(m)
  <2>1. \E job \in Jobs(m) : job.do \in {"index", "revert"}
    BY <1>12 DEF Restores
  <2> QED BY <1>14, <2>1 DEF Covers
<1>16. ~Recovering(h)' /\ ~Recovering(h) /\ Active(h)'
  BY <1>2, <1>7, <1>10 DEF Recovering, Active
<1>17. Placed(h)'
  <2>1. Now' = Now /\ Pending(Now)'
    BY <1>1, <1>3, IdleSame DEF Idle, Pending
  <2> QED BY <1>5, <1>7, <1>10, <1>16, <2>1 DEF Placed, Busy
<1>18. Turns(h, m)
  BY <1>2, <1>10, <1>13, <1>15, <1>16, <1>17 DEF Turns
<1> QED BY <1>0, <1>1, <1>18, IdleSane

\* What a recovery finds: entries that fit, and every file settled, or somebody's, or
\* coverable.
Found(ents) ==
  /\ ents \in Entries /\ index \in Entries /\ journal # <<>>
  /\ Latest.op \in Ops /\ Latest.d \in Docs /\ Latest.to \in Docs /\ Latest.mirrored \subseteq Docs
  /\ TxShape(Latest) /\ Fits(Now, Latest, ents) /\ Fits(Now, Latest, index) /\ Alike(Latest, ents, index)
  /\ ents = index \/ Behind(ents)
  /\ Latest.op = "archive" => file[Latest.d].archived \in {Nothing, Retired(index[Latest.d])}
  /\ Recoverers
  /\ \A d \in Docs, path \in Paths : Follows(d, path) \/ Held(d, path) \/ Coverable(d, path)

\* What it makes of it.
Planning(m) ==
  /\ m.mem = Goal
  /\ \A job \in Jobs(m) :
       /\ Agrees(Latest, m, job) /\ job.do \notin {"revert", "move"}
       /\ job.do = "log" /\ job.st = "committed" => Achieved(Now, Latest, m.mem)
       /\ job.do \in {"write", "mirror"} /\ Latest.op \in Creates => job.d # Latest.d
  /\ LogLast(m.todo)
  /\ \A d \in Docs, path \in Paths :
       \/ Follows(d, path) \/ Held(d, path)
       \/ \E job \in Jobs(m) : Fixes(job, d, path)
  /\ index = m.mem \/ \E job \in Jobs(m) : job.do \in {"index", "revert"}

\* The ends of a list of jobs.
LEMMA EndingAgrees ==
  ASSUME NEW tx, NEW m, NEW log \in {Log("committed"), Log("aborted"), PersistIndex}
  PROVE  /\ Agrees(tx, m, log) /\ log.do \notin {"revert", "move", "write", "mirror"}
         /\ log = Log("aborted") => ~(log.do = "log" /\ log.st = "committed")
         /\ log = PersistIndex => log.do = "index"
BY EndJobs DEF Agrees, FileJobs, Status

\* A document's live entry, restored.
LEMMA RestoreLive ==
  ASSUME NEW ents \in Entries, NEW tx, NEW m, m.mem = ents, NEW t \in Docs, t \in Touched(tx), IsLive(ents, t)
  PROVE  /\ Restore(ents, t, "live") = Write(t, ents[t])
         /\ Agrees(tx, m, Write(t, ents[t])) /\ Fixes(Write(t, ents[t]), t, "live")
         /\ Write(t, ents[t]).do = "write" /\ Write(t, ents[t]).d = t
<1>1. ents[t] # Nothing /\ PathOf(ents[t]) = "live"
  BY DEF IsLive, PathOf
<1>2. Restore(ents, t, "live") = Write(t, ents[t])
  BY <1>1 DEF Restore
<1> QED BY <1>1, <1>2, JobKinds DEF Agrees, Fixes, FileJobs

\* The mirrored documents, restored.
LEMMA KeptLive ==
  ASSUME NEW ents \in Entries, NEW tx, NEW m, m.mem = ents, tx.mirrored \subseteq Docs, tx.d \notin tx.mirrored,
         \A t \in tx.mirrored : IsLive(ents, t)
  PROVE  /\ \A job \in Kept(ents, tx.mirrored) : Agrees(tx, m, job) /\ job.do = "write" /\ job.d # tx.d
         /\ \A t \in tx.mirrored : \E job \in Kept(ents, tx.mirrored) : Fixes(job, t, "live")
<1>1. ASSUME NEW t \in tx.mirrored
      PROVE  /\ ents[t] # Nothing /\ Agrees(tx, m, Write(t, ents[t])) /\ Fixes(Write(t, ents[t]), t, "live")
             /\ Write(t, ents[t]).do = "write" /\ Write(t, ents[t]).d = t
  <2>1. t \in Docs /\ t \in Touched(tx) /\ IsLive(ents, t)
    BY DEF Touched
  <2> QED BY <2>1, RestoreLive DEF IsLive
<1> QED BY <1>1 DEF Kept

\* The recovery of a create plans what puts all right.
LEMMA CreatePlanned ==
  ASSUME NEW ents, Found(ents), NEW m, Latest.op \in Creates, Recovered(ents, Latest, m.mem, m.todo)
  PROVE  Planning(m)
<1> DEFINE tx == Latest
           kept == Kept(ents, tx.mirrored)
           rl == RemoveFile(tx.d, "live")
           exists == file[tx.d].live # Nothing
<1>1. /\ ents = index /\ Goal = index /\ ents \in Entries /\ tx.d \in Docs /\ tx.mirrored \subseteq Docs
      /\ tx.d \notin tx.mirrored /\ tx.d \in Touched(tx)
      /\ \A t \in tx.mirrored : IsLive(ents, t)
      /\ IsLive(ents, tx.d) => ents[tx.d].by = Now
      /\ tx.op \in Ops /\ tx.op \notin {"update", "link", "archive"} /\ journal # <<>>
      /\ "live" \in Paths
  BY DEF Found, Behind, Goal, TxShape, Touched, Fits, Creates, Paths
<1>2. \A d \in Docs, path \in Paths : Follows(d, path) \/ Held(d, path) \/ Coverable(d, path)
  BY DEF Found
<1>3. ~(IsLive(ents, tx.d) /\ ~exists)
  <2> SUFFICES ASSUME IsLive(ents, tx.d), ~exists PROVE FALSE
    OBVIOUS
  <2>1. FileOf(ents[tx.d])["live"] = ents[tx.d] /\ ents[tx.d] # Nothing
    BY <1>1, FileFacts DEF IsLive
  <2>2. ~Follows(tx.d, "live")
    BY <1>1, <2>1 DEF Follows
  <2>3. ~Coverable(tx.d, "live")
    BY <1>1 DEF Coverable
  <2>4. PICK g \in Handles : Recovering(g) /\ \E job \in Jobs(han[g]) : Fixes(job, tx.d, "live")
    BY <1>1, <1>2, <2>2, <2>3 DEF Held
  <2>5. PICK job \in Jobs(han[g]) : Fixes(job, tx.d, "live")
    BY <2>4
  <2>6. han[g].todo # <<>>
    BY <2>5 DEF Jobs, ToSet
  <2>7. /\ han[g].mem = Goal /\ Agrees(tx, han[g], job)
        /\ job.do \in {"write", "mirror"} => job.d # tx.d
    BY <2>4, <2>5, <2>6 DEF Found, Recoverers, Recovers, Listed
  <2>8. job.do = "remove" /\ job.at = "live" /\ job.d = tx.d
    BY <2>5, <2>7 DEF Fixes, FileJobs
  <2> QED BY <1>1, <2>1, <2>7, <2>8 DEF Agrees
<1> HIDE DEF tx
<1>4. ASSUME m.mem = ents, NEW log \in {Log("committed"), Log("aborted")},
             NEW extra \in SUBSET {rl}, ListOf(m.todo, extra \union kept \union {log}),
             exists, extra = {rl} <=> ~IsLive(ents, tx.d), log = Log("committed") => IsLive(ents, tx.d)
      PROVE  Planning(m)
  <2>1. Jobs(m) = extra \union kept \union {log} /\ LogLast(m.todo)
    BY <1>4 DEF ListOf, Jobs
  <2>2. /\ Agrees(tx, m, log) /\ log.do \notin {"revert", "move", "write", "mirror"}
        /\ log.do = "log" /\ log.st = "committed" => Achieved(Now, tx, m.mem)
    BY <1>1, <1>4, EndingAgrees DEF Achieved, IsLive
  <2>3. ASSUME NEW job \in extra
        PROVE  /\ Agrees(tx, m, job) /\ Fixes(job, tx.d, "live")
               /\ job.do \notin {"revert", "move", "write", "mirror", "log"}
    BY <1>1, <1>4, JobKinds, FileFacts DEF Agrees, Fixes, FileJobs
  <2>4. /\ \A job \in kept : Agrees(tx, m, job) /\ job.do = "write" /\ job.d # tx.d
        /\ \A t \in tx.mirrored : \E job \in kept : Fixes(job, t, "live")
    BY <1>1, <1>4, KeptLive
  <2>5. ASSUME NEW d \in Docs, NEW path \in Paths
        PROVE  \/ Follows(d, path) \/ Held(d, path)
               \/ \E job \in Jobs(m) : Fixes(job, d, path)
    <3>1. CASE Coverable(d, path)
      <4>1. /\ path = "live" 
            /\ d \in tx.mirrored \/ (d = tx.d /\ ~IsLive(index, d))
        BY <3>1, <1>1 DEF Coverable, tx
      <4>2. d = tx.d /\ ~IsLive(index, d) => \E job \in extra : Fixes(job, d, path)
        BY <4>1, <1>1, <1>4, <2>3
      <4> QED BY <4>1, <4>2, <2>1, <2>4
    <3> QED BY <3>1, <1>2
  <2>6. \A job \in Jobs(m) :
       /\ Agrees(tx, m, job) /\ job.do \notin {"revert", "move"}
       /\ job.do = "log" /\ job.st = "committed" => Achieved(Now, tx, m.mem)
       /\ job.do \in {"write", "mirror"} /\ tx.op \in Creates => job.d # tx.d
    <3> HIDE DEF kept, rl
    <3> QED BY <2>1, <2>2, <2>3, <2>4
  <2> QED BY <2>1, <2>5, <2>6, <1>1, <1>4 DEF Planning, tx
<1>5. CASE IsLive(ents, tx.d) /\ exists
  <2>1. m.mem = ents /\ ListOf(m.todo, kept \union {Log("committed")})
    BY <1>5 DEF Recovered, tx
  <2>2. kept \union {Log("committed")} = {} \union kept \union {Log("committed")}
    OBVIOUS
  <2>3. {} \in SUBSET {rl} /\ {} # {rl}
    OBVIOUS
  <2> DEFINE none == {}
  <2>4. none \in SUBSET {rl} /\ none # {rl} /\ ListOf(m.todo, none \union kept \union {Log("committed")})
    BY <2>1, <2>2, <2>3
  <2> HIDE DEF kept, rl, exists, none
  <2> QED BY <1>4, <1>5, <2>1, <2>4
<1>6. CASE ~IsLive(ents, tx.d) /\ exists
  <2>1. m.mem = ents /\ ListOf(m.todo, {rl} \union kept \union {Log("aborted")})
    BY <1>6 DEF Recovered, tx
  <2>2. Log("aborted") # Log("committed")
    BY EndJobs DEF Status
  <2> HIDE DEF kept, rl, exists
  <2> QED BY <1>4, <1>6, <2>1, <2>2
<1>7. CASE ~IsLive(ents, tx.d) /\ ~exists
  <2>1. m.mem = ents /\ ListOf(m.todo, {Log("aborted")})
    BY <1>7 DEF Recovered, tx
  <2>2. Jobs(m) = {Log("aborted")} /\ LogLast(m.todo)
    BY <2>1 DEF ListOf, Jobs
  <2>3. \A d \in Docs, path \in Paths : ~Coverable(d, path)
    BY <1>1, <1>7 DEF Coverable, tx
  <2>4. Log("aborted") # Log("committed")
    BY EndJobs DEF Status
  <2>5. /\ Agrees(tx, m, Log("aborted")) /\ Log("aborted").do \notin {"revert", "move", "write", "mirror"}
        /\ ~(Log("aborted").do = "log" /\ Log("aborted").st = "committed")
    BY EndingAgrees
  <2> QED BY <2>1, <2>2, <2>3, <2>5, <1>1, <1>2 DEF Planning, tx
<1> QED BY <1>3, <1>5, <1>6, <1>7

\* The recovery of an update or a link plans what puts all right.
LEMMA UpdatePlanned ==
  ASSUME NEW ents, Found(ents), NEW m, Latest.op \in {"update", "link"}, Recovered(ents, Latest, m.mem, m.todo)
  PROVE  Planning(m)
<1> DEFINE tx == Latest
           kept == Kept(ents, tx.mirrored)
           wd == Write(tx.d, ents[tx.d])
           wt == Write(tx.to, ents[tx.to])
<1>1. /\ ents = index /\ Goal = index /\ ents \in Entries
      /\ tx.d \in Docs /\ tx.to \in Docs /\ tx.mirrored \subseteq Docs
      /\ tx.d \notin tx.mirrored /\ tx.d \in Touched(tx) /\ tx.to \in Touched(tx)
      /\ \A t \in Touched(tx) : IsLive(ents, t) /\ (t = tx.d \/ t = tx.to \/ t \in tx.mirrored)
      /\ \A t \in tx.mirrored : t \in Touched(tx)
      /\ tx.op \notin Creates /\ journal # <<>>
      /\ tx.op = "update" => tx.to = tx.d
  BY DEF Found, Behind, Goal, TxShape, Touched, Fits, Creates
<1>2. \A d \in Docs, path \in Paths : Follows(d, path) \/ Held(d, path) \/ Coverable(d, path)
  BY DEF Found
<1>3. PICK log \in {Log("committed"), Log("aborted")} :
        /\ m.mem = ents /\ ListOf(m.todo, {wd, wt} \union kept \union {log})
        /\ log = Log("committed") => Reached(ents, tx.d, tx.rev)
  <2>1. Restore(ents, tx.d, "live") = wd /\ Restore(ents, tx.to, "live") = wt
    BY <1>1 DEF Restore, IsLive
  <2>2. Log("aborted") # Log("committed")
    BY EndJobs DEF Status
  <2>3. CASE tx.op = "update"
    <3>1. m.mem = ents /\ ListOf(m.todo, {wd} \union kept \union
             {Log(IF Reached(ents, tx.d, tx.rev) THEN "committed" ELSE "aborted")})
      BY <2>1, <2>3 DEF Recovered
    <3>2. {wd, wt} = {wd}
      BY <1>1, <2>3
    <3> HIDE DEF kept, wd, wt
    <3> QED BY <2>2, <3>1, <3>2
  <2>4. CASE tx.op = "link"
    <3>1. m.mem = ents /\ ListOf(m.todo, {wd, wt} \union kept \union
             {Log(IF Reached(ents, tx.d, tx.rev) /\ Reached(ents, tx.to, tx.toRev) THEN "committed" ELSE "aborted")})
      BY <2>1, <2>4 DEF Recovered
    <3> HIDE DEF kept, wd, wt
    <3> QED BY <2>2, <3>1
  <2> QED BY <2>3, <2>4
<1>4. Jobs(m) = {wd, wt} \union kept \union {log} /\ LogLast(m.todo)
  BY <1>3 DEF ListOf, Jobs
<1>5. Reached(ents, tx.d, tx.rev) => Achieved(Now, tx, ents)
  BY <1>1 DEF Reached, Found, Fits, Achieved, Creates
<1> HIDE DEF tx
<1>6. /\ Agrees(tx, m, log) /\ log.do \notin {"revert", "move", "write", "mirror"}
      /\ log.do = "log" /\ log.st = "committed" => Achieved(Now, tx, m.mem)
  BY <1>3, <1>5, EndingAgrees
<1>7. /\ Agrees(tx, m, wd) /\ Fixes(wd, tx.d, "live") /\ wd.do = "write"
      /\ Agrees(tx, m, wt) /\ Fixes(wt, tx.to, "live") /\ wt.do = "write"
  BY <1>1, <1>3, RestoreLive
<1>8. /\ \A job \in kept : Agrees(tx, m, job) /\ job.do = "write" /\ job.d # tx.d
      /\ \A t \in tx.mirrored : \E job \in kept : Fixes(job, t, "live")
  BY <1>1, <1>3, KeptLive
<1> HIDE DEF kept, wd, wt
<1>9. \A job \in Jobs(m) :
       /\ Agrees(tx, m, job) /\ job.do \notin {"revert", "move"}
       /\ job.do = "log" /\ job.st = "committed" => Achieved(Now, tx, m.mem)
  BY <1>4, <1>6, <1>7, <1>8
<1>10. ASSUME NEW d \in Docs, NEW path \in Paths
       PROVE  \/ Follows(d, path) \/ Held(d, path)
              \/ \E job \in Jobs(m) : Fixes(job, d, path)
  <2>1. CASE Coverable(d, path)
    <3>1. d \in Touched(tx) /\ path = "live"
      BY <2>1 DEF Coverable, tx, Creates
    <3> QED BY <3>1, <1>1, <1>4, <1>7, <1>8
  <2> QED BY <2>1, <1>2
<1> QED BY <1>1, <1>3, <1>4, <1>9, <1>10 DEF Planning, tx

\* A document is archived once.
LEMMA RetiredOnce ==
  ASSUME NEW rec \in Record
  PROVE  /\ Retired(rec) \in Record /\ Retired(rec).arch
         /\ Retired(Retired(rec)) = Retired(rec)
         /\ rec.arch => Retired(rec) = rec
<1> DEFINE r == rec.rev + 1
<1>1. r \in Nat \ {0}
  BY DEF Record
<1> HIDE DEF r
<1>2. Retired(rec) = IF rec.arch THEN rec ELSE [rec EXCEPT !.arch = TRUE, !.rev = r]
  BY DEF Retired, r
<1>3. Retired(rec) \in Record /\ Retired(rec).arch
  BY <1>1, <1>2 DEF Record
<1>4. \A x : x.arch => Retired(x) = x
  BY DEF Retired
<1> QED BY <1>3, <1>4

\* The recovery of an archiving plans what puts all right, forward or back.
LEMMA ArchivePlanned ==
  ASSUME NEW ents, Found(ents), NEW m, Latest.op = "archive", Recovered(ents, Latest, m.mem, m.todo)
  PROVE  Planning(m)
<1> DEFINE tx == Latest
           d == tx.d
           copy == file[tx.d].archived
           archived  == Reached(ents, tx.d, tx.rev) /\ ents[tx.d].arch
           forwarded == ~archived /\ copy # Nothing /\ copy.rev >= tx.rev
           wd == Write(d, ents[d])
           rl == RemoveFile(d, "live")
           ra == RemoveFile(d, "archived")
<1>1. /\ ents \in Entries /\ index \in Entries /\ d \in Docs /\ Touched(tx) = {d} /\ tx.op \notin Creates
      /\ ents[d] # Nothing /\ index[d] # Nothing /\ ents[d] \in Record /\ index[d] \in Record
      /\ Retired(ents[d]) = Retired(index[d]) /\ Retired(index[d]).rev = tx.rev
      /\ copy \in {Nothing, Retired(index[d])}
      /\ ents = index \/ Behind(ents)
      /\ journal # <<>>
  <2>1. Touched(tx) = {d}
    BY DEF Found, TxShape, Touched
  <2> QED BY <2>1 DEF Found, Fits, Alike, Creates, Entries
<1>2. \A x \in Docs, path \in Paths : Follows(x, path) \/ x = d
  BY DEF Found, Held, Coverable, Creates
<1>3. Behind(ents) => /\ index[d].arch /\ copy = index[d]
                      /\ ents = [index EXCEPT ![d] = ents[d]]
  BY DEF Behind
<1>4. ASSUME NEW rec \in Record
      PROVE  /\ Retired(rec) \in Record /\ Retired(rec).arch
             /\ rec.arch => Retired(rec) = rec
  BY <1>4, RetiredOnce
<1>5. Goal = IF copy # Nothing THEN [index EXCEPT ![d] = Retired(index[d])] ELSE index
  BY <1>1 DEF Goal
<1>6. /\ Log("committed").do = "log" /\ Log("committed").st = "committed" 
      /\ Log("aborted").do = "log" /\ Log("aborted").st = "aborted" /\ PersistIndex.do = "index"
      /\ wd.do = "write" /\ wd.d = d /\ wd.rec = ents[d] /\ wd.at = PathOf(ents[d])
      /\ rl.do = "remove" /\ rl.d = d /\ rl.at = "live"
      /\ ra.do = "remove" /\ ra.d = d /\ ra.at = "archived"
  BY <1>1, JobKinds
<1> HIDE DEF tx, wd, rl, ra
<1>7. ASSUME Jobs(m) \subseteq {wd, rl, ra, PersistIndex, Log("committed"), Log("aborted")},
             wd \in Jobs(m) => m.mem = ents,
             rl \in Jobs(m) => m.mem[d] # Nothing /\ m.mem[d].arch,
             ra \in Jobs(m) => IsLive(m.mem, d),
             Log("committed") \in Jobs(m) => m.mem[d] # Nothing /\ m.mem[d].arch,
             m.mem \in Entries,
             NEW job \in Jobs(m)
      PROVE  /\ Agrees(tx, m, job) /\ job.do \notin {"revert", "move"}
             /\ job.do = "log" /\ job.st = "committed" => Achieved(Now, tx, m.mem)
  <2>1. Achieved(Now, tx, m.mem) <=> m.mem[d] # Nothing /\ m.mem[d].arch
    BY DEF Achieved, tx
  <2>2. CASE job = wd
    BY <2>2, <1>1, <1>6, <1>7 DEF Agrees, FileJobs
  <2>3. CASE job = rl
    BY <2>3, <1>1, <1>6, <1>7, FileFacts DEF Agrees, FileJobs
  <2>4. CASE job = ra
    BY <2>4, <1>1, <1>6, <1>7, FileFacts DEF Agrees, FileJobs
  <2>5. CASE job = PersistIndex \/ job = Log("committed") \/ job = Log("aborted")
    BY <2>1, <2>5, <1>6, <1>7, EndingAgrees
  <2> QED BY <2>2, <2>3, <2>4, <2>5, <1>7
<1>8. ASSUME m.mem = Goal, LogLast(m.todo), 
             \A job \in Jobs(m) : /\ Agrees(tx, m, job) /\ job.do \notin {"revert", "move"}
                                  /\ job.do = "log" /\ job.st = "committed" => Achieved(Now, tx, m.mem),
             \A path \in Paths : Follows(d, path) \/ \E job \in Jobs(m) : Fixes(job, d, path),
             index = m.mem \/ PersistIndex \in Jobs(m)
      PROVE  Planning(m)
  BY <1>1, <1>2, <1>6, <1>8 DEF Planning, tx
<1>9. /\ Fixes(rl, d, "live") /\ Fixes(ra, d, "archived") /\ Fixes(wd, d, PathOf(ents[d]))
  BY <1>6 DEF Fixes, FileJobs
<1>10. CASE archived
  <2>1. ents[d].arch = TRUE /\ m.mem = ents /\ ListOf(m.todo, {wd, rl, Log("committed")})
    BY <1>10, <1>1 DEF Recovered, Record, tx, wd, rl
  <2>2. Jobs(m) = {wd, rl, Log("committed")} /\ LogLast(m.todo)
    BY <2>1 DEF ListOf, Jobs
  <2>3. ents[d] = Retired(index[d])
    BY <2>1, <1>1, <1>4
  <2>4. ents = index
    <3>1. CASE Behind(ents)
      <4>1. index[d].arch
        BY <3>1, <1>3
      <4>2. ents[d] = index[d]
        BY <1>1, <1>4, <2>3, <4>1
      <4>3. [index EXCEPT ![d] = index[d]] = index
        BY <1>1 DEF Entries
      <4> QED BY <1>3, <3>1, <4>2, <4>3
    <3> QED BY <3>1, <1>1
  <2>5. Goal = index
    <3>1. [index EXCEPT ![d] = index[d]] = index
      BY <1>1 DEF Entries
    <3> HIDE DEF copy, d
    <3> QED BY <1>5, <2>3, <2>4, <3>1
  <2>6. PathOf(ents[d]) = "archived"
    BY <2>1 DEF PathOf
  <2>7. wd # ra /\ wd # PersistIndex /\ wd # Log("aborted") /\ rl # ra /\ rl # PersistIndex
        /\ rl # Log("aborted") /\ Log("committed") # ra /\ Log("committed") # Log("aborted")
        /\ Log("committed") # PersistIndex
    BY <1>6
  <2> HIDE DEF archived, forwarded, d
  <2>8. \A job \in Jobs(m) : /\ Agrees(tx, m, job) /\ job.do \notin {"revert", "move"}
                             /\ job.do = "log" /\ job.st = "committed" => Achieved(Now, tx, m.mem)
    <3>1. ra \notin Jobs(m)
      BY <2>2, <2>7
    <3> QED BY <1>1, <1>7, <2>1, <2>2, <3>1
  <2>9. \A path \in Paths : \E job \in Jobs(m) : Fixes(job, d, path)
    BY <1>9, <2>2, <2>6 DEF Paths
  <2> QED BY <1>8, <2>1, <2>2, <2>4, <2>5, <2>8, <2>9
<1>11. CASE ~archived /\ copy # Nothing
  <2>1. copy = Retired(index[d])
    BY <1>1, <1>11
  <2>2. copy.rev = tx.rev /\ tx.rev >= tx.rev
    <3>1. Retired(index[d]).rev \in Nat
      BY <1>1, <1>4 DEF Record
    <3> QED BY <2>1, <3>1, <1>1
  <2>3. forwarded
    BY <1>11, <2>2
  <2>4. m.mem = [ents EXCEPT ![d] = copy] /\ ListOf(m.todo, {PersistIndex, rl, Log("committed")})
    BY <2>3 DEF Recovered, tx, rl
  <2>5. Jobs(m) = {PersistIndex, rl, Log("committed")} /\ LogLast(m.todo)
    BY <2>4 DEF ListOf, Jobs
  <2> HIDE DEF archived, forwarded, d, copy
  <2>6. m.mem = Goal
    <3>1. [ents EXCEPT ![d] = copy] = [index EXCEPT ![d] = copy]
      BY <1>1, <1>3 DEF Entries
    <3> QED BY <3>1, <2>1, <2>4, <1>5, <1>11
  <2>7. m.mem[d] = copy /\ copy # Nothing /\ copy.arch /\ m.mem \in Entries
    BY <1>1, <1>4, <1>11, <2>1, <2>4 DEF Entries
  <2>8. rl # ra /\ rl # wd /\ PersistIndex # ra /\ PersistIndex # wd /\ Log("committed") # ra /\ Log("committed") # wd
    BY <1>6
  <2>9. \A job \in Jobs(m) : /\ Agrees(tx, m, job) /\ job.do \notin {"revert", "move"}
                             /\ job.do = "log" /\ job.st = "committed" => Achieved(Now, tx, m.mem)
    <3>1. ra \notin Jobs(m) /\ wd \notin Jobs(m)
      BY <2>5, <2>8
    <3> QED BY <1>7, <2>5, <2>7, <3>1
  <2>10. Follows(d, "archived")
    <3>1. FileOf(m.mem[d])["archived"] = m.mem[d]
      BY <1>1, <2>7, FileFacts
    <3>2. file[d]["archived"] = copy
      BY DEF copy, d
    <3> QED BY <3>1, <3>2, <2>6, <2>7 DEF Follows
  <2>11. \A path \in Paths : Follows(d, path) \/ \E job \in Jobs(m) : Fixes(job, d, path)
    BY <1>9, <2>5, <2>10 DEF Paths
  <2> QED BY <1>8, <2>5, <2>6, <2>9, <2>11
<1>12. CASE ~archived /\ copy = Nothing
  <2>1. ~forwarded
    BY <1>12
  <2>2. ents = index /\ Goal = index
    BY <1>1, <1>3, <1>5, <1>12
  <2>3. m.mem = ents /\ ListOf(m.todo, {Restore(ents, d, "live"), ra, Log("aborted")})
    BY <1>12, <2>1 DEF Recovered, tx, ra
  <2>4. IsLive(ents, d)
    <3>1. ASSUME ents[d].arch PROVE FALSE
      <4>1. ents[d].rev = tx.rev /\ ents[d].rev \in Nat
        BY <1>1, <1>4, <3>1 DEF Record
      <4>2. ents[d].rev >= tx.rev
        BY <4>1
      <4> QED BY <4>2, <1>1, <1>12, <3>1 DEF Reached
    <3> QED BY <3>1, <1>1 DEF IsLive
  <2>5. Restore(ents, d, "live") = wd
    BY <1>1 DEF Restore, wd
  <2>6. Jobs(m) = {wd, ra, Log("aborted")} /\ LogLast(m.todo)
    BY <2>3, <2>5 DEF ListOf, Jobs
  <2> HIDE DEF archived, forwarded, d, copy
  <2>7. wd # rl /\ ra # rl /\ Log("aborted") # rl /\ wd # Log("committed") /\ ra # Log("committed")
        /\ Log("aborted") # Log("committed")
    BY <1>6
  <2>8. \A job \in Jobs(m) : /\ Agrees(tx, m, job) /\ job.do \notin {"revert", "move"}
                             /\ job.do = "log" /\ job.st = "committed" => Achieved(Now, tx, m.mem)
    <3>1. rl \notin Jobs(m) /\ Log("committed") \notin Jobs(m)
      BY <2>6, <2>7
    <3> QED BY <1>1, <1>7, <2>3, <2>4, <2>6, <3>1
  <2>9. PathOf(ents[d]) = "live"
    BY <2>4 DEF PathOf, IsLive
  <2>10. \A path \in Paths : \E job \in Jobs(m) : Fixes(job, d, path)
    BY <1>9, <2>6, <2>9 DEF Paths
  <2> QED BY <1>8, <2>2, <2>3, <2>6, <2>8, <2>10
<1> QED BY <1>10, <1>11, <1>12

\* A recovery that takes up the pending transaction.
LEMMA RecoverNextSane ==
  ASSUME Steady, NEW h \in Handles, RecoverNext(h)
  PROVE  Sane'
<1>0. /\ Whole /\ TypeOK /\ InJournal /\ LastFits /\ Recoverable /\ OneAtATime /\ Recoverers
      /\ index \in Entries /\ han[h] \in Handle /\ han[h].mem \in Entries
  BY HandleFields DEF Steady, Whole, Sane
<1>1. Idle
  BY <1>0, OtherWhole
<1>2. PICK i \in han[h].queue :
        LET rec == Recovery(han[h].mem, journal[i])
        IN han' = [han EXCEPT ![h].queue = @ \ {i}, ![h].tx = i, ![h].mem = rec.mem, ![h].todo = rec.todo]
  BY DEF RecoverNext
<1> DEFINE ents == han[h].mem
           rec == Recovery(ents, journal[i])
           m == [han[h] EXCEPT !.queue = han[h].queue \ {i}, !.tx = i, !.mem = rec.mem, !.todo = rec.todo]
<1>3. /\ Recovering(h) /\ han[h].todo = <<>> /\ han[h].queue # {} /\ Busy(h) /\ lock' = lock
  BY DEF RecoverNext, Busy
<1>4. lock = Nothing /\ i = Now /\ Now \in DOMAIN journal /\ han[h].queue \ {i} = {}
  BY <1>0, <1>3 DEF OneAtATime, Placed, InJournal
<1>5. han' = [han EXCEPT ![h] = m]
  BY <1>2, Zenon
<1>6. \A g \in Handles : ~Active(g)
  BY <1>0, <1>4, StoreAssumption DEF InJournal
<1>7. journal # <<>>
  BY <1>4
<1>8. /\ journal[Now] \in Tx
      /\ Latest.op = journal[Now].op /\ Latest.d = journal[Now].d /\ Latest.to = journal[Now].to
      /\ Latest.rev = journal[Now].rev /\ Latest.toRev = journal[Now].toRev
      /\ Latest.mirrored = journal[Now].mirrored
      /\ Latest.op \in Ops /\ Latest.d \in Docs /\ Latest.to \in Docs /\ Latest.mirrored \subseteq Docs
  BY <1>0, <1>4, <1>7, LatestFields, HandleFields
<1>9. /\ Recovered(ents, journal[Now], rec.mem, rec.todo)
      /\ rec.mem \in Entries /\ rec.todo \in Seq(Job) /\ rec.todo # <<>>
  BY <1>0, <1>4, <1>8, RecoveryList
<1> HIDE DEF rec
<1>10. m.pc = "recovering" /\ m.queue = {} /\ m.tx = Now /\ m.mem = rec.mem /\ m.todo = rec.todo
  BY <1>0, <1>3, <1>4 DEF Handle, Recovering
<1> HIDE DEF m
<1>11. Recovered(ents, Latest, m.mem, m.todo)
  BY <1>8, <1>9, <1>10, ZenonT(60) DEF Recovered
<1>12. Found(ents)
  <2>1. ~Undoing
    BY <1>6 DEF Undoing, Working
  <2>2. \A d \in Docs, path \in Paths : Follows(d, path) \/ Held(d, path) \/ Coverable(d, path)
    BY <1>0, <2>1 DEF Recoverable
  <2>3. Recovers(han[h])
    BY <1>0, <1>3 DEF Recoverers
  <2>4. /\ ents = index \/ Behind(ents)
        /\ Fits(Now, Latest, ents) /\ Alike(Latest, ents, index)
    BY <1>3, <2>3 DEF Recovers
  <2> QED BY <1>0, <1>7, <1>8, <2>2, <2>4 DEF Found, LastFits
<1>13. Planning(m)
  BY <1>8, <1>11, <1>12, CreatePlanned, UpdatePlanned, ArchivePlanned DEF Ops, Creates
<1>14. han'[h] = m /\ \A g \in Handles \ {h} : han'[g] = han[g]
  BY <1>0, <1>5 DEF TypeOK
<1>15. ~Working(h) /\ ~Active(h)' /\ Recovering(h)'
  BY <1>6, <1>10, <1>14 DEF Active, Working, Recovering
<1>16. Placed(h)'
  <2>1. Now' = Now
    BY <1>1, IdleSame
  <2> QED BY <1>3, <1>4, <1>10, <1>14, <1>15, <2>1 DEF Placed
<1>17. Recovers(m)
  BY <1>10, <1>13 DEF Recovers, Planning, Listed
<1>18. Covers(m)
  BY <1>13 DEF Covers, Planning, Follows
<1>19. Turns(h, m)
  BY <1>3, <1>14, <1>15, <1>16, <1>17, <1>18 DEF Turns, Working
<1> QED BY <1>0, <1>1, <1>19, IdleSane

\* A new transaction, when all is settled.
LEMMA BeginSane ==
  ASSUME Steady, NEW h \in Handles, NEW tx, NEW after, NEW jobs, NEW pc \in {"mutating", "revoking"}, NEW w,
         Begin(h, tx, after, jobs, pc, w), Typed(tx, after, jobs), w \subseteq {"refused"},
         "refused" \notin w => Ready(tx, Opening(after, jobs, pc)), spoilt' = {}
  PROVE  Sane'
<1> DEFINE m == Opening(after, jobs, pc)
<1>0. /\ Whole /\ TypeOK /\ InJournal /\ LastFits /\ Recoverable /\ OneAtATime /\ Settled
      /\ index \in Entries /\ journal \in Seq(Tx)
  BY HandleFields DEF Steady, Whole, Sane
<1>1. /\ lock = Nothing /\ lock' = h /\ journal' = Append(journal, tx) /\ han' = [han EXCEPT ![h] = m]
      /\ spoilt' = spoilt \union StartWeakness \union w
      /\ index' = index /\ file' = file
  BY DEF Begin, Opening, Now
<1>2. /\ \A g \in Handles : ~Recovering(g)
      /\ \A i \in DOMAIN journal : ~Pending(i)
      /\ "refused" \notin w
  BY <1>1 DEF StartWeakness
<1>3. Ready(tx, m)
  BY <1>2
<1>4. m.pc = pc /\ m.mem = after /\ m.before = index /\ m.tx = Now + 1 /\ m.queue = {} /\ m.todo = jobs
  BY DEF Opening
<1> HIDE DEF m
<1>5. \A g \in Handles : ~Active(g) /\ ~Recovering(g)
  BY <1>0, <1>1, <1>2, StoreAssumption DEF InJournal
<1>6. han'[h] = m /\ \A g \in Handles \ {h} : han'[g] = han[g]
  BY <1>0, <1>1 DEF TypeOK
<1>7. /\ tx \in Tx /\ tx.status = "pending" /\ jobs \in Seq(Job) /\ jobs # <<>> /\ after \in Entries
      /\ tx.d \in Docs
  BY DEF Typed, Tx
<1>8. /\ Now \in Nat /\ Now' = Now + 1 /\ journal'[Now'] = tx /\ DOMAIN journal = 1..Now /\ DOMAIN journal' = 1..Now'
      /\ \A i \in 1..Now : journal'[i] = journal[i]
      /\ journal' # <<>>
  BY <1>0, <1>1, <1>7 DEF Now
<1>9. Latest' = tx
  <2>1. Latest' = [journal'[Now'] EXCEPT !.status = "pending"]
    BY DEF Latest
  <2>2. [tx EXCEPT !.status = "pending"] = tx
    BY <1>7 DEF Tx
  <2> QED BY <2>1, <2>2, <1>8
<1>10. \A i \in DOMAIN journal' : Pending(i)' <=> i = Now'
  <2>1. \A i \in 1..Now : ~Pending(i)'
    BY <1>2, <1>8 DEF Pending
  <2>2. ASSUME NEW i, i = Now' PROVE Pending(i)'
    BY <1>7, <1>8, <2>2 DEF Pending
  <2> QED BY <1>8, <2>1, <2>2
<1>11. \A g \in Handles \ {h} : ~Active(g)' /\ ~Recovering(g)'
  BY <1>5, <1>6 DEF Active, Recovering
<1>12. Active(h)' /\ ~Recovering(h)' /\ Working(h)'
  BY <1>4, <1>6, <1>7 DEF Active, Recovering, Working
<1>13. Goal = index /\ \A d \in Docs, path \in Paths : file[d][path] = FileOf(index[d])[path]
  <2>1. ~Undoing /\ \A d, path : ~Held(d, path)
    BY <1>5 DEF Undoing, Working, Held
  <2>2. journal # <<>> => Now \in DOMAIN journal
    BY <1>8, <1>0
  <2>3. Goal = index
    BY <1>0, <1>2, <2>2 DEF Settled, Goal
  <2>4. \A d \in Docs, path \in Paths : Follows(d, path)
    BY <1>0, <1>2, <2>1, <2>2 DEF Recoverable
  <2> QED BY <2>3, <2>4 DEF Follows
<1>14. tx.op = "archive" => IsLive(index, tx.d) /\ file[tx.d].archived = Nothing
  <2>1. tx.op = "archive" => IsLive(index, tx.d)
    BY <1>3 DEF Ready
  <2>2. IsLive(index, tx.d) => FileOf(index[tx.d])["archived"] = Nothing
    BY <1>0, <1>7, FileFacts
  <2> QED BY <2>1, <2>2, <1>7, <1>13 DEF Paths
<1>15. Goal' = index'
  BY <1>1, <1>9, <1>14 DEF Goal
<1>16. OneAtATime'
  <2>1. Placed(h)'
    BY <1>4, <1>6, <1>7, <1>8, <1>10, <1>12 DEF Placed, Busy
  <2>2. \A g \in Handles \ {h} : Placed(g)'
    BY <1>11 DEF Placed, Busy
  <2> QED BY <2>1, <2>2, <1>10 DEF OneAtATime
<1>17. LastFits'
  BY <1>1, <1>3, <1>8, <1>9, <1>14 DEF LastFits, Ready
<1>18. Mutation'
  <2>1. UnderWay(han[h])'
    <3>1. Alike(tx, index, index)
      BY DEF Alike
    <3>2. Planned(Now + 1, tx, m)
      BY <1>3 DEF Ready
    <3>3. tx.op \in Creates /\ m.pc = "mutating" => Writes(m) # {}
      BY <1>3 DEF Ready
    <3> QED BY <3>1, <3>2, <3>3, <1>1, <1>4, <1>6, <1>8, <1>9, <1>13, <1>14 DEF UnderWay
  <2> QED BY <2>1, <1>11 DEF Mutation, Working
<1>19. Covered'
  <2>1. \A d \in Docs, path \in Paths :
          \/ file[d][path] = FileOf(m.mem[d])[path]
          \/ \E job \in Jobs(m) : Fixes(job, d, path)
    BY <1>3, <1>13 DEF Ready
  <2>2. index = m.mem \/ \E job \in Jobs(m) : job.do \in {"index", "revert"}
    BY <1>3 DEF Ready
  <2>3. Covers(han[h])'
    BY <2>1, <2>2, <1>1, <1>6 DEF Covers, Jobs, Fixes
  <2> QED BY <2>3, <1>11 DEF Covered, Settling, Working
<1>20. Recoverers'
  BY <1>11, <1>12 DEF Recoverers
<1>21. Recoverable'
  BY <1>1, <1>13, <1>15 DEF Recoverable, Follows
<1>22. Settled'
  BY <1>8, <1>10 DEF Settled
<1> QED BY <1>16, <1>17, <1>18, <1>19, <1>20, <1>21, <1>22 DEF Sane

-----------------------------------------------------------------------------
(* The steps that do a job. *)

\* One file changes.

-----------------------------------------------------------------------------
(* What a job does to the files, the journal and the plan. *)

Put(d, path, value) == file' = [file EXCEPT ![d][path] = value]

\* One file is written, the others stay.
LEMMA FilePut ==
  ASSUME TypeOK, NEW d \in Docs, NEW path \in Paths, NEW value, Put(d, path, value)
  PROVE  /\ file'[d][path] = value
         /\ \A x \in Docs, p \in Paths : x # d \/ p # path => file'[x][p] = file[x][p]
<1>1. file \in [Docs -> [Paths -> Content]]
  BY DEF TypeOK
<1> QED BY <1>1 DEF Put

\* A job that agrees settles what it fixes; but for the move of an adopted file,
\* nothing else changes.
LEMMA JobEffect ==
  ASSUME TypeOK, NEW h \in Handles, NEW job \in Job, DoJob(h, job), NEW tx, Agrees(tx, han[h], job)
  PROVE  /\ \A d \in Docs, path \in Paths :
              Fixes(job, d, path) => file'[d][path] = FileOf(han[h].mem[d])[path]
         /\ \A d \in Docs, path \in Paths :
              ~Fixes(job, d, path) /\ ~(job.do = "move" /\ job.d = d /\ path = "live")
                => file'[d][path] = file[d][path]
         /\ job.do = "move" => job.d \in Docs /\ file'[job.d]["live"] = RawText
<1> DEFINE mem == han[h].mem
<1>1. /\ job.at \in Paths /\ "live" \in Paths
      /\ job.do \in {"write", "mirror", "remove", "move", "return"} => job.d \in Docs
  BY DEF Job, Paths
<1>2. mem \in Entries
  BY HandleFields
<1>3. CASE job.do = "write"
  <2>0. Put(job.d, job.at, job.rec)
    BY <1>3, JobCases DEF Put
  <2>1. /\ job.d \in Docs
        /\ job.rec # Nothing /\ job.rec = mem[job.d] /\ job.at = PathOf(job.rec)
    BY <1>1, <1>3 DEF Agrees
  <2>2. FileOf(mem[job.d])[job.at] = job.rec
    <3> HIDE DEF mem
    <3> QED BY <2>1, <1>2, FileFacts
  <2>3. /\ file'[job.d][job.at] = job.rec
        /\ \A x \in Docs, p \in Paths : x # job.d \/ p # job.at => file'[x][p] = file[x][p]
    BY <2>0, <2>1, <1>1, FilePut
  <2> HIDE DEF mem
  <2> QED BY <2>1, <2>2, <2>3, <1>3 DEF Fixes, FileJobs, mem
<1>4. CASE job.do = "mirror"
  <2>1. IsLive(mem, job.d) /\ job.at = "live" /\ job.d \in Docs
    BY <1>1, <1>4 DEF Agrees
  <2>2. mem[job.d] # Nothing /\ PathOf(mem[job.d]) = "live" /\ FileOf(mem[job.d])["live"] = mem[job.d]
    <3> HIDE DEF mem
    <3> QED BY <1>2, <2>1, FileFacts DEF IsLive
  <2>3. Put(job.d, PathOf(han[h].mem[job.d]), han[h].mem[job.d])
    <3>1. job.do = "mirror" /\ han[h].mem[job.d] # Nothing
      BY <1>4, <2>2
    <3> QED BY <3>1, JobCases DEF Put
  <2>4. Put(job.d, "live", mem[job.d])
    BY <2>2, <2>3
  <2> HIDE DEF mem
  <2>5. /\ file'[job.d]["live"] = mem[job.d]
        /\ \A x \in Docs, p \in Paths : x # job.d \/ p # "live" => file'[x][p] = file[x][p]
    BY <2>1, <2>4, <1>1, FilePut
  <2> QED BY <2>1, <2>2, <2>5, <1>4 DEF Fixes, FileJobs, mem
<1>5. CASE job.do = "remove"
  <2>0. Put(job.d, job.at, Nothing)
    BY <1>5, JobCases DEF Put
  <2>1. job.d \in Docs
    BY <1>1, <1>5
  <2>2. FileOf(mem[job.d])[job.at] = Nothing
    BY <1>5 DEF Agrees
  <2>3. /\ file'[job.d][job.at] = Nothing
        /\ \A x \in Docs, p \in Paths : x # job.d \/ p # job.at => file'[x][p] = file[x][p]
    BY <2>0, <2>1, <1>1, FilePut
  <2> HIDE DEF mem
  <2> QED BY <2>1, <2>2, <2>3, <1>5 DEF Fixes, FileJobs, mem
<1>6. CASE job.do = "move"
  <2>0. Put(job.d, "live", RawText)
    BY <1>6, JobCases DEF Put
  <2>1. job.d \in Docs
    BY <1>1, <1>6
  <2>2. /\ file'[job.d]["live"] = RawText
        /\ \A x \in Docs, p \in Paths : x # job.d \/ p # "live" => file'[x][p] = file[x][p]
    BY <2>0, <2>1, <1>1, FilePut
  <2> HIDE DEF mem
  <2> QED BY <2>1, <2>2, <1>6 DEF Fixes, FileJobs
<1>7. CASE job.do \notin {"write", "mirror", "remove", "move"}
  <2>1. file' = file
    BY <1>7, JobCases
  <2> QED BY <2>1, <1>7 DEF Fixes, FileJobs
<1> QED BY <1>3, <1>4, <1>5, <1>6, <1>7

\* A job changes the transaction's status at most.
LEMMA LatestKept ==
  ASSUME TypeOK, journal # <<>>, NEW h \in Handles, han[h].tx = Now, NEW job \in Job, DoJob(h, job)
  PROVE  /\ Now' = Now /\ Latest' = Latest /\ DOMAIN journal' = DOMAIN journal /\ journal' # <<>>
         /\ \A i \in DOMAIN journal : i # Now => (Pending(i)' <=> Pending(i))
         /\ job.do # "log" => journal' = journal /\ (Pending(Now)' <=> Pending(Now))
         /\ job.do = "log" => (Pending(Now)' <=> job.st = "pending")
<1>1. Now \in DOMAIN journal /\ journal \in Seq(Tx) /\ journal[Now] \in Tx
  BY LatestFields DEF TypeOK
<1>2. /\ Len(journal') = Len(journal) /\ DOMAIN journal' = DOMAIN journal
      /\ job.do = "log" => \A i \in DOMAIN journal : i # Now => journal'[i] = journal[i]
      /\ job.do = "log" => journal'[Now] = [journal[Now] EXCEPT !.status = job.st]
  BY <1>1, JobTypes
<1>3. job.do # "log" => journal' = journal
  BY JobCases
<1>4. Now' = Now
  BY <1>2 DEF Now
<1>5. journal' # <<>>
  BY <1>1, <1>2
<1>6. CASE job.do = "log"
  <2> DEFINE tx == journal[Now]
  <2>1. job.st \in Status /\ tx \in Tx
    BY <1>1 DEF Job
  <2>2. journal'[Now] = [tx EXCEPT !.status = job.st]
    BY <1>2, <1>6
  <2>3. Latest' = [journal'[Now'] EXCEPT !.status = "pending"] /\ Latest = [tx EXCEPT !.status = "pending"]
    BY DEF Latest
  <2> HIDE DEF tx
  <2>4. Latest' = Latest
    BY <2>1, <2>2, <2>3, <1>4 DEF Tx
  <2>5. ASSUME NEW i, i = Now PROVE Pending(i)' <=> job.st = "pending"
    BY <2>1, <2>2, <2>5 DEF Pending, Tx
  <2>6. \A i \in DOMAIN journal : i # Now => (Pending(i)' <=> Pending(i))
    BY <1>2, <1>6 DEF Pending
  <2> QED BY <2>4, <2>5, <2>6, <1>2, <1>4, <1>5, <1>6
<1>7. CASE job.do # "log"
  BY <1>2, <1>3, <1>4, <1>5, <1>7 DEF Latest, Pending
<1> QED BY <1>6, <1>7

\* The first job gone.
LEMMA TailJobs ==
  ASSUME NEW todo \in Seq(Job), todo # <<>>, LogLast(todo)
  PROVE  /\ LogLast(Tail(todo)) /\ Tail(todo) \in Seq(Job)
         /\ IndexNext(todo) => /\ IndexNext(Tail(todo))
                               /\ \A job \in ToSet(Tail(todo)) : job.do = "index" => Head(todo).do # "index"
         /\ Head(todo) \in Job
         /\ Head(todo).do = "log" <=> Tail(todo) = <<>>
         /\ ToSet(todo) = {Head(todo)} \union ToSet(Tail(todo))
         /\ Tail(todo) = <<>> => ToSet(todo) = {Head(todo)}
<1>1. /\ Head(todo) = todo[1] /\ Head(todo) \in Job /\ 1 \in DOMAIN todo
      /\ Tail(todo) \in Seq(Job) /\ Len(Tail(todo)) = Len(todo) - 1 /\ Len(todo) \in Nat \ {0}
      /\ DOMAIN Tail(todo) = 1..(Len(todo) - 1) /\ DOMAIN todo = 1..Len(todo)
      /\ \A i \in DOMAIN Tail(todo) : Tail(todo)[i] = todo[i + 1] /\ i + 1 \in DOMAIN todo
      /\ ToSet(todo) = {Head(todo)} \union ToSet(Tail(todo))
  BY FirstJob
<1> DEFINE t == Tail(todo)
           n == Len(todo)
<1>2. t = <<>> <=> n = 1
  BY <1>1, SMTT(40)
<1>3. t = <<>> => ToSet(todo) = {Head(todo)}
  <2>1. t = <<>> => ToSet(t) = {}
    BY DEF ToSet
  <2> QED BY <2>1, <1>1
<1>4. Head(todo).do = "log" <=> n = 1
  BY <1>1 DEF LogLast
<1>5. /\ Len(t) = n - 1 /\ n \in Nat \ {0} /\ DOMAIN t = 1..(n - 1)
      /\ \A i \in 1..(n - 1) : t[i] = todo[i + 1] /\ i + 1 \in 1..n
      /\ \A i \in 1..n : todo[i].do = "log" <=> i = n
  BY <1>1 DEF LogLast
<1> HIDE DEF t, n
<1>6. LogLast(t)
  BY <1>5, SMTT(40) DEF LogLast
<1>7. ASSUME IndexNext(todo) 
      PROVE  IndexNext(t) /\ \A job \in ToSet(t) : job.do = "index" => Head(todo).do # "index"
  <2>1. \A i \in 1..n : todo[i].do = "index" => i = n - 1
    BY <1>1, <1>7 DEF IndexNext, n
  <2>2. IndexNext(t)
    BY <1>5, <2>1 DEF IndexNext
  <2>3. ASSUME NEW job \in ToSet(t), job.do = "index" PROVE Head(todo).do # "index"
    <3>1. PICK i \in 1..(n - 1) : t[i].do = "index"
      BY <2>3, <1>5 DEF ToSet
    <3>2. i + 1 = n - 1 /\ n \in Nat /\ i \in Nat /\ i >= 1
      BY <1>5, <2>1, <3>1
    <3>3. 1 # n - 1 /\ 1 \in 1..n
      BY <3>2
    <3> QED BY <1>1, <2>1, <3>3
  <2> QED BY <2>2, <2>3
<1> QED BY <1>1, <1>2, <1>3, <1>4, <1>6, <1>7 DEF t

\* A plan with its first job gone is a plan.
Rest(m, rest) == rest.pc = m.pc /\ rest.mem = m.mem /\ rest.before = m.before /\ rest.todo = Tail(m.todo)

Shortened(n, tx, m, rest) ==
  Planned(n, tx, m) /\ m.todo \in Seq(Job) /\ m.todo # <<>> /\ Rest(m, rest)

\* A plan with its first job gone is a plan, of fewer writes.
LEMMA PlannedRest ==
  ASSUME NEW n, NEW tx, NEW m, NEW rest, Shortened(n, tx, m, rest)
  PROVE  /\ Planned(n, tx, rest)
         /\ Jobs(m) = {Head(m.todo)} \union Jobs(rest) /\ Head(m.todo) \in Job
         /\ m.pc = "mutating" /\ tx.op \in Creates /\ Writes(rest) # {} =>
              Head(m.todo).do = "move" /\ Head(m.todo).d = tx.d /\ Writes(m) # {}
                /\ \E job \in Jobs(rest) : job.do = "write" /\ job.d = tx.d
         /\ m.pc = "mutating" /\ tx.op \in Creates /\ Writes(rest) = {} /\ Writes(m) # {} =>
              Head(m.todo).do = "write" /\ Head(m.todo).d = tx.d
         /\ m.pc = "mutating" /\ tx.op \in Creates /\ Head(m.todo).do = "move" =>
              Head(m.todo).d = tx.d /\ Writes(rest) # {}
<1>1. /\ rest.pc = m.pc /\ rest.mem = m.mem /\ rest.before = m.before /\ rest.todo = Tail(m.todo)
      /\ LogLast(m.todo) /\ Planned(n, tx, m) /\ m.todo \in Seq(Job) /\ m.todo # <<>>
  BY DEF Shortened, Rest, Planned, Listed
<1>2. /\ LogLast(rest.todo) /\ rest.todo \in Seq(Job)
      /\ IndexNext(m.todo) => IndexNext(rest.todo)
      /\ Head(m.todo) \in Job
      /\ Jobs(m) = {Head(m.todo)} \union Jobs(rest)
  BY <1>1, TailJobs DEF Jobs
<1>3. /\ Head(m.todo) = m.todo[1] /\ 1 \in DOMAIN m.todo
      /\ \A i \in DOMAIN rest.todo : rest.todo[i] = m.todo[i + 1] /\ i + 1 \in DOMAIN m.todo /\ i \in Nat \ {0}
      /\ \A i \in DOMAIN m.todo : i = 1 \/ i - 1 \in DOMAIN rest.todo
      /\ \A i \in DOMAIN m.todo : i \in Nat
  <2>1. /\ Head(m.todo) = m.todo[1] /\ 1 \in DOMAIN m.todo
        /\ Len(m.todo) \in Nat \ {0} /\ DOMAIN rest.todo = 1..(Len(m.todo) - 1) /\ DOMAIN m.todo = 1..Len(m.todo)
        /\ \A i \in DOMAIN rest.todo : rest.todo[i] = m.todo[i + 1] /\ i + 1 \in DOMAIN m.todo
    BY <1>1, FirstJob
  <2> QED BY <2>1
<1>4. ASSUME m.pc = "mutating", tx.op \in Creates
      PROVE  /\ WriteFirst(tx, rest)
             /\ Writes(rest) # {} => Head(m.todo).do = "move" /\ Head(m.todo).d = tx.d /\ Writes(m) # {}
                                       /\ \E job \in Jobs(rest) : job.do = "write" /\ job.d = tx.d
             /\ Writes(rest) = {} /\ Writes(m) # {} => Head(m.todo).do = "write" /\ Head(m.todo).d = tx.d
             /\ Head(m.todo).do = "move" => Head(m.todo).d = tx.d /\ Writes(rest) # {}
  <2>1. WriteFirst(tx, m)
    BY <1>1, <1>4 DEF Planned
  <2>2. ASSUME NEW i \in Writes(rest)
        PROVE  /\ i = 1 /\ m.todo[1].do = "move" /\ m.todo[1].d = tx.d /\ rest.todo[i].d = tx.d
               /\ rest.todo[i].do = "write" /\ rest.todo[i] \in Jobs(rest) /\ Writes(m) # {}
    <3>1. i \in DOMAIN rest.todo /\ rest.todo[i].do = "write" /\ rest.todo[i] \in Jobs(rest)
      BY DEF Writes, Jobs, ToSet
    <3>2. i + 1 \in Writes(m) /\ i + 1 # 1 /\ i \in Nat \ {0}
      <4>1. rest.todo[i] = m.todo[i + 1] /\ i + 1 \in DOMAIN m.todo /\ i \in Nat \ {0}
        BY <3>1, <1>3
      <4>2. i + 1 \in Writes(m)
        BY <3>1, <4>1 DEF Writes
      <4> QED BY <4>1, <4>2
    <3>3. i + 1 = 2 /\ m.todo[1].do = "move" /\ m.todo[i + 1].d = tx.d
      BY <2>1, <3>2 DEF WriteFirst
    <3>4. i = 1 /\ rest.todo[i].d = tx.d
      <4>1. rest.todo[i] = m.todo[i + 1]
        BY <3>1, <1>3
      <4> QED BY <3>2, <3>3, <4>1
    <3>5. m.todo[1].d = tx.d
      BY <2>1, <3>3, <1>3 DEF WriteFirst
    <3> QED BY <3>1, <3>2, <3>3, <3>4, <3>5
  <2>3. ASSUME NEW i \in DOMAIN rest.todo PROVE rest.todo[i].do # "move"
    <3>1. i + 1 # 1 /\ i + 1 \in DOMAIN m.todo /\ rest.todo[i] = m.todo[i + 1]
      BY <1>3
    <3> QED BY <2>1, <3>1 DEF WriteFirst
  <2>4. WriteFirst(tx, rest)
    BY <2>1, <2>2, <2>3, <1>1 DEF WriteFirst
  <2>5. ASSUME NEW i \in Writes(m) PROVE i = 1 \/ i - 1 \in Writes(rest)
    <3>1. i \in DOMAIN m.todo /\ m.todo[i].do = "write"
      BY DEF Writes
    <3>2. CASE i # 1
      <4>1. i - 1 \in DOMAIN rest.todo /\ (i - 1) + 1 = i
        BY <1>3, <3>1, <3>2
      <4>2. rest.todo[i - 1] = m.todo[i]
        BY <1>3, <4>1
      <4> QED BY <3>1, <4>1, <4>2 DEF Writes
    <3> QED BY <3>2
  <2>6. ASSUME Writes(rest) = {}, Writes(m) # {}
        PROVE  Head(m.todo).do = "write" /\ Head(m.todo).d = tx.d
    <3>1. 1 \in Writes(m)
      BY <2>5, <2>6
    <3> QED BY <2>1, <3>1, <1>3 DEF Writes, WriteFirst
  <2>7. ASSUME Head(m.todo).do = "move" PROVE Head(m.todo).d = tx.d /\ Writes(rest) # {}
    <3>1. Writes(m) # {} /\ m.todo[1].d = tx.d /\ 1 \notin Writes(m)
      BY <2>1, <2>7, <1>3 DEF WriteFirst, Writes
    <3> QED BY <2>5, <3>1, <1>3
  <2> QED BY <2>2, <2>4, <2>6, <2>7, <1>3
<1>5. Listed(tx, rest)
  <2>1. ASSUME NEW job \in Jobs(rest) PROVE Agrees(tx, rest, job)
    <3>1. Agrees(tx, m, job)
      BY <1>1, <1>2 DEF Planned, Listed
    <3> QED BY <3>1, <1>1 DEF Agrees
  <2> QED BY <2>1, <1>2 DEF Listed
<1>6. Planned(n, tx, rest)
  <2>1. \A job \in Jobs(rest) : job \in Jobs(m)
    BY <1>2
  <2> HIDE DEF Fits, Alike, Changes, Achieved
  <2> QED BY <1>1, <1>2, <1>4, <1>5, <2>1 DEF Planned
<1> QED BY <1>2, <1>4, <1>6

\* The entries a mutation is between.
Between(m, ents) ==
  /\ ents \in Entries /\ Fits(Now, Latest, ents) /\ Alike(Latest, ents, m.before)
  /\ \A d \in Docs \ Touched(Latest) : ents[d] = m.before[d]

\* What a job of a mutation sees and does.
Doing(m, rest, job) ==
  /\ journal # <<>> /\ Latest.op \in Ops /\ Latest.d \in Docs /\ Touched(Latest) \subseteq Docs
  /\ TxShape(Latest) /\ UnderWay(m) /\ Rest(m, rest)
  /\ Between(m, index) /\ Between(m, m.mem) /\ Between(m, m.before) /\ Between(m, index')
  /\ Planned(Now, Latest, rest) /\ Agrees(Latest, m, job)
  /\ Jobs(m) = {job} \union Jobs(rest)
  /\ m.pc \in {"mutating", "revoking"}
  /\ index' \in {index, m.mem}
  /\ job.do \in {"index", "revert"} => index' = m.mem
  /\ job.do \notin {"index", "revert"} => index' = index
  /\ \A d \in Docs, path \in Paths : Fixes(job, d, path) => file'[d][path] = FileOf(m.mem[d])[path]
  /\ \A d \in Docs, path \in Paths :
       ~Fixes(job, d, path) /\ ~(job.do = "move" /\ job.d = d /\ path = "live") => file'[d][path] = file[d][path]
  /\ job.do = "move" => /\ file'[job.d]["live"] = RawText
                        /\ m.pc = "mutating" /\ Latest.op \in Creates
                        /\ job.d = Latest.d /\ Writes(rest) # {}
  /\ Now' = Now /\ Latest' = Latest /\ journal' # <<>>

\* A handle with its first job done.
Popped(m) == [m EXCEPT !.todo = Tail(m.todo)]

\* A job of a mutation, in all it sees and does.
LEMMA DoingJob ==
  ASSUME Steady, NEW h \in Handles, Work(h), NEW job, job = Head(han[h].todo), NEW m, m = han[h],
         NEW rest, rest = Popped(m)
  PROVE  /\ Working(h) /\ Doing(m, rest, job) /\ job \in Job
         /\ han'[h] = rest /\ \A g \in Handles \ {h} : han'[g] = han[g]
         /\ lock' = lock /\ rest.tx = m.tx /\ rest.queue = m.queue
         /\ job.do = "log" <=> rest.todo = <<>>
         /\ rest.todo = <<>> => Jobs(m) = {job}
         /\ DOMAIN journal' = DOMAIN journal
         /\ \A i \in DOMAIN journal : i # Now => (Pending(i)' <=> Pending(i))
         /\ job.do # "log" => Pending(Now)'
         /\ job.do = "log" => ~Pending(Now)'
<1>0. /\ Whole /\ TypeOK /\ LastFits /\ Whole' /\ han[h] \in Handle /\ index \in Entries
      /\ han[h].mem \in Entries /\ han[h].before \in Entries /\ han[h].todo \in Seq(Job)
  BY JobWhole, HandleFields DEF Steady, Whole, Sane
<1>1. /\ han[h].todo # <<>> /\ DoJob(h, job) /\ lock' = lock /\ Working(h)
  BY DEF Work, Working, Active
<1>2. han' = [han EXCEPT ![h] = rest]
  BY DEF Work, Popped
<1>3. /\ han[h].tx = Now /\ Pending(Now) /\ journal # <<>> /\ UnderWay(han[h]) /\ Active(h)
  BY <1>1, Alone
<1>4. /\ Latest.op \in Ops /\ Latest.d \in Docs /\ Touched(Latest) \subseteq Docs
  BY <1>0, <1>3, LatestFields
<1>5. /\ TxShape(Latest) /\ Fits(Now, Latest, index)
  BY <1>0, <1>3 DEF LastFits
<1>6. /\ rest.pc = m.pc /\ rest.mem = m.mem /\ rest.before = m.before /\ rest.todo = Tail(m.todo)
      /\ rest.tx = m.tx /\ rest.queue = m.queue
  BY <1>0 DEF Handle, Popped
<1>7. Rest(m, rest)
  BY <1>6 DEF Rest
<1>8. Planned(Now, Latest, m) /\ LogLast(m.todo)
  BY <1>3 DEF UnderWay, Planned, Listed
<1>9. /\ Planned(Now, Latest, rest) /\ job \in Job
      /\ Jobs(m) = {job} \union Jobs(rest)
      /\ m.pc = "mutating" /\ Latest.op \in Creates /\ job.do = "move" => job.d = Latest.d /\ Writes(rest) # {}
  <2>1. m.todo \in Seq(Job) /\ m.todo # <<>>
    BY <1>0, <1>1
  <2>2. Shortened(Now, Latest, m, rest)
    BY <2>1, <1>7, <1>8 DEF Shortened
  <2>3. job = Head(m.todo)
    OBVIOUS
  <2>4. /\ Planned(Now, Latest, rest) /\ Head(m.todo) \in Job
        /\ Jobs(m) = {Head(m.todo)} \union Jobs(rest)
    BY <2>2, PlannedRest
  <2>5. m.pc = "mutating" /\ Latest.op \in Creates /\ Head(m.todo).do = "move" =>
          Head(m.todo).d = Latest.d /\ Writes(rest) # {}
    BY <2>2, PlannedRest
  <2> QED BY <2>3, <2>4, <2>5
<1>10. /\ job.do = "log" <=> rest.todo = <<>>
       /\ rest.todo = <<>> => Jobs(m) = {job}
  BY <1>0, <1>1, <1>6, <1>8, TailJobs DEF Jobs
<1>11. job \in Jobs(m)
  BY <1>9
<1>12. Agrees(Latest, m, job)
  BY <1>8, <1>11 DEF Planned, Listed
<1>13. /\ \A d \in Docs, path \in Paths : Fixes(job, d, path) => file'[d][path] = FileOf(m.mem[d])[path]
       /\ \A d \in Docs, path \in Paths :
            ~Fixes(job, d, path) /\ ~(job.do = "move" /\ job.d = d /\ path = "live")
              => file'[d][path] = file[d][path]
       /\ job.do = "move" => file'[job.d]["live"] = RawText
  BY <1>0, <1>1, <1>9, <1>12, JobEffect
<1>14. /\ Now' = Now /\ Latest' = Latest /\ DOMAIN journal' = DOMAIN journal /\ journal' # <<>>
       /\ \A i \in DOMAIN journal : i # Now => (Pending(i)' <=> Pending(i))
       /\ job.do # "log" => (Pending(Now)' <=> Pending(Now))
       /\ job.do = "log" => (Pending(Now)' <=> job.st = "pending")
  BY <1>0, <1>1, <1>3, <1>9, LatestKept
<1>15. job.do = "log" => ~Pending(Now)'
  BY <1>12, <1>14 DEF Agrees
<1>16. /\ job.do = "index" => index' = m.mem
       /\ job.do = "revert" => index' = m.mem
       /\ job.do \notin {"index", "revert"} => index' = index
  <2>1. /\ job.do = "index" => index' = han[h].mem
        /\ job.do = "revert" => index' = han[h].before
        /\ job.do \notin {"index", "revert"} => index' = index
    BY <1>1, <1>9, JobCases
  <2> QED BY <2>1, <1>12 DEF Agrees
<1>17. index' \in {index, m.mem}
  BY <1>16
<1>18. Between(m, index) /\ Between(m, m.mem) /\ Between(m, m.before)
  BY <1>0, <1>3, <1>5, <1>8 DEF Between, UnderWay, Planned, Alike
<1>19. Between(m, index')
  BY <1>17, <1>18
<1>20. job.do = "move" => m.pc = "mutating" /\ Latest.op \in Creates
  BY <1>3, <1>8, <1>11, <1>0 DEF Planned, Active
<1>21. m.pc \in {"mutating", "revoking"}
  BY <1>3 DEF Active
<1>22. Doing(m, rest, job)
  BY <1>3, <1>4, <1>5, <1>7, <1>9, <1>12, <1>13, <1>14, <1>16, <1>17, <1>18, <1>19, <1>20, <1>21 DEF Doing
<1>23. han'[h] = rest /\ \A g \in Handles \ {h} : han'[g] = han[g]
  BY <1>0, <1>2 DEF TypeOK
<1> QED BY <1>1, <1>3, <1>6, <1>9, <1>10, <1>14, <1>15, <1>22, <1>23

\* Entries of the same archiving: the files are none, or that of the archived document.
LEMMA ArchivedFile ==
  ASSUME NEW m, NEW ents, NEW other, Between(m, ents), Between(m, other), Latest.op = "archive", Latest.d \in Docs
  PROVE  /\ Retired(ents[Latest.d]) = Retired(other[Latest.d])
         /\ FileOf(ents[Latest.d])["archived"] \in {Nothing, Retired(other[Latest.d])}
         /\ FileOf(ents[Latest.d])["archived"] # Nothing =>
              ents[Latest.d].arch /\ Retired(ents[Latest.d]) = ents[Latest.d]
<1>1. Retired(ents[Latest.d]) = Retired(other[Latest.d]) /\ ents \in Entries
  BY DEF Between, Alike
<1>2. FileOf(ents[Latest.d])["archived"] # Nothing =>
        FileOf(ents[Latest.d])["archived"] = ents[Latest.d] /\ ents[Latest.d].arch
  BY <1>1, FileFacts
<1>3. ents[Latest.d].arch => Retired(ents[Latest.d]) = ents[Latest.d]
  BY DEF Retired
<1> QED BY <1>1, <1>2, <1>3

\* The last transaction's files stay what they can be.
LEMMA DoingFits ==
  ASSUME NEW m, NEW rest, NEW job, Doing(m, rest, job), LastFits
  PROVE  LastFits'
<1>1. /\ Now' = Now /\ Latest' = Latest /\ TxShape(Latest) /\ Fits(Now, Latest, index')
      /\ journal # <<>> /\ Latest.d \in Docs
  BY DEF Doing, Between
<1>2. ASSUME Latest.op = "archive"
      PROVE  file'[Latest.d]["archived"] \in {Nothing, Retired(index'[Latest.d])}
  <2> DEFINE d == Latest.d
             path == "archived"
  <2>1. Between(m, index) /\ Between(m, m.mem) /\ Between(m, index')
    BY DEF Doing
  <2>2. /\ Retired(index[d]) = Retired(index'[d])
        /\ FileOf(m.mem[d])["archived"] \in {Nothing, Retired(index'[d])}
    BY <1>1, <1>2, <2>1, ArchivedFile
  <2>3. file[d]["archived"] \in {Nothing, Retired(index[d])}
    BY <1>1, <1>2 DEF LastFits
  <2>4. "archived" \in Paths /\ "archived" # "live"
    BY DEF Paths
  <2>5. CASE Fixes(job, d, "archived")
    <3>1. file'[d]["archived"] = FileOf(m.mem[d])["archived"]
      BY <1>1, <2>4, <2>5 DEF Doing
    <3> QED BY <3>1, <2>2
  <2>6. CASE ~Fixes(job, d, "archived")
    <3>1. file'[d]["archived"] = file[d]["archived"]
      BY <1>1, <2>4, <2>6 DEF Doing
    <3> QED BY <3>1, <2>2, <2>3
  <2> QED BY <2>5, <2>6
<1> QED BY <1>1, <1>2 DEF LastFits

\* The files of what was created.
LEMMA DoingCreate ==
  ASSUME NEW m, NEW rest, NEW job, Doing(m, rest, job), m.todo \in Seq(Job), m.todo # <<>>, job = Head(m.todo),
         m.pc = "mutating", Latest.op \in Creates
  PROVE  /\ Writes(rest) # {} =>
              /\ index' = m.before /\ file'[Latest.d]["live"] = RawText
              /\ \A d \in Docs \ {Latest.d}, path \in Paths : file'[d][path] = FileOf(index'[d])[path]
         /\ Writes(rest) = {} => file'[Latest.d]["live"] = m.mem[Latest.d]
         /\ m.before[Latest.d] = Nothing /\ IsLive(m.mem, Latest.d)
         /\ FileOf(m.mem[Latest.d])["live"] = m.mem[Latest.d]
<1>1. /\ Planned(Now, Latest, m) /\ Rest(m, rest) /\ Latest.d \in Docs
      /\ Between(m, m.mem)
  BY DEF Doing, UnderWay
<1>2. /\ m.before[Latest.d] = Nothing /\ IsLive(m.mem, Latest.d)
  BY <1>1 DEF Planned, WriteFirst
<1>3. FileOf(m.mem[Latest.d])["live"] = m.mem[Latest.d] /\ PathOf(m.mem[Latest.d]) = "live"
  BY <1>1, <1>2, FileFacts DEF Between
<1>4. /\ Writes(rest) # {} => job.do = "move" /\ job.d = Latest.d /\ Writes(m) # {}
      /\ Writes(rest) = {} /\ Writes(m) # {} => job.do = "write" /\ job.d = Latest.d
  <2>1. Shortened(Now, Latest, m, rest)
    BY <1>1 DEF Shortened
  <2> QED BY <2>1, PlannedRest
<1>5. /\ Writes(m) # {} =>
           /\ index = m.before
           /\ \A d \in Docs \ {Latest.d}, path \in Paths : file[d][path] = FileOf(index[d])[path]
      /\ Writes(m) = {} => file[Latest.d].live = m.mem[Latest.d]
  BY DEF Doing, UnderWay
<1>6. ASSUME Writes(rest) # {}
      PROVE  /\ index' = m.before /\ file'[Latest.d]["live"] = RawText
             /\ \A d \in Docs \ {Latest.d}, path \in Paths : file'[d][path] = FileOf(index'[d])[path]
  <2>1. job.do = "move" /\ job.d = Latest.d /\ index' = index
    BY <1>4, <1>6 DEF Doing
  <2>2. \A d \in Docs \ {Latest.d}, path \in Paths : file'[d][path] = file[d][path]
    BY <2>1 DEF Doing, Fixes, FileJobs
  <2> QED BY <1>4, <1>5, <1>6, <2>1, <2>2 DEF Doing
<1>7. ASSUME Writes(rest) = {} PROVE file'[Latest.d]["live"] = m.mem[Latest.d]
  <2>0. "live" \in Paths
    BY DEF Paths
  <2>1. CASE Fixes(job, Latest.d, "live")
    BY <2>0, <2>1, <1>1, <1>3 DEF Doing
  <2>2. CASE ~Fixes(job, Latest.d, "live")
    <3>1. job.do # "move"
      BY <1>7 DEF Doing
    <3>2. file'[Latest.d]["live"] = file[Latest.d]["live"]
      BY <2>0, <2>2, <3>1, <1>1 DEF Doing
    <3>3. Writes(m) = {}
      <4>1. ASSUME job.do = "write", job.d = Latest.d PROVE FALSE
        <5>1. job.rec = m.mem[Latest.d] /\ job.at = PathOf(job.rec)
          BY <4>1 DEF Doing, Agrees
        <5> QED BY <5>1, <4>1, <1>3, <2>2 DEF Fixes, FileJobs
      <4> QED BY <4>1, <1>4, <1>7
    <3> QED BY <3>2, <3>3, <1>5
  <2> QED BY <2>1, <2>2
<1> QED BY <1>2, <1>3, <1>6, <1>7

\* A mutation with a job done is under way still.
LEMMA DoingUnderWay ==
  ASSUME NEW m, NEW rest, NEW job, Doing(m, rest, job), m.todo \in Seq(Job), m.todo # <<>>, job = Head(m.todo)
  PROVE  UnderWay(rest)'
<1>1. /\ rest.pc = m.pc /\ rest.mem = m.mem /\ rest.before = m.before /\ rest.todo = Tail(m.todo)
      /\ Now' = Now /\ Latest' = Latest /\ Planned(Now, Latest, rest) /\ Planned(Now, Latest, m)
      /\ Between(m, index') /\ UnderWay(m)
  BY DEF Doing, Rest, UnderWay
<1>2. ASSUME m.pc = "mutating"
      PROVE  /\ index' = m.before \/ index' = m.mem
             /\ (\E j \in Jobs(rest) : j.do = "index") => index' = m.before
             /\ Latest.op = "archive" => IsLive(m.before, Latest.d)
  <2>1. index = m.before \/ index = m.mem
    BY <1>1, <1>2 DEF UnderWay
  <2>2. job \in Jobs(m) /\ Jobs(rest) \subseteq Jobs(m)
    BY DEF Doing
  <2>3. ASSUME NEW j \in Jobs(rest), j.do = "index" PROVE index' = m.before
    <3>1. index = m.before
      BY <1>1, <1>2, <2>2, <2>3 DEF UnderWay
    <3>2. job.do # "index"
      <4>1. IndexNext(m.todo) /\ LogLast(m.todo)
        BY <1>1, <1>2 DEF Planned, Listed
      <4> QED BY <4>1, <2>3, <1>1, TailJobs DEF Jobs
    <3>3. job.do # "revert"
      BY <1>1, <1>2, <2>2 DEF Planned
    <3> QED BY <3>1, <3>2, <3>3 DEF Doing
  <2> QED BY <1>1, <1>2, <2>1, <2>3 DEF Doing, UnderWay
<1>3. ASSUME m.pc = "mutating", Latest.op \in Creates
      PROVE  /\ Writes(rest) # {} =>
                  /\ index' = m.before
                  /\ \A d \in Docs \ {Latest.d}, path \in Paths : file'[d][path] = FileOf(index'[d])[path]
             /\ Writes(rest) = {} => file'[Latest.d]["live"] = m.mem[Latest.d]
  BY <1>3, DoingCreate
<1> QED BY <1>1, <1>2, <1>3 DEF UnderWay, Between

\* What is not settled after a job is in the jobs left.
LEMMA DoingCovers ==
  ASSUME NEW m, NEW rest, NEW job, Doing(m, rest, job), m.todo \in Seq(Job), m.todo # <<>>, job = Head(m.todo),
         Covers(m), \A d, path : ~Held(d, path)
  PROVE  Covers(rest)'
<1>1. /\ rest.mem = m.mem /\ Planned(Now, Latest, m) /\ Jobs(m) = {job} \union Jobs(rest) /\ Rest(m, rest)
      /\ Agrees(Latest, m, job) /\ Between(m, m.mem)
  BY DEF Doing, Rest, UnderWay
<1>2. ASSUME NEW d \in Docs, NEW path \in Paths
      PROVE  \/ file'[d][path] = FileOf(m.mem[d])[path]
             \/ \E j \in Jobs(rest) : Fixes(j, d, path)
  <2>1. CASE Fixes(job, d, path)
    BY <2>1 DEF Doing
  <2>2. CASE job.do = "move" /\ job.d = d /\ path = "live"
    <3>1. m.pc = "mutating" /\ Latest.op \in Creates /\ d = Latest.d /\ Writes(rest) # {}
      BY <2>2 DEF Doing
    <3>2. PICK j \in Jobs(rest) : j.do = "write" /\ j.d = d
      <4>1. Shortened(Now, Latest, m, rest)
        BY <1>1 DEF Shortened
      <4> QED BY <3>1, <4>1, PlannedRest
    <3>3. Agrees(Latest, m, j) /\ IsLive(m.mem, d)
      BY <1>1, <3>1 DEF Planned, Listed, WriteFirst
    <3>4. j.at = "live"
      BY <3>2, <3>3 DEF Agrees, PathOf, IsLive
    <3> QED BY <2>2, <3>2, <3>4 DEF Fixes, FileJobs
  <2>3. CASE ~Fixes(job, d, path) /\ ~(job.do = "move" /\ job.d = d /\ path = "live")
    <3>1. file'[d][path] = file[d][path]
      BY <2>3 DEF Doing
    <3>2. \/ file[d][path] = FileOf(m.mem[d])[path]
          \/ \E j \in Jobs(m) : Fixes(j, d, path)
      BY DEF Covers
    <3> QED BY <3>1, <3>2, <2>3, <1>1
  <2> QED BY <2>1, <2>2, <2>3
<1>3. index' = m.mem \/ \E j \in Jobs(rest) : j.do \in {"index", "revert"}
  <2>1. index = m.mem \/ \E j \in Jobs(m) : j.do \in {"index", "revert"}
    BY DEF Covers
  <2>2. job.do \in {"index", "revert"} => index' = m.mem
    BY DEF Doing
  <2>3. job.do \notin {"index", "revert"} => index' = index
    BY DEF Doing
  <2> QED BY <2>1, <2>2, <2>3, <1>1
<1> QED BY <1>1, <1>2, <1>3 DEF Covers

\* A recovery's aim is the index but for a document that is being archived.
LEMMA GoalElsewhere ==
  ASSUME TypeOK
  PROVE  /\ journal # <<>> /\ Latest.op # "archive" => Goal = index
         /\ \A d \in Docs : d # Latest.d => Goal[d] = index[d]
<1>1. \A d \in Docs : d # Latest.d => Goal[d] = index[d]
  BY HandleFields DEF Goal, Entries, TypeOK
<1> QED BY <1>1 DEF Goal

\* What a mutation leaves unsettled is what a recovery would settle.
LEMMA DoingRecoverable ==
  ASSUME Whole, Whole', NEW m, NEW rest, NEW job, Doing(m, rest, job), m.todo \in Seq(Job), m.todo # <<>>,
         job = Head(m.todo), m.pc = "mutating" \/ Latest.op \notin Creates,
         \A d \in Docs, path \in Paths : Follows(d, path) \/ Coverable(d, path),
         NEW d \in Docs, NEW path \in Paths
  PROVE  Follows(d, path)' \/ Coverable(d, path)'
<1>1. /\ Now' = Now /\ Latest' = Latest /\ journal # <<>> /\ journal' # <<>> /\ TxShape(Latest)
      /\ Latest.op \in Ops /\ Latest.d \in Docs /\ Planned(Now, Latest, m)
      /\ Between(m, index) /\ Between(m, m.mem) /\ Between(m, m.before) /\ Between(m, index')
      /\ Agrees(Latest, m, job) /\ index' \in {index, m.mem}
  BY DEF Doing, UnderWay
<1>2. /\ Latest.op # "archive" => Goal = index /\ Goal' = index'
      /\ d # Latest.d => Goal[d] = index[d] /\ Goal'[d] = index'[d]
  <2>1. TypeOK /\ TypeOK'
    BY DEF Whole
  <2>2. d # Latest.d => Goal[d] = index[d]
    BY <2>1, GoalElsewhere
  <2>3. d # Latest.d => Goal'[d] = index'[d]
    <3>1. index' \in Entries
      BY <1>1 DEF Between
    <3> QED BY <3>1, <1>1 DEF Goal, Entries
  <2> QED BY <1>1, <2>2, <2>3 DEF Goal
<1>3. CASE d \notin Touched(Latest)
  <2>1. Follows(d, path) /\ d # Latest.d
    BY <1>3 DEF Coverable, Touched
  <2>2. ~Fixes(job, d, path) /\ ~(job.do = "move" /\ job.d = d /\ path = "live")
    BY <1>1, <1>3, <2>1 DEF Fixes, Agrees, Doing
  <2>3. file'[d][path] = file[d][path]
    BY <2>2 DEF Doing
  <2>4. index'[d] = index[d]
    BY <1>1, <1>3 DEF Between
  <2> QED BY <1>2, <2>1, <2>3, <2>4 DEF Follows
<1>4. CASE d \in Touched(Latest) /\ Latest.op = "archive"
  <2>1. d = Latest.d
    BY <1>1, <1>4 DEF TxShape, Touched
  <2> QED BY <2>1, <1>1, <1>4 DEF Coverable
<1>5. CASE d \in Touched(Latest) /\ Latest.op # "archive" /\ path = "archived"
  <2>1. Follows(d, path)
    BY <1>5 DEF Coverable
  <2>2. Latest.op \in Creates => m.before[Latest.d] = Nothing /\ IsLive(m.mem, Latest.d)
    BY <1>1 DEF Planned, WriteFirst
  <2>3. Latest.op \in Creates => index = m.before \/ index = m.mem
    <3>1. Latest.op \in Creates => m.pc = "mutating" /\ UnderWay(m)
      BY DEF Doing
    <3> QED BY <3>1 DEF UnderWay
  <2>4. FileOf(index[d])["archived"] = Nothing
    BY <1>1, <1>5, <2>2, <2>3, TouchedLive DEF Between
  <2>5. FileOf(m.mem[d])["archived"] = Nothing
    BY <1>1, <1>5, <2>2, TouchedLive DEF Between
  <2>6. FileOf(index'[d])["archived"] = Nothing
    BY <1>1, <2>4, <2>5
  <2>7. file[d]["archived"] = Nothing
    BY <1>2, <1>5, <2>1, <2>4 DEF Follows
  <2>8. file'[d]["archived"] = Nothing
    <3>1. CASE Fixes(job, d, path)
      BY <1>5, <2>5, <3>1 DEF Doing
    <3>2. CASE ~Fixes(job, d, path)
      BY <1>5, <2>7, <3>2 DEF Doing
    <3> QED BY <3>1, <3>2
  <2> QED BY <1>2, <1>5, <2>6, <2>8 DEF Follows
<1>6. CASE Latest.op \in {"update", "link"} /\ d \in Touched(Latest) /\ path = "live"
  BY <1>1, <1>6 DEF Coverable
<1>7. CASE Latest.op \in Creates /\ d \in Touched(Latest) /\ path = "live"
  <2>1. m.pc = "mutating" /\ (d = Latest.d \/ d \in Latest.mirrored)
    BY <1>1, <1>7 DEF TxShape, Touched, Creates
  <2>2. /\ Writes(rest) # {} =>
              /\ index' = m.before /\ file'[Latest.d]["live"] = RawText
              /\ \A x \in Docs \ {Latest.d}, p \in Paths : file'[x][p] = FileOf(index'[x])[p]
        /\ Writes(rest) = {} => file'[Latest.d]["live"] = m.mem[Latest.d]
        /\ m.before[Latest.d] = Nothing /\ IsLive(m.mem, Latest.d)
        /\ FileOf(m.mem[Latest.d])["live"] = m.mem[Latest.d]
    BY <1>7, <2>1, DoingCreate
  <2>3. CASE Writes(rest) # {}
    <3>1. CASE d = Latest.d
      <4>1. ~IsLive(index', d) /\ RawText # Nothing
        BY <2>2, <2>3, <3>1, StoreAssumption DEF IsLive
      <4> QED BY <1>1, <1>7, <2>2, <2>3, <3>1, <4>1 DEF Coverable, IsLive
    <3>2. CASE d # Latest.d
      BY <1>2, <2>2, <2>3, <3>2 DEF Follows
    <3> QED BY <3>1, <3>2
  <2>4. CASE Writes(rest) = {}
    <3>1. file'[Latest.d]["live"] = m.mem[Latest.d] /\ m.mem[Latest.d] # Nothing
      BY <2>2, <2>4 DEF IsLive
    <3>2. CASE d \in Latest.mirrored
      BY <1>1, <1>7, <3>1, <3>2 DEF Coverable
    <3>3. CASE d = Latest.d /\ ~IsLive(index', d)
      BY <1>1, <1>7, <3>1, <3>3 DEF Coverable, IsLive
    <3>4. CASE d = Latest.d /\ IsLive(index', d)
      <4>1. index' = m.mem
        <5>1. index = m.before \/ index = m.mem
          BY <2>1 DEF Doing, UnderWay
        <5>2. index' # m.before
          BY <2>2, <3>4 DEF IsLive
        <5> QED BY <5>1, <5>2, <1>1
      <4>2. Goal' = index'
        BY <1>2, <1>7 DEF Creates
      <4> QED BY <1>7, <2>2, <3>1, <3>4, <4>1, <4>2 DEF Follows
    <3> QED BY <2>1, <3>2, <3>3, <3>4
  <2> QED BY <2>3, <2>4
<1> QED BY <1>1, <1>3, <1>4, <1>5, <1>6, <1>7 DEF Paths, Ops, Creates

\* A settlement: all follows the index.
LEMMA LogSettles ==
  ASSUME NEW m, NEW rest, NEW job, Doing(m, rest, job), Covers(m), \A d, path : ~Held(d, path),
         job.do = "log", Jobs(m) = {job}
  PROVE  /\ index' = m.mem /\ Goal' = index'
         /\ \A d \in Docs, path \in Paths : Follows(d, path)'
<1>1. /\ index' = index /\ index = m.mem
  <2>1. index = m.mem \/ \E j \in Jobs(m) : j.do \in {"index", "revert"}
    BY DEF Covers
  <2> QED BY <2>1 DEF Doing
<1>2. ASSUME NEW d \in Docs, NEW path \in Paths PROVE file'[d][path] = FileOf(index'[d])[path]
  <2>1. ~Fixes(job, d, path)
    BY DEF Fixes, FileJobs
  <2>2. file'[d][path] = file[d][path]
    BY <2>1 DEF Doing
  <2>3. file[d][path] = FileOf(m.mem[d])[path]
    BY <2>1 DEF Covers
  <2> QED BY <1>1, <2>2, <2>3
<1>3. Goal' = index'
  <2>1. Latest' = Latest /\ Latest.d \in Docs /\ Between(m, index') /\ "archived" \in Paths
    BY DEF Doing, Paths
  <2>2. CASE Latest.op = "archive" /\ file'[Latest.d]["archived"] # Nothing
    <3>1. Retired(index'[Latest.d]) = index'[Latest.d]
      BY <1>2, <2>1, <2>2, ArchivedFile
    <3>2. [index' EXCEPT ![Latest.d] = index'[Latest.d]] = index'
      BY <2>1 DEF Between, Entries
    <3> QED BY <2>1, <3>1, <3>2 DEF Goal
  <2>3. CASE ~(Latest.op = "archive" /\ file'[Latest.d]["archived"] # Nothing)
    BY <2>1, <2>3 DEF Goal
  <2> QED BY <2>2, <2>3
<1> QED BY <1>1, <1>2, <1>3 DEF Follows

\* A job of a mutation keeps the invariant.
LEMMA WorkSane ==
  ASSUME Steady, NEW h \in Handles, Work(h)
  PROVE  Sane'
<1>0. PICK m, rest, job : m = han[h] /\ rest = Popped(m) /\ job = Head(han[h].todo)
  OBVIOUS
<1>1. /\ Working(h) /\ Doing(m, rest, job) /\ job \in Job
      /\ han'[h] = rest /\ \A g \in Handles \ {h} : han'[g] = han[g]
      /\ lock' = lock /\ rest.tx = m.tx /\ rest.queue = m.queue
      /\ job.do = "log" <=> rest.todo = <<>>
      /\ rest.todo = <<>> => Jobs(m) = {job}
      /\ DOMAIN journal' = DOMAIN journal
      /\ \A i \in DOMAIN journal : i # Now => (Pending(i)' <=> Pending(i))
      /\ job.do # "log" => Pending(Now)'
      /\ job.do = "log" => ~Pending(Now)'
  BY <1>0, DoingJob
<1>2. /\ lock = h /\ Active(h) /\ han[h].tx = Now /\ Pending(Now) /\ journal # <<>> /\ han[h].todo # <<>>
      /\ \A g \in Handles \ {h} : ~Active(g)
      /\ \A g \in Handles : Recovering(g) => han[g].todo = <<>> /\ han[g].queue = {}
      /\ \A d, path : ~Held(d, path)
      /\ UnderWay(han[h]) /\ Covers(han[h])
  BY <1>1, Alone
<1>3. /\ Whole /\ Whole' /\ TypeOK /\ OneAtATime /\ LastFits /\ Recoverable /\ InJournal'
      /\ m.todo \in Seq(Job) /\ m.todo # <<>> /\ job = Head(m.todo)
  BY <1>0, <1>2, JobWhole, HandleFields DEF Steady, Whole, Sane
<1>4. /\ Now' = Now /\ Latest' = Latest /\ journal' # <<>> /\ rest.pc = m.pc /\ rest.mem = m.mem
      /\ m.pc \in {"mutating", "revoking"}
  BY <1>1 DEF Doing, Rest
<1>5. /\ Active(h)' /\ ~Recovering(h)' /\ ~Busy(h)'
      /\ \A g \in Handles \ {h} : ~Active(g)' /\ ~Busy(g)' /\ ~Working(g)' /\ ~Settling(g)'
                                  /\ (Recovering(g)' => han'[g].todo = <<>> /\ han'[g].queue = {})
  BY <1>1, <1>2, <1>4 DEF Active, Recovering, Busy, Working, Settling
<1>6. OneAtATime'
  <2>1. \A i \in DOMAIN journal' : Pending(i)' => i = Now'
    BY <1>1, <1>3, <1>4 DEF OneAtATime
  <2>2. Placed(h)'
    <3>1. han'[h].tx = Now' /\ (han'[h].todo # <<>> <=> job.do # "log")
      BY <1>0, <1>1, <1>2, <1>4
    <3>2. Pending(Now)' <=> job.do # "log"
      BY <1>1
    <3> QED BY <1>5, <3>1, <3>2 DEF Placed
  <2>3. \A g \in Handles \ {h} : Placed(g)'
    BY <1>5 DEF Placed
  <2> QED BY <2>1, <2>2, <2>3 DEF OneAtATime
<1>7. LastFits'
  BY <1>1, <1>3, DoingFits
<1>8. Mutation'
  <2>1. UnderWay(rest)'
    BY <1>1, <1>3, DoingUnderWay
  <2>2. UnderWay(han[h])'
    BY <2>1, <1>1 DEF UnderWay
  <2> QED BY <2>2, <1>5 DEF Mutation
<1>9. Covered'
  <2>1. Covers(rest)'
    BY <1>0, <1>1, <1>2, <1>3, DoingCovers
  <2>2. Covers(han[h])'
    BY <2>1, <1>1 DEF Covers
  <2> QED BY <2>2, <1>5 DEF Covered
<1>10. Recoverers'
  BY <1>5 DEF Recoverers, Recovers
<1>11. CASE job.do = "log"
  <2>1. Goal' = index' /\ \A d \in Docs, path \in Paths : Follows(d, path)'
    BY <1>0, <1>1, <1>2, <1>11, LogSettles
  <2>2. Recoverable' /\ Settled'
    BY <2>1 DEF Recoverable, Settled
  <2> QED BY <1>6, <1>7, <1>8, <1>9, <1>10, <2>2 DEF Sane
<1>12. CASE job.do # "log"
  <2>1. Settled'
    <3>1. Pending(Now)' /\ Pending(Now)' = (journal'[Now'].status = "pending")
      BY <1>1, <1>4, <1>12 DEF Pending
    <3> QED BY <3>1 DEF Settled, Pending
  <2>2. ASSUME ~Undoing' PROVE m.pc = "mutating" \/ Latest.op \notin Creates
    <3>1. Working(h)' /\ han'[h].pc = m.pc
      BY <1>1, <1>4, <1>5, <1>12 DEF Working
    <3> QED BY <2>2, <3>1, <1>4 DEF Undoing
  <2>3. ASSUME m.pc = "mutating" \/ Latest.op \notin Creates PROVE ~Undoing
    <3>1. ASSUME NEW g \in Handles, Working(g) PROVE g = h
      BY <1>2, <3>1 DEF Working
    <3> QED BY <1>0, <2>3, <3>1 DEF Undoing
  <2>4. ASSUME ~Undoing', NEW d \in Docs, NEW path \in Paths
        PROVE  Follows(d, path)' \/ Coverable(d, path)'
    <3>1. \A x \in Docs, p \in Paths : Follows(x, p) \/ Coverable(x, p)
      BY <1>2, <1>3, <2>2, <2>3, <2>4 DEF Recoverable
    <3> QED BY <1>1, <1>3, <2>2, <2>4, <3>1, DoingRecoverable
  <2>5. Recoverable'
    <3>1. Pending(Now)' /\ Now' = Now
      BY <1>1, <1>4, <1>12
    <3>2. journal'[Now'].status = "pending"
      BY <3>1 DEF Pending
    <3> QED BY <3>2, <2>4, <1>4 DEF Recoverable, Pending
  <2> QED BY <1>6, <1>7, <1>8, <1>9, <1>10, <2>1, <2>5 DEF Sane
<1> QED BY <1>11, <1>12

-----------------------------------------------------------------------------
(* A job of a recovery. *)

\* What a job of a recovery sees and does.
Redoing(m, rest, job) ==
  /\ TypeOK /\ LastFits /\ journal # <<>> /\ Latest.op \in Ops /\ Latest.d \in Docs
  /\ \A g \in Handles : ~Active(g)
  /\ Recovers(m) /\ m.mem = Goal /\ m.queue = {} /\ m.todo \in Seq(Job) /\ m.todo # <<>>
  /\ Rest(m, rest) /\ rest.queue = {} /\ rest.tx = Now
  /\ Agrees(Latest, m, job) /\ job = Head(m.todo)
  /\ Jobs(m) = {job} \union Jobs(rest)
  /\ index' = IF job.do = "index" THEN Goal ELSE index
  /\ \A d \in Docs, path \in Paths : Fixes(job, d, path) => file'[d][path] = FileOf(Goal[d])[path]
  /\ \A d \in Docs, path \in Paths : ~Fixes(job, d, path) => file'[d][path] = file[d][path]
  /\ Now' = Now /\ Latest' = Latest /\ journal' # <<>>

\* A job of a recovery, in all it sees and does.
LEMMA RedoingJob ==
  ASSUME Steady, NEW h \in Handles, RecoverWork(h), NEW job, job = Head(han[h].todo), NEW m, m = han[h],
         NEW rest, rest = Popped(m)
  PROVE  /\ Redoing(m, rest, job) /\ lock = Nothing /\ lock' = lock
         /\ han'[h] = rest /\ \A g \in Handles \ {h} : han'[g] = han[g]
         /\ Recovering(h) /\ Recovering(h)' /\ Covers(m)
         /\ job.do = "log" => Jobs(m) = {job}
         /\ DOMAIN journal' = DOMAIN journal
         /\ \A i \in DOMAIN journal : i # Now => (Pending(i)' <=> Pending(i))
         /\ job.do # "log" => (Pending(Now)' <=> Pending(Now))
<1>0. /\ Whole /\ TypeOK /\ LastFits /\ InJournal /\ OneAtATime /\ Recoverers /\ Covered
      /\ han[h] \in Handle /\ index \in Entries
      /\ han[h].mem \in Entries /\ han[h].before \in Entries /\ han[h].todo \in Seq(Job)
  BY HandleFields DEF Steady, Whole, Sane
<1>1. /\ han[h].todo # <<>> /\ DoJob(h, job) /\ lock' = lock /\ Recovering(h) /\ Busy(h) /\ Settling(h)
  BY DEF RecoverWork, Busy, Settling
<1>2. han' = [han EXCEPT ![h] = rest]
  BY DEF RecoverWork, Popped
<1>3. /\ lock = Nothing /\ han[h].queue = {} /\ han[h].tx = Now /\ Now \in DOMAIN journal /\ journal # <<>>
  BY <1>0, <1>1 DEF OneAtATime, Placed, InJournal
<1>4. \A g \in Handles : ~Active(g)
  BY <1>0, <1>3, StoreAssumption DEF InJournal
<1>5. /\ Latest.op \in Ops /\ Latest.d \in Docs
  BY <1>0, <1>3, LatestFields
<1>6. /\ Recovers(m) /\ m.mem = Goal /\ Listed(Latest, m) /\ Covers(m)
      /\ \A j \in Jobs(m) : j.do \notin {"revert", "move"}
  BY <1>0, <1>1 DEF Recoverers, Recovers, Covered
<1>7. /\ rest.pc = m.pc /\ rest.mem = m.mem /\ rest.before = m.before /\ rest.todo = Tail(m.todo)
      /\ rest.tx = m.tx /\ rest.queue = m.queue
  BY <1>0 DEF Handle, Popped
<1>8. /\ job \in Job /\ Jobs(m) = {job} \union Jobs(rest)
      /\ job.do = "log" => Jobs(m) = {job}
  <2>1. m.todo \in Seq(Job) /\ m.todo # <<>> /\ LogLast(m.todo)
    BY <1>0, <1>1, <1>6 DEF Listed
  <2> QED BY <2>1, <1>7, TailJobs DEF Jobs
<1>9. job \in Jobs(m) /\ Agrees(Latest, m, job) /\ job.do \notin {"revert", "move"}
  BY <1>6, <1>8 DEF Listed
<1>10. /\ \A d \in Docs, path \in Paths : Fixes(job, d, path) => file'[d][path] = FileOf(m.mem[d])[path]
       /\ \A d \in Docs, path \in Paths :
            ~Fixes(job, d, path) /\ ~(job.do = "move" /\ job.d = d /\ path = "live")
              => file'[d][path] = file[d][path]
  BY <1>0, <1>1, <1>8, <1>9, JobEffect, SMTT(40)
<1>11. /\ Now' = Now /\ Latest' = Latest /\ DOMAIN journal' = DOMAIN journal /\ journal' # <<>>
       /\ \A i \in DOMAIN journal : i # Now => (Pending(i)' <=> Pending(i))
       /\ job.do # "log" => (Pending(Now)' <=> Pending(Now))
  BY <1>0, <1>1, <1>3, <1>8, LatestKept
<1>12. index' = IF job.do = "index" THEN Goal ELSE index
  BY <1>1, <1>6, <1>8, <1>9, JobCases
<1>13. han'[h] = rest /\ \A g \in Handles \ {h} : han'[g] = han[g]
  BY <1>0, <1>2 DEF TypeOK
<1>14. Recovering(h)'
  BY <1>1, <1>7, <1>13 DEF Recovering
<1>15. Rest(m, rest)
  BY <1>7 DEF Rest
<1>16. Redoing(m, rest, job)
  BY <1>0, <1>1, <1>3, <1>4, <1>5, <1>6, <1>7, <1>8, <1>9, <1>10, <1>11, <1>12, <1>15 DEF Redoing
<1> QED BY <1>1, <1>3, <1>6, <1>8, <1>11, <1>13, <1>14, <1>16

\* The aim: the index, or the index with the latest document archived.
LEMMA GoalCases ==
  ASSUME TypeOK, LastFits, journal # <<>>, Latest.d \in Docs
  PROVE  /\ Goal \in Entries /\ index \in Entries
         /\ Latest.op # "archive" => Goal = index
         /\ Latest.op = "archive" =>
              /\ index[Latest.d] \in Record /\ Goal[Latest.d] \in Record
              /\ Retired(Goal[Latest.d]) = Retired(index[Latest.d])
              /\ Goal = [index EXCEPT ![Latest.d] = Goal[Latest.d]]
              /\ \/ Goal = index
                 \/ Goal[Latest.d] = Retired(index[Latest.d]) /\ Goal[Latest.d].arch
              /\ index[Latest.d].arch => Goal = index
              /\ file[Latest.d]["archived"] # Nothing =>
                   /\ Goal[Latest.d] = Retired(index[Latest.d]) /\ Goal[Latest.d].arch
                   /\ file[Latest.d]["archived"] = Goal[Latest.d]
              /\ file[Latest.d]["archived"] = Nothing => Goal = index
<1> DEFINE d == Latest.d
           ret == Retired(index[d])
<1>1. index \in Entries
  BY DEF TypeOK
<1>2. CASE Latest.op # "archive"
  BY <1>1, <1>2 DEF Goal
<1>3. CASE Latest.op = "archive"
  <2>1. index[d] \in Record
    BY <1>1, <1>3 DEF LastFits, Fits, Entries
  <2>2. /\ ret \in Record /\ ret.arch /\ Retired(ret) = ret /\ (index[d].arch => ret = index[d])
    BY <2>1, RetiredOnce
  <2>3. file[d]["archived"] \in {Nothing, ret}
    BY <1>3 DEF LastFits
  <2>4. Goal = IF file[d]["archived"] # Nothing THEN [index EXCEPT ![d] = ret] ELSE index
    BY <1>3 DEF Goal
  <2> HIDE DEF ret
  <2>5. CASE file[d]["archived"] # Nothing
    <3>1. Goal = [index EXCEPT ![d] = ret]
      BY <2>4, <2>5
    <3>2. Goal[d] = ret /\ Goal \in Entries
      BY <1>1, <2>2, <3>1 DEF Entries
    <3>3. index[d].arch => Goal = index
      BY <1>1, <2>2, <3>1 DEF Entries
    <3> QED BY <1>1, <1>3, <2>1, <2>2, <2>3, <2>5, <3>1, <3>2, <3>3 DEF ret
  <2>6. CASE file[d]["archived"] = Nothing
    <3>1. Goal = index
      BY <2>4, <2>6
    <3>2. Goal = [index EXCEPT ![d] = Goal[d]]
      BY <1>1, <3>1 DEF Entries
    <3> QED BY <1>1, <1>3, <2>1, <2>6, <3>1, <3>2
  <2> QED BY <2>5, <2>6
<1> QED BY <1>2, <1>3

\* A recovery does not move its aim.
LEMMA GoalKept ==
  ASSUME NEW m, NEW rest, NEW job, Redoing(m, rest, job)
  PROVE  Goal' = Goal
<1> DEFINE d == Latest.d
           copy == file'[d]["archived"]
<1>1. /\ TypeOK /\ LastFits /\ journal # <<>> /\ d \in Docs /\ "archived" \in Paths
      /\ Latest' = Latest /\ journal' # <<>>
      /\ index' \in {index, Goal}
  BY DEF Redoing, Paths
<1>2. CASE Latest.op # "archive"
  BY <1>1, <1>2, GoalCases DEF Goal
<1>3. CASE Latest.op = "archive"
  <2>1. /\ Goal \in Entries /\ index \in Entries /\ index[d] \in Record /\ Goal[d] \in Record
        /\ Retired(Goal[d]) = Retired(index[d])
        /\ Goal = [index EXCEPT ![d] = Goal[d]]
        /\ Goal = index \/ (Goal[d] = Retired(index[d]) /\ Goal[d].arch)
        /\ file[d]["archived"] # Nothing =>
             Goal[d] = Retired(index[d]) /\ Goal[d].arch /\ file[d]["archived"] = Goal[d]
        /\ file[d]["archived"] = Nothing => Goal = index
    BY <1>1, <1>3, GoalCases
  <2>2. Goal' = IF copy # Nothing THEN [index' EXCEPT ![d] = Retired(index'[d])] ELSE index'
    BY <1>1, <1>3 DEF Goal
  <2>3. Retired(index'[d]) = Retired(index[d])
    BY <1>1, <2>1
  <2>4. Goal[d] # Nothing
    BY <2>1, StoreAssumption
  <2>5. copy # Nothing => Goal[d].arch
    <3>1. CASE Fixes(job, d, "archived")
      <4>1. copy = FileOf(Goal[d])["archived"]
        BY <1>1, <3>1 DEF Redoing
      <4> QED BY <4>1, <2>1, <1>1, FileFacts
    <3>2. CASE ~Fixes(job, d, "archived")
      <4>1. copy = file[d]["archived"]
        BY <1>1, <3>2 DEF Redoing
      <4> QED BY <4>1, <2>1
    <3> QED BY <3>1, <3>2
  <2>6. copy = Nothing => Goal = index
    <3>1. CASE Fixes(job, d, "archived")
      <4>1. copy = FileOf(Goal[d])["archived"]
        BY <1>1, <3>1 DEF Redoing
      <4>2. Goal[d].arch => copy = Goal[d]
        BY <4>1, <2>1, <2>4, <1>1, FileFacts
      <4> QED BY <4>2, <2>1, <2>4
    <3>2. CASE ~Fixes(job, d, "archived")
      <4>1. copy = file[d]["archived"]
        BY <1>1, <3>2 DEF Redoing
      <4> QED BY <4>1, <2>1
    <3> QED BY <3>1, <3>2
  <2>7. Goal[d].arch => Retired(index[d]) = Goal[d]
    BY <2>1, RetiredOnce
  <2> HIDE DEF copy
  <2>8. CASE copy # Nothing
    <3>1. Goal' = [index' EXCEPT ![d] = Goal[d]]
      BY <2>2, <2>3, <2>5, <2>7, <2>8
    <3>2. [index' EXCEPT ![d] = Goal[d]] = Goal
      <4>1. CASE index' = index
        BY <4>1, <2>1
      <4>2. CASE index' = Goal
        BY <4>2, <2>1 DEF Entries
      <4> QED BY <4>1, <4>2, <1>1
    <3> QED BY <3>1, <3>2
  <2>9. CASE copy = Nothing
    BY <2>2, <2>6, <2>9, <1>1
  <2> QED BY <2>8, <2>9
<1> QED BY <1>2, <1>3

\* What follows the aim goes on following it; a job does what is held.
LEMMA RedoingFollows ==
  ASSUME NEW m, NEW rest, NEW job, Redoing(m, rest, job), NEW d \in Docs, NEW path \in Paths
  PROVE  /\ Goal' = Goal
         /\ Follows(d, path) => Follows(d, path)'
         /\ Fixes(job, d, path) => Follows(d, path)'
<1>1. Goal' = Goal
  BY GoalKept
<1>2. Fixes(job, d, path) => file'[d][path] = FileOf(Goal[d])[path]
  BY DEF Redoing
<1>3. ~Fixes(job, d, path) => file'[d][path] = file[d][path]
  BY DEF Redoing
<1> QED BY <1>1, <1>2, <1>3 DEF Follows

\* The last transaction's files stay what they can be.
LEMMA RedoingFits ==
  ASSUME NEW m, NEW rest, NEW job, Redoing(m, rest, job)
  PROVE  LastFits'
<1> DEFINE d == Latest.d
<1>1. /\ TypeOK /\ LastFits /\ journal # <<>> /\ d \in Docs /\ "archived" \in Paths
      /\ Latest' = Latest /\ Now' = Now /\ TxShape(Latest) /\ Fits(Now, Latest, index)
      /\ index' \in {index, Goal}
  BY DEF Redoing, Paths, LastFits
<1>2. CASE Latest.op # "archive"
  <2>1. index' = index
    BY <1>1, <1>2, GoalCases
  <2> QED BY <1>1, <1>2, <2>1 DEF LastFits
<1>3. CASE Latest.op = "archive"
  <2>1. /\ Goal \in Entries /\ index \in Entries /\ index[d] \in Record /\ Goal[d] \in Record
        /\ Retired(Goal[d]) = Retired(index[d])
        /\ Goal = index \/ (Goal[d] = Retired(index[d]) /\ Goal[d].arch)
    BY <1>1, <1>3, GoalCases
  <2>2. Goal[d] # Nothing
    BY <2>1, StoreAssumption
  <2>3. Fits(Now, Latest, Goal)
    <3>1. Retired(Goal[d]).rev = Latest.rev
      BY <1>1, <1>3, <2>1 DEF Fits
    <3>2. ~Goal[d].arch => CanArchive(Goal, d)
      BY <1>1, <1>3, <2>1 DEF Fits
    <3> QED BY <1>3, <2>2, <3>1, <3>2 DEF Fits, Creates
  <2>4. file'[d]["archived"] \in {Nothing, Retired(index[d])}
    <3>1. CASE Fixes(job, d, "archived")
      <4>1. file'[d]["archived"] = FileOf(Goal[d])["archived"]
        BY <1>1, <3>1 DEF Redoing
      <4>2. Goal[d].arch => Retired(index[d]) = Goal[d]
        BY <2>1, RetiredOnce
      <4> QED BY <4>1, <4>2, <2>1, <1>1, FileFacts
    <3>2. CASE ~Fixes(job, d, "archived")
      BY <1>1, <1>3, <3>2 DEF Redoing, LastFits
    <3> QED BY <3>1, <3>2
  <2>5. Retired(index'[d]) = Retired(index[d])
    BY <1>1, <2>1
  <2> QED BY <1>1, <1>3, <2>3, <2>4, <2>5 DEF LastFits
<1> QED BY <1>2, <1>3

\* A handle that is behind, or has yet to begin, is so after another's job.
LEMMA RedoingBehind ==
  ASSUME NEW m, NEW rest, NEW job, Redoing(m, rest, job), NEW mem,
         mem = index \/ Behind(mem), Fits(Now, Latest, mem), Alike(Latest, mem, index)
  PROVE  /\ mem = index' \/ Behind(mem)'
         /\ Fits(Now', Latest', mem) /\ Alike(Latest', mem, index')
<1> DEFINE d == Latest.d
<1>1. /\ TypeOK /\ LastFits /\ journal # <<>> /\ d \in Docs /\ "archived" \in Paths
      /\ Latest' = Latest /\ Now' = Now
      /\ index' = IF job.do = "index" THEN Goal ELSE index
  BY DEF Redoing, Paths
<1>2. CASE Latest.op # "archive"
  <2>1. index' = index /\ ~Behind(mem)
    BY <1>1, <1>2, GoalCases DEF Behind
  <2> QED BY <1>1, <1>2, <2>1
<1>3. CASE Latest.op = "archive"
  <2>1. /\ Goal \in Entries /\ index \in Entries /\ index[d] \in Record /\ Goal[d] \in Record
        /\ Retired(Goal[d]) = Retired(index[d])
        /\ Goal = [index EXCEPT ![d] = Goal[d]]
        /\ Goal = index \/ (Goal[d] = Retired(index[d]) /\ Goal[d].arch)
        /\ index[d].arch => Goal = index
        /\ file[d]["archived"] # Nothing => file[d]["archived"] = Goal[d]
        /\ file[d]["archived"] = Nothing => Goal = index
    BY <1>1, <1>3, GoalCases
  <2>2. Alike(Latest', mem, index')
    BY <1>1, <2>1 DEF Alike
  <2>3. CASE Behind(mem)
    <3>1. index[d].arch /\ mem = [index EXCEPT ![d] = mem[d]] /\ file[d]["archived"] = index[d]
      BY <2>3 DEF Behind
    <3>2. index' = index /\ Goal = index
      BY <1>1, <2>1, <3>1
    <3>3. file'[d]["archived"] = index[d]
      <4>1. CASE Fixes(job, d, "archived")
        <5>1. file'[d]["archived"] = FileOf(index[d])["archived"]
          BY <1>1, <3>2, <4>1 DEF Redoing
        <5>2. index[d] # Nothing
          BY <2>1, StoreAssumption
        <5> QED BY <5>1, <5>2, <2>1, <1>1, <3>1, FileFacts
      <4>2. CASE ~Fixes(job, d, "archived")
        BY <1>1, <3>1, <4>2 DEF Redoing
      <4> QED BY <4>1, <4>2
    <3>4. Behind(mem)'
      BY <1>1, <1>3, <3>1, <3>2, <3>3 DEF Behind
    <3> QED BY <3>4, <2>2, <1>1
  <2>4. CASE mem = index /\ index' # index
    <3>1. job.do = "index" /\ index' = Goal /\ Goal # index
      BY <1>1, <2>4
    <3>2. Goal[d].arch /\ file[d]["archived"] = Goal[d]
      BY <2>1, <3>1
    <3>3. file'[d]["archived"] = file[d]["archived"]
      BY <1>1, <3>1 DEF Redoing, Fixes, FileJobs
    <3>4. mem = [index' EXCEPT ![d] = mem[d]]
      BY <2>1, <2>4, <3>1 DEF Entries
    <3>5. Behind(mem)'
      BY <1>1, <1>3, <3>1, <3>2, <3>3, <3>4 DEF Behind
    <3> QED BY <3>5, <2>2, <1>1
  <2> QED BY <1>1, <2>2, <2>3, <2>4
<1> QED BY <1>2, <1>3

\* A job of a recovery keeps the invariant.
LEMMA RecoverWorkSane ==
  ASSUME Steady, NEW h \in Handles, RecoverWork(h)
  PROVE  Sane'
<1>0. PICK m, rest, job : m = han[h] /\ rest = Popped(m) /\ job = Head(han[h].todo)
  OBVIOUS
<1>1. /\ Redoing(m, rest, job) /\ lock = Nothing /\ lock' = lock
      /\ han'[h] = rest /\ \A g \in Handles \ {h} : han'[g] = han[g]
      /\ Recovering(h) /\ Recovering(h)' /\ Covers(m)
      /\ job.do = "log" => Jobs(m) = {job}
      /\ DOMAIN journal' = DOMAIN journal
      /\ \A i \in DOMAIN journal : i # Now => (Pending(i)' <=> Pending(i))
      /\ job.do # "log" => (Pending(Now)' <=> Pending(Now))
  BY <1>0, RedoingJob
<1>2. /\ OneAtATime /\ LastFits /\ Recoverable /\ Covered /\ Recoverers /\ Settled
      /\ Whole /\ Whole' /\ InJournal'
  BY JobWhole DEF Steady, Whole, Sane
<1>3. /\ Now' = Now /\ Latest' = Latest /\ journal # <<>> /\ journal' # <<>> /\ Goal' = Goal
      /\ m.mem = Goal /\ rest.mem = m.mem /\ rest.before = m.before /\ rest.todo = Tail(m.todo)
      /\ rest.queue = {} /\ rest.tx = Now
      /\ Jobs(m) = {job} \union Jobs(rest)
      /\ \A g \in Handles : ~Active(g)
      /\ index' = IF job.do = "index" THEN Goal ELSE index
  BY <1>1, GoalKept DEF Redoing, Rest
<1>4. /\ \A g \in Handles : ~Active(g)' /\ ~Working(g)'
      /\ \A g \in Handles \ {h} : /\ Recovering(g)' <=> Recovering(g)
                                  /\ Busy(g)' <=> Busy(g)
                                  /\ Settling(g)' <=> Settling(g)
  BY <1>1, <1>3 DEF Active, Recovering, Busy, Working, Settling
<1>5. ASSUME NEW d \in Docs, NEW path \in Paths
      PROVE  /\ Follows(d, path) => Follows(d, path)'
             /\ Fixes(job, d, path) => Follows(d, path)'
             /\ Held(d, path) => Follows(d, path)' \/ Held(d, path)'
  <2>1. /\ Follows(d, path) => Follows(d, path)'
        /\ Fixes(job, d, path) => Follows(d, path)'
    BY <1>1, RedoingFollows
  <2>2. ASSUME Held(d, path), ~Follows(d, path)' PROVE Held(d, path)'
    <3>1. PICK g \in Handles : /\ Recovering(g) /\ Latest.op \in Creates
                               /\ \E j \in Jobs(han[g]) : Fixes(j, d, path)
      BY <2>2 DEF Held
    <3>2. PICK j \in Jobs(han[g]) : Fixes(j, d, path)
      BY <3>1
    <3>3. CASE g = h
      <4>1. j \in Jobs(rest)
        BY <1>0, <1>3, <2>1, <2>2, <3>2, <3>3
      <4>2. \E k \in Jobs(han'[h]) : Fixes(k, d, path)
        BY <1>1, <3>2, <4>1
      <4>3. Latest'.op \in Creates
        BY <1>3, <3>1
      <4> QED BY <1>1, <4>2, <4>3 DEF Held, Jobs
    <3>4. CASE g # h
      <4>1. \E k \in Jobs(han'[g]) : Fixes(k, d, path)
        BY <1>1, <3>1, <3>4
      <4>2. Latest'.op \in Creates /\ Recovering(g)'
        BY <1>3, <1>4, <3>1, <3>4
      <4> QED BY <4>1, <4>2 DEF Held, Jobs
    <3> QED BY <3>3, <3>4
  <2> QED BY <2>1, <2>2
<1>6. OneAtATime'
  <2>1. \A i \in DOMAIN journal' : Pending(i)' => i = Now'
    BY <1>1, <1>2, <1>3 DEF OneAtATime
  <2>2. Placed(h)'
    BY <1>1, <1>3, <1>4 DEF Placed
  <2>3. ASSUME NEW g \in Handles \ {h} PROVE Placed(g)'
    <3>1. Placed(g)
      BY <1>2 DEF OneAtATime
    <3> QED BY <3>1, <1>1, <1>3, <1>4 DEF Placed
  <2> QED BY <2>1, <2>2, <2>3 DEF OneAtATime
<1>7. LastFits'
  BY <1>1, RedoingFits
<1>8. Mutation'
  BY <1>4 DEF Mutation
<1>9. Covered'
  <2>1. ASSUME NEW g \in Handles, Settling(g)' PROVE Covers(han[g])'
    <3>1. /\ Covers(han[g]) /\ han[g].mem = Goal
          /\ \A j \in Jobs(han[g]) : j.do # "revert"
      <4>1. Settling(g)
        BY <2>1, <1>0, <1>1, <1>3, <1>4 DEF Settling, Redoing
      <4>2. Recovering(g) /\ han[g].todo # <<>>
        BY <4>1, <1>3 DEF Settling, Working
      <4> QED BY <4>1, <4>2, <1>2 DEF Covered, Recoverers, Recovers
    <3>2. /\ han'[g].mem = Goal' /\ Goal' = Goal
          /\ \A j \in Jobs(han[g]) : j \in Jobs(han'[g]) \/ j = job
      <4>1. CASE g = h
        BY <4>1, <1>0, <1>1, <1>3
      <4>2. CASE g # h
        BY <4>2, <3>1, <1>1, <1>3
      <4> QED BY <4>1, <4>2
    <3>3. ASSUME NEW d \in Docs, NEW path \in Paths
          PROVE  \/ file'[d][path] = FileOf(han'[g].mem[d])[path]
                 \/ \E j \in Jobs(han'[g]) : Fixes(j, d, path)
                 \/ Held(d, path)'
      <4>1. Follows(d, path) \/ (\E j \in Jobs(han[g]) : Fixes(j, d, path)) \/ Held(d, path)
        BY <3>1 DEF Covers, Follows
      <4>2. Follows(d, path)' => file'[d][path] = FileOf(han'[g].mem[d])[path]
        BY <3>2 DEF Follows
      <4> QED BY <4>1, <4>2, <3>2, <1>5
    <3>4. index' = han'[g].mem \/ \E j \in Jobs(han'[g]) : j.do \in {"index", "revert"}
      <4>1. index = Goal \/ \E j \in Jobs(han[g]) : j.do = "index"
        BY <3>1 DEF Covers
      <4> QED BY <4>1, <3>2, <1>3
    <3> QED BY <3>3, <3>4 DEF Covers, Jobs
  <2> QED BY <2>1 DEF Covered
<1>10. Recoverers'
  <2>1. ASSUME NEW g \in Handles, Recovering(g)' PROVE Recovers(han[g])'
    <3>0. Recovers(han[g]) /\ Recovering(g)
      BY <1>1, <1>2, <1>4, <2>1 DEF Recoverers
    <3>1. CASE g = h
      <4>1. /\ rest.mem = Goal' /\ rest.queue = {} /\ Latest' = Latest /\ Now' = Now
        BY <1>3
      <4>2. Recovers(m) /\ m.todo # <<>> /\ m.todo \in Seq(Job)
        BY <1>1 DEF Redoing
      <4>3. Listed(Latest, m)
        BY <4>2 DEF Recovers
      <4>4. LogLast(rest.todo)
        BY <4>2, <4>3, <1>3, TailJobs DEF Listed
      <4>5. \A j \in Jobs(rest) : Agrees(Latest, rest, j)
        BY <4>3, <1>3 DEF Listed, Agrees
      <4>6. Listed(Latest, rest)
        BY <4>4, <4>5 DEF Listed
      <4>7. Recovers(rest)'
        BY <4>1, <4>2, <4>6, <1>3 DEF Recovers
      <4> QED BY <4>7, <3>1, <1>1 DEF Recovers, Behind
    <3>2. CASE g # h
      <4>1. PICK x : x = han[g] /\ han'[g] = x
        BY <1>1, <3>2
      <4>2. Recovers(x)
        BY <3>0, <4>1
      <4>3. x.queue # {} => /\ x.mem = index' \/ Behind(x.mem)'
                            /\ Fits(Now', Latest', x.mem) /\ Alike(Latest', x.mem, index')
        <5>1. x.queue # {} => /\ x.mem = index \/ Behind(x.mem)
                              /\ Fits(Now, Latest, x.mem) /\ Alike(Latest, x.mem, index)
          BY <4>2 DEF Recovers
        <5> QED BY <5>1, <1>1, RedoingBehind
      <4>4. Recovers(x)'
        BY <4>2, <4>3, <1>3 DEF Recovers
      <4> QED BY <4>1, <4>4 DEF Recovers, Behind
    <3> QED BY <3>1, <3>2
  <2> QED BY <2>1 DEF Recoverers
<1>11. Recoverable'
  <2>1. ASSUME NEW d \in Docs, NEW path \in Paths
        PROVE  Follows(d, path)' \/ Held(d, path)' \/ (Pending(Now)' /\ Coverable(d, path)')
    <3>1. ~Undoing
      BY <1>3 DEF Undoing, Working
    <3>2. Follows(d, path) \/ Held(d, path) \/ (Pending(Now) /\ Coverable(d, path))
      BY <3>1, <1>2 DEF Recoverable
    <3>3. Follows(d, path) \/ (\E j \in Jobs(m) : Fixes(j, d, path)) \/ Held(d, path)
      BY <1>1, <1>3 DEF Covers, Follows
    <3>4. CASE job.do = "log"
      <4>1. ~ \E j \in Jobs(m) : Fixes(j, d, path)
        BY <1>1, <3>4 DEF Fixes, FileJobs
      <4> QED BY <4>1, <3>3, <1>5
    <3>5. CASE job.do # "log" /\ Pending(Now) /\ Coverable(d, path) /\ Latest.op \notin Creates
      <4>1. Coverable(d, path)'
        BY <3>5, <1>3 DEF Coverable
      <4>2. Pending(Now)'
        BY <3>5, <1>1
      <4> QED BY <4>1, <4>2
    <3>6. CASE Latest.op \in Creates
      <4>1. Follows(d, path) \/ Held(d, path)
        <5>1. ASSUME NEW j \in Jobs(m), Fixes(j, d, path) PROVE Held(d, path)
          BY <5>1, <3>6, <1>0, <1>1 DEF Held
        <5> QED BY <5>1, <3>3
      <4> QED BY <4>1, <1>5
    <3> QED BY <3>2, <3>4, <3>5, <3>6, <1>5
  <2> QED BY <2>1, <1>3 DEF Recoverable
<1>12. Settled'
  <2>1. ASSUME ~Pending(Now)' PROVE Goal' = index'
    <3>1. ~Pending(Now)'
      BY <2>1
    <3>2. CASE job.do = "log"
      <4>1. index = Goal \/ \E j \in Jobs(m) : j.do \in {"index", "revert"}
        BY <1>1, <1>3 DEF Covers
      <4>2. index = Goal
        BY <4>1, <3>2, <1>1
      <4> QED BY <4>2, <1>3
    <3>3. CASE job.do # "log"
      <4>1. Goal = index
        BY <3>1, <3>3, <1>1, <1>2, <1>3 DEF Settled
      <4> QED BY <4>1, <1>3
    <3> QED BY <3>2, <3>3
  <2> QED BY <2>1 DEF Settled, Pending
<1> QED BY <1>6, <1>7, <1>8, <1>9, <1>10, <1>11, <1>12 DEF Sane

-----------------------------------------------------------------------------
(* The invariant, and what follows from it. *)

\* Every step keeps the invariant while the store meets no weakness.
LEMMA StepSane ==
  ASSUME Steady, NEW h \in Handles, spoilt' = {},
         Mutate(h) \/ Advance(h) \/ Open(h) \/ Close(h) \/ WriteFails(h) \/ Read(h) \/ Die(h)
  PROVE  Sane'
<1>1. CASE Mutate(h)
  <2>1. PICK tx, after, jobs, w : \E pc \in {"mutating", "revoking"} :
           /\ Begin(h, tx, after, jobs, pc, w) /\ Typed(tx, after, jobs) /\ w \subseteq {"refused"}
           /\ "refused" \notin w => Ready(tx, Opening(after, jobs, pc))
    BY <1>1, MutationBegins DEF Steady, Whole
  <2> QED BY <2>1, BeginSane
<1>2. CASE Work(h)
  BY <1>2, WorkSane
<1>3. CASE RecoverWork(h)
  BY <1>3, RecoverWorkSane
<1>4. CASE RecoverNext(h)
  BY <1>4, RecoverNextSane
<1>5. CASE Finish(h) \/ Die(h) \/ Opened(h) \/ Close(h)
  BY <1>5, LeavingSane
<1>6. CASE Open(h)
  BY <1>6, OpenSane
<1>7. CASE WriteFails(h)
  BY <1>7, FailingSane
<1>8. ~Read(h)
  BY DEF Read
<1> QED BY <1>1, <1>2, <1>3, <1>4, <1>5, <1>6, <1>7, <1>8 DEF Advance

\* What the store has met stays met.
LEMMA SpoiltStays ==
  ASSUME Next
  PROVE  spoilt \subseteq spoilt'
<1>1. PICK h \in Handles : Mutate(h) \/ Advance(h) \/ Open(h) \/ Close(h) \/ WriteFails(h) \/ Read(h) \/ Die(h)
  BY DEF Next
<1>2. CASE Mutate(h)
  <2>1. \E tx, after, jobs, pc, w : Begin(h, tx, after, jobs, pc, w)
    BY <1>2, ZenonT(60) DEF Mutate, Create, CreateRefused, Update, Archive, Link
  <2> QED BY <2>1 DEF Begin
<1>3. CASE Advance(h)
  BY <1>3 DEF Advance, Work, Finish, RecoverNext, RecoverWork, Opened
<1> QED BY <1>1, <1>2, <1>3 DEF Open, Close, WriteFails, Read, Die

\* The store starts as it should be.
LEMMA InitSane ==
  ASSUME Init
  PROVE  Sane
<1>1. /\ journal = <<>> /\ DOMAIN journal = {} /\ Goal = index
      /\ file = [d \in Docs |-> FileOf(index[d])]
      /\ \A h \in Handles : han[h].pc = "closed"
  BY DEF Init, Goal, Closed
<1>2. \A h \in Handles : ~Active(h) /\ ~Recovering(h) /\ ~Working(h) /\ ~Busy(h) /\ ~Settling(h)
  BY <1>1 DEF Active, Recovering, Working, Busy, Settling
<1>3. \A d \in Docs, path \in Paths : Follows(d, path)
  BY <1>1 DEF Follows
<1> QED BY <1>1, <1>2, <1>3 DEF Sane, OneAtATime, Placed, LastFits, Mutation, Covered, Recoverers, Recoverable,
      Settled

\* A step that changes nothing the invariant speaks of.
LEMMA StutterSane ==
  ASSUME Steady, Idle, lock' = lock, han' = han
  PROVE  Sane'
<1>1. /\ Now' = Now /\ Latest' = Latest /\ Goal' = Goal /\ \A i : Pending(i)' <=> Pending(i)
      /\ LastFits' /\ Settled'
      /\ index' = index /\ file' = file /\ journal' = journal
  BY IdleSame DEF Steady, Sane, Idle
<1>2. \A h : /\ Active(h)' <=> Active(h)
             /\ Recovering(h)' <=> Recovering(h)
             /\ Working(h)' <=> Working(h)
             /\ Busy(h)' <=> Busy(h)
             /\ Settling(h)' <=> Settling(h)
  BY DEF Active, Recovering, Working, Busy, Settling
<1>3. \A d, path : Held(d, path)' <=> Held(d, path)
  BY <1>1, <1>2 DEF Held
<1>4. OneAtATime'
  <2>1. ASSUME NEW h \in Handles PROVE Placed(h)'
    <3>1. Placed(h)
      BY DEF Steady, Sane, OneAtATime
    <3> QED BY <3>1, <1>1, <1>2 DEF Placed
  <2> QED BY <2>1, <1>1 DEF Steady, Sane, OneAtATime
<1>5. Mutation'
  <2>1. ASSUME NEW h \in Handles, Working(h)' PROVE UnderWay(han[h])'
    <3>1. PICK m : m = han[h] /\ m = han'[h]
      OBVIOUS
    <3>2. UnderWay(m)'
      BY <2>1, <3>1, <1>2, IdleHandle DEF Steady, Sane, Mutation
    <3> QED BY <3>1, <3>2 DEF UnderWay
  <2> QED BY <2>1 DEF Mutation
<1>6. Covered'
  <2>1. ASSUME NEW h \in Handles, Settling(h)' PROVE Covers(han[h])'
    <3>1. Covers(han[h])
      BY <2>1, <1>2 DEF Steady, Sane, Covered
    <3> QED BY <3>1, <1>1, <1>3 DEF Covers
  <2> QED BY <2>1 DEF Covered
<1>7. Recoverers'
  <2>1. ASSUME NEW h \in Handles, Recovering(h)' PROVE Recovers(han[h])'
    <3>1. PICK m : m = han[h] /\ m = han'[h]
      OBVIOUS
    <3>2. Recovers(m)'
      BY <2>1, <3>1, <1>2, IdleHandle DEF Steady, Sane, Recoverers
    <3> QED BY <3>1, <3>2 DEF Recovers, Behind
  <2> QED BY <2>1 DEF Recoverers
<1>8. Recoverable'
  <2>1. Undoing' <=> Undoing
    BY <1>1, <1>2 DEF Undoing
  <2>2. \A d, path : /\ Follows(d, path)' <=> Follows(d, path)
                     /\ Coverable(d, path)' <=> Coverable(d, path)
    BY <1>1 DEF Follows, Coverable
  <2>3. Pending(Now)' <=> Pending(Now)
    BY <1>1
  <2> QED BY <2>1, <2>2, <2>3, <1>1, <1>3 DEF Steady, Sane, Recoverable
<1> QED BY <1>1, <1>4, <1>5, <1>6, <1>7, <1>8 DEF Sane

\* The invariant: while the store has met no weakness, it is as Sane says.
THEOREM Unspoilt == Spec => []DocInv
<1> DEFINE Unless == spoilt = {} => Sane
<1>1. Init => Unless
  BY InitSane
<1>2. Whole /\ Unless /\ [Next]_vars => Unless'
  <2> SUFFICES ASSUME Whole, Unless, [Next]_vars, spoilt' = {} PROVE Sane'
    OBVIOUS
  <2>1. CASE Next
    <3>1. Steady
      BY <2>1, SpoiltStays DEF Steady
    <3> QED BY <2>1, <3>1, StepSane DEF Next
  <2>2. CASE UNCHANGED vars
    <3>1. Idle /\ Steady /\ lock' = lock /\ han' = han /\ spoilt' = spoilt
      BY <2>2 DEF vars, Idle, Steady
    <3> QED BY <3>1, StutterSane
  <2> QED BY <2>1, <2>2
<1>3. Whole /\ Unless => DocInv
  BY DEF DocInv
<1> HIDE DEF Unless
<1> QED BY <1>1, <1>2, <1>3, TypeCorrect, PTL DEF Spec

\* Settled files follow the index: when no transaction is pending and nobody is at
\* work, every entry has its file and no other file is left.
THEOREM FilesFollow == Spec => []FilesFollowIndex
<1>1. DocInv => FilesFollowIndex
  <2> SUFFICES ASSUME DocInv, Quiet, spoilt = {}, NEW d \in Docs PROVE Sound(d)
    BY DEF FilesFollowIndex
  <2>1. Whole /\ TypeOK /\ Recoverable /\ Settled
    BY DEF DocInv, Whole, Sane
  <2>2. /\ \A h \in Handles : ~Working(h) /\ ~Recovering(h)
        /\ \A i \in DOMAIN journal : ~Pending(i)
    BY DEF Quiet, Working, Active, Recovering
  <2>3. journal # <<>> => ~Pending(Now)
    BY <2>1, <2>2, LatestFields
  <2>4. Goal = index
    BY <2>1, <2>3 DEF Settled, Goal
  <2>5. ~Undoing /\ \A path \in Paths : ~Held(d, path)
    BY <2>2 DEF Undoing, Held
  <2>6. \A path \in Paths : file[d][path] = FileOf(index[d])[path]
    BY <2>1, <2>3, <2>4, <2>5 DEF Recoverable, Follows
  <2>7. file[d] \in [Paths -> Content]
    BY <2>1 DEF TypeOK
  <2>8. FileOf(index[d]) = [path \in Paths |-> FileOf(index[d])[path]]
    BY DEF FileOf
  <2> QED BY <2>6, <2>7, <2>8 DEF Sound
<1> QED BY <1>1, Unspoilt, PTL

-----------------------------------------------------------------------------
(* What is called committed. *)

\* What a transaction has achieved by the job that calls it committed.
LEMMA JobApplies ==
  ASSUME TypeOK, journal # <<>>, NEW h \in Handles, han[h].tx = Now, NEW job \in Job, DoJob(h, job),
         job.do = "log", NEW ents, Achieved(Now, Latest, ents), index' = ents, NEW i, i = Now
  PROVE  Applied(i)'
<1> DEFINE tx == journal[Now]
           new == journal'[Now]
<1>1. /\ tx \in Tx /\ Now \in DOMAIN journal /\ job.st \in Status
      /\ Latest.op = tx.op /\ Latest.d = tx.d /\ Latest.to = tx.to
  BY LatestFields DEF TypeOK, Job
<1>2. new = [tx EXCEPT !.status = job.st]
  BY <1>1, JobTypes
<1> HIDE DEF tx, new
<1>4. new.op = tx.op /\ new.d = tx.d /\ new.to = tx.to
  BY <1>1, <1>2 DEF Tx
<1>5. /\ ents[new.d] # Nothing
      /\ new.op \in {"create", "adopt", "update"} => ents[new.d].by = Now
      /\ new.op = "archive" => ents[new.d].arch
      /\ new.op = "link" => <<new.to, "strong">> \in ents[new.d].out
  BY <1>1, <1>4 DEF Achieved
<1> QED BY <1>5 DEF Applied, new

\* A step that calls a transaction committed leaves its effect in the index.
LEMMA StepApplies ==
  ASSUME Steady, Next, NEW i \in DOMAIN journal, Pending(i), journal'[i].status = "committed"
  PROVE  Applied(i)'
<1>0. /\ TypeOK /\ Whole /\ journal \in Seq(Tx) /\ OneAtATime
      /\ Now \in DOMAIN journal /\ journal # <<>>
  BY LatestFields DEF Steady, Whole, TypeOK, Sane
<1>1. PICK h \in Handles : Mutate(h) \/ Advance(h) \/ Open(h) \/ Close(h) \/ WriteFails(h) \/ Read(h) \/ Die(h)
  BY DEF Next
<1>2. journal' # journal /\ i = Now
  BY <1>0 DEF Pending, OneAtATime
<1>3. CASE Mutate(h)
  <2>1. PICK tx, after, jobs, w : \E pc \in {"mutating", "revoking"} :
           Begin(h, tx, after, jobs, pc, w) /\ Typed(tx, after, jobs)
    BY <1>0, <1>3, MutationBegins
  <2>2. journal' = Append(journal, tx)
    BY <2>1 DEF Begin
  <2>3. journal'[i] = journal[i]
    BY <1>0, <2>2
  <2> QED BY <2>3 DEF Pending
<1>4. CASE Work(h)
  <2>1. PICK m, rest, job : m = han[h] /\ rest = Popped(m) /\ job = Head(han[h].todo)
    OBVIOUS
  <2>2. /\ Working(h) /\ Doing(m, rest, job) /\ job \in Job
        /\ job.do = "log" <=> rest.todo = <<>>
        /\ rest.todo = <<>> => Jobs(m) = {job}
        /\ job.do # "log" => Pending(Now)'
    BY <1>4, <2>1, DoingJob, SMTT(40)
  <2>3. /\ DoJob(h, job) /\ han[h].tx = Now /\ Covers(m) /\ \A d, path : ~Held(d, path)
    BY <1>4, <2>1, <2>2, Alone DEF Work
  <2>4. Now' = Now
    BY <2>2 DEF Doing
  <2>5. job.do = "log"
    <3>1. ~Pending(Now)'
      BY <1>2, <2>4 DEF Pending
    <3> QED BY <3>1, <2>2
  <2>6. index' = m.mem
    BY <2>2, <2>3, <2>5, LogSettles
  <2>7. journal'[Now] = [journal[Now] EXCEPT !.status = job.st]
    BY <1>0, <2>2, <2>3, <2>5, JobTypes
  <2>8. job.st = "committed"
    <3>1. journal[Now] \in Tx
      BY <1>0
    <3> QED BY <1>2, <2>7, <3>1 DEF Tx
  <2>9. Achieved(Now, Latest, m.mem)
    <3>1. Planned(Now, Latest, m) /\ m.pc \in {"mutating", "revoking"} /\ job \in Jobs(m)
      BY <2>2 DEF Doing, UnderWay
    <3>2. m.pc # "revoking"
      BY <3>1, <2>5, <2>8 DEF Planned
    <3> QED BY <3>1, <3>2 DEF Planned
  <2> QED BY <1>0, <1>2, <2>2, <2>3, <2>5, <2>6, <2>9, JobApplies
<1>5. CASE RecoverWork(h)
  <2>1. PICK m, rest, job : m = han[h] /\ rest = Popped(m) /\ job = Head(han[h].todo)
    OBVIOUS
  <2>2. /\ Redoing(m, rest, job) /\ Covers(m)
        /\ job.do = "log" => Jobs(m) = {job}
        /\ job.do # "log" => (Pending(Now)' <=> Pending(Now))
    BY <1>5, <2>1, RedoingJob
  <2>3. /\ Now' = Now /\ m.mem = Goal /\ m.todo # <<>> /\ m.todo \in Seq(Job)
        /\ Jobs(m) = {job} \union Jobs(rest) /\ Recovers(m)
        /\ index' = IF job.do = "index" THEN Goal ELSE index
    BY <2>2 DEF Redoing
  <2>4. job.do = "log"
    <3>1. ~Pending(Now)'
      BY <1>2, <2>3 DEF Pending
    <3> QED BY <1>2, <3>1, <2>2
  <2>5. index' = m.mem
    <3>1. index = m.mem \/ \E j \in Jobs(m) : j.do \in {"index", "revert"}
      BY <2>2 DEF Covers
    <3> QED BY <3>1, <2>2, <2>3, <2>4
  <2>6. job \in Job /\ DoJob(h, job) /\ han[h].tx = Now
    <3>1. Recovering(h) /\ han[h].todo # <<>> /\ DoJob(h, job) /\ Busy(h)
      BY <1>5, <2>1 DEF RecoverWork, Busy
    <3>2. han[h].tx = Now
      BY <1>0, <3>1 DEF OneAtATime, Placed
    <3>3. job \in Job
      BY <2>1, <2>3, FirstJob
    <3> QED BY <3>1, <3>2, <3>3
  <2>7. journal'[Now] = [journal[Now] EXCEPT !.status = job.st]
    BY <1>0, <2>4, <2>6, JobTypes
  <2>8. job.st = "committed"
    <3>1. journal[Now] \in Tx
      BY <1>0
    <3> QED BY <1>2, <2>7, <3>1 DEF Tx
  <2>9. Achieved(Now, Latest, m.mem)
    BY <2>3, <2>4, <2>8 DEF Recovers
  <2> QED BY <1>0, <1>2, <2>4, <2>5, <2>6, <2>9, JobApplies
<1>6. CASE Finish(h) \/ WriteFails(h) \/ Read(h) \/ Die(h) \/ Open(h) \/ RecoverNext(h) \/ Opened(h) \/ Close(h)
  <2>1. journal' = journal
    BY <1>6 DEF Finish, WriteFails, Read, Die, Open, RecoverNext, Opened, Close
  <2> QED BY <2>1, <1>2
<1> QED BY <1>1, <1>3, <1>4, <1>5, <1>6 DEF Advance

\* No acknowledged change is lost, and none is called committed that did not
\* happen: a transaction is settled as committed only with its effect in the index.
THEOREM CommittedIsApplied == Spec => CommittedApplied
<1> DEFINE Step == \A i \in DOMAIN journal :
                     Pending(i) /\ journal'[i].status = "committed" /\ spoilt = {} => Applied(i)'
<1>1. DocInv /\ [Next]_vars => [Step]_vars
  <2> SUFFICES ASSUME DocInv, Next, NEW i \in DOMAIN journal, Pending(i), journal'[i].status = "committed",
                      spoilt = {}
               PROVE  Applied(i)'
    OBVIOUS
  <2>1. Steady
    BY DEF DocInv, Steady
  <2> QED BY <2>1, StepApplies
<1> HIDE DEF Step
<1>2. Spec => [][Step]_vars
  BY <1>1, Unspoilt, PTL DEF Spec
<1> QED BY <1>2 DEF CommittedApplied, Step

-----------------------------------------------------------------------------
(* One whole operation at a time. *)

\* One operation of the abstract store.
AsPromised(ents, after, Ids) ==
  \/ \E d \in Docs, out \in SUBSET Promised!Relations, by \in Ids :
        \/ Promised!CanCreate(ents, d, out) /\ after = Promised!Created(ents, d, out, by)
        \/ Promised!CanUpdate(ents, d, out) /\ after = Promised!Updated(ents, d, out, by)
  \/ \E d \in Docs : \/ Promised!CanArchive(ents, d) /\ after = Promised!Archived(ents, d)
                     \/ \E t \in Docs : Promised!CanLink(ents, d, t) /\ after = Promised!Linked(ents, d, t)

\* The abstract store's operations on entries are this store's.
LEMMA SameOperations ==
  ASSUME NEW ents, NEW after, NEW n, NEW Ids, n \in Ids, Changes(n, ents, after)
  PROVE  AsPromised(ents, after, Ids)
<1>1. Promised!Relations = Relations
  BY DEF Promised!Relations, Promised!Strengths, Relations, Strengths
<1>2. ASSUME NEW d, NEW out
      PROVE  /\ CanCreate(ents, d, out) => Promised!CanCreate(ents, d, out)
             /\ CanUpdate(ents, d, out) => Promised!CanUpdate(ents, d, out)
             /\ CanArchive(ents, d) => Promised!CanArchive(ents, d)
             /\ \A t : CanLink(ents, d, t) => Promised!CanLink(ents, d, t)
             /\ Created(ents, d, out, n) = Promised!Created(ents, d, out, n)
             /\ Updated(ents, d, out, n) = Promised!Updated(ents, d, out, n)
             /\ Archived(ents, d) = Promised!Archived(ents, d)
             /\ \A t : Linked(ents, d, t) = Promised!Linked(ents, d, t)
  <2>1. CanCreate(ents, d, out) => Promised!CanCreate(ents, d, out)
    BY Zenon DEF CanCreate, TargetsLive, Differing, IsLive,
       Promised!CanCreate, Promised!TargetsLive, Promised!Differing, Promised!IsLive
  <2>2. CanUpdate(ents, d, out) => Promised!CanUpdate(ents, d, out)
    BY Zenon DEF CanUpdate, TargetsLive, Differing, IsLive,
       Promised!CanUpdate, Promised!TargetsLive, Promised!Differing, Promised!IsLive
  <2>3. CanArchive(ents, d) => Promised!CanArchive(ents, d)
    BY Zenon DEF CanArchive, IsLive, Promised!CanArchive, Promised!IsLive
  <2>4. \A t : CanLink(ents, d, t) => Promised!CanLink(ents, d, t)
    BY Zenon DEF CanLink, IsLive, Promised!CanLink, Promised!IsLive
  <2>5. Created(ents, d, out, n) = Promised!Created(ents, d, out, n)
    BY Zenon DEF Created, NewRecord, WithMirrors, MirrorsAdjusted, Strengths,
       Promised!Created, Promised!NewRecord, Promised!WithMirrors, Promised!MirrorsAdjusted, Promised!Strengths
  <2>6. Updated(ents, d, out, n) = Promised!Updated(ents, d, out, n)
    BY Zenon DEF Updated, WithMirrors, MirrorsAdjusted, Strengths,
       Promised!Updated, Promised!WithMirrors, Promised!MirrorsAdjusted, Promised!Strengths
  <2>7. Archived(ents, d) = Promised!Archived(ents, d)
    BY Zenon DEF Archived, Promised!Archived
  <2>8. \A t : Linked(ents, d, t) = Promised!Linked(ents, d, t)
    BY Zenon DEF Linked, StrongOnly, WithMirrors, MirrorsAdjusted, Strengths,
       Promised!Linked, Promised!StrongOnly, Promised!WithMirrors, Promised!MirrorsAdjusted, Promised!Strengths
  <2> QED BY <2>1, <2>2, <2>3, <2>4, <2>5, <2>6, <2>7, <2>8
<1> QED BY <1>1, <1>2 DEF Changes, AsPromised

\* An operation of this store is one of the abstract store.
LEMMA Changing ==
  ASSUME NEW n \in 1..MaxTx, Changes(n, index, index'), Undo' \in {index, index'}
  PROVE  Promised!Next(1..MaxTx)
<1>1. PICK after, Ids : after = index' /\ Ids = 1..MaxTx /\ Changes(n, index, after) /\ n \in Ids
  OBVIOUS
<1>2. AsPromised(index, after, Ids)
  BY <1>1, SameOperations
<1>3. \/ \E d \in Docs, out \in SUBSET Promised!Relations, by \in Ids :
           Promised!Create(d, out, by) \/ Promised!Update(d, out, by)
      \/ \E d \in Docs : Promised!Archive(d) \/ \E t \in Docs : Promised!Link(d, t)
  BY <1>1, <1>2 DEF AsPromised, Promised!Create, Promised!Update, Promised!Archive, Promised!Link
<1>4. Promised!Change(Ids)
  BY <1>1, <1>3 DEF Promised!Change
<1> QED BY <1>1, <1>4 DEF Promised!Next

\* The entries stay: what can be revoked stays as well, or is acknowledged.
LEMMA Acknowledging ==
  ASSUME index' = index, Undo' \in {Undo, index}
  PROVE  Promised!Next(1..MaxTx) \/ UNCHANGED <<index, Undo>>
BY DEF Promised!Next, Promised!Acknowledge

\* What can be revoked is the lock holder's.
LEMMA UndoOf ==
  ASSUME TypeOK
  PROVE  /\ lock = Nothing => Undo = index
         /\ \A h \in Handles : lock = h =>
              Undo = IF Active(h) /\ Pending(han[h].tx) THEN han[h].before ELSE index
         /\ lock' = Nothing => Undo' = index'
         /\ \A h \in Handles : lock' = h =>
              Undo' = IF Active(h)' /\ Pending(han[h].tx)' THEN han'[h].before ELSE index'
BY StoreAssumption DEF Undo, LockHolder, Active

\* A handle that does not hold the lock, or only changes what it has to do.
LEMMA IdleAtomic ==
  ASSUME Steady, NEW h \in Handles,
         Finish(h) \/ WriteFails(h) \/ Die(h) \/ Open(h) \/ RecoverNext(h) \/ Opened(h) \/ Close(h)
  PROVE  index' = index /\ Undo' \in {Undo, index}
<1>0. /\ Whole /\ TypeOK /\ InJournal
  BY DEF Steady, Whole
<1>1. Idle
  BY <1>0, OtherWhole
<1>2. index' = index /\ journal' = journal /\ \A i : Pending(i)' <=> Pending(i)
  BY <1>1, IdleSame DEF Idle
<1>3. PICK m : han' = [han EXCEPT ![h] = m] /\ (WriteFails(h) =>
                    m = [han[h] EXCEPT !.pc = "revoking", !.mem = han[h].before, !.todo = Rollback(h)])
  <2>1. CASE WriteFails(h)
    BY <2>1 DEF WriteFails
  <2>2. CASE ~WriteFails(h)
    <3>1. \E m : han' = [han EXCEPT ![h] = m]
      <4>1. CASE Finish(h) \/ Die(h) \/ Open(h) \/ Opened(h) \/ Close(h)
        BY <4>1 DEF Finish, Die, Open, Opened, Close
      <4>2. CASE RecoverNext(h)
        BY <4>2, Zenon DEF RecoverNext
      <4> QED BY <2>2, <4>1, <4>2
    <3> QED BY <2>2, <3>1
  <2> QED BY <2>1, <2>2
<1>4. /\ \A g \in Handles \ {h} : han'[g] = han[g]
      /\ han'[h] = m
  BY <1>0, <1>3 DEF TypeOK
<1>5. lock \in Handles \union {Nothing}
  BY <1>0 DEF TypeOK
<1>6. CASE lock' = Nothing
  BY <1>0, <1>2, <1>6, UndoOf
<1>7. CASE lock' = lock /\ lock \in Handles /\ lock # h
  <2>1. PICK g \in Handles \ {h} : lock = g
    BY <1>7
  <2>2. /\ Active(g)' <=> Active(g)
        /\ Pending(han[g].tx)' <=> Pending(han[g].tx)
        /\ han'[g].before = han[g].before
    BY <1>2, <1>4 DEF Active, Pending
  <2> QED BY <1>0, <1>2, <1>7, <2>1, <2>2, UndoOf
<1>8. CASE WriteFails(h)
  <2>1. /\ Active(h) /\ lock = h /\ lock' = h
    BY <1>0, <1>8 DEF WriteFails, Active, InJournal
  <2>2. han[h] \in Handle
    BY <1>0, HandleFields
  <2>3. m = [han[h] EXCEPT !.pc = "revoking", !.mem = han[h].before, !.todo = Rollback(h)]
    BY <1>3, <1>8
  <2>4. m.pc = "revoking" /\ m.tx = han[h].tx /\ m.before = han[h].before
    BY <2>2, <2>3 DEF Handle
  <2>5. Active(h)' /\ (Pending(han[h].tx)' <=> Pending(han[h].tx)) /\ han'[h].before = han[h].before
    BY <1>2, <1>4, <2>4 DEF Active, Pending
  <2> QED BY <1>0, <1>2, <2>1, <2>5, UndoOf
<1>9. CASE ~WriteFails(h)
  <2>1. lock' = Nothing \/ (lock' = lock /\ lock # h)
    <3>1. Active(h) <=> lock = h
      BY <1>0 DEF InJournal
    <3>2. CASE Finish(h)
      BY <3>2 DEF Finish
    <3>3. CASE Die(h)
      BY <3>3 DEF Die
    <3>4. CASE Open(h) \/ RecoverNext(h) \/ Opened(h) \/ Close(h)
      BY <3>1, <3>4 DEF Open, RecoverNext, Opened, Close, Active, Recovering
    <3> QED BY <1>9, <3>2, <3>3, <3>4
  <2> QED BY <1>5, <1>6, <1>7, <2>1
<1> QED BY <1>8, <1>9

\* A job changes the entries by the whole operation, takes it back, or leaves them.
LEMMA WorkAtomic ==
  ASSUME Steady, NEW h \in Handles, Work(h)
  PROVE  Promised!Next(1..MaxTx) \/ UNCHANGED <<index, Undo>>
<1>1. PICK m, rest, job : m = han[h] /\ rest = Popped(m) /\ job = Head(han[h].todo)
  OBVIOUS
<1>2. /\ Working(h) /\ Doing(m, rest, job)
      /\ job.do = "log" <=> rest.todo = <<>>
      /\ rest.todo = <<>> => Jobs(m) = {job}
      /\ job.do # "log" => Pending(Now)'
      /\ job.do = "log" => ~Pending(Now)'
      /\ han'[h] = rest /\ lock' = lock /\ rest.tx = m.tx
  BY <1>1, DoingJob
<1>3. /\ lock = h /\ Active(h) /\ m.tx = Now /\ Pending(han[h].tx) /\ journal # <<>>
      /\ Covers(m) /\ \A d, path : ~Held(d, path)
  BY <1>1, <1>2, Alone
<1>4. TypeOK /\ Now \in 1..MaxTx
  <2>1. TypeOK
    BY DEF Steady, Whole
  <2>2. Now \in DOMAIN journal /\ DOMAIN journal = 1..Now /\ Now \in 0..MaxTx /\ MaxTx \in Nat
    BY <1>3, <2>1, LatestFields, HandleFields, StoreAssumption DEF Now
  <2> QED BY <2>1, <2>2
<1>5. Undo = m.before
  BY <1>1, <1>3, <1>4, UndoOf
<1>6. /\ rest.pc = m.pc /\ rest.before = m.before /\ rest.mem = m.mem /\ Now' = Now
      /\ Planned(Now, Latest, m) /\ job \in Jobs(m) /\ m.pc \in {"mutating", "revoking"}
      /\ UnderWay(m) /\ Agrees(Latest, m, job)
  BY <1>2 DEF Doing, Rest, UnderWay
<1>7. Active(h)' /\ (Pending(han[h].tx)' <=> Pending(Now)')
  <2>1. han'[h].pc = m.pc /\ han'[h].tx = Now'
    BY <1>2, <1>3, <1>6
  <2> QED BY <2>1, <1>6 DEF Active, Pending
<1>8. Undo' = IF Pending(Now)' THEN m.before ELSE index'
  BY <1>2, <1>3, <1>4, <1>6, <1>7, UndoOf
<1>9. CASE job.do = "log"
  <2>1. index' = index /\ Undo' = index
    BY <1>2, <1>8, <1>9 DEF Doing
  <2> QED BY <2>1, Acknowledging
<1>10. CASE job.do = "index"
  <2>1. m.pc = "mutating"
    BY <1>6, <1>10 DEF Planned
  <2>2. index = m.before /\ Changes(Now, m.before, m.mem)
    BY <1>6, <1>10, <2>1 DEF UnderWay, Planned
  <2>3. index' = m.mem /\ Undo' = index
    BY <1>2, <1>8, <1>10, <2>2 DEF Doing
  <2>4. Changes(Now, index, index')
    BY <2>2, <2>3
  <2> QED BY <1>4, <2>3, <2>4, Changing
<1>11. CASE job.do = "revert"
  <2>1. index' = m.before /\ Undo' = m.before
    BY <1>2, <1>6, <1>8, <1>11 DEF Doing, Agrees
  <2> QED BY <1>5, <2>1 DEF Promised!Next, Promised!Revoke
<1>12. CASE job.do \notin {"log", "index", "revert"}
  <2>1. index' = index /\ Undo' = Undo
    BY <1>2, <1>5, <1>8, <1>12 DEF Doing
  <2> QED BY <2>1
<1> QED BY <1>9, <1>10, <1>11, <1>12

\* A recovery's job archives a document as a whole, or leaves the entries.
LEMMA RecoverWorkAtomic ==
  ASSUME Steady, NEW h \in Handles, RecoverWork(h)
  PROVE  Promised!Next(1..MaxTx) \/ UNCHANGED <<index, Undo>>
<1> DEFINE d == Latest.d
<1>1. PICK m, rest, job : m = han[h] /\ rest = Popped(m) /\ job = Head(han[h].todo)
  OBVIOUS
<1>2. /\ Redoing(m, rest, job) /\ lock = Nothing /\ lock' = lock
  BY <1>1, RedoingJob
<1>3. /\ index' \in {index, Goal} /\ TypeOK /\ LastFits /\ journal # <<>> /\ d \in Docs
  BY <1>2 DEF Redoing
<1>4. Undo = index /\ Undo' = index'
  BY <1>2, <1>3, UndoOf
<1>5. CASE index' = index
  BY <1>4, <1>5
<1>6. CASE index' = Goal /\ Goal # index
  <2>1. /\ Latest.op = "archive" /\ index[d] \in Record /\ ~index[d].arch
        /\ Goal = [index EXCEPT ![d] = Retired(index[d])]
    BY <1>3, <1>6, GoalCases
  <2>2. CanArchive(index, d)
    BY <1>3, <2>1 DEF LastFits, Fits
  <2>3. Goal = Archived(index, d)
    <3>1. Retired(index[d]) = [index[d] EXCEPT !.arch = TRUE, !.rev = @ + 1]
      BY <2>1, Zenon DEF Retired
    <3>2. Archived(index, d) = [index EXCEPT ![d] = [index[d] EXCEPT !.arch = TRUE, !.rev = @ + 1]]
      BY DEF Archived
    <3> QED BY <2>1, <3>1, <3>2, Zenon
  <2>4. Changes(1, index, index') /\ 1 \in 1..MaxTx
    <3>1. Changes(1, index, index')
      BY <1>3, <1>6, <2>2, <2>3 DEF Changes
    <3>2. Now \in DOMAIN journal /\ DOMAIN journal = 1..Now /\ Now \in 0..MaxTx /\ MaxTx \in Nat
      BY <1>3, LatestFields, HandleFields, StoreAssumption DEF Now
    <3> QED BY <3>1, <3>2
  <2> QED BY <1>4, <2>4, Changing
<1> QED BY <1>3, <1>5, <1>6

\* The entries change by one whole operation at a time, and a failed one is revoked
\* as a whole: what the abstract store promises, step by step.
THEOREM AtomicSteps == Spec => AtomicUnlessSpoilt
<1> DEFINE Step == spoilt' = {} => Promised!Next(1..MaxTx)
           shown == <<index, Undo>>
<1>1. DocInv /\ [Next]_vars => [Step]_shown
  <2> SUFFICES ASSUME DocInv, [Next]_vars, spoilt' = {}
               PROVE  Promised!Next(1..MaxTx) \/ UNCHANGED shown
    OBVIOUS
  <2>1. CASE UNCHANGED vars
    <3>1. Undo' = Undo /\ index' = index
      BY <2>1 DEF vars, Undo, LockHolder, Pending
    <3> QED BY <3>1
  <2>2. CASE Next
    <3>1. Steady /\ TypeOK
      BY <2>2, SpoiltStays DEF Steady, DocInv, Whole
    <3>2. PICK h \in Handles :
            Mutate(h) \/ Advance(h) \/ Open(h) \/ Close(h) \/ WriteFails(h) \/ Read(h) \/ Die(h)
      BY <2>2 DEF Next
    <3>3. CASE Mutate(h)
      <4>1. PICK tx, after, jobs, w : \E pc \in {"mutating", "revoking"} : Begin(h, tx, after, jobs, pc, w)
        BY <3>1, <3>3, MutationBegins
      <4>2. lock = Nothing /\ lock' = h /\ index' = index /\ han'[h].before = index
        BY <3>1, <4>1 DEF Begin, TypeOK
      <4>3. Undo' = index /\ Undo = index
        BY <3>1, <4>2, UndoOf
      <4> QED BY <4>2, <4>3
    <3>4. CASE Work(h)
      BY <3>1, <3>4, WorkAtomic
    <3>5. CASE RecoverWork(h)
      BY <3>1, <3>5, RecoverWorkAtomic
    <3>6. CASE Finish(h) \/ WriteFails(h) \/ Die(h) \/ Open(h) \/ RecoverNext(h) \/ Opened(h) \/ Close(h)
      BY <3>1, <3>6, IdleAtomic, Acknowledging
    <3>7. ~Read(h)
      BY DEF Read
    <3> QED BY <3>2, <3>3, <3>4, <3>5, <3>6, <3>7 DEF Advance
  <2> QED BY <2>1, <2>2
<1> HIDE DEF Step, shown
<1>2. Spec => [][Step]_shown
  BY <1>1, Unspoilt, PTL DEF Spec
<1> QED BY <1>2 DEF AtomicUnlessSpoilt, Step, shown
====
