------------------------ MODULE ServerProfilesProofs ------------------------
(***************************************************************************)
(* Theorems about the profiles, for every list of ids, every set of        *)
(* threads and every bound: types, with an index that names no profile     *)
(* twice, and that no profile is written over.                             *)
(***************************************************************************)
EXTENDS ServerProfiles, WellFoundedInduction, SequenceTheorems, TLAPS

\* The least number for which something does not hold.
LEMMA Least ==
    ASSUME NEW T \in SUBSET Nat, T # {}
    PROVE  \E m \in T : \A i \in T : m <= i
<1>1. PICK m \in T : \A i \in T : ~ <<i, m>> \in OpToRel(<, Nat)
    BY NatLessThanWellFounded, WFMin
<1>2. \A i \in T : m <= i
    <2>1. ASSUME NEW i \in T, i < m
          PROVE  FALSE
        <3>1. <<i, m>> \in Nat \X Nat /\ <<i, m>>[1] = i /\ <<i, m>>[2] = m
            OBVIOUS
        <3>2. <<i, m>> \in OpToRel(<, Nat)
            BY <2>1, <3>1 DEF OpToRel
        <3> QED BY <1>1, <3>2
    <2> QED BY <2>1
<1> QED BY <1>2

\* One step of the comprehension: what it keeps of the first n members.
StepKept(list, keep, f, n) ==
    IF n = 0 THEN <<>>
    ELSE IF list[n] \in keep THEN Append(f[n - 1], list[n])
    ELSE f[n - 1]

\* The comprehension has a value for every prefix.
LEMMA KeptExists ==
    ASSUME NEW T, NEW list \in Seq(T), NEW keep, NEW n \in 0 .. Len(list)
    PROVE  \E f \in [0 .. n -> Seq(T)] :
               \A m \in 0 .. n : f[m] = StepKept(list, keep, f, m)
<1> DEFINE Has(k) == \E f \in [0 .. k -> Seq(T)] :
                         \A m \in 0 .. k : f[m] = StepKept(list, keep, f, m)
           Bad == {k \in 0 .. Len(list) : ~ Has(k)}
<1>1. SUFFICES ASSUME Bad # {} PROVE FALSE
    BY <1>1
<1>2. Len(list) \in Nat /\ Bad \in SUBSET Nat
    OBVIOUS
<1>3. PICK k \in Bad : \A i \in Bad : k <= i
    <2> HIDE DEF Bad
    <2> QED BY <1>1, <1>2, Least
<1>4. k \in Nat /\ k <= Len(list) /\ ~ Has(k)
    OBVIOUS
<1>5. k # 0
    <2>1. ASSUME k = 0 PROVE FALSE
        <3> DEFINE f == [i \in 0 .. 0 |-> <<>>]
        <3>1. f \in [0 .. 0 -> Seq(T)]
            BY EmptySeq
        <3>2. \A m \in 0 .. 0 : f[m] = StepKept(list, keep, f, m)
            BY DEF StepKept
        <3> HIDE DEF f
        <3> QED BY <1>4, <2>1, <3>1, <3>2
    <2> QED BY <2>1
<1>6. k - 1 \in 0 .. Len(list) /\ k - 1 \in Nat
    BY <1>2, <1>4, <1>5
<1>7. k - 1 \notin Bad
    <2> HIDE DEF Bad
    <2> QED BY <1>3, <1>4, <1>6
<1>8. PICK g \in [0 .. (k - 1) -> Seq(T)] :
          \A m \in 0 .. (k - 1) : g[m] = StepKept(list, keep, g, m)
    BY <1>6, <1>7
<1> HIDE DEF Bad
<1> DEFINE f == [i \in 0 .. k |-> IF i = k THEN StepKept(list, keep, g, k) ELSE g[i]]
<1>9. list[k] \in T /\ g[k - 1] \in Seq(T)
    BY <1>4, <1>5, <1>8, ElementOfSeq
<1>10. StepKept(list, keep, g, k) \in Seq(T)
    BY <1>5, <1>9, AppendProperties DEF StepKept
<1>11. f \in [0 .. k -> Seq(T)]
    BY <1>4, <1>8, <1>10
<1>12. ASSUME NEW m \in 0 .. k
       PROVE  f[m] = StepKept(list, keep, f, m)
    <2>1. StepKept(list, keep, f, m) = StepKept(list, keep, g, m)
        BY <1>4 DEF StepKept
    <2> QED BY <1>4, <1>8, <2>1
<1> HIDE DEF f
<1> QED BY <1>4, <1>11, <1>12

\* What it keeps is what is in the set, in a list without doubles if there
\* were none.
LEMMA KeptIs ==
    ASSUME NEW T, NEW list \in Seq(T), NEW keep
    PROVE  /\ Kept(list, keep) \in Seq(T)
           /\ ToSet(Kept(list, keep)) = ToSet(list) \cap keep
           /\ IsInjective(list) => IsInjective(Kept(list, keep))
<1> DEFINE L == Len(list)
           upTo == CHOOSE f : f = [n \in 0 .. L |-> StepKept(list, keep, f, n)]
<1>1. L \in Nat /\ L \in 0 .. Len(list)
    OBVIOUS
<1>2. \E f \in [0 .. L -> Seq(T)] :
          \A m \in 0 .. L : f[m] = StepKept(list, keep, f, m)
    <2> HIDE DEF L
    <2> QED BY <1>1, KeptExists
<1>3. PICK f0 \in [0 .. L -> Seq(T)] :
          \A m \in 0 .. L : f0[m] = StepKept(list, keep, f0, m)
    BY <1>2
<1>4. f0 = [n \in 0 .. L |-> StepKept(list, keep, f0, n)]
    <2>1. f0 = [n \in 0 .. L |-> f0[n]]
        BY <1>3
    <2>2. [n \in 0 .. L |-> f0[n]] = [n \in 0 .. L |-> StepKept(list, keep, f0, n)]
        BY <1>3
    <2> QED BY <2>1, <2>2
<1>5. upTo = [n \in 0 .. L |-> StepKept(list, keep, upTo, n)]
    BY <1>4
<1>6. Kept(list, keep) = upTo[L]
    BY DEF Kept, StepKept
<1> HIDE DEF upTo
<1>7. \A n \in 0 .. L : upTo[n] = StepKept(list, keep, upTo, n)
    BY <1>5
<1> DEFINE Fine(n) ==
               /\ upTo[n] \in Seq(T)
               /\ ToSet(upTo[n]) = {list[i] : i \in 1 .. n} \cap keep
               /\ IsInjective(list) => IsInjective(upTo[n])
           Bad == {n \in 0 .. L : ~ Fine(n)}
<1>8. Bad = {}
    <2>1. SUFFICES ASSUME Bad # {} PROVE FALSE
        BY <2>1
    <2>2. Bad \in SUBSET Nat
        BY <1>1
    <2>3. PICK k \in Bad : \A i \in Bad : k <= i
        <3> HIDE DEF Bad
        <3> QED BY <2>1, <2>2, Least
    <2>4. k \in 0 .. L /\ k \in Nat /\ ~ Fine(k)
        BY <1>1
    <2>5. CASE k = 0
        <3>1. upTo[k] = <<>>
            BY <1>7, <2>4, <2>5 DEF StepKept
        <3>2. ToSet(<<>>) = {} /\ {list[i] : i \in 1 .. 0} = {}
            BY DEF ToSet
        <3>3. IsInjective(<<>>)
            BY DEF IsInjective
        <3> QED BY <2>4, <2>5, <3>1, <3>2, <3>3, EmptySeq
    <2>6. CASE k # 0
        <3> DEFINE q == upTo[k - 1]
        <3>1. k - 1 \in 0 .. L /\ k - 1 < k
            BY <1>1, <2>4, <2>6
        <3>2. k - 1 \notin Bad
            <4> HIDE DEF Bad
            <4> QED BY <1>1, <2>3, <2>4, <3>1
        <3>3. Fine(k - 1)
            BY <3>1, <3>2
        <3>4. list[k] \in T /\ {list[i] : i \in 1 .. k} =
                               {list[i] : i \in 1 .. (k - 1)} \cup {list[k]}
            <4>1. 1 .. k = (1 .. (k - 1)) \cup {k}
                BY <2>4, <2>6
            <4>2. k \in 1 .. L
                BY <1>1, <2>4, <2>6
            <4> QED BY <4>1, <4>2, ElementOfSeq
        <3>5. CASE list[k] \notin keep
            <4>1. upTo[k] = q
                BY <1>7, <2>4, <2>6, <3>5 DEF StepKept
            <4> QED BY <2>4, <3>3, <3>4, <3>5, <4>1
        <3>6. CASE list[k] \in keep
            <4>1. upTo[k] = Append(q, list[k])
                BY <1>7, <2>4, <2>6, <3>6 DEF StepKept
            <4> HIDE DEF q, Bad
            <4>2. q \in Seq(T) /\ ToSet(q) = {list[i] : i \in 1 .. (k - 1)} \cap keep
                BY <3>3 DEF q
            <4>3. /\ upTo[k] \in Seq(T) /\ Len(upTo[k]) = Len(q) + 1
                  /\ \A i \in 1 .. Len(q) : upTo[k][i] = q[i]
                  /\ upTo[k][Len(q) + 1] = list[k]
                BY <3>4, <4>1, <4>2, AppendProperties
            <4>4. DOMAIN upTo[k] = 1 .. (Len(q) + 1) /\ DOMAIN q = 1 .. Len(q)
                  /\ Len(q) \in Nat
                BY <4>2, <4>3
            <4>5. ToSet(upTo[k]) = ToSet(q) \cup {list[k]}
                <5>1. 1 .. (Len(q) + 1) = (1 .. Len(q)) \cup {Len(q) + 1}
                    BY <4>4
                <5> QED BY <4>3, <4>4, <5>1 DEF ToSet
            <4>6. ASSUME IsInjective(list)
                  PROVE  IsInjective(upTo[k])
                <5>1. list[k] \notin ToSet(q)
                    <6>1. \A i \in 1 .. (k - 1) : list[i] # list[k]
                        BY <1>1, <2>4, <2>6, <4>6 DEF IsInjective
                    <6> QED BY <4>2, <6>1
                <5>2. \A i \in 1 .. Len(q) : q[i] # list[k]
                    BY <4>4, <5>1 DEF ToSet
                <5>3. IsInjective(q)
                    BY <3>3, <4>6 DEF q
                <5> QED BY <4>3, <4>4, <5>2, <5>3 DEF IsInjective
            <4>7. ToSet(upTo[k]) = {list[i] : i \in 1 .. k} \cap keep
                BY <3>4, <3>6, <4>2, <4>5
            <4> QED BY <2>4, <4>3, <4>6, <4>7
        <3> QED BY <3>5, <3>6
    <2> QED BY <2>5, <2>6
<1>9. Fine(L)
    BY <1>1, <1>8
<1>10. ToSet(list) = {list[i] : i \in 1 .. L}
    BY DEF ToSet
<1> QED BY <1>6, <1>9, <1>10
-----------------------------------------------------------------------------
(* The invariant. *)

GoodIndex == {i \in Index : IsInjective(i.ids)}

Thread == [pc : Pcs, op : Ops, server : Servers \cup {None}, copy : GoodIndex]

\* What a thread holds at each step: a profile where one is named, and an
\* environment's profile where that is written.
Fits(r) ==
    /\ r.pc \in {"migrate", "adopt"} => EnvServer # None
    /\ r.op \in {"patch", "activate", "delete", "replace", "succeed"} =>
          r.server \in Servers
    /\ r.pc \in {"profile", "reindex", "append", "point", "cut", "unlink"} =>
          r.server \in Servers
    /\ r.pc = "profile" => r.op \in {"create", "patch"}
    /\ r.pc \in {"cut", "unlink"} => r.op = "delete" \/
          (r.op = "replace" /\ r.copy.active \in Servers)

GoodThread == {r \in Thread : Fits(r)}

\* The id a create has picked is still free, unless a thread wrote the
\* environment's profile meanwhile.
PickIsFree ==
    LET r == thread[Loop] IN
    r.pc = "profile" /\ r.op = "create" =>
        \/ disk[r.server] = 0
        \/ r.server = EnvServer /\ disk[r.server] = MaxEdits + 1

TypesInv ==
    /\ index \in GoodIndex
    /\ disk \in [Servers -> 0 .. (MaxEdits + 2)] /\ policy \in Servers \cup {None}
    /\ thread \in [Threads -> GoodThread]
    /\ edits \in 0 .. MaxEdits /\ crashes \in 0 .. MaxCrashes

Inv == TypesInv /\ PickIsFree

LEMMA InvTypeOK == TypesInv => TypeOK
BY DEF TypesInv, TypeOK, GoodThread, Thread, GoodIndex

LEMMA EmptyIndexIs == EmptyIndex \in GoodIndex
<1>1. <<>> \in Seq(Servers) /\ IsInjective(<<>>)
    BY EmptySeq DEF IsInjective
<1> QED BY <1>1 DEF EmptyIndex, GoodIndex, Index

LEMMA LoopIs == Loop \in Threads
BY DEF Threads

LEMMA IdleIs ==
    ASSUME NEW op \in Ops, NEW s \in Servers \cup {None}, NEW pc \in {"idle", "index", "reindex"},
           op \in {"patch", "activate", "delete", "replace", "succeed"} => s \in Servers,
           pc = "reindex" => s \in Servers
    PROVE  /\ [Idle EXCEPT !.op = op, !.server = s, !.pc = pc] \in GoodThread
           /\ [pc |-> pc, op |-> op, server |-> s, copy |-> EmptyIndex] \in GoodThread
           /\ Idle \in GoodThread
BY EmptyIndexIs DEF Idle, GoodThread, Thread, Fits, Pcs, WritePcs, Ops

LEMMA StartingIs == Starting \in [Threads -> GoodThread]
BY EmptyIndexIs DEF Starting, Idle, GoodThread, Thread, Fits, Pcs, WritePcs, Ops

LEMMA InitInv == Init => Inv
<1> SUFFICES ASSUME Init PROVE Inv
    OBVIOUS
<1>1. disk \in [Servers -> 0 .. (MaxEdits + 2)]
    BY ProfilesAssumption DEF Init
<1>2. TypesInv
    BY <1>1, EmptyIndexIs, StartingIs, ProfilesAssumption DEF Init, TypesInv
<1>3. PickIsFree
    BY LoopIs DEF Init, PickIsFree, Starting, Idle
<1> QED BY <1>2, <1>3 DEF Inv

\* One thread goes on.
LEMMA OneMoves ==
    ASSUME thread \in [Threads -> GoodThread], NEW t \in Threads, NEW r \in GoodThread,
           thread' = [thread EXCEPT ![t] = r]
    PROVE  /\ thread' \in [Threads -> GoodThread] /\ thread'[t] = r
           /\ \A u \in Threads : u # t => thread'[u] = thread[u]
OBVIOUS

LEMMA ReadableIs ==
    ASSUME index \in GoodIndex, NEW t, NEW copy \in Readable(t)
    PROVE  copy \in GoodIndex
BY EmptyIndexIs DEF Readable

LEMMA WrittenIs ==
    ASSUME NEW value \in GoodIndex, NEW t, Written(t, value)
    PROVE  index' \in GoodIndex
BY EmptyIndexIs DEF Written

LEMMA OnDiskIs == /\ OnDisk \in Seq(Servers) /\ IsInjective(OnDisk)
                  /\ OnDisk # <<>> => Head(OnDisk) \in Servers
<1>1. Names \in Seq(Servers) /\ IsInjective(Names)
    BY ProfilesAssumption
<1>2. OnDisk \in Seq(Servers) /\ IsInjective(OnDisk)
    BY <1>1, KeptIs DEF OnDisk
<1> QED BY <1>2

LEMMA ReconciledIs ==
    ASSUME NEW copy \in GoodIndex
    PROVE  Reconciled(copy) \in GoodIndex
<1>1. copy.active \in Servers \cup {None}
    BY DEF GoodIndex, Index
<1>2. CASE OnDisk = <<>>
    BY <1>2, EmptyIndexIs DEF Reconciled
<1>3. CASE OnDisk # <<>>
    BY <1>1, <1>3, OnDiskIs DEF Reconciled, GoodIndex, Index
<1> QED BY <1>2, <1>3

LEMMA WithoutIs ==
    ASSUME NEW ids \in Seq(Servers), IsInjective(ids), NEW s \in Servers
    PROVE  /\ Without(ids, s) \in Seq(Servers) /\ IsInjective(Without(ids, s))
           /\ Len(ids) > 1 => Head(Without(ids, s)) \in Servers
<1> DEFINE left == Without(ids, s)
<1>1. left \in Seq(Servers) /\ IsInjective(left)
      /\ ToSet(left) = ToSet(ids) \cap (Servers \ {s})
    BY KeptIs DEF Without
<1> HIDE DEF left
<1>2. ASSUME Len(ids) > 1
      PROVE  left # <<>>
    <2>1. Len(ids) \in Nat /\ 1 \in DOMAIN ids /\ 2 \in DOMAIN ids /\ ids[1] # ids[2]
        BY <1>2 DEF IsInjective
    <2>2. PICK i \in {1, 2} : ids[i] # s /\ i \in DOMAIN ids
        BY <2>1
    <2>3. ids[i] \in ToSet(left)
        BY <1>1, <2>2 DEF ToSet
    <2>4. ToSet(<<>>) = {}
        BY DEF ToSet
    <2> QED BY <2>3, <2>4
<1>3. left # <<>> => Head(left) \in Servers
    BY <1>1
<1> QED BY <1>1, <1>2, <1>3 DEF left

LEMMA WithIs ==
    ASSUME NEW ids \in Seq(Servers), IsInjective(ids), NEW s \in Servers
    PROVE  With(ids, s) \in Seq(Servers) /\ IsInjective(With(ids, s))
<1>1. CASE s \in ToSet(ids)
    BY <1>1 DEF With
<1>2. CASE s \notin ToSet(ids)
    <2>1. With(ids, s) = Append(ids, s)
        BY <1>2 DEF With
    <2>2. \A i \in 1 .. Len(ids) : ids[i] # s
        BY <1>2 DEF ToSet
    <2> QED BY <2>1, <2>2 DEF IsInjective
<1> QED BY <1>1, <1>2

\* finish: what comes after a request.
LEMMA FinishIs ==
    ASSUME thread \in [Threads -> GoodThread], NEW t \in Threads, Finish(t)
    PROVE  /\ thread' \in [Threads -> GoodThread]
           /\ \A u \in Threads : u # t => thread'[u] = thread[u]
           /\ thread'[t].pc # "profile"
<1> DEFINE r == CASE thread[t].op = "list" -> [Idle EXCEPT !.op = "relist", !.pc = "index"]
                  [] thread[t].op = "succeed" -> [Idle EXCEPT !.op = "list", !.pc = "index"]
                  [] OTHER -> Idle
<1>1. r \in GoodThread /\ r.pc # "profile"
    BY EmptyIndexIs DEF Idle, GoodThread, Thread, Fits, Pcs, WritePcs, Ops
<1>2. thread' = [thread EXCEPT ![t] = r]
    BY DEF Finish
<1> HIDE DEF r
<1> QED BY <1>1, <1>2, OneMoves

LEMMA GoOnIs ==
    ASSUME thread \in [Threads -> GoodThread], NEW t \in Threads, GoOn(t)
    PROVE  /\ thread' \in [Threads -> GoodThread]
           /\ \A u \in Threads : u # t => thread'[u] = thread[u]
           /\ thread'[t].pc # "profile"
<1>1. CASE thread[t].op \in {"create", "patch"}
    <2> DEFINE r == [thread[t] EXCEPT !.pc = "pick"]
    <2>1. thread' = [thread EXCEPT ![t] = r]
        BY <1>1 DEF GoOn, Goto
    <2>2. r \in GoodThread /\ r.pc # "profile"
        BY DEF GoodThread, Thread, Fits, Pcs, WritePcs
    <2> HIDE DEF r
    <2> QED BY <2>1, <2>2, OneMoves
<1>2. CASE thread[t].op \notin {"create", "patch"}
    BY <1>2, FinishIs DEF GoOn
<1> QED BY <1>1, <1>2
-----------------------------------------------------------------------------
(* The steps. *)

\* A step of one thread that leaves the directory alone.
LEMMA PickStays ==
    ASSUME Inv, NEW t \in Threads, disk' = disk,
           \A u \in Threads : u # t => thread'[u] = thread[u],
           thread'[t].pc # "profile"
    PROVE  PickIsFree' /\ NoneLost
BY LoopIs DEF Inv, PickIsFree, NoneLost

LEMMA PassInv ==
    ASSUME Inv, NEW t \in Threads, Use(t) \/ Pass(t)
    PROVE  Inv' /\ NoneLost
<1> USE DEF Inv, TypesInv
<1>1. CASE Use(t)
    <2> DEFINE r == [Idle EXCEPT !.pc = "index"]
    <2>1. r \in GoodThread /\ r.pc # "profile"
        BY EmptyIndexIs DEF Idle, GoodThread, Thread, Fits, Pcs, WritePcs, Ops
    <2>2. thread' = [thread EXCEPT ![t] = r]
        BY <1>1 DEF Use
    <2> HIDE DEF r
    <2> QED BY <1>1, <2>1, <2>2, OneMoves, PickStays DEF Use
<1>2. CASE ReadIndex(t)
    <2>1. PICK copy \in Readable(t) : GotoWith(t, "disk", copy)
        BY <1>2 DEF ReadIndex
    <2> DEFINE r == [thread[t] EXCEPT !.pc = "disk", !.copy = copy]
    <2>2. copy \in GoodIndex
        BY ReadableIs
    <2>3. r \in GoodThread /\ r.pc # "profile"
        BY <2>2 DEF GoodThread, Thread, Fits, Pcs, WritePcs
    <2>4. thread' = [thread EXCEPT ![t] = r]
        BY <2>1 DEF GotoWith
    <2> HIDE DEF r
    <2> QED BY <1>2, <2>3, <2>4, OneMoves, PickStays DEF ReadIndex
<1>3. CASE Reconcile(t)
    <2> DEFINE old == thread[t].copy
               new == Reconciled(old)
    <2>1. new \in GoodIndex
        BY ReconciledIs DEF GoodThread, Thread
    <2>2. ASSUME NEW r \in GoodThread, r.pc # "profile", thread' = [thread EXCEPT ![t] = r]
          PROVE  Inv' /\ NoneLost
        BY <1>3, <2>2, OneMoves, PickStays DEF Reconcile
    <2> HIDE DEF new
    <2>3. CASE GotoWith(t, "write", new)
        <3> DEFINE r == [thread[t] EXCEPT !.pc = "write", !.copy = new]
        <3>1. r \in GoodThread /\ r.pc # "profile"
            BY <2>1 DEF GoodThread, Thread, Fits, Pcs, WritePcs
        <3>2. thread' = [thread EXCEPT ![t] = r]
            BY <2>3 DEF GotoWith
        <3> HIDE DEF r
        <3> QED BY <2>2, <3>1, <3>2
    <2>4. CASE EnvServer # None /\ Goto(t, "migrate")
        <3> DEFINE r == [thread[t] EXCEPT !.pc = "migrate"]
        <3>1. r \in GoodThread /\ r.pc # "profile"
            BY <2>4 DEF GoodThread, Thread, Fits, Pcs, WritePcs
        <3>2. thread' = [thread EXCEPT ![t] = r]
            BY <2>4 DEF Goto
        <3> HIDE DEF r
        <3> QED BY <2>2, <3>1, <3>2
    <2>5. CASE GoOn(t)
        BY <1>3, <2>5, GoOnIs, PickStays DEF Reconcile
    <2> QED BY <1>3, <2>3, <2>4, <2>5 DEF Reconcile, new
<1>4. CASE WriteReconciled(t)
    <2>1. index' \in GoodIndex
        BY <1>4, WrittenIs DEF WriteReconciled, GoodThread, Thread
    <2>2. CASE EnvServer # None /\ Goto(t, "migrate")
        <3> DEFINE r == [thread[t] EXCEPT !.pc = "migrate"]
        <3>1. r \in GoodThread /\ r.pc # "profile"
            BY <2>2 DEF GoodThread, Thread, Fits, Pcs, WritePcs
        <3>2. thread' = [thread EXCEPT ![t] = r]
            BY <2>2 DEF Goto
        <3> HIDE DEF r
        <3> QED BY <1>4, <2>1, <3>1, <3>2, OneMoves, PickStays DEF WriteReconciled
    <2>3. CASE GoOn(t)
        BY <1>4, <2>1, <2>3, GoOnIs, PickStays DEF WriteReconciled
    <2> QED BY <1>4, <2>2, <2>3 DEF WriteReconciled
<1>5. CASE Migrate(t)
    <2> DEFINE first == [active |-> EnvServer, ids |-> <<EnvServer>>]
               r == [thread[t] EXCEPT !.pc = "adopt", !.copy = first]
    <2>1. EnvServer \in Servers /\ EnvServer # None
        BY <1>5, ProfilesAssumption DEF Migrate, GoodThread, Fits
    <2>2. first \in GoodIndex
        <3>1. <<EnvServer>> \in Seq(Servers) /\ IsInjective(<<EnvServer>>)
            BY <2>1 DEF IsInjective
        <3> QED BY <2>1, <3>1 DEF GoodIndex, Index
    <2> HIDE DEF first
    <2>3. r \in GoodThread /\ r.pc # "profile"
        BY <2>1, <2>2 DEF GoodThread, Thread, Fits, Pcs, WritePcs
    <2>4. thread' = [thread EXCEPT ![t] = r]
        BY <1>5 DEF Migrate, GotoWith, first
    <2> HIDE DEF r
    <2>5. /\ thread' \in [Threads -> GoodThread]
          /\ \A u \in Threads : u # t => thread'[u] = thread[u]
          /\ thread'[t].pc # "profile"
        BY <2>3, <2>4, OneMoves
    <2>6. /\ disk' \in [Servers -> 0 .. (MaxEdits + 2)]
          /\ disk'[EnvServer] = MaxEdits + 1
          /\ \A s \in Servers : s # EnvServer => disk'[s] = disk[s]
        BY <1>5, <2>1, ProfilesAssumption DEF Migrate
    <2>7. PickIsFree'
        BY <2>5, <2>6, LoopIs DEF PickIsFree, GoodThread, Fits
    <2>8. NoneLost
        BY <2>6 DEF NoneLost
    <2> QED BY <1>5, <2>5, <2>6, <2>7, <2>8 DEF Migrate
<1>6. CASE Adopt(t)
    <2>1. index' \in GoodIndex
        BY <1>6, WrittenIs DEF Adopt, GoodThread, Thread
    <2>2. policy' \in Servers \cup {None}
        BY <1>6, ProfilesAssumption DEF Adopt
    <2> QED BY <1>6, <2>1, <2>2, GoOnIs, PickStays DEF Adopt
<1> QED BY <1>1, <1>2, <1>3, <1>4, <1>5, <1>6 DEF Pass

LEMMA RequestInv ==
    ASSUME Inv, NEW op \in Ops, NEW s \in Servers \cup {None}, NEW pc \in {"index", "reindex"},
           op \in {"patch", "activate", "delete", "replace", "succeed"} => s \in Servers,
           pc = "reindex" => s \in Servers,
           Request(op, s, pc)
    PROVE  Inv' /\ NoneLost
<1> USE DEF Inv, TypesInv
<1> DEFINE r == [pc |-> pc, op |-> op, server |-> s, copy |-> EmptyIndex]
<1>1. r \in GoodThread /\ r.pc # "profile"
    BY IdleIs
<1>2. thread' = [thread EXCEPT ![Loop] = r]
    BY DEF Request
<1> HIDE DEF r
<1>3. edits' \in 0 .. MaxEdits
    BY ProfilesAssumption DEF Request
<1> QED BY <1>1, <1>2, <1>3, OneMoves, PickStays, LoopIs DEF Request

LEMMA CrashInv ==
    ASSUME Inv, Crash
    PROVE  Inv' /\ NoneLost
<1> USE DEF Inv, TypesInv
<1>1. index' \in GoodIndex /\ crashes' \in 0 .. MaxCrashes
    BY EmptyIndexIs, ProfilesAssumption DEF Crash
<1>2. thread' \in [Threads -> GoodThread] /\ thread'[Loop].pc # "profile"
    BY StartingIs, LoopIs DEF Crash, Starting, Idle
<1>3. PickIsFree' /\ NoneLost
    BY <1>2 DEF Crash, PickIsFree, NoneLost
<1> QED BY <1>1, <1>2, <1>3 DEF Crash

\* A step of the event loop that leaves the directory alone and does not lead
\* to the writing of a profile.
LEMMA LoopStep ==
    ASSUME TypesInv, PickIsFree, NEW r \in GoodThread, r.pc # "profile",
           thread' = [thread EXCEPT ![Loop] = r],
           index' \in GoodIndex, policy' \in Servers \cup {None},
           UNCHANGED <<disk, edits, crashes>>
    PROVE  Inv' /\ NoneLost
BY LoopIs, OneMoves, PickStays DEF Inv, TypesInv

LEMMA LoopFinish ==
    ASSUME TypesInv, PickIsFree, Finish(Loop),
           index' \in GoodIndex, policy' \in Servers \cup {None},
           UNCHANGED <<disk, edits, crashes>>
    PROVE  Inv' /\ NoneLost
BY LoopIs, FinishIs, PickStays DEF Inv, TypesInv

LEMMA MineIs == TypesInv => Mine \in GoodThread
BY LoopIs DEF TypesInv, Mine

LEMMA PickInv ==
    ASSUME TypesInv, PickIsFree, Pick
    PROVE  Inv' /\ NoneLost
<1>1. CASE Mine.op = "patch" /\ Goto(Loop, "profile")
    <2> DEFINE r == [Mine EXCEPT !.pc = "profile"]
    <2>1. r \in GoodThread /\ r.op # "create"
        BY <1>1, MineIs DEF GoodThread, Thread, Fits, Pcs, WritePcs
    <2>2. thread' = [thread EXCEPT ![Loop] = r]
        BY <1>1 DEF Goto, Mine
    <2> HIDE DEF r
    <2>3. thread' \in [Threads -> GoodThread] /\ thread'[Loop] = r
        BY <2>1, <2>2, LoopIs, OneMoves DEF TypesInv
    <2>4. PickIsFree' /\ NoneLost
        BY <2>1, <2>3 DEF Pick, PickIsFree, NoneLost
    <2> QED BY <2>3, <2>4 DEF Pick, Inv, TypesInv
<1>2. ASSUME Mine.op = "create", NEW s \in Servers, FreeId(s),
             thread' = [thread EXCEPT ![Loop].pc = "profile", ![Loop].server = s]
      PROVE  Inv' /\ NoneLost
    <2> DEFINE r == [Mine EXCEPT !.pc = "profile", !.server = s]
    <2>1. r \in GoodThread /\ r.server = s
        BY <1>2, MineIs DEF GoodThread, Thread, Fits, Pcs, WritePcs
    <2>2. thread' = [thread EXCEPT ![Loop] = r]
        BY <1>2 DEF Mine
    <2> HIDE DEF r
    <2>3. thread' \in [Threads -> GoodThread] /\ thread'[Loop] = r
        BY <2>1, <2>2, LoopIs, OneMoves DEF TypesInv
    <2>4. PickIsFree' /\ NoneLost
        BY <1>2, <2>1, <2>3 DEF Pick, PickIsFree, NoneLost, FreeId
    <2> QED BY <2>3, <2>4 DEF Pick, Inv, TypesInv
<1>3. CASE Finish(Loop)
    BY <1>3, LoopFinish DEF Pick, TypesInv
<1> QED BY <1>1, <1>2, <1>3 DEF Pick

LEMMA WriteProfileInv ==
    ASSUME TypesInv, PickIsFree, WriteProfile
    PROVE  Inv' /\ NoneLost
<1> DEFINE s == Mine.server
           r == [Mine EXCEPT !.pc = "reindex"]
           new == IF Mine.op = "patch" /\ disk[s] # 0 THEN disk[s] ELSE edits
<1>1. Mine \in GoodThread /\ Mine.pc = "profile"
    BY MineIs DEF WriteProfile, At, Mine
<1>2. s \in Servers /\ Mine.op \in {"create", "patch"}
    BY <1>1 DEF GoodThread, Fits
<1>3. r \in GoodThread /\ r.pc # "profile"
    BY <1>1, <1>2 DEF GoodThread, Thread, Fits, Pcs, WritePcs
<1>4. thread' = [thread EXCEPT ![Loop] = r]
    BY DEF WriteProfile, Goto, Mine
<1> HIDE DEF r
<1>5. thread' \in [Threads -> GoodThread] /\ thread'[Loop] = r
    BY <1>3, <1>4, LoopIs, OneMoves DEF TypesInv
<1>6. disk' = [disk EXCEPT ![s] = new]
    BY DEF WriteProfile
<1>7. new \in 0 .. (MaxEdits + 2)
    BY <1>2, ProfilesAssumption DEF TypesInv
<1>8. disk' \in [Servers -> 0 .. (MaxEdits + 2)]
    BY <1>6, <1>7 DEF TypesInv
<1>9. disk[s] # 0 /\ new # disk[s] => s = EnvServer /\ disk[s] = MaxEdits + 1
    BY <1>1, <1>2 DEF PickIsFree, Mine
<1>10. NoneLost
    <2> HIDE DEF new, s
    <2> QED BY <1>2, <1>6, <1>9 DEF TypesInv, NoneLost
<1>11. PickIsFree'
    BY <1>3, <1>5 DEF PickIsFree
<1> QED BY <1>5, <1>8, <1>10, <1>11 DEF WriteProfile, Inv, TypesInv

LEMMA ReindexInv ==
    ASSUME TypesInv, PickIsFree, Reindex
    PROVE  Inv' /\ NoneLost
<1> DEFINE s == Mine.server
<1>1. Mine \in GoodThread /\ s \in Servers
    BY MineIs DEF Reindex, At, Mine, GoodThread, Fits
<1>2. PICK read \in Readable(Loop) :
          \/ /\ Mine.op \in {"create", "patch"}
             /\ GotoWith(Loop, "append",
                    [ids |-> With(read.ids, s),
                     active |-> IF read.active = None THEN s ELSE read.active])
          \/ /\ Mine.op \in {"activate", "succeed"}
             /\ GotoWith(Loop, "point", [ids |-> With(read.ids, s), active |-> s])
          \/ /\ Mine.op = "delete"
             /\ IF s \notin ToSet(read.ids) \/ Len(read.ids) <= 1
                THEN Finish(Loop)
                ELSE LET left == Without(read.ids, s) IN
                     thread' = [thread EXCEPT ![Loop] =
                        [pc |-> "cut", server |-> s,
                         op |-> IF read.active = s THEN "replace" ELSE "delete",
                         copy |-> [ids |-> left, active |-> IF read.active = s
                                                  THEN Head(left) ELSE read.active]]]
    BY DEF Reindex
<1>3. read \in GoodIndex
    BY ReadableIs DEF TypesInv
<1>4. /\ read.ids \in Seq(Servers) /\ IsInjective(read.ids)
      /\ read.active \in Servers \cup {None}
    BY <1>3 DEF GoodIndex, Index
<1>5. /\ index' \in GoodIndex /\ policy' \in Servers \cup {None}
      /\ UNCHANGED <<disk, edits, crashes>>
    BY DEF Reindex, TypesInv
<1>6. ASSUME NEW pc \in {"append", "point"}, NEW copy \in GoodIndex, GotoWith(Loop, pc, copy)
      PROVE  Inv' /\ NoneLost
    <2> DEFINE r == [Mine EXCEPT !.pc = pc, !.copy = copy]
    <2>1. r \in GoodThread /\ r.pc # "profile"
        BY <1>1 DEF GoodThread, Thread, Fits, Pcs, WritePcs
    <2>2. thread' = [thread EXCEPT ![Loop] = r]
        BY <1>6 DEF GotoWith, Mine
    <2> HIDE DEF r
    <2> QED BY <1>5, <2>1, <2>2, LoopStep
<1>7. With(read.ids, s) \in Seq(Servers) /\ IsInjective(With(read.ids, s))
    BY <1>1, <1>4, WithIs
<1>8. /\ [ids |-> With(read.ids, s),
          active |-> IF read.active = None THEN s ELSE read.active] \in GoodIndex
      /\ [ids |-> With(read.ids, s), active |-> s] \in GoodIndex
    <2> HIDE DEF s
    <2> QED BY <1>1, <1>4, <1>7 DEF GoodIndex, Index
<1>9. CASE /\ Mine.op \in {"create", "patch"}
           /\ GotoWith(Loop, "append",
                  [ids |-> With(read.ids, s),
                   active |-> IF read.active = None THEN s ELSE read.active])
    BY <1>6, <1>8, <1>9
<1>10. CASE /\ Mine.op \in {"activate", "succeed"}
            /\ GotoWith(Loop, "point", [ids |-> With(read.ids, s), active |-> s])
    BY <1>6, <1>8, <1>10
<1>11. CASE Finish(Loop)
    BY <1>5, <1>11, LoopFinish
<1>12. CASE Len(read.ids) > 1
    <2> DEFINE left == Without(read.ids, s)
               r == [pc |-> "cut", server |-> s,
                     op |-> IF read.active = s THEN "replace" ELSE "delete",
                     copy |-> [ids |-> left, active |-> IF read.active = s
                                                  THEN Head(left) ELSE read.active]]
    <2>1. left \in Seq(Servers) /\ IsInjective(left) /\ Head(left) \in Servers
        BY <1>1, <1>4, <1>12, WithoutIs
    <2> HIDE DEF left
    <2>2. r.copy \in GoodIndex /\ (r.op = "replace" => r.copy.active \in Servers)
        BY <1>1, <1>4, <2>1 DEF GoodIndex, Index
    <2>3. r \in GoodThread /\ r.pc # "profile"
        BY <1>1, <2>2 DEF GoodThread, Thread, Fits, Pcs, Ops, WritePcs
    <2>4. CASE thread' = [thread EXCEPT ![Loop] = r]
        <3> HIDE DEF r
        <3> QED BY <1>5, <2>3, <2>4, LoopStep
    <2> QED BY <1>2, <1>9, <1>10, <1>11, <2>4 DEF left
<1>13. CASE ~ (Len(read.ids) > 1)
    <2>1. Len(read.ids) <= 1
        BY <1>4, <1>13
    <2> QED BY <1>2, <1>9, <1>10, <1>11, <2>1
<1> QED BY <1>12, <1>13

LEMMA WritesInv ==
    ASSUME TypesInv, PickIsFree, WriteAppended \/ WriteActive \/ WriteCut \/ SavePolicy
    PROVE  Inv' /\ NoneLost
<1>1. Mine \in GoodThread /\ Mine.copy \in GoodIndex
    BY MineIs DEF GoodThread, Thread
<1>2. CASE WriteAppended
    <2>1. index' \in GoodIndex
        BY <1>1, <1>2, WrittenIs DEF WriteAppended
    <2> QED BY <1>2, <2>1, LoopFinish DEF WriteAppended, TypesInv
<1>3. ASSUME NEW pc \in {"prefs", "unlink"}, Goto(Loop, pc), Written(Loop, Mine.copy),
             pc = "unlink" => Mine.pc = "cut", Mine.pc \in {"point", "cut"},
             UNCHANGED <<disk, policy, edits, crashes>>
      PROVE  Inv' /\ NoneLost
    <2> DEFINE r == [Mine EXCEPT !.pc = pc]
    <2>1. index' \in GoodIndex
        BY <1>1, <1>3, WrittenIs
    <2>2. r \in GoodThread /\ r.pc # "profile"
        BY <1>1, <1>3 DEF GoodThread, Thread, Fits, Pcs, WritePcs
    <2>3. thread' = [thread EXCEPT ![Loop] = r]
        BY <1>3 DEF Goto, Mine
    <2> HIDE DEF r
    <2> QED BY <1>3, <2>1, <2>2, <2>3, LoopStep DEF TypesInv
<1>4. CASE WriteActive
    BY <1>3, <1>4 DEF WriteActive, At, Mine
<1>5. CASE WriteCut
    BY <1>3, <1>5 DEF WriteCut, At, Mine
<1>6. CASE SavePolicy
    <2>1. policy' \in Servers \cup {None}
        BY <1>1, <1>6 DEF SavePolicy, GoodThread, Thread
    <2> QED BY <1>6, <2>1, LoopFinish DEF SavePolicy, TypesInv
<1> QED BY <1>2, <1>4, <1>5, <1>6

LEMMA UnlinkInv ==
    ASSUME TypesInv, PickIsFree, Unlink
    PROVE  Inv' /\ NoneLost
<1> DEFINE next == Mine.copy.active
           r == IF Mine.op = "delete" THEN [Idle EXCEPT !.op = "list", !.pc = "index"]
                ELSE IF disk'[next] = 0 THEN Idle
                ELSE [Idle EXCEPT !.op = "succeed", !.server = next, !.pc = "reindex"]
<1>1. Mine \in GoodThread /\ Mine.server \in Servers /\ Mine.op \in Ops
      /\ (Mine.op = "delete" \/ next \in Servers)
    BY MineIs DEF Unlink, At, Mine, GoodThread, Thread, Fits
<1>2. thread' = [thread EXCEPT ![Loop] = r]
    BY DEF Unlink
<1>3. disk' = [disk EXCEPT ![Mine.server] = 0]
    BY DEF Unlink
<1>4. disk' \in [Servers -> 0 .. (MaxEdits + 2)] /\ NoneLost
    BY <1>1, <1>3, ProfilesAssumption DEF TypesInv, NoneLost
<1>5. r \in GoodThread /\ r.pc # "profile"
    BY <1>1, EmptyIndexIs DEF GoodThread, Thread, Fits, Idle, Pcs, WritePcs, Ops
<1> HIDE DEF r
<1>6. thread' \in [Threads -> GoodThread] /\ thread'[Loop] = r
    BY <1>2, <1>5, LoopIs, OneMoves DEF TypesInv
<1>7. PickIsFree'
    BY <1>5, <1>6 DEF PickIsFree
<1> QED BY <1>4, <1>6, <1>7 DEF Unlink, Inv, TypesInv

LEMMA StepInv == Inv /\ [Next]_vars => Inv' /\ (NoneLost \/ UNCHANGED vars)
<1> SUFFICES ASSUME Inv, [Next]_vars
             PROVE  Inv' /\ (NoneLost \/ UNCHANGED vars)
    OBVIOUS
<1>1. TypesInv /\ PickIsFree
    BY DEF Inv
<1>2. CASE \E t \in Threads : Use(t) \/ Pass(t)
    BY <1>2, PassInv
<1>3. CASE List
    BY <1>3, RequestInv DEF List, Ops
<1>4. CASE Create
    BY <1>4, RequestInv DEF Create, Ops
<1>5. ASSUME NEW s \in Servers, Patch(s) \/ Activate(s) \/ Delete(s)
      PROVE  Inv' /\ NoneLost
    BY <1>5, RequestInv DEF Patch, Activate, Delete, Ops
<1>6. CASE Handle
    BY <1>1, <1>6, PickInv, WriteProfileInv, ReindexInv, WritesInv, UnlinkInv DEF Handle
<1>7. CASE Crash
    BY <1>7, CrashInv
<1>8. CASE UNCHANGED vars
    BY <1>8 DEF vars, Inv, TypesInv, PickIsFree
<1> QED BY <1>2, <1>3, <1>4, <1>5, <1>6, <1>7, <1>8 DEF Next

(***************************************************************************)
(* Types: every index a thread holds or leaves in servers.json names each  *)
(* profile once, and what a thread works on is a profile.                  *)
(***************************************************************************)
THEOREM ProfilesTypes == Spec => []TypeOK
<1>1. Inv => TypeOK
    BY InvTypeOK DEF Inv
<1> QED BY <1>1, InitInv, StepInv, PTL DEF Spec

(***************************************************************************)
(* upsert_server and ensure_migrated never write over another profile than *)
(* the environment's: an id picked because it had no file gets none from   *)
(* another thread before the profile is written, but the environment's.    *)
(***************************************************************************)
THEOREM ProfilesStay == Spec => ProfilesKept
<1>1. Inv /\ [Next]_vars => [NoneLost]_vars
    BY StepInv
<1> QED BY <1>1, InitInv, StepInv, PTL DEF Spec, ProfilesKept
=============================================================================
