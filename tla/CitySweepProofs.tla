-------------------------- MODULE CitySweepProofs --------------------------
(***************************************************************************)
(* Theorems about the sweeps of AdminCityWipe, for every set of boxes,     *)
(* every list of floors and every budget: the numbers of "City wipe done"  *)
(* are right, and the list of cursors implements SweepPlan.                *)
(***************************************************************************)
EXTENDS CitySweep, FiniteSetTheorems, SequenceTheorems, WellFoundedInduction, TLAPS

Floors == {ZLevels[i] : i \in DOMAIN ZLevels}

\* The tile under a cursor in column x of row y on the i-th floor.
Spot(x, y, i) == <<x, y, ZLevels[i]>>

\* The tiles of a city that the cursor passes before it comes to column x of
\* row y on the i-th floor.
Before(b, x, y, i) ==
    {t \in TilesOf(b) : \/ t[2] < y
                        \/ t[2] = y /\ t[1] < x
                        \/ /\ t[2] = y /\ t[1] = x
                           /\ \E k \in 1 .. (i - 1) : ZLevels[k] = t[3]}

LEMMA LevelsAre ==
    /\ Len(ZLevels) \in Nat /\ Len(ZLevels) >= 1
    /\ DOMAIN ZLevels = 1 .. Len(ZLevels)
    /\ \A i \in 1 .. Len(ZLevels) : ZLevels[i] \in Int
    /\ \A i, j \in 1 .. Len(ZLevels) : ZLevels[i] = ZLevels[j] => i = j
    /\ Floors \subseteq Int
    /\ Budget \in Nat /\ Budget >= 1
<1>1. ZLevels \in Seq(Int) /\ ZLevels # <<>> /\ Budget \in Nat \ {0}
      /\ \A i, j \in DOMAIN ZLevels : ZLevels[i] = ZLevels[j] => i = j
    BY SweepAssumption
<1>2. Len(ZLevels) \in Nat /\ DOMAIN ZLevels = 1 .. Len(ZLevels) /\ Len(ZLevels) # 0
    BY <1>1, LenProperties, EmptySeq
<1>3. \A i \in 1 .. Len(ZLevels) : ZLevels[i] \in Int
    BY <1>1, ElementOfSeq
<1> QED BY <1>1, <1>2, <1>3 DEF Floors

LEMMA BoxIs ==
    ASSUME NEW b \in Boxes
    PROVE  /\ b.x1 \in Int /\ b.x2 \in Int /\ b.y1 \in Int /\ b.y2 \in Int
           /\ b.x1 <= b.x2 /\ b.y1 <= b.y2
BY SweepAssumption

\* A tile of the city, by its parts.
LEMMA TileIs ==
    ASSUME NEW b \in Boxes, NEW t
    PROVE  t \in TilesOf(b) <=> /\ t = <<t[1], t[2], t[3]>>
                                /\ t[1] \in b.x1 .. b.x2 /\ t[2] \in b.y1 .. b.y2
                                /\ t[3] \in Floors
BY DEF TilesOf, Floors

\* Nothing comes before the first tile, and the whole city before the row
\* below the last.
LEMMA BeforeEnds ==
    ASSUME NEW b \in Boxes
    PROVE  /\ Before(b, b.x1, b.y1, 1) = {}
           /\ Before(b, b.x1, b.y2 + 1, 1) = TilesOf(b)
<1>1. \A t \in TilesOf(b) : t \notin Before(b, b.x1, b.y1, 1)
    BY BoxIs, TileIs DEF Before
<1>2. \A t \in TilesOf(b) : t \in Before(b, b.x1, b.y2 + 1, 1)
    BY BoxIs, TileIs DEF Before
<1> QED BY <1>1, <1>2 DEF Before

\* The tile under the cursor is a tile of the city that was not passed yet;
\* the next place of the cursor has passed this one too, and no other.
LEMMA BeforeGrows ==
    ASSUME NEW b \in Boxes, NEW x \in b.x1 .. b.x2, NEW y \in b.y1 .. b.y2,
           NEW i \in 1 .. Len(ZLevels)
    PROVE  /\ Spot(x, y, i) \in TilesOf(b) /\ Spot(x, y, i) \notin Before(b, x, y, i)
           /\ i < Len(ZLevels)
              => Before(b, x, y, i + 1) = Before(b, x, y, i) \cup {Spot(x, y, i)}
           /\ i = Len(ZLevels) /\ x < b.x2
              => Before(b, x + 1, y, 1) = Before(b, x, y, i) \cup {Spot(x, y, i)}
           /\ i = Len(ZLevels) /\ x = b.x2
              => Before(b, b.x1, y + 1, 1) = Before(b, x, y, i) \cup {Spot(x, y, i)}
<1> USE DEF Spot
<1> DEFINE here == Spot(x, y, i)
           Up(t, n) == \E k \in 1 .. (n - 1) : ZLevels[k] = t[3]
<1>0. /\ b.x1 \in Int /\ b.x2 \in Int /\ b.y1 \in Int /\ b.y2 \in Int
      /\ x \in Int /\ y \in Int /\ i \in Nat /\ i >= 1 /\ i <= Len(ZLevels)
    BY BoxIs, LevelsAre
<1>1. ZLevels[i] \in Floors
    BY <1>0, LevelsAre DEF Floors
<1>2. here \in TilesOf(b)
    BY <1>1, TileIs
<1>3. ~ Up(here, i)
    BY <1>0, LevelsAre
<1>4. here \notin Before(b, x, y, i)
    BY <1>0, <1>3 DEF Before
<1>5. \A t \in TilesOf(b) : /\ t[1] \in Int /\ t[2] \in Int /\ t[3] \in Floors
                            /\ t[1] <= b.x2 /\ t[1] >= b.x1
                            /\ t = <<t[1], t[2], t[3]>>
    BY <1>0, TileIs
<1>6. \A t : ~ Up(t, 1)
    BY <1>0
<1>7. \A t : i < Len(ZLevels) => (Up(t, i + 1) <=> Up(t, i) \/ t[3] = ZLevels[i])
    <2>1. 1 .. (i + 1 - 1) = 1 .. (i - 1) \cup {i}
        BY <1>0
    <2> QED BY <2>1
<1>8. i = Len(ZLevels) => \A t \in TilesOf(b) : Up(t, i) \/ t[3] = ZLevels[i]
    <2>1. 1 .. Len(ZLevels) = 1 .. (Len(ZLevels) - 1) \cup {Len(ZLevels)}
        BY LevelsAre
    <2> QED BY <1>5, <2>1, LevelsAre DEF Floors
<1>9. \A n, c, r, t : t \in Before(b, c, r, n)
         <=> /\ t \in TilesOf(b)
             /\ \/ t[2] < r
                \/ t[2] = r /\ t[1] < c
                \/ t[2] = r /\ t[1] = c /\ Up(t, n)
    BY DEF Before
<1>10. \A t \in TilesOf(b) : t = here <=> t[1] = x /\ t[2] = y /\ t[3] = ZLevels[i]
    BY <1>5
<1> HIDE DEF Up, here
<1>11. ASSUME i < Len(ZLevels)
       PROVE  Before(b, x, y, i + 1) = Before(b, x, y, i) \cup {here}
    <2>1. \A t \in TilesOf(b) : t \in Before(b, x, y, i + 1)
                                <=> t \in Before(b, x, y, i) \cup {here}
        BY <1>0, <1>5, <1>7, <1>9, <1>10, <1>11
    <2> QED BY <1>2, <2>1, <1>9
<1>12. ASSUME i = Len(ZLevels), x < b.x2
       PROVE  Before(b, x + 1, y, 1) = Before(b, x, y, i) \cup {here}
    <2>1. \A t \in TilesOf(b) : t \in Before(b, x + 1, y, 1)
                                <=> t \in Before(b, x, y, i) \cup {here}
        BY <1>0, <1>5, <1>6, <1>8, <1>9, <1>10, <1>12
    <2> QED BY <1>2, <2>1, <1>9
<1>13. ASSUME i = Len(ZLevels), x = b.x2
       PROVE  Before(b, b.x1, y + 1, 1) = Before(b, x, y, i) \cup {here}
    <2>1. \A t \in TilesOf(b) : t \in Before(b, b.x1, y + 1, 1)
                                <=> t \in Before(b, x, y, i) \cup {here}
        BY <1>0, <1>5, <1>6, <1>8, <1>9, <1>10, <1>13
    <2> QED BY <1>2, <2>1, <1>9
<1> QED BY <1>2, <1>4, <1>11, <1>12, <1>13 DEF here

\* A city has as many tiles as its sides and its floors say.
LEMMA TilesCount ==
    ASSUME NEW b \in Boxes
    PROVE  /\ IsFiniteSet(TilesOf(b))
           /\ Cardinality(TilesOf(b))
                 = (b.x2 - b.x1 + 1) * (b.y2 - b.y1 + 1) * Len(ZLevels)
<1> DEFINE xs == b.x1 .. b.x2
           ys == b.y1 .. b.y2
           f == [p \in (xs \X ys) \X Floors |-> <<p[1][1], p[1][2], p[2]>>]
<1>1. /\ IsFiniteSet(xs) /\ Cardinality(xs) = b.x2 - b.x1 + 1
      /\ IsFiniteSet(ys) /\ Cardinality(ys) = b.y2 - b.y1 + 1
    <2>1. b.x1 \in Int /\ b.x2 \in Int /\ ~ (b.x1 > b.x2)
        BY BoxIs
    <2>2. b.y1 \in Int /\ b.y2 \in Int /\ ~ (b.y1 > b.y2)
        BY BoxIs
    <2>3. IsFiniteSet(xs) /\ Cardinality(xs) = b.x2 - b.x1 + 1
        BY <2>1, FS_Interval
    <2>4. IsFiniteSet(ys) /\ Cardinality(ys) = b.y2 - b.y1 + 1
        BY <2>2, FS_Interval
    <2> QED BY <2>3, <2>4
<1>2. IsFiniteSet(Floors) /\ Cardinality(Floors) = Len(ZLevels)
    <2> DEFINE g == [i \in 1 .. Len(ZLevels) |-> ZLevels[i]]
    <2>1. g \in Bijection(1 .. Len(ZLevels), Floors)
        BY LevelsAre DEF Floors, Bijection, Injection, Surjection, IsInjective
    <2> HIDE DEF g
    <2>2. IsFiniteSet(1 .. Len(ZLevels)) /\ Cardinality(1 .. Len(ZLevels)) = Len(ZLevels)
        BY LevelsAre, FS_Interval
    <2>3. ExistsBijection(1 .. Len(ZLevels), Floors)
        BY <2>1 DEF ExistsBijection
    <2> QED BY <2>2, <2>3, FS_Bijection
<1> HIDE DEF xs, ys
<1>3. /\ IsFiniteSet(xs \X ys) /\ Cardinality(xs \X ys) = Cardinality(xs) * Cardinality(ys)
    BY <1>1, FS_Product
<1>4. /\ IsFiniteSet((xs \X ys) \X Floors)
      /\ Cardinality((xs \X ys) \X Floors) = Cardinality(xs \X ys) * Cardinality(Floors)
    BY <1>2, <1>3, FS_Product
<1>5. TilesOf(b) = xs \X ys \X Floors
    BY DEF xs, ys, TilesOf, Floors
<1>6. f \in Bijection((xs \X ys) \X Floors, xs \X ys \X Floors)
    <2>1. \A p \in (xs \X ys) \X Floors :
             /\ p = <<p[1], p[2]>> /\ p[1] = <<p[1][1], p[1][2]>>
             /\ f[p] = <<p[1][1], p[1][2], p[2]>>
             /\ f[p] \in xs \X ys \X Floors
        OBVIOUS
    <2>2. f \in [(xs \X ys) \X Floors -> xs \X ys \X Floors]
        BY <2>1
    <2>3. ASSUME NEW p \in (xs \X ys) \X Floors, NEW q \in (xs \X ys) \X Floors, f[p] = f[q]
          PROVE  p = q
        <3> HIDE DEF f
        <3>1. p[1][1] = q[1][1] /\ p[1][2] = q[1][2] /\ p[2] = q[2]
            BY <2>1, <2>3
        <3> QED BY <2>1, <3>1
    <2>4. \A t \in xs \X ys \X Floors : \E p \in (xs \X ys) \X Floors : f[p] = t
        <3>1. SUFFICES ASSUME NEW t \in xs \X ys \X Floors
                       PROVE  \E p \in (xs \X ys) \X Floors : f[p] = t
            OBVIOUS
        <3>2. /\ << <<t[1], t[2]>>, t[3]>> \in (xs \X ys) \X Floors
              /\ f[<< <<t[1], t[2]>>, t[3]>>] = t
            OBVIOUS
        <3> QED BY <3>2
    <2> HIDE DEF f
    <2> QED BY <2>2, <2>3, <2>4 DEF Bijection, Injection, Surjection, IsInjective
<1> HIDE DEF f
<1>7. ExistsBijection((xs \X ys) \X Floors, TilesOf(b))
    BY <1>5, <1>6 DEF ExistsBijection
<1> QED BY <1>1, <1>2, <1>3, <1>4, <1>7, FS_Bijection

-----------------------------------------------------------------------------
(***************************************************************************)
(* One job.  Its log is what lies before its cursor, each tile counted     *)
(* once, as swept or as missing; a job that is done stands on the row      *)
(* below the last.                                                         *)
(***************************************************************************)

Job == [city : Boxes, x : Int, y : Int, zIndex : 1 .. Len(ZLevels),
        squares : Nat, missing : Nat, done : BOOLEAN, log : Seq(Int \X Int \X Int)]

Counted(j) ==
    /\ j \in Job
    /\ j.x \in j.city.x1 .. j.city.x2
    /\ IF j.done THEN j.y = j.city.y2 + 1 /\ j.x = j.city.x1 /\ j.zIndex = 1
       ELSE j.y \in j.city.y1 .. j.city.y2
    /\ LogSet(j) = Before(j.city, j.x, j.y, j.zIndex)
    /\ Cardinality(LogSet(j)) = j.squares + j.missing

LEMMA NewJobCounted ==
    ASSUME NEW b \in Boxes
    PROVE  Counted(NewJob(b)) /\ ~ NewJob(b).done /\ LogSet(NewJob(b)) = {}
<1> DEFINE j == NewJob(b)
<1>1. j \in Job
    BY BoxIs, LevelsAre, EmptySeq DEF NewJob, Job
<1>2. /\ j.city = b /\ j.x = b.x1 /\ j.y = b.y1 /\ j.zIndex = 1 /\ j.done = FALSE
      /\ j.log = <<>> /\ j.squares = 0 /\ j.missing = 0
    BY DEF NewJob
<1>3. LogSet(j) = {}
    BY <1>2 DEF LogSet
<1>4. b.x1 \in b.x1 .. b.x2 /\ b.y1 \in b.y1 .. b.y2
    BY BoxIs
<1> HIDE DEF j
<1>5. LogSet(j) = Before(j.city, j.x, j.y, j.zIndex)
    BY <1>2, <1>3, BeforeEnds
<1>6. Cardinality(LogSet(j)) = j.squares + j.missing
    BY <1>2, <1>3, FS_EmptySet
<1>7. Counted(j)
    BY <1>1, <1>2, <1>4, <1>5, <1>6 DEF Counted
<1> QED BY <1>2, <1>3, <1>7 DEF j

\* What counting the tile under the cursor leaves of a job.
LEMMA CountIs ==
    ASSUME NEW j, Counted(j), ~ j.done, NEW loaded \in BOOLEAN
    PROVE  /\ Count(j, loaded) \in Job /\ Count(j, loaded).city = j.city
           /\ Count(j, loaded).x = j.x /\ Count(j, loaded).y = j.y
           /\ Count(j, loaded).zIndex = j.zIndex /\ Count(j, loaded).done = FALSE
           /\ LogSet(Count(j, loaded)) = LogSet(j) \cup {Spot(j.x, j.y, j.zIndex)}
           /\ Count(j, loaded).squares + Count(j, loaded).missing = j.squares + j.missing + 1
<1>1. j \in Job /\ j.x \in Int /\ j.y \in Int /\ j.zIndex \in 1 .. Len(ZLevels)
      /\ j.log \in Seq(Int \X Int \X Int) /\ j.squares \in Nat /\ j.missing \in Nat
      /\ j.done = FALSE
    BY DEF Counted, Job
<1>2. Spot(j.x, j.y, j.zIndex) \in Int \X Int \X Int
    BY <1>1, LevelsAre DEF Spot
<1>3. PICK here : here = Spot(j.x, j.y, j.zIndex)
    OBVIOUS
<1>4. PICK s \in Nat, m \in Nat : /\ s = (IF loaded THEN j.squares + 1 ELSE j.squares)
                                  /\ m = (IF loaded THEN j.missing ELSE j.missing + 1)
    <2>1. CASE loaded = TRUE
        BY <1>1, <2>1
    <2>2. CASE loaded = FALSE
        BY <1>1, <2>2
    <2> QED BY <2>1, <2>2
<1>5. s + m = j.squares + j.missing + 1
    <2>1. CASE loaded = TRUE
        BY <1>1, <1>4, <2>1
    <2>2. CASE loaded = FALSE
        BY <1>1, <1>4, <2>2
    <2> QED BY <2>1, <2>2
<1>6. PICK l \in Seq(Int \X Int \X Int) : l = Append(j.log, here)
    BY <1>1, <1>2, <1>3, AppendProperties
<1>7. PICK k : k = Count(j, loaded)
    OBVIOUS
<1>8. k = [j EXCEPT !.squares = s, !.missing = m, !.log = l]
    BY <1>1, <1>3, <1>4, <1>6, <1>7 DEF Count, Spot, Job
<1>9. k \in Job /\ k.city = j.city /\ k.x = j.x /\ k.y = j.y /\ k.zIndex = j.zIndex
      /\ k.done = FALSE /\ k.squares = s /\ k.missing = m /\ k.log = l
    BY <1>1, <1>8 DEF Job
<1>10. LogSet(k) = LogSet(j) \cup {here}
    <2>1. /\ DOMAIN j.log = 1 .. Len(j.log) /\ Len(j.log) \in Nat
          /\ DOMAIN l = 1 .. (Len(j.log) + 1)
          /\ \A i \in 1 .. Len(j.log) : l[i] = j.log[i]
          /\ l[Len(j.log) + 1] = here
        BY <1>1, <1>2, <1>3, <1>6, LenProperties, AppendProperties
    <2>2. 1 .. (Len(j.log) + 1) = 1 .. Len(j.log) \cup {Len(j.log) + 1}
        BY <2>1
    <2> QED BY <1>9, <2>1, <2>2 DEF LogSet
<1> QED BY <1>3, <1>5, <1>7, <1>9, <1>10

\* One round of the loop.
Round(j, loaded) == IF j.done THEN j ELSE Move(Count(j, loaded))

\* A round moves the cursor past one tile of the city, a new one.
LEMMA RoundIs ==
    ASSUME NEW j, Counted(j), ~ j.done, NEW loaded \in BOOLEAN
    PROVE  /\ Counted(Round(j, loaded)) /\ Round(j, loaded).city = j.city
           /\ LogSet(Round(j, loaded)) = LogSet(j) \cup {Spot(j.x, j.y, j.zIndex)}
           /\ Spot(j.x, j.y, j.zIndex) \in TilesOf(j.city)
           /\ Spot(j.x, j.y, j.zIndex) \notin LogSet(j)
<1>0. PICK b, x, y, i : b = j.city /\ x = j.x /\ y = j.y /\ i = j.zIndex
    OBVIOUS
<1>1. /\ j \in Job /\ b \in Boxes /\ x \in b.x1 .. b.x2 /\ y \in b.y1 .. b.y2
      /\ i \in 1 .. Len(ZLevels)
      /\ LogSet(j) = Before(b, x, y, i)
      /\ Cardinality(LogSet(j)) = j.squares + j.missing
    BY <1>0 DEF Counted, Job
<1>2. PICK c : c = Count(j, loaded)
    OBVIOUS
<1>3. /\ c \in Job /\ c.city = b /\ c.x = x /\ c.y = y /\ c.zIndex = i /\ c.done = FALSE
      /\ LogSet(c) = LogSet(j) \cup {Spot(x, y, i)}
      /\ c.squares + c.missing = j.squares + j.missing + 1
    BY <1>0, <1>2, CountIs
<1>4. Spot(x, y, i) \in TilesOf(b) /\ Spot(x, y, i) \notin LogSet(j)
    BY <1>1, BeforeGrows
<1>5. IsFiniteSet(LogSet(j))
    <2>1. LogSet(j) \in SUBSET TilesOf(b)
        BY <1>1 DEF Before
    <2> QED BY <1>1, <2>1, TilesCount, FS_Subset
<1>6. Cardinality(LogSet(c)) = c.squares + c.missing
    <2>1. Cardinality(LogSet(c)) = Cardinality(LogSet(j)) + 1
        <3>1. PICK t : t = Spot(x, y, i)
            OBVIOUS
        <3>2. LogSet(c) = LogSet(j) \cup {t} /\ t \notin LogSet(j)
            BY <1>3, <1>4, <3>1
        <3> QED BY <1>5, <3>2, FS_AddElement
    <2> QED BY <1>1, <1>3, <2>1
<1>7. /\ x \in Int /\ y \in Int /\ i \in Nat /\ i <= Len(ZLevels)
      /\ b.x1 \in Int /\ b.x2 \in Int /\ b.y1 \in Int /\ b.y2 \in Int
      /\ b.x1 <= x /\ x <= b.x2 /\ b.y1 <= y /\ y <= b.y2 /\ Len(ZLevels) \in Nat
      /\ 1 <= i /\ b.x1 <= b.x2 /\ 1 <= Len(ZLevels)
    BY <1>1, BoxIs, LevelsAre
<1>8. PICK k : k = Move(c)
    OBVIOUS
<1>9. SUFFICES Counted(k) /\ k.city = b /\ LogSet(k) = LogSet(c)
    <2>1. Round(j, loaded) = k
        BY <1>2, <1>8 DEF Round
    <2> QED BY <1>0, <1>3, <1>4, <1>9, <2>1
<1>10. CASE i < Len(ZLevels)
    <2>1. PICK n \in 1 .. Len(ZLevels) : n = i + 1
        BY <1>7, <1>10
    <2>2. k = [c EXCEPT !.zIndex = n]
        BY <1>3, <1>8, <1>10, <2>1 DEF Move, Job
    <2>3. /\ k \in Job /\ k.city = b /\ k.x = x /\ k.y = y /\ k.zIndex = n /\ k.done = FALSE
          /\ k.log = c.log /\ k.squares = c.squares /\ k.missing = c.missing
        BY <1>3, <2>2 DEF Job
    <2>4. LogSet(k) = LogSet(c)
        BY <2>3 DEF LogSet
    <2>5. LogSet(k) = Before(b, x, y, n)
        BY <1>1, <1>3, <1>10, <2>1, <2>4, BeforeGrows
    <2> QED BY <1>1, <1>6, <2>3, <2>4, <2>5 DEF Counted
<1>11. CASE ~ (i < Len(ZLevels)) /\ x < b.x2
    <2>1. PICK n \in b.x1 .. b.x2 : n = x + 1
        BY <1>7, <1>11
    <2>2. k = [c EXCEPT !.zIndex = 1, !.x = n]
        BY <1>3, <1>8, <1>11, <2>1 DEF Move, Job
    <2>3. n \in Int /\ 1 \in 1 .. Len(ZLevels) /\ i = Len(ZLevels)
        BY <1>7, <1>11
    <2>4. /\ k \in Job /\ k.city = b /\ k.x = n /\ k.y = y /\ k.zIndex = 1 /\ k.done = FALSE
          /\ k.log = c.log /\ k.squares = c.squares /\ k.missing = c.missing
        BY <1>3, <2>2, <2>3 DEF Job
    <2>5. LogSet(k) = LogSet(c)
        BY <2>4 DEF LogSet
    <2>6. LogSet(k) = Before(b, n, y, 1)
        BY <1>1, <1>3, <1>11, <2>1, <2>3, <2>5, BeforeGrows
    <2> QED BY <1>1, <1>6, <2>1, <2>4, <2>5, <2>6 DEF Counted
<1>12. CASE ~ (i < Len(ZLevels)) /\ ~ (x < b.x2)
    <2>1. PICK n \in Int : n = y + 1
        BY <1>7
    <2>2. PICK last : last = (y >= b.y2)
        OBVIOUS
    <2>3. k = [c EXCEPT !.zIndex = 1, !.x = b.x1, !.y = n, !.done = last]
        <3>1. k = [c EXCEPT !.zIndex = 1, !.x = c.city.x1, !.y = c.y + 1,
                            !.done = (c.y >= c.city.y2)]
            BY <1>3, <1>8, <1>12 DEF Move, Job
        <3>2. c.city.x1 = b.x1 /\ c.y + 1 = n /\ (c.y >= c.city.y2) = last
            BY <1>3, <2>1, <2>2, Zenon
        <3> QED BY <3>1, <3>2, Zenon
    <2>4. 1 \in 1 .. Len(ZLevels) /\ i = Len(ZLevels) /\ x = b.x2 /\ b.x1 \in b.x1 .. b.x2
        BY <1>7, <1>12
    <2>5. last \in BOOLEAN
        BY <2>2
    <2>6. /\ k \in Job /\ k.city = b /\ k.x = b.x1 /\ k.y = n /\ k.zIndex = 1 /\ k.done = last
          /\ k.log = c.log /\ k.squares = c.squares /\ k.missing = c.missing
        BY <1>3, <1>7, <2>3, <2>4, <2>5 DEF Job
    <2>7. LogSet(k) = LogSet(c)
        BY <2>6 DEF LogSet
    <2>8. LogSet(k) = Before(b, b.x1, n, 1)
        BY <1>1, <1>3, <1>12, <2>1, <2>4, <2>7, BeforeGrows
    <2>9. CASE y >= b.y2
        <3>1. last = TRUE /\ n = b.y2 + 1
            <4>1. (y >= b.y2) = TRUE /\ n = b.y2 + 1
                BY <1>7, <2>1, <2>9
            <4> QED BY <2>2, <4>1, Zenon
        <3> QED BY <1>1, <1>6, <2>4, <2>6, <2>7, <2>8, <3>1 DEF Counted
    <2>10. CASE ~ (y >= b.y2)
        <3>1. last = FALSE /\ n \in b.y1 .. b.y2
            <4>1. (y >= b.y2) = FALSE /\ n \in b.y1 .. b.y2
                BY <1>7, <2>1, <2>10
            <4> QED BY <2>2, <4>1, Zenon
        <3> QED BY <1>1, <1>6, <2>4, <2>6, <2>7, <2>8, <3>1 DEF Counted
    <2> QED BY <2>9, <2>10
<1> QED BY <1>10, <1>11, <1>12

(***************************************************************************)
(* A tick.  The rounds are a function on 0 .. Budget that is given by its  *)
(* value before; that there is one is by the least number without one.     *)
(***************************************************************************)

\* The least number for which something does not hold.
LEMMA Least ==
    ASSUME NEW T \in SUBSET Nat, T # {}
    PROVE  \E m \in T : \A i \in T : m <= i
<1>1. PICK m \in T : \A i \in T : ~ <<i, m>> \in OpToRel(<, Nat)
    BY NatLessThanWellFounded, WFMin
<1>2. ASSUME NEW i \in T, i < m
      PROVE  FALSE
    <2>1. <<i, m>> \in Nat \X Nat /\ <<i, m>>[1] = i /\ <<i, m>>[2] = m
        OBVIOUS
    <2>2. <<i, m>> \in OpToRel(<, Nat)
        BY <1>2, <2>1 DEF OpToRel
    <2> QED BY <1>1, <2>2
<1> QED BY <1>2

After(job, loaded, f, n) ==
    IF n = 0 THEN job ELSE LET j == f[n - 1]
                           IN  IF j.done THEN j ELSE Move(Count(j, n \in loaded))

LEMMA RoundsExist ==
    ASSUME NEW job, NEW loaded, NEW n \in 0 .. Budget
    PROVE  \E f : f = [m \in 0 .. n |-> After(job, loaded, f, m)]
<1> DEFINE Has(k) == \E f : f = [m \in 0 .. k |-> After(job, loaded, f, m)]
           Bad == {k \in 0 .. Budget : ~ Has(k)}
<1>1. SUFFICES ASSUME Bad # {} PROVE FALSE
    BY <1>1
<1>2. Budget \in Nat /\ Bad \in SUBSET Nat
    BY LevelsAre
<1>3. PICK k \in Bad : \A i \in Bad : k <= i
    <2> HIDE DEF Bad
    <2> QED BY <1>1, <1>2, Least
<1>4. k \in Nat /\ k <= Budget /\ ~ Has(k)
    BY <1>2
<1>5. CASE k = 0
    <2> DEFINE f == [m \in 0 .. 0 |-> job]
    <2>1. f = [m \in 0 .. 0 |-> After(job, loaded, f, m)]
        BY DEF After
    <2> HIDE DEF f
    <2> QED BY <1>4, <1>5, <2>1
<1>6. CASE k # 0
    <2>1. k - 1 \in 0 .. Budget /\ k - 1 \in Nat /\ k - 1 < k
        BY <1>2, <1>4, <1>6
    <2>2. k - 1 \notin Bad
        <3> HIDE DEF Bad
        <3> QED BY <1>3, <1>4, <2>1
    <2>3. PICK g : g = [m \in 0 .. (k - 1) |-> After(job, loaded, g, m)]
        BY <2>1, <2>2
    <2> HIDE DEF Bad
    <2> DEFINE f == [m \in 0 .. k |-> IF m = k THEN After(job, loaded, g, k) ELSE g[m]]
               h == [m \in 0 .. k |-> After(job, loaded, f, m)]
    <2>4. ASSUME NEW m \in 0 .. k
          PROVE  f[m] = After(job, loaded, f, m)
        <3>1. After(job, loaded, f, m) = After(job, loaded, g, m)
            BY <1>4 DEF After
        <3>2. m # k => g[m] = After(job, loaded, g, m)
            <4>1. m # k => m \in 0 .. (k - 1)
                BY <1>4
            <4> HIDE DEF f, h
            <4> QED BY <2>3, <4>1
        <3> QED BY <3>1, <3>2
    <2>5. f = h
        BY <2>4
    <2> HIDE DEF f
    <2> QED BY <1>4, <2>5
<1> QED BY <1>5, <1>6

\* A tick moves the cursor past at least one tile of the city and at most
\* SQUARES_PER_TICK, none of them for the second time.
LEMMA WalkIs ==
    ASSUME NEW job, Counted(job), ~ job.done, NEW loaded
    PROVE  /\ Counted(Walk(job, loaded)) /\ Walk(job, loaded).city = job.city
           /\ LogSet(job) \subseteq LogSet(Walk(job, loaded))
           /\ LogSet(Walk(job, loaded)) \ LogSet(job) # {}
           /\ IsFiniteSet(LogSet(Walk(job, loaded)) \ LogSet(job))
           /\ Cardinality(LogSet(Walk(job, loaded)) \ LogSet(job)) <= Budget
<1> DEFINE after == CHOOSE f : f = [n \in 0 .. Budget |-> After(job, loaded, f, n)]
<1>0. Budget \in Nat /\ Budget >= 1 /\ Budget \in 0 .. Budget
    BY LevelsAre
<1>1. after = [n \in 0 .. Budget |-> After(job, loaded, after, n)]
    BY <1>0, RoundsExist
<1>2. Walk(job, loaded) = after[Budget]
    BY DEF Walk, After
<1> HIDE DEF after
<1>3. \A n \in 0 .. Budget : after[n] = After(job, loaded, after, n)
    BY <1>1
<1> DEFINE new(n) == LogSet(after[n]) \ LogSet(job)
           Fine(n) == /\ Counted(after[n]) /\ after[n].city = job.city
                      /\ LogSet(job) \subseteq LogSet(after[n])
                      /\ n # 0 => new(n) # {}
                      /\ n = 0 => ~ after[n].done
                      /\ IsFiniteSet(new(n)) /\ Cardinality(new(n)) <= n
           Bad == {n \in 0 .. Budget : ~ Fine(n)}
<1>4. Bad = {}
    <2>1. SUFFICES ASSUME Bad # {} PROVE FALSE
        BY <2>1
    <2>2. Bad \in SUBSET Nat
        BY <1>0
    <2>3. PICK k \in Bad : \A i \in Bad : k <= i
        <3> HIDE DEF Bad
        <3> QED BY <2>1, <2>2, Least
    <2>4. k \in 0 .. Budget /\ k \in Nat /\ ~ Fine(k)
        BY <1>0
    <2>5. CASE k = 0
        <3>1. after[k] = job
            BY <1>3, <2>4, <2>5 DEF After
        <3>2. new(k) = {}
            BY <3>1
        <3> QED BY <2>4, <2>5, <3>1, <3>2, FS_EmptySet
    <2>6. CASE k # 0
        <3>1. k - 1 \in 0 .. Budget /\ k - 1 < k
            BY <1>0, <2>4, <2>6
        <3>2. k - 1 \notin Bad
            <4> HIDE DEF Bad
            <4> QED BY <1>0, <2>3, <2>4, <3>1
        <3>3. Fine(k - 1)
            BY <3>1, <3>2
        <3> HIDE DEF Bad
        <3>4. PICK j : j = after[k - 1]
            OBVIOUS
        <3>5. after[k] = Round(j, k \in loaded)
            BY <1>3, <2>4, <2>6, <3>4 DEF After, Round
        <3>6. /\ Counted(j) /\ j.city = job.city /\ LogSet(job) \subseteq LogSet(j)
              /\ IsFiniteSet(LogSet(j) \ LogSet(job))
              /\ Cardinality(LogSet(j) \ LogSet(job)) <= k - 1
              /\ j.done => LogSet(j) \ LogSet(job) # {}
            BY <3>3, <3>4
        <3>7. Cardinality(LogSet(j) \ LogSet(job)) \in Nat
            BY <3>6, FS_CardinalityType
        <3>8. CASE j.done
            <4>1. after[k] = j
                BY <3>5, <3>8 DEF Round
            <4>2. Cardinality(LogSet(j) \ LogSet(job)) <= k
                BY <2>4, <3>6, <3>7
            <4> QED BY <2>4, <2>6, <3>6, <3>8, <4>1, <4>2
        <3>9. CASE ~ j.done
            <4>1. PICK t : t = Spot(j.x, j.y, j.zIndex)
                OBVIOUS
            <4>2. /\ Counted(after[k]) /\ after[k].city = job.city
                  /\ LogSet(after[k]) = LogSet(j) \cup {t} /\ t \notin LogSet(j)
                <5>1. (k \in loaded) \in BOOLEAN
                    OBVIOUS
                <5> QED BY <3>5, <3>6, <3>9, <4>1, <5>1, RoundIs
            <4>3. new(k) = (LogSet(j) \ LogSet(job)) \cup {t}
                BY <3>6, <4>2
            <4>4. IsFiniteSet(new(k))
                  /\ Cardinality(new(k)) = Cardinality(LogSet(j) \ LogSet(job)) + 1
                BY <3>6, <4>2, <4>3, FS_AddElement
            <4>5. Cardinality(new(k)) <= k
                BY <2>4, <3>6, <3>7, <4>4
            <4>6. new(k) # {} /\ LogSet(job) \subseteq LogSet(after[k])
                BY <3>6, <4>2, <4>3
            <4> QED BY <2>4, <2>6, <4>2, <4>4, <4>5, <4>6
        <3> QED BY <3>8, <3>9
    <2> QED BY <2>5, <2>6
<1>5. Fine(Budget)
    BY <1>0, <1>4
<1> QED BY <1>0, <1>2, <1>5

-----------------------------------------------------------------------------
(***************************************************************************)
(* The sweeps.  Every job of the list is under way, with a log of just     *)
(* what its cursor has passed; the one reported is done.                   *)
(***************************************************************************)

SweepInv ==
    /\ jobs \in Seq(Job)
    /\ \A n \in DOMAIN jobs : Counted(jobs[n]) /\ ~ jobs[n].done
    /\ \A n \in DOMAIN report : Counted(report[n]) /\ report[n].done

\* The list without its first job, and with another one in its place.
LEMMA Heads ==
    ASSUME NEW S, NEW s \in Seq(S), s # <<>>, NEW e \in S
    PROVE  /\ Head(s) = s[1] /\ 1 \in DOMAIN s
           /\ Tail(s) \in Seq(S) /\ Len(Tail(s)) = Len(s) - 1 /\ Len(s) \in Nat \ {0}
           /\ DOMAIN s = 1 .. Len(s) /\ DOMAIN Tail(s) = 1 .. (Len(s) - 1)
           /\ \A i \in 1 .. (Len(s) - 1) : Tail(s)[i] = s[i + 1]
           /\ <<e>> \o Tail(s) = [s EXCEPT ![1] = e]
<1>1. /\ Tail(s) \in Seq(S) /\ Len(Tail(s)) = Len(s) - 1 /\ Head(s) = s[1]
      /\ \A i \in 1 .. Len(Tail(s)) : Tail(s)[i] = s[i + 1]
      /\ Len(s) \in Nat /\ Len(s) # 0 /\ DOMAIN s = 1 .. Len(s)
    BY HeadTailProperties, LenProperties, EmptySeq
<1>2. DOMAIN Tail(s) = 1 .. (Len(s) - 1) /\ 1 \in DOMAIN s
    BY <1>1, LenProperties
<1>3. <<e>> \in Seq(S) /\ Len(<<e>>) = 1 /\ <<e>>[1] = e
    OBVIOUS
<1>4. /\ <<e>> \o Tail(s) \in Seq(S) /\ Len(<<e>> \o Tail(s)) = Len(s)
      /\ \A i \in 1 .. Len(s) : (<<e>> \o Tail(s))[i]
            = IF i <= 1 THEN <<e>>[i] ELSE Tail(s)[i - 1]
    BY <1>1, <1>3, ConcatProperties
<1>5. /\ [s EXCEPT ![1] = e] \in Seq(S) /\ Len([s EXCEPT ![1] = e]) = Len(s)
      /\ \A i \in 1 .. Len(s) : [s EXCEPT ![1] = e][i] = IF i = 1 THEN e ELSE s[i]
    BY <1>1, <1>2, ExceptSeq
<1>6. ASSUME NEW i \in 1 .. Len(s)
      PROVE  (<<e>> \o Tail(s))[i] = [s EXCEPT ![1] = e][i]
    <2>1. CASE i = 1
        BY <1>1, <1>3, <1>4, <1>5, <2>1
    <2>2. CASE i # 1
        <3>1. i - 1 \in 1 .. Len(Tail(s)) /\ ~ (i <= 1) /\ i - 1 + 1 = i
            BY <1>1, <2>2
        <3> QED BY <1>1, <1>4, <1>5, <2>2, <3>1
    <2> QED BY <2>1, <2>2
<1>7. <<e>> \o Tail(s) = [s EXCEPT ![1] = e]
    BY <1>4, <1>5, <1>6, SeqEqual
<1> QED BY <1>1, <1>2, <1>7

LEMMA SweepInitially == Init => SweepInv
BY EmptySeq DEF Init, SweepInv

LEMMA SweepStep == SweepInv /\ [Next]_vars => SweepInv'
<1> SUFFICES ASSUME SweepInv, [Next]_vars
             PROVE  SweepInv'
    OBVIOUS
<1>0. /\ jobs \in Seq(Job)
      /\ \A n \in DOMAIN jobs : Counted(jobs[n]) /\ ~ jobs[n].done
      /\ \A n \in DOMAIN report : Counted(report[n]) /\ report[n].done
    BY DEF SweepInv
<1>1. ASSUME NEW b \in Boxes, StartJob(b)
      PROVE  SweepInv'
    <2>1. PICK e : e = NewJob(b)
        OBVIOUS
    <2>2. e \in Job /\ Counted(e) /\ ~ e.done
        BY <2>1, NewJobCounted DEF Counted
    <2>3. jobs' = Append(jobs, e) /\ report' = report
        BY <1>1, <2>1 DEF StartJob
    <2>4. /\ jobs' \in Seq(Job) /\ Len(jobs') = Len(jobs) + 1
          /\ \A i \in 1 .. Len(jobs) : jobs'[i] = jobs[i]
          /\ jobs'[Len(jobs) + 1] = e
        BY <1>0, <2>2, <2>3, AppendProperties
    <2>5. \A n \in DOMAIN jobs' : n \in DOMAIN jobs \/ n = Len(jobs) + 1
        BY <1>0, <2>4, LenProperties
    <2>6. \A n \in DOMAIN jobs : n \in 1 .. Len(jobs)
        BY <1>0, LenProperties
    <2> QED BY <1>0, <2>2, <2>3, <2>4, <2>5, <2>6 DEF SweepInv
<1>2. ASSUME TickJobs
      PROVE  SweepInv'
    <2>1. PICK loaded \in SUBSET (1 .. Budget) :
              LET job == Walk(Head(jobs), loaded)
              IN  IF job.done
                  THEN jobs' = Tail(jobs) /\ report' = <<job>>
                  ELSE jobs' = <<job>> \o Tail(jobs) /\ UNCHANGED report
        BY <1>2 DEF TickJobs
    <2>2. PICK e : e = Walk(Head(jobs), loaded)
        OBVIOUS
    <2>3. jobs # <<>>
        BY <1>2 DEF TickJobs
    <2>4. Head(jobs) = jobs[1] /\ 1 \in DOMAIN jobs
        BY <1>0, <2>3, HeadTailProperties, LenProperties, EmptySeq
    <2>5. Counted(e) /\ e \in Job
        <3>1. PICK job : job = Head(jobs)
            OBVIOUS
        <3>2. Counted(job) /\ ~ job.done
            BY <1>0, <2>4, <3>1
        <3>3. Counted(e)
            BY <2>2, <3>1, <3>2, WalkIs
        <3> QED BY <3>3 DEF Counted
    <2>6. CASE e.done
        <3>1. jobs' = Tail(jobs) /\ report' = <<e>>
            BY <2>1, <2>2, <2>6
        <3>2. /\ jobs' \in Seq(Job) /\ Len(jobs) \in Nat /\ DOMAIN jobs = 1 .. Len(jobs)
              /\ \A n \in DOMAIN jobs' : n + 1 \in DOMAIN jobs /\ jobs'[n] = jobs[n + 1]
            BY <1>0, <2>3, <2>5, <3>1, Heads
        <3>3. \A n \in DOMAIN report' : report'[n] = e
            BY <3>1
        <3> QED BY <1>0, <2>5, <2>6, <3>2, <3>3 DEF SweepInv
    <2>7. CASE ~ e.done
        <3>1. jobs' = <<e>> \o Tail(jobs) /\ report' = report
            BY <2>1, <2>2, <2>7
        <3>2. jobs' = [jobs EXCEPT ![1] = e]
            BY <1>0, <2>3, <2>5, <3>1, Heads
        <3>3. jobs' \in Seq(Job) /\ DOMAIN jobs' = DOMAIN jobs
            BY <1>0, <2>4, <2>5, <3>2, ExceptSeq, LenProperties
        <3>4. \A n \in DOMAIN jobs : jobs'[n] = IF n = 1 THEN e ELSE jobs[n]
            BY <3>2
        <3> QED BY <1>0, <2>5, <2>7, <3>1, <3>3, <3>4 DEF SweepInv
    <2> QED BY <2>6, <2>7
<1>3. ASSUME JvmStop
      PROVE  SweepInv'
    BY <1>0, <1>3, EmptySeq DEF JvmStop, SweepInv
<1>4. CASE UNCHANGED vars
    BY <1>4 DEF vars, SweepInv
<1> QED BY <1>1, <1>2, <1>3, <1>4 DEF Next

LEMMA SweepHolds == Spec => []SweepInv
BY SweepInitially, SweepStep, PTL DEF Spec

(***************************************************************************)
(* The numbers of "City wipe done" are right: every tile of the city was   *)
(* counted once, as swept or as missing, and no tile was left out.         *)
(***************************************************************************)
THEOREM SweepsAreWhole == Spec => []ReportIsComplete
<1>1. SweepInv => ReportIsComplete
    <2>1. SUFFICES ASSUME SweepInv, NEW n \in DOMAIN report
                   PROVE  LET job == report[n]
                              b == job.city
                          IN  /\ job.squares + job.missing
                                   = (b.x2 - b.x1 + 1) * (b.y2 - b.y1 + 1) * Len(ZLevels)
                              /\ Cardinality(LogSet(job)) = job.squares + job.missing
        BY DEF ReportIsComplete
    <2>2. PICK job : job = report[n]
        OBVIOUS
    <2>3. PICK b : b = job.city
        OBVIOUS
    <2>4. Counted(job) /\ job.done
        <3>1. Counted(report[n]) /\ report[n].done
            BY <2>1 DEF SweepInv
        <3> QED BY <2>2, <3>1, Zenon
    <2>5. b \in Boxes /\ job.y = b.y2 + 1 /\ job.x = b.x1 /\ job.zIndex = 1
        BY <2>3, <2>4 DEF Counted, Job
    <2>6. LogSet(job) = TilesOf(b) /\ Cardinality(LogSet(job)) = job.squares + job.missing
        BY <2>3, <2>4, <2>5, BeforeEnds DEF Counted
    <2>7. Cardinality(TilesOf(b)) = (b.x2 - b.x1 + 1) * (b.y2 - b.y1 + 1) * Len(ZLevels)
        BY <2>5, TilesCount
    <2>8. job.squares + job.missing = (b.x2 - b.x1 + 1) * (b.y2 - b.y1 + 1) * Len(ZLevels)
        BY <2>6, <2>7, Zenon
    <2> QED BY <2>2, <2>3, <2>6, <2>8, Zenon
<1> QED BY <1>1, SweepHolds, PTL

-----------------------------------------------------------------------------
(***************************************************************************)
(* The plan that SweepPlan speaks of: of every job, what its log has not.  *)
(***************************************************************************)

Item(j) == [city |-> j.city, left |-> TilesOf(j.city) \ LogSet(j)]
PlanOf(js) == [n \in DOMAIN js |-> Item(js[n])]

LEMMA TilesAre == \A b : Plan!Tiles(b) = TilesOf(b)
BY DEF Plan!Tiles, TilesOf

\* Instanced operators are those of the library.
LEMMA PlanCounts == \A S : Plan!Cardinality(S) = Cardinality(S)
BY DEF Plan!Cardinality, Cardinality

LEMMA FunctionIsSeq ==
    ASSUME NEW S, NEW n \in Nat, NEW f \in [1 .. n -> S]
    PROVE  f \in Seq(S) /\ Len(f) = n
OBVIOUS

LEMMA PlanIs ==
    ASSUME NEW js \in Seq(Job)
    PROVE  /\ PlanOf(js) \in Seq({Item(j) : j \in Job})
           /\ Len(PlanOf(js)) = Len(js) /\ Len(js) \in Nat /\ DOMAIN js = 1 .. Len(js)
           /\ DOMAIN PlanOf(js) = 1 .. Len(js)
           /\ \A n \in 1 .. Len(js) : PlanOf(js)[n] = Item(js[n])
<1>1. DOMAIN js = 1 .. Len(js) /\ Len(js) \in Nat /\ \A n \in 1 .. Len(js) : js[n] \in Job
    BY LenProperties, ElementOfSeq
<1>2. PlanOf(js) = [n \in 1 .. Len(js) |-> Item(js[n])]
    BY <1>1 DEF PlanOf
<1>3. PlanOf(js) \in [1 .. Len(js) -> {Item(j) : j \in Job}]
    BY <1>1, <1>2
<1>4. \A n \in 1 .. Len(js) : PlanOf(js)[n] = Item(js[n])
    BY <1>2
<1> QED BY <1>1, <1>3, <1>4, FunctionIsSeq

\* A job more at the end.
LEMMA PlanAppends ==
    ASSUME NEW js \in Seq(Job), NEW e \in Job
    PROVE  PlanOf(Append(js, e)) = Append(PlanOf(js), Item(e))
<1> DEFINE S == {Item(j) : j \in Job}
<1>1. Item(e) \in S
    OBVIOUS
<1> HIDE DEF S
<1>2. /\ Append(js, e) \in Seq(Job) /\ Len(Append(js, e)) = Len(js) + 1
      /\ \A i \in 1 .. Len(js) : Append(js, e)[i] = js[i]
      /\ Append(js, e)[Len(js) + 1] = e
    BY AppendProperties
<1>3. /\ PlanOf(js) \in Seq(S) /\ Len(PlanOf(js)) = Len(js) /\ Len(js) \in Nat
      /\ \A n \in 1 .. Len(js) : PlanOf(js)[n] = Item(js[n])
    BY PlanIs DEF S
<1>4. /\ PlanOf(Append(js, e)) \in Seq(S) /\ Len(PlanOf(Append(js, e))) = Len(js) + 1
      /\ \A n \in 1 .. (Len(js) + 1) : PlanOf(Append(js, e))[n] = Item(Append(js, e)[n])
    BY <1>2, PlanIs DEF S
<1>5. /\ Append(PlanOf(js), Item(e)) \in Seq(S)
      /\ Len(Append(PlanOf(js), Item(e))) = Len(js) + 1
      /\ \A i \in 1 .. Len(js) : Append(PlanOf(js), Item(e))[i] = PlanOf(js)[i]
      /\ Append(PlanOf(js), Item(e))[Len(js) + 1] = Item(e)
    BY <1>1, <1>3, AppendProperties
<1>6. ASSUME NEW n \in 1 .. (Len(js) + 1)
      PROVE  PlanOf(Append(js, e))[n] = Append(PlanOf(js), Item(e))[n]
    <2>1. n \in 1 .. Len(js) \/ n = Len(js) + 1
        BY <1>3
    <2> QED BY <1>2, <1>3, <1>4, <1>5, <2>1
<1> QED BY <1>4, <1>5, <1>6, SeqEqual

\* The first job leaves, or is replaced.
LEMMA PlanHeads ==
    ASSUME NEW js \in Seq(Job), js # <<>>, NEW e \in Job
    PROVE  /\ PlanOf(js) # <<>> /\ Head(PlanOf(js)) = Item(js[1])
           /\ PlanOf(Tail(js)) = Tail(PlanOf(js))
           /\ PlanOf([js EXCEPT ![1] = e]) # <<>>
           /\ Head(PlanOf([js EXCEPT ![1] = e])) = Item(e)
           /\ Tail(PlanOf([js EXCEPT ![1] = e])) = Tail(PlanOf(js))
<1> DEFINE S == {Item(j) : j \in Job}
           ks == [js EXCEPT ![1] = e]
<1>1. Item(e) \in S
    OBVIOUS
<1> HIDE DEF S
<1>2. /\ PlanOf(js) \in Seq(S) /\ Len(PlanOf(js)) = Len(js) /\ Len(js) \in Nat \ {0}
      /\ \A n \in 1 .. Len(js) : PlanOf(js)[n] = Item(js[n])
    BY PlanIs, EmptySeq DEF S
<1>3. PlanOf(js) # <<>> /\ 1 \in 1 .. Len(js)
    BY <1>2, EmptySeq
<1>4. /\ Head(PlanOf(js)) = PlanOf(js)[1]
      /\ Tail(PlanOf(js)) \in Seq(S) /\ Len(Tail(PlanOf(js))) = Len(js) - 1
      /\ \A i \in 1 .. (Len(js) - 1) : Tail(PlanOf(js))[i] = PlanOf(js)[i + 1]
    BY <1>1, <1>2, <1>3, Heads
<1>5. /\ Tail(js) \in Seq(Job) /\ Len(Tail(js)) = Len(js) - 1
      /\ \A i \in 1 .. (Len(js) - 1) : Tail(js)[i] = js[i + 1]
    BY Heads
<1>6. /\ PlanOf(Tail(js)) \in Seq(S) /\ Len(PlanOf(Tail(js))) = Len(js) - 1
      /\ \A n \in 1 .. (Len(js) - 1) : PlanOf(Tail(js))[n] = Item(Tail(js)[n])
    BY <1>5, PlanIs DEF S
<1>7. \A n \in 1 .. (Len(js) - 1) : n + 1 \in 1 .. Len(js)
    BY <1>2
<1>8. PlanOf(Tail(js)) = Tail(PlanOf(js))
    <2>1. \A n \in 1 .. (Len(js) - 1) : PlanOf(Tail(js))[n] = Tail(PlanOf(js))[n]
        BY <1>2, <1>4, <1>5, <1>6, <1>7
    <2> QED BY <1>4, <1>6, <2>1, SeqEqual
<1>9. /\ ks \in Seq(Job) /\ Len(ks) = Len(js)
      /\ \A i \in 1 .. Len(js) : ks[i] = IF i = 1 THEN e ELSE js[i]
    BY <1>3, ExceptSeq
<1> HIDE DEF ks
<1>10. /\ PlanOf(ks) \in Seq(S) /\ Len(PlanOf(ks)) = Len(js)
       /\ \A n \in 1 .. Len(js) : PlanOf(ks)[n] = Item(ks[n])
    BY <1>9, PlanIs DEF S
<1>11. PlanOf(ks) # <<>>
    BY <1>2, <1>10, EmptySeq
<1>12. /\ Head(PlanOf(ks)) = PlanOf(ks)[1]
       /\ Tail(PlanOf(ks)) \in Seq(S) /\ Len(Tail(PlanOf(ks))) = Len(js) - 1
       /\ \A i \in 1 .. (Len(js) - 1) : Tail(PlanOf(ks))[i] = PlanOf(ks)[i + 1]
    BY <1>1, <1>10, <1>11, Heads
<1>13. Tail(PlanOf(ks)) = Tail(PlanOf(js))
    <2>1. ASSUME NEW n \in 1 .. (Len(js) - 1)
          PROVE  Tail(PlanOf(ks))[n] = Tail(PlanOf(js))[n]
        <3>1. n + 1 \in 1 .. Len(js) /\ n + 1 # 1
            BY <1>2
        <3>2. ks[n + 1] = js[n + 1]
            BY <1>9, <3>1
        <3> QED BY <1>2, <1>4, <1>10, <1>12, <3>1, <3>2
    <2> QED BY <1>4, <1>12, <2>1, SeqEqual
<1> QED BY <1>2, <1>3, <1>4, <1>8, <1>9, <1>10, <1>11, <1>12, <1>13 DEF ks

LEMMA PlanInitially == Init => Plan!Init
BY DEF Init, Plan!Init

\* Every step of the sweeps is a step of the plan, or leaves it alone.
LEMMA PlanStep ==
    SweepInv /\ [Next]_vars => [Plan!Next]_(PlanOf(jobs))
<1> SUFFICES ASSUME SweepInv, [Next]_vars
             PROVE  Plan!Next \/ PlanOf(jobs') = PlanOf(jobs)
    BY DEF PlanOf, Item, LogSet, TilesOf
<1>0. /\ jobs \in Seq(Job)
      /\ \A n \in DOMAIN jobs : Counted(jobs[n]) /\ ~ jobs[n].done
    BY DEF SweepInv
<1>1. ASSUME NEW b \in Boxes, StartJob(b)
      PROVE  Plan!Next
    <2>1. PICK e : e = NewJob(b)
        OBVIOUS
    <2>2. e \in Job /\ LogSet(e) = {} /\ e.city = b
        BY <2>1, NewJobCounted DEF Counted, NewJob
    <2>3. jobs' = Append(jobs, e)
        BY <1>1, <2>1 DEF StartJob
    <2>4. PlanOf(jobs') = Append(PlanOf(jobs), Item(e))
        BY <1>0, <2>2, <2>3, PlanAppends
    <2>5. Item(e) = [city |-> b, left |-> TilesOf(b)]
        BY <2>2 DEF Item
    <2>6. PlanOf(jobs') = Append(PlanOf(jobs), [city |-> b, left |-> Plan!Tiles(b)])
        BY <2>4, <2>5, TilesAre
    <2>7. Plan!Ask(b)
        BY <2>6 DEF Plan!Ask, PlanOf, Item
    <2> QED BY <2>7 DEF Plan!Next
<1>2. ASSUME TickJobs
      PROVE  Plan!Next
    <2>1. PICK loaded \in SUBSET (1 .. Budget) :
              LET job == Walk(Head(jobs), loaded)
              IN  IF job.done
                  THEN jobs' = Tail(jobs) /\ report' = <<job>>
                  ELSE jobs' = <<job>> \o Tail(jobs) /\ UNCHANGED report
        BY <1>2 DEF TickJobs
    <2>2. PICK job : job = Head(jobs)
        OBVIOUS
    <2>3. PICK e : e = Walk(job, loaded)
        OBVIOUS
    <2>4. jobs # <<>>
        BY <1>2 DEF TickJobs
    <2>5. job = jobs[1] /\ Counted(job) /\ ~ job.done
        <3>1. Head(jobs) = jobs[1] /\ 1 \in DOMAIN jobs
            BY <1>0, <2>4, HeadTailProperties, LenProperties, EmptySeq
        <3> QED BY <1>0, <2>2, <3>1
    <2>6. /\ Counted(e) /\ e.city = job.city /\ LogSet(job) \subseteq LogSet(e)
          /\ LogSet(e) \ LogSet(job) # {}
          /\ Cardinality(LogSet(e) \ LogSet(job)) <= Budget
        BY <2>3, <2>5, WalkIs
    <2>7. e \in Job /\ job \in Job /\ job.city \in Boxes
        BY <2>5, <2>6 DEF Counted, Job
    <2>8. LogSet(e) \subseteq TilesOf(job.city)
        BY <2>6 DEF Counted, Before
    <2>9. Item(job) = [city |-> job.city, left |-> TilesOf(job.city) \ LogSet(job)]
          /\ Item(e) = [city |-> job.city, left |-> TilesOf(job.city) \ LogSet(e)]
        BY <2>6 DEF Item
    <2>10. /\ PlanOf(jobs) # <<>> /\ Head(PlanOf(jobs)) = Item(job)
           /\ PlanOf(Tail(jobs)) = Tail(PlanOf(jobs))
           /\ PlanOf([jobs EXCEPT ![1] = e]) # <<>>
           /\ Head(PlanOf([jobs EXCEPT ![1] = e])) = Item(e)
           /\ Tail(PlanOf([jobs EXCEPT ![1] = e])) = Tail(PlanOf(jobs))
        BY <1>0, <2>4, <2>5, <2>7, PlanHeads
    <2>11. CASE e.done
        <3>1. jobs' = Tail(jobs)
            BY <2>1, <2>2, <2>3, <2>11
        <3>2. LogSet(e) = TilesOf(job.city)
            BY <2>6, <2>7, <2>11, BeforeEnds DEF Counted
        <3>3. Cardinality(Item(job).left) <= Budget
            BY <2>6, <2>9, <3>2
        <3>4. /\ PlanOf(jobs) # <<>> /\ Cardinality(Head(PlanOf(jobs)).left) <= Budget
              /\ PlanOf(jobs') = Tail(PlanOf(jobs))
            BY <2>10, <3>1, <3>3
        <3>5. Plan!Finish
            BY <3>4, PlanCounts DEF Plan!Finish, PlanOf, Item
        <3> QED BY <3>5 DEF Plan!Next
    <2>12. CASE ~ e.done
        <3>1. jobs' = [jobs EXCEPT ![1] = e]
            BY <1>0, <2>1, <2>2, <2>3, <2>4, <2>7, <2>12, Heads
        <3>2. PICK p, q : p = PlanOf(jobs) /\ q = PlanOf(jobs')
            OBVIOUS
        <3>3. /\ p # <<>> /\ q # <<>> /\ Head(p) = Item(job) /\ Head(q) = Item(e)
              /\ Tail(q) = Tail(p)
            BY <2>10, <3>1, <3>2
        <3>4. /\ Head(q).city = Head(p).city
              /\ Head(p).left = TilesOf(job.city) \ LogSet(job)
              /\ Head(q).left = TilesOf(job.city) \ LogSet(e)
            BY <2>9, <3>3
        <3>5. Head(p).left \ Head(q).left = LogSet(e) \ LogSet(job)
            BY <2>6, <2>8, <3>4
        <3>6. Head(q).left = Head(p).left \ (Head(p).left \ Head(q).left)
            BY <2>6, <3>4
        <3>7. Head(q).left # {}
            <4>1. /\ e.x \in job.city.x1 .. job.city.x2 /\ e.y \in job.city.y1 .. job.city.y2
                  /\ e.zIndex \in 1 .. Len(ZLevels)
                  /\ LogSet(e) = Before(job.city, e.x, e.y, e.zIndex)
                BY <2>6, <2>12 DEF Counted, Job
            <4>2. Spot(e.x, e.y, e.zIndex) \in TilesOf(job.city) \ LogSet(e)
                BY <2>7, <4>1, BeforeGrows
            <4> QED BY <3>4, <4>2
        <3>8. LET done == Head(p).left \ Head(q).left
              IN  /\ done # {} /\ Plan!Cardinality(done) <= Budget
                  /\ Head(q).left = Head(p).left \ done
                  /\ Head(q).left # {}
            BY <2>6, <3>5, <3>6, <3>7, PlanCounts
        <3>9. Plan!Continue
            BY <3>2, <3>3, <3>4, <3>8 DEF Plan!Continue, PlanOf, Item
        <3> QED BY <3>9 DEF Plan!Next
    <2> QED BY <2>11, <2>12
<1>3. ASSUME JvmStop
      PROVE  Plan!Next
    <2>1. jobs' = <<>>
        BY <1>3 DEF JvmStop
    <2>2. PlanOf(jobs') = <<>>
        BY <2>1 DEF PlanOf
    <2>3. Plan!Forget
        BY <2>2 DEF Plan!Forget, PlanOf, Item
    <2> QED BY <2>3 DEF Plan!Next
<1>4. CASE UNCHANGED vars
    BY <1>4 DEF vars
<1> QED BY <1>1, <1>2, <1>3, <1>4 DEF Next

(***************************************************************************)
(* The list of cursors implements SweepPlan: one city at a time, in order, *)
(* every tick handles between one and SQUARES_PER_TICK tiles of the city   *)
(* that were not handled before, none outside it, and it ends with none    *)
(* left.                                                                   *)
(***************************************************************************)
THEOREM SweepsFollowThePlan == Spec => PlanSpec
<1>1. Init => Plan!Init
    BY PlanInitially
<1>2. SweepInv /\ [Next]_vars
      => [Plan!Next]_([n \in DOMAIN jobs |->
             [city |-> jobs[n].city, left |-> TilesOf(jobs[n].city) \ LogSet(jobs[n])]])
    BY PlanStep DEF PlanOf, Item
<1> QED BY <1>1, <1>2, SweepHolds, PTL DEF Spec, PlanSpec, Plan!Spec
=============================================================================
