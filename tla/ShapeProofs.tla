---------------------------- MODULE ShapeProofs ----------------------------
(***************************************************************************)
(* SplitCD_1D deals the tasks of a CD out evenly for every number of tasks *)
(* and children it accepts, and SplitCD_3D does when the side of the cube  *)
(* of children divides the side of the cube of tasks.  From that, for      *)
(* every job: however its CDs are split, nested, left and entered again,   *)
(* the tasks of a CD agree about it and number themselves, one of them is  *)
(* its head, they agree when to reuse it, and names are unique; the        *)
(* children of a CD share its tasks evenly; and repeated 1D splits leave   *)
(* the tasks of a CD consecutive, repeated 3D splits leave them a cube.    *)
(***************************************************************************)
EXTENDS Shape, FiniteSetTheorems, TLAPS

-----------------------------------------------------------------------------
(* SplitCD                                                                   *)

\* Quotient and remainder.
LEMMA DivMod ==
  \A a \in Nat, b \in Nat \ {0} :
    a \div b \in Nat /\ a % b \in 0 .. b - 1 /\ a = b * (a \div b) + (a % b)
  OBVIOUS

\* They are unique.
LEMMA DivModUnique ==
  ASSUME NEW b \in Nat \ {0}, NEW q \in Nat, NEW r \in 0 .. b - 1
  PROVE  (b * q + r) \div b = q /\ (b * q + r) % b = r
  OBVIOUS

\* A quotient is bounded by the number of blocks.
LEMMA DivBelow ==
  ASSUME NEW b \in Nat \ {0}, NEW n \in Nat, NEW a \in 0 .. b * n - 1
  PROVE  a \div b \in 0 .. n - 1
  OBVIOUS

\* A place r of block q is one of the places of all blocks.
LEMMA InBlocks ==
  ASSUME NEW b \in Nat \ {0}, NEW n \in Nat, NEW q \in 0 .. n - 1, NEW r \in 0 .. b - 1
  PROVE  b * q + r \in 0 .. b * n - 1
<1>1. q + 1 <= n
  OBVIOUS
<1>2. \A x, y, z \in Nat : x <= y => z * x <= z * y
  OBVIOUS
<1>3. b * (q + 1) <= b * n
  BY <1>1, <1>2
<1>4. b * (q + 1) = b * q + b
  OBVIOUS
<1>5. b * q \in Nat /\ b * n \in Nat
  OBVIOUS
<1> QED
  BY <1>3, <1>4, <1>5

\* SplitCD_1D fills every place of every child, whatever the numbers of tasks
\* and children are, as long as it does not refuse them.
THEOREM Deal1D ==
  ASSUME NEW size \in Nat \ {0}, NEW num \in Nat \ {0}, Splits1D(size, num)
  PROVE  IsDeal([i \in 0 .. size - 1 |-> SplitCD_1D(i, size, num)], size, num, size \div num)
<1> DEFINE m == size \div num
           split == [i \in 0 .. size - 1 |-> SplitCD_1D(i, size, num)]
<1>1. m \in Nat \ {0} /\ size = m * num
  <2>1. size = num * m + 0 /\ m \in Nat
    BY DivMod, Zenon DEF Splits1D
  <2>2. \A a \in Nat : num * a = a * num
    OBVIOUS
  <2>3. m # 0
    BY <2>1
  <2> QED
    BY <2>1, <2>2, <2>3
<1>2. \A i \in 0 .. size - 1 : split[i].color = i \div m /\ split[i].task = i % m
  BY Zenon DEF SplitCD_1D
<1> HIDE DEF m, split
<1>3. ASSUME NEW i \in 0 .. size - 1
      PROVE  split[i].color \in 0 .. num - 1 /\ split[i].task \in 0 .. m - 1
  <2>1. i \div m \in 0 .. num - 1
    BY <1>1, DivBelow, Zenon
  <2>2. i % m \in 0 .. m - 1
    <3>1. i \in Nat
      OBVIOUS
    <3> QED
      BY <1>1, <3>1, DivMod, Zenon
  <2> QED
    BY <1>2, <2>1, <2>2, Zenon
<1>4. ASSUME NEW i \in 0 .. size - 1, NEW j \in 0 .. size - 1,
             split[i].color = split[j].color, split[i].task = split[j].task
      PROVE  i = j
  <2>1. i = m * (i \div m) + (i % m) /\ j = m * (j \div m) + (j % m)
    BY <1>1, DivMod
  <2>2. i \div m = j \div m /\ i % m = j % m
    BY <1>2, <1>4, Zenon
  <2> QED
    BY <2>1, <2>2, Zenon
<1>5. ASSUME NEW c \in 0 .. num - 1, NEW r \in 0 .. m - 1
      PROVE  \E i \in 0 .. size - 1 : split[i].color = c /\ split[i].task = r
  <2>1. m * c + r \in 0 .. size - 1
    BY <1>1, InBlocks, Zenon
  <2>2. (m * c + r) \div m = c /\ (m * c + r) % m = r
    BY <1>1, DivModUnique
  <2> QED
    BY <1>2, <2>1, <2>2, Zenon
<1>6. IsDeal(split, size, num, m)
  BY <1>3, <1>4, <1>5, Zenon DEF IsDeal
<1> QED
  BY <1>6, Zenon DEF split, m

\* The place in a cube of side s is below s * s * s, and XYZ finds it again.
LEMMA PlaceInCube ==
  ASSUME NEW s \in Nat \ {0}, NEW x \in 0 .. s - 1, NEW y \in 0 .. s - 1, NEW z \in 0 .. s - 1
  PROVE  /\ Place(x, y, z, s) \in 0 .. Cube(s) - 1
         /\ XYZ(Place(x, y, z, s), s) = [X |-> x, Y |-> y, Z |-> z]
<1> DEFINE b == s * s
           w == s * y + x
<1>1. b \in Nat \ {0}
  <2>1. \A a \in Nat \ {0} : a * a \in Nat \ {0}
    OBVIOUS
  <2> QED
    BY <2>1, Zenon
<1>2. w \in 0 .. b - 1
  BY InBlocks, Zenon
<1>3. w \div s = y /\ w % s = x
  BY DivModUnique
<1>4. Place(x, y, z, s) = b * z + w
  <2>1. y * s = s * y /\ z * s * s = b * z
    OBVIOUS
  <2>2. s * y \in Nat /\ b * z \in Nat
    OBVIOUS
  <2> QED
    BY <2>1, <2>2 DEF Place
<1>5. Cube(s) = b * s
  BY Zenon DEF Cube
<1> HIDE DEF b, w
<1>6. b * z + w \in 0 .. b * s - 1
  BY <1>1, <1>2, InBlocks, Zenon
<1>7. (b * z + w) \div b = z /\ (b * z + w) % b = w
  BY <1>1, <1>2, DivModUnique
<1>8. XYZ(Place(x, y, z, s), s) = [X |-> x, Y |-> y, Z |-> z]
  <2>1. XYZ(Place(x, y, z, s), s)
          = [X |-> ((b * z + w) % b) % s, Y |-> ((b * z + w) % b) \div s, Z |-> (b * z + w) \div b]
    BY <1>4, Zenon DEF XYZ, b
  <2> QED
    BY <2>1, <1>3, <1>7, Zenon
<1> QED
  BY <1>4, <1>5, <1>6, <1>8, Zenon

\* Every number below s * s * s is a place in the cube.
LEMMA XYZInCube ==
  ASSUME NEW s \in Nat \ {0}, NEW id \in 0 .. Cube(s) - 1
  PROVE  LET p == XYZ(id, s)
         IN  /\ p.X \in 0 .. s - 1 /\ p.Y \in 0 .. s - 1 /\ p.Z \in 0 .. s - 1
             /\ Place(p.X, p.Y, p.Z, s) = id
<1> DEFINE b == s * s
           w == id % b
           Z == id \div b
           Y == w \div s
           X == w % s
<1>1. b \in Nat \ {0}
  <2>1. \A a \in Nat \ {0} : a * a \in Nat \ {0}
    OBVIOUS
  <2> QED
    BY <2>1, Zenon
<1>2. id \in 0 .. b * s - 1
  BY Zenon DEF Cube
<1>3. XYZ(id, s) = [X |-> X, Y |-> Y, Z |-> Z]
  BY Zenon DEF XYZ
<1>4. \A v \in Nat : v * s * s = b * v
  OBVIOUS
<1> HIDE DEF b
<1>5. Z \in 0 .. s - 1
  BY <1>1, <1>2, DivBelow, Zenon
<1>6. id \in Nat
  BY <1>1, <1>2
<1>7. w \in 0 .. b - 1 /\ id = b * Z + w
  BY <1>1, <1>6, DivMod, Zenon
<1>8. w \in 0 .. s * s - 1
  BY <1>7, Zenon DEF b
<1> HIDE DEF w, Z
<1>9. Y \in 0 .. s - 1
  BY <1>8, DivBelow, Zenon
<1>10. w \in Nat
  BY <1>1, <1>7
<1>11. X \in 0 .. s - 1 /\ w = s * Y + X
  BY <1>10, DivMod, Zenon
<1> HIDE DEF X, Y
<1>12. Y * s = s * Y /\ s * Y \in Nat
  BY <1>9
<1>13. Z * s * s = b * Z /\ b * Z \in Nat
  BY <1>1, <1>4, <1>5
<1>14. Place(X, Y, Z, s) = X + s * Y + b * Z
  BY <1>12, <1>13, Zenon DEF Place
<1>15. Place(X, Y, Z, s) = id
  BY <1>7, <1>11, <1>12, <1>13, <1>14
<1> QED
  BY <1>3, <1>5, <1>9, <1>11, <1>15

\* Only 0 has the cube 0.
LEMMA CubeIsPositive ==
  \A a \in Nat : Cube(a) \in Nat /\ (Cube(a) # 0 <=> a # 0)
<1> SUFFICES ASSUME NEW a \in Nat
             PROVE  Cube(a) \in Nat /\ (Cube(a) # 0 <=> a # 0)
  BY Zenon
<1>1. \A x, y \in Nat : x * y \in Nat /\ (x # 0 /\ y # 0 => x * y # 0) /\ (x = 0 \/ y = 0 => x * y = 0)
  OBVIOUS
<1>2. a * a \in Nat /\ (a * a # 0 <=> a # 0)
  BY <1>1, Zenon
<1> QED
  BY <1>1, <1>2, Zenon DEF Cube

\* SplitCD_3D fills every place of every child, if the number of children in a
\* direction divides the number of tasks in it.  Its assertions do not ask for
\* that: they let 64 children of 125 tasks through.
THEOREM Deal3D ==
  ASSUME NEW size \in Nat \ {0}, NEW num \in Nat \ {0}, Splits3D(size, num),
         CubeRoot(size) % CubeRoot(num) = 0
  PROVE  IsDeal([i \in 0 .. size - 1 |-> SplitCD_3D(i, size, num)], size, num, size \div num)
<1> DEFINE side == CubeRoot(size)
           nc == CubeRoot(num)
           n == side \div nc
           split == [i \in 0 .. size - 1 |-> SplitCD_3D(i, size, num)]
<1>1. side \in Nat /\ nc \in Nat /\ Cube(side) = size /\ Cube(nc) = num
  BY Zenon DEF Splits3D
<1>2. Cube(n) = size \div num /\ n # 0
  BY Zenon DEF Splits3D
<1>3. \A i \in 0 .. size - 1 :
        LET p == XYZ(i, side)
        IN  /\ split[i].color = Place(p.X \div n, p.Y \div n, p.Z \div n, nc)
            /\ split[i].task = Place(p.X % n, p.Y % n, p.Z % n, n)
  BY Zenon DEF SplitCD_3D
<1>4. side % nc = 0
  BY Zenon
<1> HIDE DEF side, nc
<1>5. side \in Nat \ {0} /\ nc \in Nat \ {0}
  BY <1>1, CubeIsPositive, Zenon
<1>6. n \in Nat /\ side = nc * n + (side % nc)
  BY <1>5, DivMod, Zenon
<1>7. n \in Nat \ {0} /\ side = n * nc
  <2>1. \A a, b \in Nat : a * b + 0 = b * a
    OBVIOUS
  <2> QED
    BY <1>2, <1>4, <1>5, <1>6, <2>1, Zenon
<1> HIDE DEF n, split
<1>8. ASSUME NEW v \in 0 .. side - 1
      PROVE  v \div n \in 0 .. nc - 1 /\ v % n \in 0 .. n - 1 /\ v = n * (v \div n) + (v % n)
  <2>1. v \in 0 .. n * nc - 1 /\ v \in Nat
    BY <1>5, <1>7
  <2>2. v \div n \in 0 .. nc - 1
    BY <1>5, <1>7, <2>1, DivBelow, Zenon
  <2> QED
    BY <1>7, <2>1, <2>2, DivMod, Zenon
<1>9. ASSUME NEW i \in 0 .. size - 1
      PROVE  /\ XYZ(i, side).X \in 0 .. side - 1
             /\ XYZ(i, side).Y \in 0 .. side - 1
             /\ XYZ(i, side).Z \in 0 .. side - 1
             /\ Place(XYZ(i, side).X, XYZ(i, side).Y, XYZ(i, side).Z, side) = i
  BY <1>1, <1>5, XYZInCube
<1>10. ASSUME NEW i \in 0 .. size - 1
       PROVE  /\ split[i].color \in 0 .. num - 1
              /\ split[i].task \in 0 .. size \div num - 1
              /\ XYZ(split[i].color, nc) = [X |-> XYZ(i, side).X \div n, Y |-> XYZ(i, side).Y \div n,
                                            Z |-> XYZ(i, side).Z \div n]
              /\ XYZ(split[i].task, n) = [X |-> XYZ(i, side).X % n, Y |-> XYZ(i, side).Y % n,
                                          Z |-> XYZ(i, side).Z % n]
  <2> DEFINE p == XYZ(i, side)
  <2>1. p.X \in 0 .. side - 1 /\ p.Y \in 0 .. side - 1 /\ p.Z \in 0 .. side - 1
    BY <1>9, Zenon
  <2>2. split[i].color = Place(p.X \div n, p.Y \div n, p.Z \div n, nc)
    BY <1>3, Zenon
  <2>3. split[i].task = Place(p.X % n, p.Y % n, p.Z % n, n)
    BY <1>3, Zenon
  <2> HIDE DEF p
  <2>4. p.X \div n \in 0 .. nc - 1 /\ p.Y \div n \in 0 .. nc - 1 /\ p.Z \div n \in 0 .. nc - 1
    BY <1>8, <2>1, Zenon
  <2>5. p.X % n \in 0 .. n - 1 /\ p.Y % n \in 0 .. n - 1 /\ p.Z % n \in 0 .. n - 1
    BY <1>8, <2>1, Zenon
  <2>6. /\ split[i].color \in 0 .. num - 1
        /\ XYZ(split[i].color, nc) = [X |-> p.X \div n, Y |-> p.Y \div n, Z |-> p.Z \div n]
    <3> DEFINE x == p.X \div n
               y == p.Y \div n
               z == p.Z \div n
    <3>1. x \in 0 .. nc - 1 /\ y \in 0 .. nc - 1 /\ z \in 0 .. nc - 1
      BY <2>4, Zenon
    <3> HIDE DEF x, y, z
    <3>2. Place(x, y, z, nc) \in 0 .. Cube(nc) - 1 /\ XYZ(Place(x, y, z, nc), nc) = [X |-> x, Y |-> y, Z |-> z]
      BY <1>5, <3>1, PlaceInCube
    <3> QED
      BY <1>1, <2>2, <3>2, Zenon DEF x, y, z
  <2>7. /\ split[i].task \in 0 .. Cube(n) - 1
        /\ XYZ(split[i].task, n) = [X |-> p.X % n, Y |-> p.Y % n, Z |-> p.Z % n]
    BY <1>7, <2>3, <2>5, PlaceInCube
  <2> QED
    BY <1>2, <2>6, <2>7, Zenon DEF p
<1>11. ASSUME NEW i \in 0 .. size - 1, NEW j \in 0 .. size - 1,
              split[i].color = split[j].color, split[i].task = split[j].task
       PROVE  i = j
  <2> DEFINE p == XYZ(i, side)
             q == XYZ(j, side)
  <2>1. p.X \div n = q.X \div n /\ p.Y \div n = q.Y \div n /\ p.Z \div n = q.Z \div n
    <3>1. XYZ(split[i].color, nc) = [X |-> p.X \div n, Y |-> p.Y \div n, Z |-> p.Z \div n]
      BY <1>10, Zenon
    <3>2. XYZ(split[i].color, nc) = [X |-> q.X \div n, Y |-> q.Y \div n, Z |-> q.Z \div n]
      BY <1>10, <1>11, Zenon
    <3> QED
      BY <3>1, <3>2
  <2>2. p.X % n = q.X % n /\ p.Y % n = q.Y % n /\ p.Z % n = q.Z % n
    <3>1. XYZ(split[i].task, n) = [X |-> p.X % n, Y |-> p.Y % n, Z |-> p.Z % n]
      BY <1>10, Zenon
    <3>2. XYZ(split[i].task, n) = [X |-> q.X % n, Y |-> q.Y % n, Z |-> q.Z % n]
      BY <1>10, <1>11, Zenon
    <3> QED
      BY <3>1, <3>2
  <2>3. /\ p.X \in 0 .. side - 1 /\ p.Y \in 0 .. side - 1 /\ p.Z \in 0 .. side - 1
        /\ q.X \in 0 .. side - 1 /\ q.Y \in 0 .. side - 1 /\ q.Z \in 0 .. side - 1
        /\ Place(p.X, p.Y, p.Z, side) = i /\ Place(q.X, q.Y, q.Z, side) = j
    BY <1>9, Zenon
  <2> HIDE DEF p, q
  <2>4. p.X = q.X
    BY <1>8, <2>1, <2>2, <2>3, Zenon
  <2>5. p.Y = q.Y
    BY <1>8, <2>1, <2>2, <2>3, Zenon
  <2>6. p.Z = q.Z
    BY <1>8, <2>1, <2>2, <2>3, Zenon
  <2> QED
    BY <2>3, <2>4, <2>5, <2>6, Zenon
<1>12. ASSUME NEW c \in 0 .. num - 1, NEW r \in 0 .. size \div num - 1
       PROVE  \E i \in 0 .. size - 1 : split[i].color = c /\ split[i].task = r
  <2> DEFINE p == XYZ(c, nc)
             q == XYZ(r, n)
             x == n * p.X + q.X
             y == n * p.Y + q.Y
             z == n * p.Z + q.Z
             i == Place(x, y, z, side)
  <2>1. /\ p.X \in 0 .. nc - 1 /\ p.Y \in 0 .. nc - 1 /\ p.Z \in 0 .. nc - 1
        /\ Place(p.X, p.Y, p.Z, nc) = c
    BY <1>1, <1>5, XYZInCube
  <2>2. /\ q.X \in 0 .. n - 1 /\ q.Y \in 0 .. n - 1 /\ q.Z \in 0 .. n - 1
        /\ Place(q.X, q.Y, q.Z, n) = r
    BY <1>2, <1>7, XYZInCube, Zenon
  <2> HIDE DEF p, q
  <2>3. ASSUME NEW a \in 0 .. nc - 1, NEW b \in 0 .. n - 1
        PROVE  n * a + b \in 0 .. side - 1 /\ (n * a + b) \div n = a /\ (n * a + b) % n = b
    <3>1. n * a + b \in 0 .. n * nc - 1
      BY <1>5, <1>7, InBlocks, Zenon
    <3>2. a \in Nat
      BY <1>5
    <3>3. (n * a + b) \div n = a /\ (n * a + b) % n = b
      BY <1>7, <3>2, DivModUnique, Zenon
    <3> QED
      BY <1>7, <3>1, <3>3, Zenon
  <2>4. x \in 0 .. side - 1 /\ x \div n = p.X /\ x % n = q.X
    BY <2>1, <2>2, <2>3, Zenon
  <2>5. y \in 0 .. side - 1 /\ y \div n = p.Y /\ y % n = q.Y
    BY <2>1, <2>2, <2>3, Zenon
  <2>6. z \in 0 .. side - 1 /\ z \div n = p.Z /\ z % n = q.Z
    BY <2>1, <2>2, <2>3, Zenon
  <2> HIDE DEF x, y, z
  <2>7. i \in 0 .. size - 1 /\ XYZ(i, side) = [X |-> x, Y |-> y, Z |-> z]
    BY <1>1, <1>5, <2>4, <2>5, <2>6, PlaceInCube
  <2> HIDE DEF i
  <2>8. /\ split[i].color = Place(x \div n, y \div n, z \div n, nc)
        /\ split[i].task = Place(x % n, y % n, z % n, n)
    BY <1>3, <2>7
  <2>9. split[i].color = c
    BY <2>1, <2>4, <2>5, <2>6, <2>8, Zenon
  <2>10. split[i].task = r
    BY <2>2, <2>4, <2>5, <2>6, <2>8, Zenon
  <2> QED
    BY <2>7, <2>9, <2>10, Zenon
<1>13. IsDeal(split, size, num, size \div num)
  BY <1>10, <1>11, <1>12, Zenon DEF IsDeal
<1> QED
  BY <1>13, Zenon DEF split

\* CDNameT gives different ranks to the children of different parents, and to
\* different children of one parent, when both parents have as many children.
THEOREM RankIsUnique ==
  ASSUME NEW num \in Nat \ {0}, NEW p \in Nat, NEW q \in Nat,
         NEW c \in 0 .. num - 1, NEW d \in 0 .. num - 1,
         RankInLevel(p, num, c) = RankInLevel(q, num, d)
  PROVE  p = q /\ c = d
<1>1. num * p + c = num * q + d
  BY Zenon DEF RankInLevel
<1>2. (num * p + c) \div num = p /\ (num * p + c) % num = c
  BY DivModUnique, Zenon
<1>3. (num * q + d) \div num = q /\ (num * q + d) % num = d
  BY DivModUnique, Zenon
<1> QED
  BY <1>1, <1>2, <1>3, Zenon

-----------------------------------------------------------------------------
(* The inductive invariant of Shape                                          *)

\* What the tasks of the CD of task t at path k hold of it.
Agreed(t, k) ==
  LET c == store[t][k]
  IN  \A u \in c.color :
        /\ k \in DOMAIN store[u]
        /\ store[u][k].color = c.color /\ store[u][k].size = c.size
        /\ store[u][k].head = c.head /\ store[u][k].rank = c.rank
        /\ store[u][k].split = c.split /\ store[u][k].siblings = c.siblings

\* Their numbers are those from 0 to size - 1, each of one task.
Numbered(t, k) ==
  LET c == store[t][k]
  IN  /\ \A u, v \in c.color : store[u][k].task = store[v][k].task => u = v
      /\ \A r \in 0 .. c.size - 1 : \E u \in c.color : store[u][k].task = r

CDType(t, k) ==
  LET c == store[t][k]
  IN  /\ c.color \subseteq Task /\ t \in c.color
      /\ c.size \in 1 .. job.size /\ c.task \in 0 .. c.size - 1 /\ c.head \in 0 .. c.size - 1
      /\ c.rank \in Nat /\ c.siblings \in Nat \ {0} /\ c.split \in {"1D", "3D"}
      /\ "split" \in DOMAIN c

\* A CD is one of the children of its parent, all of which were created together.
IsChild(t, k) ==
  LET c == store[t][k]
      p == store[t][Parent(k)]
  IN  /\ Parent(k) \in DOMAIN store[t]
      /\ c.color \subseteq p.color
      /\ \E call \in job.calls : call.name = k[Len(k)] /\ c.siblings = call.num
      /\ \E i \in 0 .. c.siblings - 1 : c.rank = RankInLevel(p.rank, c.siblings, i)
      /\ \A u \in p.color : k \in DOMAIN store[u]

\* They are all of one size, and there is one for each number below num_children.
HasSiblings(t, k) ==
  LET c == store[t][k]
      p == store[t][Parent(k)]
  IN  /\ \A u \in p.color : store[u][k].size = c.size /\ store[u][k].siblings = c.siblings
      /\ \A i \in 0 .. c.siblings - 1 :
           \E u \in p.color : store[u][k].rank = RankInLevel(p.rank, c.siblings, i)

Good(t, k) ==
  /\ k \in Seq(Names)
  /\ CDType(t, k) /\ Agreed(t, k) /\ Numbered(t, k)
  /\ k # <<>> => IsChild(t, k) /\ HasSiblings(t, k)

SameRankSameCD(t, u, k) ==
  store[t][k].rank = store[u][k].rank => store[t][k].color = store[u][k].color

AreFunctions == cur = [t \in Task |-> cur[t]] /\ store = [t \in Task |-> store[t]]

\* The inductive invariant.
ShapeInv ==
  /\ job \in Jobs
  /\ AreFunctions
  /\ \A t \in Task : cur[t] \in Seq(Names) /\ cur[t] \in DOMAIN store[t]
  /\ \A t \in Task : \A k \in DOMAIN store[t] : Good(t, k)
  /\ \A t, u \in Task : \A k \in DOMAIN store[t] \cap DOMAIN store[u] : SameRankSameCD(t, u, k)

-----------------------------------------------------------------------------
(* Paths and splits                                                          *)

\* The parent of the path of a child.
LEMMA AppendParent ==
  ASSUME NEW S, NEW p \in Seq(S), NEW e \in S
  PROVE  /\ Append(p, e) \in Seq(S) /\ Append(p, e) # <<>>
         /\ Parent(Append(p, e)) = p
         /\ Append(p, e)[Len(Append(p, e))] = e
<1>1. /\ Append(p, e) \in Seq(S) /\ Append(p, e) # <<>>
      /\ Len(Append(p, e)) = Len(p) + 1
      /\ \A i \in 1 .. Len(p) : Append(p, e)[i] = p[i]
      /\ Append(p, e)[Len(p) + 1] = e
  OBVIOUS
<1>2. Parent(Append(p, e)) = p
  BY <1>1 DEF Parent
<1> QED
  BY <1>1, <1>2, Zenon

\* The call deals the tasks of a CD out as f does.
DealsAs(f, call, size, split) ==
  /\ IsDeal(f, size, call.num, size \div call.num)
  /\ \A P : P.task \in 0 .. size - 1 /\ P.size = size /\ P.split = split
            => Placed(P, call) = f[P.task]

\* However a call splits a CD, it is a deal: by the theorems about SplitCD, or
\* because the caller gave one.
LEMMA PlacedIsDeal ==
  ASSUME NEW j \in Jobs, NEW call \in j.calls, NEW parent, CanSplit(parent, call),
         parent.size \in 1 .. j.size, call.how = "Create" => parent.split = call.split
  PROVE  \E f : DealsAs(f, call, parent.size, parent.split)
<1> DEFINE size == parent.size
           split == parent.split
<1> USE DEF DealsAs
<1>1. /\ j.size \in Nat \ {0} /\ call.num \in Nat \ {0}
      /\ call.split \in {"1D", "3D"} /\ call.how \in {"Create", "CreateColored"}
  BY JobsAssumption, Zenon
<1>2. size \in Nat \ {0}
  BY <1>1
<1>3. CASE call.how = "CreateColored" /\ DOMAIN call.place = 0 .. size - 1
  <2>1. IsDeal(call.place, size, call.num, size \div call.num)
    BY <1>3, CallerAssumption, Zenon
  <2>2. \A P : Placed(P, call) = call.place[P.task]
    BY <1>3, Zenon DEF Placed
  <2> QED
    BY <2>1, <2>2, Zenon
<1>4. CASE call.how = "Create" /\ call.num = 1
  <2> DEFINE f == [i \in 0 .. size - 1 |-> [color |-> 0, task |-> i]]
  <2>1. size \div 1 = size
    BY <1>2
  <2>2. IsDeal(f, size, 1, size)
    BY <1>2 DEF IsDeal
  <2>3. \A P : P.task \in 0 .. size - 1 => Placed(P, call) = f[P.task]
    BY <1>4, Zenon DEF Placed
  <2> QED
    BY <1>4, <2>1, <2>2, <2>3, ZenonT(30)
<1>5. CASE call.how = "Create" /\ call.num # 1 /\ split = "1D" /\ Splits1D(size, call.num)
  <2> DEFINE f == [i \in 0 .. size - 1 |-> SplitCD_1D(i, size, call.num)]
  <2>1. IsDeal(f, size, call.num, size \div call.num)
    BY <1>1, <1>2, <1>5, Deal1D, Zenon
  <2>2. \A P : P.task \in 0 .. size - 1 /\ P.size = size /\ P.split = split
               => Placed(P, call) = f[P.task]
    BY <1>5, Zenon DEF Placed
  <2> QED
    BY <2>1, <2>2, Zenon
<1>6. CASE call.how = "Create" /\ call.num # 1 /\ split = "3D" /\ Splits3D(size, call.num)
  <2> DEFINE f == [i \in 0 .. size - 1 |-> SplitCD_3D(i, size, call.num)]
  <2>1. CubeRoot(size) % CubeRoot(call.num) = 0
    BY <1>6, CallerAssumption, Zenon
  <2>2. IsDeal(f, size, call.num, size \div call.num)
    BY <1>1, <1>2, <1>6, <2>1, Deal3D, Zenon
  <2>3. \A P : P.task \in 0 .. size - 1 /\ P.size = size /\ P.split = split
               => Placed(P, call) = f[P.task]
    BY <1>6, Zenon DEF Placed
  <2> QED
    BY <2>2, <2>3, Zenon
<1> QED
  BY <1>3, <1>4, <1>5, <1>6, Zenon DEF CanSplit

\* The colors and keys of a deal of the tasks M into num sets of m.
Dealt(M, color, key, old, num, m) ==
  /\ \A u \in M : color[u] \in 0 .. num - 1 /\ key[u] \in 0 .. m - 1 /\ old[u] \in Nat
  /\ \A u, v \in M : color[u] = color[v] /\ key[u] = key[v] => u = v
  /\ \A c \in 0 .. num - 1, r \in 0 .. m - 1 : \E u \in M : color[u] = c /\ key[u] = r

\* What MPI_Comm_split of a deal gives task t.
SplitAsDealt(M, color, key, old, m, t) ==
  LET node == CommSplit(M, color, key, old)[t]
  IN  /\ \A u : u \in node.color <=> u \in M /\ color[u] = color[t]
      /\ node.size = m /\ node.task = key[t]

\* MPI_Comm_split by the colors and keys of a deal: the key is the new number.
CommSplitDeals ==
  \A M, color, key, old : \A num, m \in Nat :
    Dealt(M, color, key, old, num, m) => \A t \in M : SplitAsDealt(M, color, key, old, m, t)

\* The tasks M of the CD at a path, of this size, and the deal f of a call to
\* create children of m tasks each.
Deals(M, path, call, f, size, m) ==
  /\ call.num \in Nat \ {0} /\ size \in Nat \ {0} /\ m \in Nat \ {0}
  /\ m = size \div call.num
  /\ IsDeal(f, size, call.num, m)
  /\ \A t \in M : /\ store[t][path].task \in 0 .. size - 1 /\ store[t][path].size = size
                  /\ Placed(store[t][path], call) = f[store[t][path].task]
  /\ \A t, u \in M : store[t][path].task = store[u][path].task => t = u
  /\ \A i \in 0 .. size - 1 : \E t \in M : store[t][path].task = i

\* c is the CD that the deal gives task t.
IsDealt(M, path, call, f, m, t, c) ==
  LET P(u) == f[store[u][path].task]
  IN  /\ \A u : u \in c.color <=> u \in M /\ P(u).color = P(t).color
      /\ c.size = m /\ c.task = P(t).task /\ c.head = SelectHead(Len(path), m)
      /\ c.rank = RankInLevel(store[t][path].rank, call.num, P(t).color)
      /\ c.siblings = call.num /\ c.split = "1D" /\ "split" \in DOMAIN c

\* The CDs a Create makes are those of the deal.
LEMMA NewCDIsDealt ==
  ASSUME CommSplitDeals, NEW M, NEW path, NEW call, NEW f, NEW size, NEW m,
         Deals(M, path, call, f, size, m), NEW t \in M
  PROVE  IsDealt(M, path, call, f, m, t, NewCD(M, path, call)[t])
<1> USE DEF Deals
<1> DEFINE color == [u \in M |-> f[store[u][path].task].color]
           key == [u \in M |-> f[store[u][path].task].task]
           old == [u \in M |-> store[u][path].task]
<1>1. Dealt(M, color, key, old, call.num, m)
  <2>1. \A u \in M : color[u] \in 0 .. call.num - 1 /\ key[u] \in 0 .. m - 1 /\ old[u] \in Nat
    BY DEF IsDeal
  <2>2. \A u, v \in M : color[u] = color[v] /\ key[u] = key[v] => u = v
    BY DEF IsDeal
  <2>3. ASSUME NEW c \in 0 .. call.num - 1, NEW r \in 0 .. m - 1
        PROVE  \E u \in M : color[u] = c /\ key[u] = r
    <3>1. PICK i \in 0 .. size - 1 : f[i].color = c /\ f[i].task = r
      BY DEF IsDeal
    <3>2. PICK u \in M : store[u][path].task = i
      BY Zenon
    <3> QED
      BY <3>1, <3>2, Zenon
  <2> HIDE DEF color, key, old
  <2> QED
    BY <2>1, <2>2, <2>3, Zenon DEF Dealt
<1>5. NewCD(M, path, call)[t] =
        [color |-> CommSplit(M, color, key, old)[t].color,
         size |-> CommSplit(M, color, key, old)[t].size,
         task |-> CommSplit(M, color, key, old)[t].task,
         head |-> SelectHead(Len(path), m),
         rank |-> RankInLevel(store[t][path].rank, call.num, color[t]),
         siblings |-> call.num, split |-> "1D"]
  <2> DEFINE parent == [u \in M |-> CD(u, path)]
             placed == [u \in M |-> Placed(parent[u], call)]
  <2>1. \A u \in M : parent[u] = store[u][path]
    BY Zenon DEF CD, GetPhasePath
  <2>2. \A u \in M : placed[u] = f[store[u][path].task]
    BY <2>1, Zenon
  <2>3. /\ [u \in M |-> placed[u].color] = color
        /\ [u \in M |-> placed[u].task] = key
        /\ [u \in M |-> parent[u].task] = old
    BY <2>1, <2>2
  <2>4. NewCD(M, path, call)[t] =
          LET nd == CommSplit(M, [u \in M |-> placed[u].color], [u \in M |-> placed[u].task],
                              [u \in M |-> parent[u].task])
          IN  [color |-> nd[t].color, size |-> nd[t].size, task |-> nd[t].task,
               head |-> SelectHead(Level(path), parent[t].size \div call.num),
               rank |-> RankInLevel(parent[t].rank, call.num, placed[t].color),
               siblings |-> call.num, split |-> "1D"]
    BY Zenon DEF NewCD
  <2>5. parent[t].size \div call.num = m /\ Level(path) = Len(path)
    BY <2>1 DEF Level
  <2>6. parent[t].rank = store[t][path].rank /\ placed[t].color = color[t]
    BY <2>1, <2>2, Zenon
  <2> HIDE DEF parent, placed, color, key, old
  <2> QED
    BY <2>3, <2>4, <2>5, <2>6, Zenon
<1>6. \A u \in M : color[u] = f[store[u][path].task].color /\ key[u] = f[store[u][path].task].task
  BY Zenon
<1> HIDE DEF color, key, old
<1>8. SplitAsDealt(M, color, key, old, m, t)
  BY <1>1, Zenon DEF CommSplitDeals
<1> DEFINE c == NewCD(M, path, call)[t]
           node == CommSplit(M, color, key, old)[t]
<1>9. /\ c.color = node.color /\ c.size = node.size /\ c.task = node.task
      /\ c.head = SelectHead(Len(path), m)
      /\ c.rank = RankInLevel(store[t][path].rank, call.num, color[t])
      /\ c.siblings = call.num /\ c.split = "1D" /\ "split" \in DOMAIN c
  BY <1>5
<1>10. (\A u : u \in node.color <=> u \in M /\ color[u] = color[t]) /\ node.size = m /\ node.task = key[t]
  BY <1>8, Zenon DEF SplitAsDealt
<1> HIDE DEF c, node
<1>11. IsDealt(M, path, call, f, m, t, c)
  BY <1>6, <1>9, <1>10 DEF IsDealt
<1> QED
  BY <1>11, Zenon DEF c

\* What is true of a CD stays true when access_store_ only grows.
LEMMA StoreGrows ==
  ASSUME ShapeInv, job' = job, NEW t \in Task, NEW k \in DOMAIN store[t],
         \A u \in Task : \A i \in DOMAIN store[u] : i \in DOMAIN store'[u] /\ store'[u][i] = store[u][i]
  PROVE  Good(t, k)'
<1>1. Good(t, k)
  BY Zenon DEF ShapeInv
<1>2. Task' = Task /\ Names' = Names
  BY Zenon DEF Task, Names
<1>3. store'[t][k] = store[t][k]
  BY Zenon
<1>4. store[t][k].color \subseteq Task
  BY <1>1, Zenon DEF Good, CDType
<1>5. \A u \in store[t][k].color : k \in DOMAIN store[u] /\ store'[u][k] = store[u][k] /\ k \in DOMAIN store'[u]
  BY <1>1, <1>4, Zenon DEF Good, Agreed
<1>6. CDType(t, k)'
  BY <1>1, <1>2, <1>3, Zenon DEF Good, CDType
<1>7. Agreed(t, k)'
  BY <1>1, <1>3, <1>5 DEF Good, Agreed
<1>8. Numbered(t, k)'
  BY <1>1, <1>3, <1>5, ZenonT(30) DEF Good, Numbered
<1>9. ASSUME k # <<>>
      PROVE  IsChild(t, k)' /\ HasSiblings(t, k)'
  <2>1. IsChild(t, k) /\ HasSiblings(t, k)
    BY <1>1, <1>9, Zenon DEF Good
  <2> DEFINE pk == Parent(k)
  <2>2. pk \in DOMAIN store[t] /\ store'[t][pk] = store[t][pk] /\ pk \in DOMAIN store'[t]
    BY <2>1, Zenon DEF IsChild
  <2>3. store[t][pk].color \subseteq Task
    BY <2>2, Zenon DEF ShapeInv, Good, CDType
  <2>4. \A u \in store[t][pk].color : k \in DOMAIN store'[u]
    BY <2>1, <2>3, Zenon DEF IsChild
  <2>5. pk' = pk
    BY Zenon DEF Parent
  <2>6. IsChild(t, k)'
    BY <1>3, <2>1, <2>2, <2>4, <2>5, Zenon DEF IsChild
  <2>7. \A u \in store[t][pk].color : store'[u][k] = store[u][k]
    BY <2>1, <2>3, Zenon DEF IsChild
  <2>8. HasSiblings(t, k)'
    BY <1>3, <2>1, <2>2, <2>5, <2>7 DEF HasSiblings
  <2> QED
    BY <2>6, <2>8, Zenon
<1> QED
  BY <1>1, <1>2, <1>6, <1>7, <1>8, <1>9, Zenon DEF Good

\* The tasks that are together at a path are those of one CD.
LEMMA TogetherIsOneCD ==
  ASSUME ShapeInv, NEW M, NEW path, M \subseteq Task, Together(M, path)
  PROVE  /\ \E t \in M : TRUE
         /\ \A t \in M : /\ cur[t] = path /\ path \in DOMAIN store[t] /\ path \in Seq(Names)
                        /\ store[t][path].color = M /\ Good(t, path)
<1>1. \E t \in M : TRUE
  <2>1. path \in {cur[t] : t \in M}
    BY Zenon DEF Together
  <2> QED
    BY <2>1, Zenon
<1>2. ASSUME NEW t \in M
      PROVE  cur[t] = path /\ CD(t, path).color = M
  <2>1. cur[t] \in {path}
    BY Zenon DEF Together
  <2>2. CD(t, path).color \in {M}
    BY Zenon DEF Together
  <2> QED
    BY <2>1, <2>2, Zenon
<1>3. \A t \in M : CD(t, path) = store[t][path]
  BY Zenon DEF CD, GetPhasePath
<1>4. \A t \in M : path \in DOMAIN store[t] /\ path \in Seq(Names)
  BY <1>2, Zenon DEF ShapeInv
<1> QED
  BY <1>1, <1>2, <1>3, <1>4, Zenon DEF ShapeInv

\* A Create that gets past its guards has a deal.
LEMMA CreateDeals ==
  ASSUME ShapeInv, NEW M, NEW path, M \subseteq Task, Together(M, path), NEW call \in job.calls,
         call.how = "Create" => {CD(t, path).split : t \in M} = {call.split},
         M \subseteq {t \in Task : CheckToReuseCD(t, path) /\ CanSplit(CD(t, path), call)}
  PROVE  \E f, size, m : size \in 1 .. job.size /\ m \in 1 .. size /\ Deals(M, path, call, f, size, m)
<1>1. PICK t0 \in M : TRUE
  BY TogetherIsOneCD, Zenon
<1> DEFINE P == store[t0][path]
           size == P.size
           m == size \div call.num
<1>2. \A t \in M : store[t][path].color = M /\ Good(t, path) /\ CD(t, path) = store[t][path]
  BY TogetherIsOneCD, Zenon DEF CD, GetPhasePath
<1>3. Good(t0, path) /\ P.color = M
  BY <1>2, Zenon
<1>4. size \in 1 .. job.size
  BY <1>3, Zenon DEF Good, CDType
<1>5. job \in Jobs
  BY Zenon DEF ShapeInv
<1>6. call.num \in Nat \ {0} /\ job.size \in Nat \ {0}
  BY <1>5, JobsAssumption, Zenon
<1>7. CanSplit(P, call) /\ (call.how = "Create" => P.split = call.split)
  <2>1. CanSplit(CD(t0, path), call)
    BY Zenon
  <2>2. call.how = "Create" => CD(t0, path).split \in {call.split}
    BY Zenon
  <2> QED
    BY <1>2, <2>1, <2>2, Zenon
<1>8. PICK f : DealsAs(f, call, size, P.split)
  BY <1>4, <1>5, <1>7, PlacedIsDeal, Zenon
<1>9. \A t \in M : store[t][path].size = size /\ store[t][path].split = P.split
  BY <1>3, Zenon DEF Good, Agreed
<1>10. \A t \in M : store[t][path].task \in 0 .. size - 1
  BY <1>2, <1>9, Zenon DEF Good, CDType
<1>11. \A t \in M : Placed(store[t][path], call) = f[store[t][path].task]
  BY <1>8, <1>9, <1>10, Zenon DEF DealsAs
<1>12. /\ \A t, u \in M : store[t][path].task = store[u][path].task => t = u
       /\ \A i \in 0 .. size - 1 : \E t \in M : store[t][path].task = i
  BY <1>3, Zenon DEF Good, Numbered
<1>13. m \in 1 .. size
  <2>1. 0 \in 0 .. size - 1
    BY <1>4, <1>6
  <2>2. f[0].task \in 0 .. m - 1
    BY <1>8, <2>1, Zenon DEF DealsAs, IsDeal
  <2>3. size \in Nat
    BY <1>4, <1>6
  <2>4. m \in Nat /\ m <= size
    BY <1>6, <2>3
  <2> QED
    BY <2>2, <2>3, <2>4
<1>14. m = size \div call.num /\ m \in Nat \ {0} /\ size \in Nat \ {0}
  BY <1>4, <1>6, <1>13
<1>15. Deals(M, path, call, f, size, m)
  BY <1>6, <1>8, <1>9, <1>10, <1>11, <1>12, <1>14, Zenon DEF Deals, DealsAs
<1> QED
  BY <1>4, <1>13, <1>15, Zenon

\* Extensionality.
LEMMA SetEqual ==
  ASSUME NEW S, NEW T, \A v : v \in S <=> v \in T
  PROVE  S = T
  BY Zenon

\* A rank is a number.
LEMMA RankIsNat ==
  ASSUME NEW p \in Nat, NEW num \in Nat, NEW c \in Nat
  PROVE  RankInLevel(p, num, c) \in Nat
  BY DEF RankInLevel

\* A head is one of the tasks.
LEMMA HeadIsTask ==
  ASSUME NEW level \in Nat, NEW m \in Nat \ {0}
  PROVE  SelectHead(level, m) \in 0 .. m - 1
<1>1. level + 1 \in Nat
  OBVIOUS
<1>2. (level + 1) % m \in 0 .. m - 1
  BY <1>1, DivMod, Zenon
<1> QED
  BY <1>2, Zenon DEF SelectHead

\* A Create that splits gives every task of the CD a CD of its own at child.
Splits(M, path, call, child) ==
  /\ job' = job
  /\ M \subseteq Task
  /\ Together(M, path)
  /\ call \in job.calls
  /\ child = Append(path, call.name)
  /\ \A t \in M : /\ child \notin DOMAIN store[t]
                  /\ DOMAIN store'[t] = DOMAIN store[t] \union {child}
                  /\ store'[t][child] = NewCD(M, path, call)[t]
                  /\ \A k \in DOMAIN store[t] : store'[t][k] = store[t][k]

\* The new CD of each task is one of those the deal makes.
LEMMA NewCDIsGood ==
  ASSUME CommSplitDeals, ShapeInv, NEW M, NEW path, NEW call, NEW child, Splits(M, path, call, child),
         NEW f, NEW size \in 1 .. job.size, NEW m \in 1 .. size, Deals(M, path, call, f, size, m),
         NEW t \in M
  PROVE  Good(t, child)'
<1> DEFINE P(u) == f[store[u][path].task]
<1>1. Task' = Task /\ Names' = Names
  BY Zenon DEF Splits, Task, Names
<1>2. \A u \in M : /\ u \in Task /\ path \in DOMAIN store[u] /\ path \in Seq(Names)
                  /\ store[u][path].color = M /\ Good(u, path)
  BY TogetherIsOneCD DEF Splits
<1>3. \A u \in M : IsDealt(M, path, call, f, m, u, store'[u][child])
  BY NewCDIsDealt DEF Splits
<1>4. /\ child \in Seq(Names) /\ child # <<>> /\ Parent(child) = path
      /\ child[Len(child)] = call.name /\ Len(path) \in Nat
  <2>1. path \in Seq(Names) /\ call.name \in Names
    BY <1>2, Zenon DEF Splits, Names
  <2>2. child = Append(path, call.name)
    BY Zenon DEF Splits
  <2> QED
    BY <2>1, <2>2, AppendParent
<1>5. \A u \in M : P(u).color \in 0 .. call.num - 1 /\ P(u).task \in 0 .. m - 1
  BY Zenon DEF Deals, IsDeal
<1>6. \A u \in M : /\ store'[u][path] = store[u][path] /\ path \in DOMAIN store'[u]
                  /\ child \in DOMAIN store'[u]
  BY <1>2, Zenon DEF Splits
<1>7. \A u \in M : store[u][path].rank = store[t][path].rank /\ store[u][path].rank \in Nat
  BY <1>2, ZenonT(30) DEF Good, Agreed, CDType
<1>8. call.num \in Nat \ {0} /\ m \in Nat \ {0} /\ job.size \in Nat
  BY JobsAssumption, Zenon DEF Deals, ShapeInv
<1> DEFINE c == store'[t][child]
<1>9. \A u \in c.color : u \in M /\ P(u).color = P(t).color
  BY <1>3, Zenon DEF IsDealt
<1> HIDE DEF P
<1>10. CDType(t, child)'
  <2>1. c.color \subseteq Task /\ t \in c.color
    BY <1>2, <1>3, <1>9, Zenon DEF IsDealt, P
  <2>2. c.rank = RankInLevel(store[t][path].rank, call.num, P(t).color) /\ c.head = SelectHead(Len(path), m)
    BY <1>3, Zenon DEF IsDealt, P
  <2>3. c.rank \in Nat /\ c.head \in 0 .. m - 1
    <3>1. store[t][path].rank \in Nat /\ call.num \in Nat /\ P(t).color \in Nat
      BY <1>5, <1>7, <1>8
    <3>2. RankInLevel(store[t][path].rank, call.num, P(t).color) \in Nat
      BY <3>1, RankIsNat, Zenon
    <3>3. SelectHead(Len(path), m) \in 0 .. m - 1
      BY <1>4, <1>8, HeadIsTask, Zenon
    <3> QED
      BY <2>2, <3>2, <3>3, Zenon
  <2>4. /\ c.size = m /\ c.task \in 0 .. m - 1 /\ c.siblings = call.num /\ c.split = "1D"
        /\ "split" \in DOMAIN c
    BY <1>3, <1>5, Zenon DEF IsDealt, P
  <2>5. m \in 1 .. job.size
    BY <1>8
  <2>6. job' = job
    BY Zenon DEF Splits
  <2> HIDE DEF c
  <2>7. /\ c.color \subseteq Task' /\ t \in c.color /\ c.size \in 1 .. job'.size
        /\ c.task \in 0 .. c.size - 1 /\ c.head \in 0 .. c.size - 1
        /\ c.rank \in Nat /\ c.siblings \in Nat \ {0} /\ c.split \in {"1D", "3D"}
        /\ "split" \in DOMAIN c
    BY <1>1, <1>8, <2>1, <2>3, <2>4, <2>5, <2>6, Zenon
  <2> QED
    BY <2>7, Zenon DEF CDType, c
<1>11. Agreed(t, child)'
  <2>1. ASSUME NEW u \in c.color
        PROVE  /\ child \in DOMAIN store'[u]
               /\ store'[u][child].color = c.color /\ store'[u][child].size = c.size
               /\ store'[u][child].head = c.head /\ store'[u][child].rank = c.rank
               /\ store'[u][child].split = c.split /\ store'[u][child].siblings = c.siblings
    <3>1. u \in M /\ P(u).color = P(t).color /\ store[u][path].rank = store[t][path].rank
      BY <1>7, <1>9, Zenon
    <3>2. \A v : v \in store'[u][child].color <=> v \in c.color
      BY <1>3, <3>1 DEF IsDealt, P
    <3>3. store'[u][child].color = c.color
      BY <3>2, SetEqual, Zenon
    <3>4. /\ store'[u][child].size = c.size /\ store'[u][child].head = c.head
          /\ store'[u][child].rank = c.rank
          /\ store'[u][child].split = c.split /\ store'[u][child].siblings = c.siblings
      BY <1>3, <3>1 DEF IsDealt, P
    <3> QED
      BY <1>6, <3>1, <3>3, <3>4, Zenon
  <2> QED
    BY <2>1, Zenon DEF Agreed
<1>12. Numbered(t, child)'
  <2>1. \A u \in M : store'[u][child].task = P(u).task
    BY <1>3, Zenon DEF IsDealt, P
  <2>2. ASSUME NEW u \in c.color, NEW v \in c.color, store'[u][child].task = store'[v][child].task
        PROVE  u = v
    <3>1. u \in M /\ v \in M /\ P(u).color = P(v).color /\ P(u).task = P(v).task
      BY <1>9, <2>1, <2>2
    <3>2. /\ store[u][path].task \in 0 .. size - 1 /\ store[v][path].task \in 0 .. size - 1
          /\ \A i, j \in 0 .. size - 1 : f[i].color = f[j].color /\ f[i].task = f[j].task => i = j
      BY <3>1, Zenon DEF Deals, IsDeal
    <3>3. store[u][path].task = store[v][path].task
      BY <3>1, <3>2, Zenon DEF P
    <3> QED
      BY <3>1, <3>3, Zenon DEF Deals
  <2>3. ASSUME NEW r \in 0 .. c.size - 1
        PROVE  \E u \in c.color : store'[u][child].task = r
    <3>1. r \in 0 .. m - 1 /\ P(t).color \in 0 .. call.num - 1
      BY <1>3, <1>5, Zenon DEF IsDealt
    <3>2. PICK i \in 0 .. size - 1 : f[i].color = P(t).color /\ f[i].task = r
      BY <3>1 DEF Deals, IsDeal
    <3>3. PICK u \in M : store[u][path].task = i
      BY Zenon DEF Deals
    <3>4. P(u).color = P(t).color /\ P(u).task = r
      BY <3>2, <3>3, Zenon DEF P
    <3>5. u \in c.color
      BY <1>3, <3>4, Zenon DEF IsDealt, P
    <3> QED
      BY <2>1, <3>4, <3>5, Zenon
  <2> QED
    BY <2>2, <2>3, Zenon DEF Numbered
<1>13. IsChild(t, child)'
  <2>1. /\ c.siblings = call.num /\ P(t).color \in 0 .. call.num - 1
        /\ c.rank = RankInLevel(store[t][path].rank, call.num, P(t).color)
    BY <1>3, <1>5, Zenon DEF IsDealt, P
  <2>2. c.color \subseteq store[t][path].color
    BY <1>2, <1>9, Zenon
  <2>3. call \in job'.calls
    BY Zenon DEF Splits
  <2>4. \A u \in store[t][path].color : child \in DOMAIN store'[u]
    BY <1>2, <1>6, Zenon
  <2>5. store'[t][path] = store[t][path] /\ path \in DOMAIN store'[t]
    BY <1>6, Zenon
  <2> HIDE DEF c
  <2>6. /\ path \in DOMAIN store'[t]
        /\ c.color \subseteq store'[t][path].color
        /\ \E d \in job'.calls : d.name = child[Len(child)] /\ c.siblings = d.num
        /\ \E i \in 0 .. c.siblings - 1 : c.rank = RankInLevel(store'[t][path].rank, c.siblings, i)
        /\ \A u \in store'[t][path].color : child \in DOMAIN store'[u]
    BY <1>4, <2>1, <2>2, <2>3, <2>4, <2>5, Zenon
  <2> QED
    BY <1>4, <2>6, Zenon DEF IsChild, c
<1>14. HasSiblings(t, child)'
  <2>1. /\ store'[t][path] = store[t][path] /\ store[t][path].color = M
        /\ c.size = m /\ c.siblings = call.num
    BY <1>2, <1>3, <1>6, Zenon DEF IsDealt
  <2>2. \A u \in M : store'[u][child].size = m /\ store'[u][child].siblings = call.num
    BY <1>3, Zenon DEF IsDealt
  <2>3. ASSUME NEW i \in 0 .. call.num - 1
        PROVE  \E u \in M : store'[u][child].rank = RankInLevel(store[t][path].rank, call.num, i)
    <3>1. 0 \in 0 .. m - 1
      BY <1>8
    <3>2. PICK j \in 0 .. size - 1 : f[j].color = i /\ f[j].task = 0
      BY <3>1 DEF Deals, IsDeal
    <3>3. PICK u \in M : store[u][path].task = j
      BY Zenon DEF Deals
    <3>4. P(u).color = i /\ store[u][path].rank = store[t][path].rank
      BY <1>7, <3>2, <3>3, Zenon DEF P
    <3>5. store'[u][child].rank = RankInLevel(store[u][path].rank, call.num, P(u).color)
      BY <1>3, Zenon DEF IsDealt, P
    <3> QED
      BY <3>4, <3>5, Zenon
  <2> HIDE DEF c
  <2>4. /\ \A u \in store'[t][path].color : /\ store'[u][child].size = c.size
                                            /\ store'[u][child].siblings = c.siblings
        /\ \A i \in 0 .. c.siblings - 1 : \E u \in store'[t][path].color :
             store'[u][child].rank = RankInLevel(store'[t][path].rank, c.siblings, i)
    BY <2>1, <2>2, <2>3, Zenon
  <2> QED
    BY <1>4, <2>4, Zenon DEF HasSiblings, c
<1> QED
  BY <1>1, <1>4, <1>10, <1>11, <1>12, <1>13, <1>14, Zenon DEF Good

\* A new CD shares its rank with no CD of other tasks at the same path.
LEMMA NewCDIsNamed ==
  ASSUME CommSplitDeals, ShapeInv, NEW M, NEW path, NEW call, NEW child, Splits(M, path, call, child),
         NEW f, NEW size \in 1 .. job.size, NEW m \in 1 .. size, Deals(M, path, call, f, size, m),
         \A u \in Task \ M : store'[u] = store[u],
         NEW t \in M, NEW u \in Task, child \in DOMAIN store'[u]
  PROVE  SameRankSameCD(t, u, child)'
<1> SUFFICES ASSUME store'[t][child].rank = store'[u][child].rank
             PROVE  store'[t][child].color = store'[u][child].color
  BY Zenon DEF SameRankSameCD
<1> DEFINE P(v) == f[store[v][path].task]
<1>1. \A v \in M : /\ v \in Task /\ path \in DOMAIN store[v] /\ path \in Seq(Names)
                  /\ store[v][path].color = M /\ Good(v, path)
  BY TogetherIsOneCD DEF Splits
<1>2. \A v \in M : IsDealt(M, path, call, f, m, v, store'[v][child])
  BY NewCDIsDealt DEF Splits
<1>3. \A v \in M : P(v).color \in 0 .. call.num - 1
  BY Zenon DEF Deals, IsDeal
<1>4. \A v \in M : store[v][path].rank = store[t][path].rank /\ store[v][path].rank \in Nat
  <2>1. Agreed(t, path) /\ store[t][path].color = M
    BY <1>1, Zenon DEF Good
  <2>2. \A v \in M : CDType(v, path)
    BY <1>1, Zenon DEF Good
  <2>3. \A v \in M : store[v][path].rank = store[t][path].rank
    BY <2>1, Zenon DEF Agreed
  <2>4. \A v \in M : store[v][path].rank \in Nat
    BY <2>2, Zenon DEF CDType
  <2> QED
    BY <2>3, <2>4, Zenon
<1>5. call.num \in Nat \ {0}
  BY Zenon DEF Deals
<1>6. \A v \in M : store'[v][child].rank = RankInLevel(store[v][path].rank, call.num, P(v).color)
  BY <1>2, Zenon DEF IsDealt
<1> HIDE DEF P
<1>7. CASE u \in M
  <2>1. RankInLevel(store[t][path].rank, call.num, P(t).color)
          = RankInLevel(store[u][path].rank, call.num, P(u).color)
    BY <1>6, <1>7, Zenon
  <2>2. P(t).color = P(u).color
    <3>1. /\ store[t][path].rank \in Nat /\ store[u][path].rank \in Nat
          /\ P(t).color \in 0 .. call.num - 1 /\ P(u).color \in 0 .. call.num - 1
      BY <1>3, <1>4, <1>7, Zenon
    <3> QED
      BY <1>5, <2>1, <3>1, RankIsUnique
  <2>3. \A v : /\ v \in store'[t][child].color <=> v \in M /\ P(v).color = P(t).color
               /\ v \in store'[u][child].color <=> v \in M /\ P(v).color = P(u).color
    <3>1. IsDealt(M, path, call, f, m, t, store'[t][child]) /\ IsDealt(M, path, call, f, m, u, store'[u][child])
      BY <1>2, <1>7, Zenon
    <3> QED
      BY <3>1, Zenon DEF IsDealt, P
  <2>4. \A v : v \in store'[t][child].color <=> v \in store'[u][child].color
    BY <2>2, <2>3, Zenon
  <2> QED
    BY <2>4, SetEqual, Zenon
<1>8. CASE u \notin M
  <2>1. child \in DOMAIN store[u] /\ store'[u] = store[u]
    BY <1>8, Zenon
  <2>2. child # <<>> /\ Parent(child) = path /\ child[Len(child)] = call.name
    <3>1. path \in Seq(Names) /\ call.name \in Names
      BY <1>1, Zenon DEF Splits, Names
    <3>2. child = Append(path, call.name)
      BY Zenon DEF Splits
    <3> QED
      BY <3>1, <3>2, AppendParent
  <2>3. IsChild(u, child)
    BY <2>1, <2>2, Zenon DEF ShapeInv, Good
  <2>4. store[u][child].siblings = call.num
    <3>1. PICK d \in job.calls : d.name = call.name /\ store[u][child].siblings = d.num
      BY <2>2, <2>3, Zenon DEF IsChild
    <3>2. d = call
      BY <3>1, JobsAssumption, ZenonT(30) DEF ShapeInv, Splits
    <3> QED
      BY <3>1, <3>2, Zenon
  <2>5. path \in DOMAIN store[u]
    BY <2>2, <2>3, Zenon DEF IsChild
  <2>6. PICK i \in 0 .. call.num - 1 :
          store[u][child].rank = RankInLevel(store[u][path].rank, call.num, i)
    BY <2>2, <2>3, <2>4, Zenon DEF IsChild
  <2>7. store[u][path].rank \in Nat
    BY <2>5, Zenon DEF ShapeInv, Good, CDType
  <2>8. RankInLevel(store[t][path].rank, call.num, P(t).color)
          = RankInLevel(store[u][path].rank, call.num, i)
    BY <1>6, <2>1, <2>6, Zenon
  <2>9. store[t][path].rank = store[u][path].rank
    <3>1. store[t][path].rank \in Nat /\ P(t).color \in 0 .. call.num - 1
      BY <1>3, <1>4, Zenon
    <3> QED
      BY <1>5, <2>7, <2>8, <3>1, RankIsUnique
  <2>10. store[u][path].color = M
    BY <1>1, <2>5, <2>9 DEF ShapeInv, SameRankSameCD
  <2>12. u \in store[u][path].color
    BY <2>5, Zenon DEF ShapeInv, Good, CDType
  <2> QED
    BY <1>8, <2>10, <2>12, Zenon
<1> QED
  BY <1>7, <1>8, Zenon
-----------------------------------------------------------------------------
(* Every step keeps it                                                       *)

\* What a Create does to access_store_: nothing, when the child is there, and else all tasks of
\* the CD get one of the children of a deal.
LEMMA CreateMakes ==
  ASSUME ShapeInv, NEW M, NEW path, M \subseteq Task, NEW call \in job.calls,
         Create(M, path, call)
  PROVE  /\ job' = job /\ AreFunctions'
         /\ \/ store' = store /\ \A t \in M : Append(path, call.name) \in DOMAIN store[t]
            \/ /\ Splits(M, path, call, Append(path, call.name))
               /\ \A t \in Task \ M : store'[t] = store[t]
               /\ \E f, size, m : size \in 1 .. job.size /\ m \in 1 .. size /\ Deals(M, path, call, f, size, m)
<1> DEFINE child == Append(path, call.name)
<1>1. /\ Together(M, path) /\ job' = job
      /\ call.how = "Create" => {CD(t, path).split : t \in M} = {call.split}
      /\ M \subseteq {t \in Task : CheckToReuseCD(t, path) /\ CanSplit(CD(t, path), call)}
  BY Zenon DEF Create
<1>2. store' = [t \in Task |->
        IF t \in M /\ child \notin DOMAIN store[t]
        THEN [k \in DOMAIN store[t] \union {child} |->
                IF k = child THEN NewCD(M, path, call)[t] ELSE store[t][k]]
        ELSE store[t]]
  BY Zenon DEF Create, CheckToReuseCD, GetPhasePath
<1>3. Task' = Task
  BY <1>1, Zenon DEF Task
<1>4. \A t \in M : t \in Task /\ path \in Seq(Names) /\ store[t][path].color = M
  BY <1>1, TogetherIsOneCD, Zenon
<1>5. AreFunctions'
  BY <1>2, <1>3, Zenon DEF Create, AreFunctions
<1>6. CASE \E t \in M : child \in DOMAIN store[t]
  <2>1. PICK t \in M : child \in DOMAIN store[t]
    BY <1>6, Zenon
  <2>2. path \in Seq(Names) /\ call.name \in Names
    BY <1>4, Zenon DEF Names
  <2>3. child # <<>> /\ Parent(child) = path
    BY <2>2, AppendParent, Zenon
  <2> HIDE DEF child
  <2>4. IsChild(t, child)
    BY <1>4, <2>1, <2>3, Zenon DEF ShapeInv, Good
  <2>5. \A u \in M : child \in DOMAIN store[u]
    BY <1>4, <2>3, <2>4, Zenon DEF IsChild
  <2>6. store' = [u \in Task |-> store[u]]
    BY <1>2, <2>5, Zenon
  <2>7. store' = store
    BY <2>6, Zenon DEF ShapeInv, AreFunctions
  <2> QED
    BY <1>1, <1>5, <2>5, <2>7, Zenon DEF child
<1>7. CASE \A t \in M : child \notin DOMAIN store[t]
  <2> HIDE DEF child
  <2>1. /\ \A t \in M : store'[t] = [k \in DOMAIN store[t] \union {child} |->
                                    IF k = child THEN NewCD(M, path, call)[t] ELSE store[t][k]]
        /\ \A t \in Task \ M : store'[t] = store[t]
    BY <1>2, <1>4, <1>7, Zenon
  <2>2. \A t \in M : /\ DOMAIN store'[t] = DOMAIN store[t] \union {child}
                    /\ store'[t][child] = NewCD(M, path, call)[t]
                    /\ \A k \in DOMAIN store[t] : store'[t][k] = store[t][k]
    <3> TAKE t \in M
    <3>1. store'[t] = [k \in DOMAIN store[t] \union {child} |->
                         IF k = child THEN NewCD(M, path, call)[t] ELSE store[t][k]]
      BY <2>1, Zenon
    <3>2. child \notin DOMAIN store[t]
      BY <1>7, Zenon
    <3>3. DOMAIN store'[t] = DOMAIN store[t] \union {child}
      BY <3>1, Zenon
    <3>4. store'[t][child] = NewCD(M, path, call)[t]
      BY <3>1, Zenon
    <3>5. \A k \in DOMAIN store[t] : store'[t][k] = store[t][k]
      BY <3>1, <3>2, Zenon
    <3> QED
      BY <3>3, <3>4, <3>5, Zenon
  <2>3. Splits(M, path, call, child)
    BY <1>1, <1>7, <2>2, Zenon DEF Splits, child
  <2>4. \E f, size, m : size \in 1 .. job.size /\ m \in 1 .. size /\ Deals(M, path, call, f, size, m)
    BY <1>1, CreateDeals, Zenon
  <2> QED
    BY <1>1, <1>5, <2>1, <2>3, <2>4, Zenon DEF child
<1> QED
  BY <1>6, <1>7, Zenon

\* Create keeps the invariant.
LEMMA CreateStep ==
  ASSUME CommSplitDeals, ShapeInv, NEW M, NEW path, M \subseteq Task, NEW call \in job.calls,
         Create(M, path, call)
  PROVE  ShapeInv'
<1> DEFINE child == Append(path, call.name)
<1>1. Together(M, path) /\ cur' = [t \in Task |-> IF t \in M THEN child ELSE cur[t]]
  BY Zenon DEF Create
<1>2. /\ job' = job /\ AreFunctions'
      /\ \/ store' = store /\ \A t \in M : child \in DOMAIN store[t]
         \/ /\ Splits(M, path, call, child)
            /\ \A t \in Task \ M : store'[t] = store[t]
            /\ \E f, size, m : size \in 1 .. job.size /\ m \in 1 .. size /\ Deals(M, path, call, f, size, m)
  BY CreateMakes, Zenon
<1>3. Task' = Task /\ Names' = Names
  BY <1>2, Zenon DEF Task, Names
<1>4. /\ \E t \in M : TRUE
      /\ \A t \in M : /\ t \in Task /\ cur[t] = path /\ path \in DOMAIN store[t] /\ path \in Seq(Names)
                     /\ store[t][path].color = M
  <2>1. Together(M, path)
    BY <1>1, Zenon
  <2>2. /\ \E t \in M : TRUE
        /\ \A t \in M : /\ cur[t] = path /\ path \in DOMAIN store[t] /\ path \in Seq(Names)
                       /\ store[t][path].color = M /\ Good(t, path)
    BY ONLY ShapeInv, M \subseteq Task, <2>1, TogetherIsOneCD, Zenon
  <2> QED
    BY ONLY M \subseteq Task, <2>2, Zenon
<1>5. child \in Seq(Names) /\ child # <<>> /\ Parent(child) = path
  <2>1. path \in Seq(Names) /\ call.name \in Names
    BY <1>4, Zenon DEF Names
  <2> QED
    BY <2>1, AppendParent, Zenon
<1> HIDE DEF child
<1>6. \A t \in Task : cur'[t] = IF t \in M THEN child ELSE cur[t]
  BY <1>1, Zenon
<1>7. CASE store' = store /\ \A t \in M : child \in DOMAIN store[t]
  <2>1. \A u \in Task : cur'[u] \in Seq(Names)' /\ cur'[u] \in DOMAIN store'[u]
    BY <1>3, <1>5, <1>6, <1>7, Zenon DEF ShapeInv
  <2>2. \A u \in Task : \A k \in DOMAIN store[u] : Good(u, k)'
    BY <1>2, <1>7, StoreGrows, Zenon
  <2>3. \A u, v \in Task : \A k \in DOMAIN store'[u] \cap DOMAIN store'[v] : SameRankSameCD(u, v, k)'
    BY <1>7 DEF ShapeInv, SameRankSameCD
  <2> QED
    BY <1>2, <1>3, <1>7, <2>1, <2>2, <2>3, Zenon DEF ShapeInv
<1>8. CASE /\ Splits(M, path, call, child)
           /\ \A t \in Task \ M : store'[t] = store[t]
           /\ \E f, size, m : size \in 1 .. job.size /\ m \in 1 .. size /\ Deals(M, path, call, f, size, m)
  <2>1. \A t \in Task \ M : store'[t] = store[t]
    BY <1>8, Zenon
  <2>2. \A t \in M : /\ DOMAIN store'[t] = DOMAIN store[t] \union {child}
                    /\ \A k \in DOMAIN store[t] : store'[t][k] = store[t][k]
    BY <1>8, Zenon DEF Splits
  <2>3. Splits(M, path, call, child)
    BY <1>8, Zenon
  <2>4. PICK f, size, m : size \in 1 .. job.size /\ m \in 1 .. size /\ Deals(M, path, call, f, size, m)
    BY <1>8, Zenon
  <2>5. \A t \in M : Good(t, child)'
    BY <2>3, <2>4, NewCDIsGood, Zenon
  <2>6. \A t \in Task : \A k \in DOMAIN store[t] : k \in DOMAIN store'[t] /\ store'[t][k] = store[t][k]
    BY <2>1, <2>2, Zenon
  <2>7. \A t \in Task : \A k \in DOMAIN store[t] : Good(t, k)'
    BY <1>2, <2>6, StoreGrows, Zenon
  <2>8. \A t \in Task : \A k \in DOMAIN store'[t] : k \in DOMAIN store[t] \/ (t \in M /\ k = child)
    BY <2>1, <2>2
  <2>9. \A t \in Task : \A k \in DOMAIN store'[t] : Good(t, k)'
    BY <2>5, <2>7, <2>8, Zenon
  <2>10. \A t \in Task : cur'[t] \in Seq(Names)' /\ cur'[t] \in DOMAIN store'[t]
    BY <1>3, <1>5, <1>6, <2>1, <2>2, Zenon DEF ShapeInv
  <2>11. ASSUME NEW t \in M, NEW u \in Task, child \in DOMAIN store'[u]
         PROVE  SameRankSameCD(t, u, child)'
    BY <2>1, <2>3, <2>4, <2>11, NewCDIsNamed, Zenon
  <2>12. ASSUME NEW t \in Task, NEW u \in Task, NEW k \in DOMAIN store'[t] \cap DOMAIN store'[u]
         PROVE  SameRankSameCD(t, u, k)'
    <3>1. CASE k \in DOMAIN store[t] /\ k \in DOMAIN store[u]
      BY <2>6, <3>1 DEF ShapeInv, SameRankSameCD
    <3>2. CASE t \in M /\ k = child
      BY <2>11, <3>2, Zenon
    <3>3. CASE u \in M /\ k = child
      <4>1. SameRankSameCD(u, t, k)'
        BY <2>11, <3>3, Zenon
      <4> QED
        BY <4>1, Zenon DEF SameRankSameCD
    <3> QED
      BY <2>8, <3>1, <3>2, <3>3, Zenon
  <2> QED
    BY <1>2, <1>3, <2>9, <2>10, <2>12, Zenon DEF ShapeInv
<1> QED
  BY <1>2, <1>7, <1>8, Zenon

\* Destroy keeps it: the parent of a CD is in access_store_.
LEMMA DestroyStep ==
  ASSUME ShapeInv, NEW M, NEW path, M \subseteq Task, Destroy(M, path)
  PROVE  ShapeInv'
<1>1. Together(M, path) /\ path # <<>> /\ job' = job /\ store' = store
  BY Zenon DEF Destroy
<1>2. cur' = [t \in Task |-> IF t \in M THEN Parent(path) ELSE cur[t]]
  BY Zenon DEF Destroy, Parent
<1>3. Task' = Task /\ Names' = Names
  BY <1>1, Zenon DEF Task, Names
<1>4. \A t \in M : t \in Task /\ Good(t, path)
  BY <1>1, TogetherIsOneCD, Zenon
<1>5. \A t \in M : Parent(path) \in DOMAIN store[t]
  BY <1>1, <1>4, Zenon DEF Good, IsChild
<1>6. \A t \in M : Parent(path) \in Seq(Names)
  BY <1>4, <1>5, Zenon DEF ShapeInv, Good
<1>7. \A t \in Task : cur'[t] \in Seq(Names)' /\ cur'[t] \in DOMAIN store'[t]
  BY <1>1, <1>2, <1>3, <1>5, <1>6, Zenon DEF ShapeInv
<1>8. AreFunctions'
  BY <1>1, <1>2, <1>3, Zenon DEF AreFunctions, ShapeInv
<1>9. \A t \in Task : \A k \in DOMAIN store[t] : Good(t, k)'
  BY <1>1, StoreGrows, Zenon
<1>10. \A t, u \in Task : \A k \in DOMAIN store'[t] \cap DOMAIN store'[u] : SameRankSameCD(t, u, k)'
  BY <1>1 DEF ShapeInv, SameRankSameCD
<1> QED
  BY <1>1, <1>3, <1>7, <1>8, <1>9, <1>10, Zenon DEF ShapeInv

\* What a task holds of a CD, but for its split method.
SameButSplit(c, d) ==
  /\ c.color = d.color /\ c.size = d.size /\ c.task = d.task /\ c.head = d.head
  /\ c.rank = d.rank /\ c.siblings = d.siblings

\* RegisterSplitMethod changes the split method of one CD in the tables of its tasks, and
\* nothing else.
LEMMA RegisterChanges ==
  ASSUME ShapeInv, NEW M, NEW path, M \subseteq Task, NEW method \in {"1D", "3D"},
         RegisterSplitMethod(M, path, method)
  PROVE  /\ job' = job /\ cur' = cur
         /\ \A t \in Task : DOMAIN store'[t] = DOMAIN store[t]
         /\ \A t \in Task : \A k \in DOMAIN store[t] :
              /\ SameButSplit(store'[t][k], store[t][k])
              /\ store'[t][k].split = IF t \in M /\ k = path THEN method ELSE store[t][k].split
              /\ "split" \in DOMAIN store'[t][k]
         /\ AreFunctions'
<1>1. Together(M, path) /\ job' = job /\ cur' = cur
  BY Zenon DEF RegisterSplitMethod
<1>2. store' = [t \in Task |->
        IF t \in M THEN [store[t] EXCEPT ![path].split = method] ELSE store[t]]
  BY Zenon DEF RegisterSplitMethod, GetPhasePath
<1>3. Task' = Task
  BY <1>1, Zenon DEF Task
<1>4. \A t \in M : /\ t \in Task /\ path \in DOMAIN store[t] /\ store[t][path].color = M
  BY <1>1, TogetherIsOneCD, Zenon
<1>5. \A t \in M : store'[t] = [store[t] EXCEPT ![path] = [store[t][path] EXCEPT !.split = method]]
  BY <1>2, <1>4, Zenon
<1>6. \A t \in Task \ M : store'[t] = store[t]
  BY <1>2, Zenon
<1>7. \A t \in Task : DOMAIN store'[t] = DOMAIN store[t]
  BY <1>5, <1>6, Zenon
<1>8. \A t \in Task : \A k \in DOMAIN store[t] :
        /\ SameButSplit(store'[t][k], store[t][k])
        /\ store'[t][k].split = IF t \in M /\ k = path THEN method ELSE store[t][k].split
        /\ "split" \in DOMAIN store'[t][k]
  <2> SUFFICES ASSUME NEW t \in Task, NEW k \in DOMAIN store[t]
               PROVE  /\ SameButSplit(store'[t][k], store[t][k])
                      /\ store'[t][k].split = IF t \in M /\ k = path THEN method ELSE store[t][k].split
                      /\ "split" \in DOMAIN store'[t][k]
    BY Zenon
  <2>1. "split" \in DOMAIN store[t][k]
    BY Zenon DEF ShapeInv, Good, CDType
  <2>2. CASE t \in M /\ k = path
    <3>1. store'[t][k] = [store[t][k] EXCEPT !.split = method]
      BY <1>5, <2>2, Zenon
    <3> QED
      BY <2>1, <2>2, <3>1 DEF SameButSplit
  <2>3. CASE ~(t \in M /\ k = path)
    <3>1. store'[t][k] = store[t][k]
      BY <1>5, <1>6, <2>3, Zenon
    <3> QED
      BY <2>1, <2>3, <3>1, Zenon DEF SameButSplit
  <2> QED
    BY <2>2, <2>3, Zenon
<1>9. AreFunctions'
  BY <1>1, <1>2, <1>3, Zenon DEF ShapeInv, AreFunctions
<1> QED
  BY <1>1, <1>7, <1>8, <1>9, Zenon

\* RegisterSplitMethod keeps it: all tasks of the CD register the method.
LEMMA RegisterStep ==
  ASSUME ShapeInv, NEW M, NEW path, M \subseteq Task, NEW method \in {"1D", "3D"},
         RegisterSplitMethod(M, path, method)
  PROVE  ShapeInv'
<1>1. job' = job /\ cur' = cur /\ AreFunctions'
  BY RegisterChanges, Zenon
<1>2. Task' = Task /\ Names' = Names
  BY <1>1, Zenon DEF Task, Names
<1>3. \A t \in M : t \in Task /\ path \in DOMAIN store[t] /\ store[t][path].color = M
  <2>1. Together(M, path)
    BY Zenon DEF RegisterSplitMethod
  <2> QED
    BY <2>1, TogetherIsOneCD, Zenon
<1>4. \A t \in Task : DOMAIN store'[t] = DOMAIN store[t]
  BY RegisterChanges, Zenon
<1>5. \A t \in Task : \A k \in DOMAIN store[t] :
        /\ SameButSplit(store'[t][k], store[t][k])
        /\ store'[t][k].split = IF t \in M /\ k = path THEN method ELSE store[t][k].split
        /\ "split" \in DOMAIN store'[t][k]
  BY RegisterChanges, Zenon
<1>6. \A t \in Task : \A k \in DOMAIN store[t] :
        store'[t][k].split = IF t \in M /\ k = path THEN method ELSE store[t][k].split
  BY <1>5, Zenon
<1>7. ASSUME NEW t \in Task, NEW k \in DOMAIN store[t]
       PROVE  Good(t, k)'
  <2>1. Good(t, k)
    BY Zenon DEF ShapeInv
  <2>2. SameButSplit(store'[t][k], store[t][k])
    BY <1>5, Zenon
  <2>3. store[t][k].color \subseteq Task /\ t \in store[t][k].color
    BY <2>1, Zenon DEF Good, CDType
  <2>4. \A u \in store[t][k].color : /\ k \in DOMAIN store[u] /\ k \in DOMAIN store'[u]
                                     /\ SameButSplit(store'[u][k], store[u][k])
    BY <1>4, <1>5, <2>1, <2>3, Zenon DEF Good, Agreed
  <2>5. CDType(t, k)'
    <3>1. store'[t][k].split \in {"1D", "3D"} /\ "split" \in DOMAIN store'[t][k]
      BY <1>5, <2>1, Zenon DEF Good, CDType
    <3>2. CDType(t, k)
      BY <2>1, Zenon DEF Good
    <3>3. /\ store'[t][k].color = store[t][k].color /\ store'[t][k].size = store[t][k].size
          /\ store'[t][k].task = store[t][k].task /\ store'[t][k].head = store[t][k].head
          /\ store'[t][k].rank = store[t][k].rank /\ store'[t][k].siblings = store[t][k].siblings
      BY <2>2, Zenon DEF SameButSplit
    <3> QED
      BY <1>1, <1>2, <3>1, <3>2, <3>3, Zenon DEF CDType
  <2>6. \A u \in store[t][k].color : store'[u][k].split = store'[t][k].split
    <3>1. ASSUME NEW u \in store[t][k].color, k = path
          PROVE  u \in M <=> t \in M
      <4>1. store[u][k].color = store[t][k].color
        BY <2>1, Zenon DEF Good, Agreed
      <4>2. u \in Task /\ k \in DOMAIN store[u]
        BY <2>3, <2>4, Zenon
      <4>3. u \in store[u][k].color
        BY <4>2, Zenon DEF ShapeInv, Good, CDType
      <4> QED
        BY <1>3, <2>3, <3>1, <4>1, <4>3, Zenon
    <3>2. \A u \in store[t][k].color : store[u][k].split = store[t][k].split /\ u \in Task
      BY <2>1, <2>3, Zenon DEF Good, Agreed
    <3> QED
      BY <1>6, <2>4, <3>1, <3>2
  <2>7. Agreed(t, k)'
    <3>1. ASSUME NEW u \in store'[t][k].color
          PROVE  /\ k \in DOMAIN store'[u]
                 /\ store'[u][k].color = store'[t][k].color /\ store'[u][k].size = store'[t][k].size
                 /\ store'[u][k].head = store'[t][k].head /\ store'[u][k].rank = store'[t][k].rank
                 /\ store'[u][k].siblings = store'[t][k].siblings
                 /\ store'[u][k].split = store'[t][k].split
      <4>1. u \in store[t][k].color
        BY <2>2, Zenon DEF SameButSplit
      <4>2. /\ store[u][k].color = store[t][k].color /\ store[u][k].size = store[t][k].size
            /\ store[u][k].head = store[t][k].head /\ store[u][k].rank = store[t][k].rank
            /\ store[u][k].siblings = store[t][k].siblings
        BY <2>1, <4>1, Zenon DEF Good, Agreed
      <4>3. SameButSplit(store'[u][k], store[u][k]) /\ k \in DOMAIN store'[u]
        BY <2>4, <4>1, Zenon
      <4> QED
        BY <2>2, <2>6, <4>1, <4>2, <4>3, Zenon DEF SameButSplit
    <3> QED
      BY <3>1, Zenon DEF Agreed
  <2>8. Numbered(t, k)'
    <3>1. store'[t][k].color = store[t][k].color /\ store'[t][k].size = store[t][k].size
      BY <2>2, Zenon DEF SameButSplit
    <3>2. \A u \in store[t][k].color : store'[u][k].task = store[u][k].task
      BY <2>4, Zenon DEF SameButSplit
    <3>3. Numbered(t, k)
      BY <2>1, Zenon DEF Good
    <3> QED
      BY <3>1, <3>2, <3>3, ZenonT(30) DEF Numbered
  <2>9. ASSUME k # <<>>
        PROVE  IsChild(t, k)' /\ HasSiblings(t, k)'
    <3> DEFINE pk == Parent(k)
    <3>1. IsChild(t, k) /\ HasSiblings(t, k)
      BY <2>1, <2>9, Zenon DEF Good
    <3>2. pk \in DOMAIN store[t] /\ pk \in DOMAIN store'[t] /\ SameButSplit(store'[t][pk], store[t][pk])
      BY <1>4, <1>5, <3>1, Zenon DEF IsChild
    <3>3. store[t][pk].color \subseteq Task
      BY <3>2, Zenon DEF ShapeInv, Good, CDType
    <3>4. \A u \in store[t][pk].color : k \in DOMAIN store'[u]
      BY <1>4, <3>1, <3>3, Zenon DEF IsChild
    <3>5. Parent(k)' = pk
      BY Zenon DEF Parent
    <3>6. /\ store'[t][pk].color = store[t][pk].color /\ store'[t][pk].rank = store[t][pk].rank
          /\ store'[t][k].color = store[t][k].color /\ store'[t][k].rank = store[t][k].rank
          /\ store'[t][k].siblings = store[t][k].siblings /\ store'[t][k].size = store[t][k].size
      BY <2>2, <3>2, Zenon DEF SameButSplit
    <3>7. IsChild(t, k)'
      BY <1>1, <3>1, <3>2, <3>4, <3>5, <3>6, Zenon DEF IsChild
    <3>8. ASSUME NEW u \in store[t][pk].color
          PROVE  /\ store'[u][k].size = store[u][k].size /\ store'[u][k].siblings = store[u][k].siblings
                 /\ store'[u][k].rank = store[u][k].rank
      <4>1. u \in Task /\ k \in DOMAIN store[u]
        BY <3>1, <3>3, Zenon DEF IsChild
      <4> QED
        BY <1>5, <4>1, Zenon DEF SameButSplit
    <3> DEFINE Has(col, rank, c) ==
                 /\ \A u \in col : store'[u][k].size = c.size /\ store'[u][k].siblings = c.siblings
                 /\ \A i \in 0 .. c.siblings - 1 :
                      \E u \in col : store'[u][k].rank = RankInLevel(rank, c.siblings, i)
    <3>9. Has(store[t][pk].color, store[t][pk].rank, store[t][k])
      BY <3>1, <3>8 DEF HasSiblings
    <3>10. Has(store'[t][pk].color, store'[t][pk].rank, store'[t][k])
      BY <3>6, <3>9, Zenon
    <3>11. HasSiblings(t, k)'
      BY <3>5, <3>10, Zenon DEF HasSiblings
    <3> QED
      BY <3>7, <3>11, Zenon
  <2> QED
    BY <1>2, <2>1, <2>5, <2>7, <2>8, <2>9, Zenon DEF Good
<1>8. ASSUME NEW t \in Task, NEW u \in Task, NEW k \in DOMAIN store'[t] \cap DOMAIN store'[u]
       PROVE  SameRankSameCD(t, u, k)'
  <2>1. k \in DOMAIN store[t] \cap DOMAIN store[u]
    BY <1>4, Zenon
  <2>2. SameRankSameCD(t, u, k)
    BY <2>1, Zenon DEF ShapeInv
  <2> QED
    BY <1>5, <2>1, <2>2, Zenon DEF SameRankSameCD, SameButSplit
<1>9. \A t \in Task : cur'[t] \in Seq(Names)' /\ cur'[t] \in DOMAIN store'[t]
  BY <1>1, <1>2, <1>4, Zenon DEF ShapeInv
<1> QED
  BY <1>1, <1>2, <1>4, <1>7, <1>8, <1>9, Zenon DEF ShapeInv

\* The root CD has all tasks.
LEMMA InitShape == Init => ShapeInv
<1> SUFFICES ASSUME Init PROVE ShapeInv
  BY Zenon
<1>1. job \in Jobs /\ job.size \in Nat \ {0}
  BY JobsAssumption, Zenon DEF Init
<1>2. cur = [t \in Task |-> <<>>]
  BY Zenon DEF Init
<1> DEFINE nil == <<>>
<1>3. \A t \in Task :
        /\ DOMAIN store[t] = {nil}
        /\ store[t][nil].color = Task /\ store[t][nil].size = job.size /\ store[t][nil].task = t
        /\ store[t][nil].head = 0 /\ store[t][nil].rank = 0 /\ store[t][nil].siblings = 1
        /\ store[t][nil].split = "1D" /\ "split" \in DOMAIN store[t][nil]
  BY Zenon DEF Init
<1>4. AreFunctions
  BY Zenon DEF Init, AreFunctions
<1>5. nil \in Seq(Names) /\ \A t \in Task : cur[t] = nil
  BY <1>2
<1>6. nil = <<>>
  BY Zenon
<1> HIDE DEF nil
<1>7. ASSUME NEW t \in Task
      PROVE  Good(t, nil)
  <2>1. CDType(t, nil)
    BY <1>1, <1>3 DEF CDType, Task
  <2>2. Agreed(t, nil)
    BY <1>3 DEF Agreed
  <2>3. Numbered(t, nil)
    <3>1. store[t][nil].color = Task /\ store[t][nil].size = job.size
      BY <1>3, Zenon
    <3>2. \A u \in Task : store[u][nil].task = u
      BY <1>3, Zenon
    <3>3. \A r \in 0 .. job.size - 1 : r \in Task
      BY Zenon DEF Task
    <3> QED
      BY <3>1, <3>2, <3>3, Zenon DEF Numbered
  <2> QED
    BY <1>5, <1>6, <2>1, <2>2, <2>3, Zenon DEF Good
<1>8. \A t, u \in Task : SameRankSameCD(t, u, nil)
  BY <1>3, Zenon DEF SameRankSameCD
<1> QED
  BY <1>1, <1>3, <1>4, <1>5, <1>7, <1>8 DEF ShapeInv

\* Every step keeps the invariant.
LEMMA NextShape == CommSplitDeals /\ ShapeInv /\ [Next]_vars => ShapeInv'
<1> SUFFICES ASSUME CommSplitDeals, ShapeInv, [Next]_vars PROVE ShapeInv'
  BY Zenon
<1>1. CASE UNCHANGED vars
  <2>1. job' = job /\ cur' = cur /\ store' = store
    BY <1>1, Zenon DEF vars
  <2>2. Task' = Task /\ Names' = Names
    BY <2>1, Zenon DEF Task, Names
  <2>3. \A t \in Task : \A k \in DOMAIN store[t] : Good(t, k)'
    BY <2>1, StoreGrows, Zenon
  <2>4. AreFunctions'
    BY <2>1, <2>2, Zenon DEF ShapeInv, AreFunctions
  <2>5. \A t, u \in Task : \A k \in DOMAIN store'[t] \cap DOMAIN store'[u] : SameRankSameCD(t, u, k)'
    BY <2>1 DEF ShapeInv, SameRankSameCD
  <2> QED
    BY <2>1, <2>2, <2>3, <2>4, <2>5, Zenon DEF ShapeInv
<1>2. CASE Next
  <2> DEFINE M(t) == CD(t, cur[t]).color
  <2>1. PICK t \in Task :
          \/ \E method \in {"1D", "3D"} : RegisterSplitMethod(M(t), cur[t], method)
          \/ \E call \in job.calls : Create(M(t), cur[t], call)
          \/ Destroy(M(t), cur[t])
    BY <1>2, Zenon DEF Next
  <2>2. M(t) \subseteq Task
    BY Zenon DEF ShapeInv, Good, CDType, CD, GetPhasePath
  <2> HIDE DEF M
  <2>3. CASE \E method \in {"1D", "3D"} : RegisterSplitMethod(M(t), cur[t], method)
    BY <2>2, <2>3, RegisterStep, Zenon
  <2>4. CASE \E call \in job.calls : Create(M(t), cur[t], call)
    BY <2>2, <2>4, CreateStep, Zenon
  <2>5. CASE Destroy(M(t), cur[t])
    BY <2>2, <2>5, DestroyStep, Zenon
  <2> QED
    BY <2>1, <2>3, <2>4, <2>5, Zenon
<1> QED
  BY <1>1, <1>2, Zenon

-----------------------------------------------------------------------------
(* The children of a CD                                                     *)

\* The tasks S of a CD of this rank and the num children of m tasks each they are in at k.
Family(k, S, rank, num, m) ==
  /\ num \in Nat \ {0} /\ m \in Nat \ {0} /\ rank \in Nat
  /\ \A u \in S : /\ u \in store[u][k].color /\ store[u][k].color \subseteq S
                  /\ store[u][k].size = m
                  /\ store[u][k].task \in 0 .. m - 1
                  /\ \E i \in 0 .. num - 1 : store[u][k].rank = RankInLevel(rank, num, i)
                  /\ \A r \in 0 .. m - 1 : \E v \in store[u][k].color : store[v][k].task = r
                  /\ \A v \in store[u][k].color : /\ store[v][k].color = store[u][k].color
                                                  /\ store[v][k].rank = store[u][k].rank
                  /\ \A v, w \in store[u][k].color : store[v][k].task = store[w][k].task => v = w
  /\ \A u, v \in S : store[u][k].rank = store[v][k].rank => store[u][k].color = store[v][k].color
  /\ \A i \in 0 .. num - 1 : \E u \in S : store[u][k].rank = RankInLevel(rank, num, i)

\* The invariant has it.
LEMMA ChildrenAreFamily ==
  ASSUME ShapeInv, NEW t \in Task, NEW k \in DOMAIN store[t], k # <<>>
  PROVE  Family(k, store[t][Parent(k)].color, store[t][Parent(k)].rank,
                store[t][k].siblings, store[t][k].size)
<1> DEFINE pk == Parent(k)
           p == store[t][pk]
           c == store[t][k]
           S == p.color
<1>1. IsChild(t, k) /\ HasSiblings(t, k) /\ CDType(t, k)
  BY Zenon DEF ShapeInv, Good
<1>2. pk \in DOMAIN store[t]
  BY <1>1, Zenon DEF IsChild
<1>3. CDType(t, pk) /\ Agreed(t, pk)
  BY <1>2, Zenon DEF ShapeInv, Good
<1>4. job.size \in Nat
  BY JobsAssumption, Zenon DEF ShapeInv
<1>5. c.siblings \in Nat \ {0} /\ c.size \in Nat \ {0} /\ p.rank \in Nat
  <2>1. c.siblings \in Nat \ {0} /\ c.size \in 1 .. job.size
    BY <1>1, Zenon DEF CDType
  <2>2. p.rank \in Nat
    BY <1>3, Zenon DEF CDType
  <2> QED
    BY <1>4, <2>1, <2>2
<1>6. \A u \in S : u \in Task /\ k \in DOMAIN store[u] /\ pk \in DOMAIN store[u]
                   /\ store[u][pk].color = S /\ store[u][pk].rank = p.rank
  BY <1>1, <1>3, Zenon DEF IsChild, CDType, Agreed
<1>7. \A u \in S : store[u][k].size = c.size /\ store[u][k].siblings = c.siblings
  BY <1>1, Zenon DEF HasSiblings
<1>8. ASSUME NEW u \in S
      PROVE  /\ u \in store[u][k].color /\ store[u][k].color \subseteq S
             /\ store[u][k].size = c.size
             /\ store[u][k].task \in 0 .. c.size - 1
             /\ \E i \in 0 .. c.siblings - 1 : store[u][k].rank = RankInLevel(p.rank, c.siblings, i)
             /\ \A r \in 0 .. c.size - 1 : \E v \in store[u][k].color : store[v][k].task = r
             /\ \A v \in store[u][k].color : /\ store[v][k].color = store[u][k].color
                                             /\ store[v][k].rank = store[u][k].rank
             /\ \A v, w \in store[u][k].color : store[v][k].task = store[w][k].task => v = w
  <2>1. CDType(u, k) /\ IsChild(u, k) /\ Numbered(u, k) /\ Agreed(u, k)
    BY <1>6, Zenon DEF ShapeInv, Good
  <2>2. u \in store[u][k].color /\ store[u][k].size = c.size /\ store[u][k].task \in 0 .. c.size - 1
    BY <1>7, <2>1, Zenon DEF CDType
  <2>3. store[u][k].color \subseteq S
    BY <1>6, <2>1, Zenon DEF IsChild
  <2>4. \E i \in 0 .. c.siblings - 1 : store[u][k].rank = RankInLevel(p.rank, c.siblings, i)
    BY <1>6, <1>7, <2>1, Zenon DEF IsChild
  <2>5. /\ \A r \in 0 .. c.size - 1 : \E v \in store[u][k].color : store[v][k].task = r
        /\ \A v, w \in store[u][k].color : store[v][k].task = store[w][k].task => v = w
    BY <1>7, <2>1, Zenon DEF Numbered
  <2>6. \A v \in store[u][k].color : /\ store[v][k].color = store[u][k].color
                                     /\ store[v][k].rank = store[u][k].rank
    BY <2>1, Zenon DEF Agreed
  <2> QED
    BY <2>2, <2>3, <2>4, <2>5, <2>6, Zenon
<1>9. \A u, v \in S : store[u][k].rank = store[v][k].rank => store[u][k].color = store[v][k].color
  BY <1>6 DEF ShapeInv, SameRankSameCD
<1>10. \A i \in 0 .. c.siblings - 1 : \E u \in S : store[u][k].rank = RankInLevel(p.rank, c.siblings, i)
  BY <1>1, Zenon DEF HasSiblings
<1> HIDE DEF S, p, c, pk
<1>11. Family(k, S, p.rank, c.siblings, c.size)
  BY <1>5, <1>8, <1>9, <1>10, Zenon DEF Family
<1> QED
  BY <1>11, Zenon DEF S, p, c, pk

\* The number of a child among its siblings.
ChildNo(u, k, rank, num) == CHOOSE i \in 0 .. num - 1 : store[u][k].rank = RankInLevel(rank, num, i)

\* Siblings have the same number exactly when they were dealt the same color, and every number occurs.
LEMMA ChildNumber ==
  ASSUME NEW k, NEW S, NEW rank, NEW num, NEW m, Family(k, S, rank, num, m)
  PROVE  /\ \A u \in S : /\ ChildNo(u, k, rank, num) \in 0 .. num - 1
                         /\ store[u][k].rank = RankInLevel(rank, num, ChildNo(u, k, rank, num))
         /\ \A u, v \in S : ChildNo(u, k, rank, num) = ChildNo(v, k, rank, num)
                              <=> store[u][k].color = store[v][k].color
         /\ \A i \in 0 .. num - 1 : \E u \in S : ChildNo(u, k, rank, num) = i
<1>1. ASSUME NEW u \in S
      PROVE  /\ ChildNo(u, k, rank, num) \in 0 .. num - 1
             /\ store[u][k].rank = RankInLevel(rank, num, ChildNo(u, k, rank, num))
  <2>1. \E i \in 0 .. num - 1 : store[u][k].rank = RankInLevel(rank, num, i)
    BY Zenon DEF Family
  <2> QED
    BY <2>1, Zenon DEF ChildNo
<1>2. num \in Nat \ {0} /\ rank \in Nat
  BY Zenon DEF Family
<1>3. ASSUME NEW i \in 0 .. num - 1, NEW j \in 0 .. num - 1,
             RankInLevel(rank, num, i) = RankInLevel(rank, num, j)
      PROVE  i = j
  BY <1>2, <1>3, RankIsUnique
<1>4. ASSUME NEW u \in S, NEW v \in S
      PROVE  ChildNo(u, k, rank, num) = ChildNo(v, k, rank, num) <=> store[u][k].color = store[v][k].color
  <2>1. ASSUME ChildNo(u, k, rank, num) = ChildNo(v, k, rank, num)
        PROVE  store[u][k].color = store[v][k].color
    <3>1. store[u][k].rank = store[v][k].rank
      BY <1>1, <2>1, Zenon
    <3> QED
      BY <3>1 DEF Family
  <2>2. ASSUME store[u][k].color = store[v][k].color
        PROVE  ChildNo(u, k, rank, num) = ChildNo(v, k, rank, num)
    <3>1. store[u][k].rank = store[v][k].rank
      BY <2>2, Zenon DEF Family
    <3> QED
      BY <3>1, Zenon DEF ChildNo
  <2> QED
    BY <2>1, <2>2, Zenon
<1>5. ASSUME NEW i \in 0 .. num - 1 PROVE \E u \in S : ChildNo(u, k, rank, num) = i
  <2>1. PICK u \in S : store[u][k].rank = RankInLevel(rank, num, i)
    BY Zenon DEF Family
  <2>2. ChildNo(u, k, rank, num) = i
    BY <1>1, <1>3, <2>1, Zenon
  <2> QED
    BY <2>2, Zenon
<1> QED
  BY <1>1, <1>4, <1>5, Zenon

-----------------------------------------------------------------------------
(* The theorems                                                              *)

\* g numbers the members of S from 0 to n - 1.
Numbers(g, S, n) ==
  /\ \A x \in S : g[x] \in 0 .. n - 1
  /\ \A x, y \in S : g[x] = g[y] => x = y
  /\ \A i \in 0 .. n - 1 : \E x \in S : g[x] = i

\* A set whose members are numbered from 0 to n - 1 has n members.
LEMMA CountByNumber ==
  ASSUME NEW S, NEW n \in Nat, NEW g, Numbers(g, S, n)
  PROVE  Cardinality(S) = n
<1> USE DEF Numbers
<1> DEFINE h == [i \in 0 .. n - 1 |-> CHOOSE x \in S : g[x] = i]
<1>1. \A i \in 0 .. n - 1 : h[i] \in S /\ g[h[i]] = i
  BY Zenon
<1> HIDE DEF h
<1>2. h \in [0 .. n - 1 -> S]
  BY <1>1, Zenon DEF h
<1>3. \A i, j \in 0 .. n - 1 : h[i] = h[j] => i = j
  BY <1>1
<1>4. \A x \in S : \E i \in 0 .. n - 1 : h[i] = x
  <2> TAKE x \in S
  <2>1. g[x] \in 0 .. n - 1
    BY Zenon
  <2>2. g[h[g[x]]] = g[x] /\ h[g[x]] \in S
    BY <1>1, <2>1, Zenon
  <2> QED
    BY <2>1, <2>2, Zenon
<1>5. h \in Bijection(0 .. n - 1, S)
  BY <1>2, <1>3, <1>4, Zenon DEF Bijection, Injection, Surjection, IsInjective
<1>6. ExistsBijection(0 .. n - 1, S)
  BY <1>5, Zenon DEF ExistsBijection
<1>7. IsFiniteSet(0 .. n - 1) /\ Cardinality(0 .. n - 1) = n
  <2>1. 0 \in Int /\ n - 1 \in Int
    OBVIOUS
  <2>2. /\ IsFiniteSet(0 .. n - 1)
        /\ Cardinality(0 .. n - 1) = IF 0 > n - 1 THEN 0 ELSE n - 1 - 0 + 1
    BY <2>1, FS_Interval, Zenon
  <2> QED
    BY <2>2
<1> QED
  BY <1>6, <1>7, FS_Bijection

\* MPI_Comm_split by the colors and keys of a deal: the key is the new number.
LEMMA CommSplitOfDeal ==
  ASSUME NEW M, NEW num \in Nat, NEW m \in Nat, NEW color, NEW key, NEW old,
         Dealt(M, color, key, old, num, m), NEW t \in M
  PROVE  SplitAsDealt(M, color, key, old, m, t)
<1> DEFINE mine == SameColor(M, color, t)
           below == Before(mine, key, old, t)
<1>1. /\ CommSplit(M, color, key, old)[t].color = mine
      /\ CommSplit(M, color, key, old)[t].size = Cardinality(mine)
      /\ CommSplit(M, color, key, old)[t].task = Cardinality(below)
  BY Zenon DEF CommSplit
<1> HIDE DEF mine, below
<1>2. \A u : u \in mine <=> u \in M /\ color[u] = color[t]
  BY Zenon DEF mine, SameColor
<1>3. \A u : u \in below <=> u \in mine /\ key[u] < key[t]
  <2>1. \A u : u \in below
                <=> u \in mine /\ (key[u] < key[t] \/ (key[u] = key[t] /\ old[u] < old[t]))
    BY Zenon DEF below, Before
  <2>2. ASSUME NEW u \in mine, key[u] = key[t]
        PROVE  ~(old[u] < old[t])
    <3>1. u = t
      BY <1>2, <2>2, Zenon DEF Dealt
    <3>2. old[t] \in Nat
      BY Zenon DEF Dealt
    <3> QED
      BY <3>1, <3>2
  <2> QED
    BY <2>1, <2>2, Zenon
<1>4. Numbers(key, mine, m)
  <2>1. color[t] \in 0 .. num - 1
    BY Zenon DEF Dealt
  <2> QED
    BY <1>2, <2>1 DEF Dealt, Numbers
<1>5. key[t] \in 0 .. m - 1 /\ color[t] \in 0 .. num - 1
  BY Zenon DEF Dealt
<1>6. Numbers(key, below, key[t])
  <2>1. \A u \in below : key[u] \in 0 .. key[t] - 1
    BY <1>2, <1>3, <1>5 DEF Dealt
  <2>2. \A u, v \in below : key[u] = key[v] => u = v
    BY <1>2, <1>3, Zenon DEF Dealt
  <2>3. ASSUME NEW i \in 0 .. key[t] - 1
        PROVE  \E u \in below : key[u] = i
    <3>1. i \in 0 .. m - 1 /\ i < key[t]
      BY <1>5
    <3>2. PICK u \in M : color[u] = color[t] /\ key[u] = i
      BY <1>5, <3>1, ZenonT(30) DEF Dealt
    <3> QED
      BY <1>2, <1>3, <3>1, <3>2, Zenon
  <2> QED
    BY <2>1, <2>2, <2>3, Zenon DEF Numbers
<1>7. Cardinality(mine) = m
  BY <1>4, CountByNumber, Zenon
<1>8. Cardinality(below) = key[t]
  <2>1. key[t] \in Nat
    BY <1>5
  <2> QED
    BY <1>6, <2>1, CountByNumber, Zenon
<1> QED
  BY <1>1, <1>2, <1>7, <1>8, Zenon DEF SplitAsDealt

-----------------------------------------------------------------------------
\* The inductive invariant holds.
THEOREM ShapeIsInvariant == Spec => []ShapeInv
<1>1. CommSplitDeals
  BY CommSplitOfDeal, Zenon DEF CommSplitDeals
<1>2. ShapeInv /\ [Next]_vars => ShapeInv'
  BY <1>1, NextShape, Zenon
<1> QED
  BY <1>2, InitShape, PTL DEF Spec

\* The tasks of a CD agree about it, number themselves from 0 to size - 1 and
\* have one head, for every job: what SplitCD, SelectHead and access_store_ give.
THEOREM OneHeadHolds == Spec => []OneHead
<1>1. ShapeInv => OneHead
  <2> SUFFICES ASSUME ShapeInv, NEW t \in Task, NEW k \in DOMAIN store[t]
               PROVE  LET c == CD(t, k)
                      IN  /\ \A u \in c.color :
                               /\ k \in DOMAIN store[u]
                               /\ CD(u, k).color = c.color /\ CD(u, k).head = c.head
                               /\ CD(u, k).size = c.size /\ CD(u, k).rank = c.rank
                          /\ {CD(u, k).task : u \in c.color} = 0 .. c.size - 1
                          /\ Cardinality({u \in c.color : CD(u, k).task = CD(u, k).head}) = 1
    BY Zenon DEF OneHead
  <2> DEFINE c == store[t][k]
             tasks == {store[u][k].task : u \in c.color}
             heads == {u \in c.color : store[u][k].task = store[u][k].head}
  <2>1. \A u : CD(u, k) = store[u][k]
    BY Zenon DEF CD, GetPhasePath
  <2>2. CDType(t, k) /\ Agreed(t, k) /\ Numbered(t, k)
    BY Zenon DEF ShapeInv, Good
  <2>3. \A u \in c.color : /\ k \in DOMAIN store[u] /\ store[u][k].color = c.color
                           /\ store[u][k].head = c.head /\ store[u][k].size = c.size
                           /\ store[u][k].rank = c.rank
    BY <2>2, Zenon DEF Agreed
  <2>4. \A u \in c.color : store[u][k].task \in 0 .. c.size - 1
    <3>1. \A u \in c.color : u \in Task /\ k \in DOMAIN store[u]
      BY <2>2, <2>3, Zenon DEF CDType
    <3>2. \A u \in c.color : CDType(u, k)
      BY <3>1, Zenon DEF ShapeInv, Good
    <3> QED
      BY <2>3, <3>2, Zenon DEF CDType
  <2>5. \A r : r \in tasks <=> r \in 0 .. c.size - 1
    BY <2>2, <2>4 DEF Numbered
  <2>6. tasks = 0 .. c.size - 1
    BY <2>5, SetEqual, Zenon
  <2>7. PICK h \in c.color : store[h][k].task = c.head
    BY <2>2, Zenon DEF CDType, Numbered
  <2>8. \A u : u \in heads <=> u \in {h}
    BY <2>2, <2>3, <2>7 DEF Numbered
  <2>9. heads = {h}
    BY <2>8, SetEqual, Zenon
  <2>10. Cardinality({h}) = 1
    BY FS_Singleton, Zenon
  <2> HIDE DEF c
  <2>11. /\ {CD(u, k).task : u \in CD(t, k).color} = tasks
         /\ {u \in CD(t, k).color : CD(u, k).task = CD(u, k).head} = heads
    BY <2>1, Zenon DEF c
  <2> HIDE DEF tasks, heads
  <2>12. Cardinality(heads) = 1
    BY <2>9, <2>10, Zenon
  <2>13. CD(t, k) = c
    BY <2>1, Zenon DEF c
  <2>14. \A u \in CD(t, k).color :
           /\ k \in DOMAIN store[u]
           /\ CD(u, k).color = CD(t, k).color /\ CD(u, k).head = CD(t, k).head
           /\ CD(u, k).size = CD(t, k).size /\ CD(u, k).rank = CD(t, k).rank
    BY <2>1, <2>3, <2>13
  <2>15. {CD(u, k).task : u \in CD(t, k).color} = 0 .. CD(t, k).size - 1
    BY <2>6, <2>11, <2>13, Zenon
  <2>16. Cardinality({u \in CD(t, k).color : CD(u, k).task = CD(u, k).head}) = 1
    BY <2>11, <2>12, Zenon
  <2> QED
    BY <2>14, <2>15, <2>16, Zenon
<1> QED
  BY <1>1, ShapeIsInvariant, PTL

\* rank_in_level tells the CDs of a phase apart, for every job.
THEOREM NamesAreUniqueHolds == Spec => []NamesAreUnique
<1>1. ShapeInv => NamesAreUnique
  <2> SUFFICES ASSUME ShapeInv, NEW t \in Task, NEW u \in Task,
                      NEW k \in DOMAIN store[t] \cap DOMAIN store[u]
               PROVE  store[t][k].rank = store[u][k].rank <=> store[t][k].color = store[u][k].color
    BY Zenon DEF NamesAreUnique, CD, GetPhasePath
  <2>1. store[t][k].rank = store[u][k].rank => store[t][k].color = store[u][k].color
    BY ZenonT(30) DEF ShapeInv, SameRankSameCD
  <2>2. Agreed(t, k) /\ u \in store[u][k].color
    BY Zenon DEF ShapeInv, Good, CDType
  <2> QED
    BY <2>1, <2>2, Zenon DEF Agreed
<1> QED
  BY <1>1, ShapeIsInvariant, PTL

\* Where a Create calls MPI_Comm_split all tasks of the CD call it, for every job.
THEOREM ReuseAgreesHolds == Spec => []ReuseAgrees
<1>1. ShapeInv => ReuseAgrees
  <2> SUFFICES ASSUME ShapeInv, NEW t \in Task, NEW u \in store[t][cur[t]].color, NEW c \in job.calls,
                      cur[u] = cur[t]
               PROVE  Append(cur[t], c.name) \in DOMAIN store[t] <=> Append(cur[t], c.name) \in DOMAIN store[u]
    BY Zenon DEF ReuseAgrees, CD, CheckToReuseCD, GetPhasePath
  <2> DEFINE path == cur[t]
             child == Append(path, c.name)
  <2>1. path \in Seq(Names) /\ path \in DOMAIN store[t] /\ c.name \in Names
    BY Zenon DEF ShapeInv, Names
  <2>2. child # <<>> /\ Parent(child) = path
    BY <2>1, AppendParent
  <2>3. Good(t, path)
    BY <2>1, Zenon DEF ShapeInv
  <2>4. /\ u \in Task /\ t \in store[t][path].color
        /\ store[u][path].color = store[t][path].color
    BY <2>3, Zenon DEF Good, CDType, Agreed
  <2> HIDE DEF path, child
  <2>5. \A v \in Task : child \in DOMAIN store[v]
                        => \A w \in store[v][path].color : child \in DOMAIN store[w]
    BY <2>2, Zenon DEF ShapeInv, Good, IsChild
  <2>6. u \in store[t][path].color
    BY Zenon DEF path
  <2>7. child \in DOMAIN store[t] <=> child \in DOMAIN store[u]
    BY <2>4, <2>5, <2>6, Zenon
  <2> QED
    BY <2>7, Zenon DEF path, child
<1> QED
  BY <1>1, ShapeIsInvariant, PTL

\* The variables keep their types, for every job.
THEOREM ShapeTypes == Spec => []TypeOK
<1>1. ShapeInv => TypeOK
  <2> SUFFICES ASSUME ShapeInv PROVE TypeOK
    BY Zenon
  <2>1. cur \in [Task -> Seq(Names)]
    BY Zenon DEF ShapeInv, AreFunctions
  <2>2. ASSUME NEW t \in Task, NEW k \in DOMAIN store[t]
        PROVE  /\ k \in Seq(Names)
               /\ CD(t, k).color \subseteq Task /\ CD(t, k).size \in 1 .. job.size
               /\ CD(t, k).task \in 0 .. CD(t, k).size - 1
               /\ CD(t, k).head \in 0 .. CD(t, k).size - 1
               /\ CD(t, k).rank \in Nat /\ CD(t, k).siblings \in Nat
    <3>1. k \in Seq(Names) /\ CDType(t, k)
      BY Zenon DEF ShapeInv, Good
    <3> QED
      BY <3>1, Zenon DEF CDType, CD, GetPhasePath
  <2> QED
    BY <2>1, <2>2, Zenon DEF TypeOK
<1> QED
  BY <1>1, ShapeIsInvariant, PTL

-----------------------------------------------------------------------------
(* The children of a CD: theorem                                             *)

\* A child has m tasks, and the CD has num of them with num * m tasks.
LEMMA CountFamily ==
  ASSUME NEW k, NEW S, NEW rank, NEW num, NEW m, Family(k, S, rank, num, m)
  PROVE  /\ \A u \in S : Cardinality(store[u][k].color) = m
         /\ Cardinality(S) = m * num
         /\ Cardinality({store[u][k].color : u \in S}) = num
<1>0. num \in Nat \ {0} /\ m \in Nat \ {0} /\ rank \in Nat
  BY Zenon DEF Family
<1> DEFINE No(u) == ChildNo(u, k, rank, num)
<1>n. /\ \A u \in S : No(u) \in 0 .. num - 1
      /\ \A u, v \in S : No(u) = No(v) <=> store[u][k].color = store[v][k].color
      /\ \A i \in 0 .. num - 1 : \E u \in S : No(u) = i
  BY ChildNumber
<1> HIDE DEF No
<1>t. \A u \in S : store[u][k].task \in 0 .. m - 1
  BY Zenon DEF Family
<1>1. ASSUME NEW u \in S PROVE Cardinality(store[u][k].color) = m
  <2> DEFINE C == store[u][k].color
             g == [v \in C |-> store[v][k].task]
  <2>1. C \subseteq S
    BY Zenon DEF Family
  <2>2. /\ \A r \in 0 .. m - 1 : \E v \in C : store[v][k].task = r
        /\ \A v, w \in C : store[v][k].task = store[w][k].task => v = w
    BY Zenon DEF Family
  <2>3. \A v \in C : g[v] = store[v][k].task
    BY Zenon
  <2> HIDE DEF C, g
  <2>4. Numbers(g, C, m)
    BY <1>t, <2>1, <2>2, <2>3 DEF Numbers
  <2>5. Cardinality(C) = m
    BY <1>0, <2>4, CountByNumber, Zenon
  <2> QED
    BY <2>5, Zenon DEF C
<1>2. Cardinality(S) = m * num
  <2> DEFINE g == [u \in S |-> m * No(u) + store[u][k].task]
  <2>1. \A u \in S : g[u] = m * No(u) + store[u][k].task
    BY Zenon
  <2> HIDE DEF g
  <2>2. ASSUME NEW u \in S
        PROVE  /\ No(u) \in 0 .. num - 1 /\ store[u][k].task \in 0 .. m - 1
               /\ g[u] \in 0 .. m * num - 1
               /\ g[u] \div m = No(u) /\ g[u] % m = store[u][k].task
    <3>1. No(u) \in 0 .. num - 1 /\ store[u][k].task \in 0 .. m - 1
      BY <1>n, <1>t, Zenon
    <3>2. m * No(u) + store[u][k].task \in 0 .. m * num - 1
      BY <1>0, <3>1, InBlocks, Zenon
    <3>3. No(u) \in Nat
      BY <3>1
    <3>4. /\ (m * No(u) + store[u][k].task) \div m = No(u)
          /\ (m * No(u) + store[u][k].task) % m = store[u][k].task
      BY <1>0, <3>1, <3>3, DivModUnique, Zenon
    <3> QED
      BY <2>1, <3>1, <3>2, <3>4, Zenon
  <2>3. ASSUME NEW u \in S, NEW v \in S, g[u] = g[v] PROVE u = v
    <3>1. No(u) = No(v) /\ store[u][k].task = store[v][k].task
      BY <2>2, <2>3, Zenon
    <3>2. store[u][k].color = store[v][k].color
      BY <1>n, <3>1, Zenon
    <3>3. u \in store[u][k].color /\ v \in store[u][k].color
      BY <3>2, Zenon DEF Family
    <3> QED
      BY <3>1, <3>3, Zenon DEF Family
  <2>4. ASSUME NEW i \in 0 .. m * num - 1 PROVE \E u \in S : g[u] = i
    <3>1. i \in Nat /\ m * num \in Nat
      BY <1>0
    <3>2. i \div m \in Nat /\ i % m \in 0 .. m - 1 /\ i = m * (i \div m) + (i % m)
      BY <1>0, <3>1, DivMod, Zenon
    <3>3. i \div m \in 0 .. num - 1
      BY <1>0, <3>1, DivBelow, Zenon
    <3>4. PICK u \in S : No(u) = i \div m
      BY <1>n, <3>3, Zenon
    <3>5. PICK v \in store[u][k].color : store[v][k].task = i % m
      BY <3>2 DEF Family
    <3>6. v \in S /\ store[v][k].color = store[u][k].color
      BY DEF Family
    <3>7. No(v) = No(u)
      BY <1>n, <3>6, Zenon
    <3>8. g[v] = i
      BY <2>1, <3>2, <3>4, <3>5, <3>6, <3>7, Zenon
    <3> QED
      BY <3>6, <3>8, Zenon
  <2>5. Numbers(g, S, m * num)
    BY <2>2, <2>3, <2>4, Zenon DEF Numbers
  <2>6. m * num \in Nat
    BY <1>0
  <2> QED
    BY <2>5, <2>6, CountByNumber, Zenon
<1>3. Cardinality({store[u][k].color : u \in S}) = num
  <2> DEFINE T == {store[u][k].color : u \in S}
             g == [x \in T |-> No(CHOOSE u \in S : store[u][k].color = x)]
  <2>1. ASSUME NEW x \in T
        PROVE  \E u \in S : store[u][k].color = x /\ g[x] = No(u)
    <3>1. \E u \in S : store[u][k].color = x
      BY Zenon
    <3>2. PICK u \in S : u = CHOOSE v \in S : store[v][k].color = x
      BY <3>1, Zenon
    <3>3. store[u][k].color = x
      BY <3>1, <3>2, Zenon
    <3> QED
      BY <3>2, <3>3, Zenon
  <2>2. \A u \in S : store[u][k].color \in T
    BY Zenon
  <2> HIDE DEF T, g
  <2>3. ASSUME NEW u \in S PROVE g[store[u][k].color] = No(u)
    BY <1>n, <2>1, <2>2
  <2>4. \A x \in T : g[x] \in 0 .. num - 1
    BY <1>n, <2>1, Zenon
  <2>5. \A x, y \in T : g[x] = g[y] => x = y
    BY <1>n, <2>1
  <2>6. \A i \in 0 .. num - 1 : \E x \in T : g[x] = i
    BY <1>n, <2>2, <2>3
  <2>7. Numbers(g, T, num)
    BY <2>4, <2>5, <2>6, Zenon DEF Numbers
  <2>8. Cardinality(T) = num
    BY <1>0, <2>7, CountByNumber, Zenon
  <2> QED
    BY <2>8, Zenon DEF T
<1> QED
  BY <1>1, <1>2, <1>3, Zenon

\* Create(num_children) makes num_children CDs of equal size of the tasks of the current one,
\* for every job: SplitCD and the colors of a caller are deals, and MPI_Comm_split keeps them.
THEOREM ChildrenPartitionHolds == Spec => []ChildrenPartition
<1>1. ShapeInv => ChildrenPartition
  <2> SUFFICES ASSUME ShapeInv, NEW t \in Task, NEW k \in DOMAIN store[t] \ {<<>>}
               PROVE  LET parent == CD(t, Parent(k))
                          children == {CD(u, k).color : u \in parent.color}
                      IN  /\ UNION children = parent.color
                          /\ \A c \in children : Cardinality(c) * CallOf(k).num = parent.size
                          /\ \A c, d \in children : c = d \/ c \cap d = {}
                          /\ Cardinality(children) = CallOf(k).num
    BY Zenon DEF ChildrenPartition
  <2> DEFINE p == store[t][Parent(k)]
             S == p.color
             num == store[t][k].siblings
             m == store[t][k].size
             T == {store[u][k].color : u \in S}
  <2>1. Family(k, S, p.rank, num, m)
    BY ChildrenAreFamily, Zenon
  <2>2. IsChild(t, k)
    BY Zenon DEF ShapeInv, Good
  <2>3. CallOf(k).num = num
    <3>1. \E call \in job.calls : call.name = k[Len(k)] /\ num = call.num
      BY <2>2, Zenon DEF IsChild
    <3>2. \A c, d \in job.calls : c.name = d.name => c = d
      BY JobsAssumption, Zenon DEF ShapeInv
    <3> QED
      BY <3>1, <3>2, Zenon DEF CallOf
  <2>4. Cardinality(S) = p.size
    <3>1. Parent(k) \in DOMAIN store[t]
      BY <2>2, Zenon DEF IsChild
    <3>2. CDType(t, Parent(k)) /\ Numbered(t, Parent(k)) /\ Agreed(t, Parent(k))
      BY <3>1, Zenon DEF ShapeInv, Good
    <3> DEFINE g == [u \in S |-> store[u][Parent(k)].task]
    <3>3. \A u \in S : g[u] = store[u][Parent(k)].task
      BY Zenon
    <3>4. ASSUME NEW u \in S PROVE store[u][Parent(k)].task \in 0 .. p.size - 1
      <4>1. u \in Task /\ Parent(k) \in DOMAIN store[u] /\ store[u][Parent(k)].size = p.size
        BY <3>2, Zenon DEF CDType, Agreed
      <4>2. CDType(u, Parent(k))
        BY <4>1, Zenon DEF ShapeInv, Good
      <4> QED
        BY <4>1, <4>2, Zenon DEF CDType
    <3> HIDE DEF g
    <3>5. Numbers(g, S, p.size)
      BY <3>2, <3>3, <3>4 DEF Numbers, Numbered
    <3>6. p.size \in Nat
      <4>1. job.size \in Nat
        BY JobsAssumption, Zenon DEF ShapeInv
      <4> QED
        BY <3>2, <4>1 DEF CDType
    <3> HIDE DEF S, p
    <3> QED
      BY <3>5, <3>6, CountByNumber, Zenon
  <2> HIDE DEF p, S, num, m
  <2>5. /\ \A u \in S : Cardinality(store[u][k].color) = m
        /\ Cardinality(S) = m * num
        /\ Cardinality(T) = num
    BY <2>1, CountFamily, Zenon
  <2>6. UNION T = S
    <3>1. \A u \in S : u \in store[u][k].color /\ store[u][k].color \subseteq S
      BY <2>1, Zenon DEF Family
    <3>2. ASSUME NEW v \in UNION T PROVE v \in S
      <4>1. PICK x \in T : v \in x
        BY Zenon
      <4>2. PICK u \in S : x = store[u][k].color
        BY Zenon
      <4> QED
        BY <3>1, <4>1, <4>2, Zenon
    <3>3. ASSUME NEW v \in S PROVE v \in UNION T
      <4>1. store[v][k].color \in T
        BY Zenon
      <4> QED
        BY <3>1, <4>1, Zenon
    <3> QED
      BY <3>2, <3>3, SetEqual, Zenon
  <2>7. \A c \in T : Cardinality(c) * num = p.size
    BY <2>4, <2>5, Zenon
  <2>8. ASSUME NEW c \in T, NEW d \in T PROVE c = d \/ c \cap d = {}
    <3>1. PICK u \in S : c = store[u][k].color
      BY Zenon
    <3>2. PICK v \in S : d = store[v][k].color
      BY Zenon
    <3>3. /\ \A w \in store[u][k].color : store[w][k].color = store[u][k].color
          /\ \A w \in store[v][k].color : store[w][k].color = store[v][k].color
      BY <2>1, ZenonT(30) DEF Family
    <3> QED
      BY <3>1, <3>2, <3>3, Zenon
  <2>9. CD(t, Parent(k)) = p /\ \A u : CD(u, k) = store[u][k]
    BY Zenon DEF CD, GetPhasePath, p
  <2>10. CD(t, Parent(k)).color = S
    BY <2>9, Zenon DEF S
  <2>11. {CD(u, k).color : u \in CD(t, Parent(k)).color} = T
    BY <2>9, <2>10, Zenon
  <2> HIDE DEF T
  <2> QED
    BY <2>3, <2>5, <2>6, <2>7, <2>8, <2>9, <2>10, <2>11, Zenon
<1> QED
  BY <1>1, ShapeIsInvariant, PTL

-----------------------------------------------------------------------------
(* Cubes                                                                     *)

\* Cubes grow.
LEMMA CubeGrows ==
  ASSUME NEW a \in Nat, NEW b \in Nat, a < b
  PROVE  Cube(a) < Cube(b)
<1>1. \A x, y, z \in Nat : x <= y => z * x <= z * y /\ x * z <= y * z
  OBVIOUS
<1>2. \A x, y, z \in Nat : x < y /\ z # 0 => x * z < y * z
  OBVIOUS
<1>3. a * a \in Nat /\ b * b \in Nat /\ a <= b /\ b # 0
  OBVIOUS
<1>4. a * a <= a * b /\ a * b <= b * b /\ a * b \in Nat
  BY <1>1, <1>3
<1>5. a * a <= b * b /\ b * b # 0
  <2>1. \A x \in Nat : x # 0 => x * x # 0
    OBVIOUS
  <2> QED
    BY <1>3, <1>4, <2>1
<1>6. (a * a) * a <= (b * b) * a
  BY <1>1, <1>3, <1>5, Zenon
<1>7. a * (b * b) < b * (b * b)
  BY <1>2, <1>3, <1>5, Zenon
<1>8. \A x, y \in Nat : x * y = y * x /\ x * y \in Nat
  OBVIOUS
<1>9. (b * b) * a = a * (b * b) /\ (b * b) * b = b * (b * b)
  BY <1>3, <1>8, Zenon
<1>10. (a * a) * a \in Nat /\ a * (b * b) \in Nat /\ b * (b * b) \in Nat
  BY <1>3, <1>8, Zenon
<1>11. (a * a) * a < (b * b) * b
  BY <1>6, <1>7, <1>9, <1>10
<1> QED
  BY <1>11, Zenon DEF Cube

\* The rounded root of a cube is its side.
LEMMA RootOfCube ==
  ASSUME NEW n \in Nat \ {0}
  PROVE  CubeRoot(Cube(n)) = n
<1> DEFINE c == Cube(n)
           P(r) == Cube(2 * r - 1) <= 8 * c /\ 8 * c < Cube(2 * r + 1)
<1>1. \A x \in Nat : Cube(x) \in Nat
  BY CubeIsPositive, Zenon
<1>2. 8 * c = Cube(2 * n)
  <2>1. \A x \in Nat : 8 * (x * x * x) = (2 * x) * (2 * x) * (2 * x)
    OBVIOUS
  <2> QED
    BY <2>1, Zenon DEF Cube
<1>3. n \in 0 .. c
  <2>1. \A x \in Nat \ {0} : x <= x * x /\ x * x \in Nat
    OBVIOUS
  <2>2. \A x \in Nat \ {0}, y \in Nat : y <= y * x
    OBVIOUS
  <2>3. n <= n * n /\ n * n \in Nat
    BY <2>1, Zenon
  <2>4. n * n <= n * n * n
    BY <2>2, <2>3, Zenon
  <2>5. c = n * n * n /\ c \in Nat
    BY <1>1, Zenon DEF Cube
  <2> QED
    BY <2>3, <2>4, <2>5
<1>4. ASSUME NEW a \in Nat, NEW b \in Nat
      PROVE  (a < b => Cube(a) < Cube(b)) /\ (a <= b => Cube(a) <= Cube(b))
  <2>1. a < b => Cube(a) < Cube(b)
    BY CubeGrows, Zenon
  <2>2. Cube(a) \in Nat /\ Cube(b) \in Nat
    BY <1>1, Zenon
  <2>3. a = b => Cube(a) = Cube(b)
    BY Zenon
  <2> QED
    BY <2>1, <2>2, <2>3
<1>5. P(n)
  <2>1. 2 * n - 1 \in Nat /\ 2 * n \in Nat /\ 2 * n + 1 \in Nat /\ 2 * n - 1 <= 2 * n /\ 2 * n < 2 * n + 1
    OBVIOUS
  <2> QED
    BY <1>2, <1>4, <2>1, Zenon
<1>6. ASSUME NEW r \in 0 .. c, P(r)
      PROVE  r = n
  <2>1. r \in Nat /\ 2 * n \in Nat /\ 2 * r + 1 \in Nat /\ c \in Nat
    BY <1>1
  <2>2. 2 * n < 2 * r + 1
    <3>1. ASSUME 2 * r + 1 <= 2 * n PROVE FALSE
      <4>1. Cube(2 * r + 1) <= Cube(2 * n)
        BY <1>4, <2>1, <3>1, Zenon
      <4>2. Cube(2 * n) < Cube(2 * r + 1)
        BY <1>2, <1>6, Zenon
      <4>3. Cube(2 * n) \in Nat /\ Cube(2 * r + 1) \in Nat
        BY <1>1, <2>1, Zenon
      <4> QED
        BY <4>1, <4>2, <4>3
    <3> QED
      BY <2>1, <3>1
  <2>3. 2 * r - 1 <= 2 * n
    <3>1. ASSUME 2 * n < 2 * r - 1 PROVE FALSE
      <4>0. 2 * r - 1 \in Nat
        BY <2>1, <3>1
      <4>1. Cube(2 * n) < Cube(2 * r - 1)
        BY <1>4, <2>1, <3>1, <4>0, Zenon
      <4>2. Cube(2 * r - 1) <= Cube(2 * n)
        BY <1>2, <1>6, Zenon
      <4>3. Cube(2 * n) \in Nat /\ Cube(2 * r - 1) \in Nat
        BY <1>1, <2>1, <4>0, Zenon
      <4> QED
        BY <4>1, <4>2, <4>3
    <3> QED
      BY <2>1, <3>1
  <2> HIDE DEF c, P
  <2> QED
    BY <2>1, <2>2, <2>3
<1>7. CubeRoot(c) = CHOOSE r \in 0 .. c : P(r)
  BY Zenon DEF CubeRoot
<1> HIDE DEF c, P
<1> QED
  BY <1>3, <1>5, <1>6, <1>7, Zenon DEF c

\* Every number has a rounded cube root.
LEMMA CubeRootIsNat ==
  ASSUME NEW n \in Nat
  PROVE  CubeRoot(n) \in 0 .. n
<1> DEFINE P(r) == Cube(2 * r - 1) <= 8 * n /\ 8 * n < Cube(2 * r + 1)
           S == {r \in Nat : 8 * n < Cube(2 * r + 1)}
<1>1. n \in S
  <2>1. \A x \in Nat : 8 * x < (2 * x + 1) * (2 * x + 1) * (2 * x + 1)
    <3>1. \A x \in Nat : (2 * x + 1) * (2 * x + 1) * (2 * x + 1)
                           = 8 * (x * x * x) + 12 * (x * x) + 6 * x + 1
      OBVIOUS
    <3>2. \A x \in Nat : x * x * x \in Nat /\ x * x \in Nat /\ x <= x * x
      OBVIOUS
    <3> QED
      BY <3>1, <3>2
  <2> QED
    BY <2>1, Zenon DEF Cube
<1>2. PICK r \in S : \A y \in S : ~(<<y, r>> \in OpToRel(<, Nat))
  BY <1>1, WFMin, NatLessThanWellFounded, Zenon
<1>3. \A y \in S : r <= y
  <2> TAKE y \in S
  <2>1. ~(y < r)
    BY <1>2, Zenon DEF OpToRel
  <2> QED
    BY <2>1
<1>4. r \in Nat /\ r <= n /\ 8 * n < Cube(2 * r + 1)
  BY <1>1, <1>3, Zenon
<1>5. Cube(2 * r - 1) <= 8 * n
  <2>1. CASE r = 0
    <3>1. Cube(2 * 0 - 1) = -1
      BY DEF Cube
    <3> QED
      BY <2>1, <3>1
  <2>2. CASE r # 0
    <3>1. r - 1 \in Nat /\ ~(r <= r - 1) /\ 2 * (r - 1) + 1 = 2 * r - 1 /\ 2 * r - 1 \in Nat
      BY <1>4, <2>2
    <3>2. ~(8 * n < Cube(2 * (r - 1) + 1))
      BY <1>3, <3>1, Zenon
    <3>3. Cube(2 * r - 1) \in Nat
      BY <3>1, CubeIsPositive, Zenon
    <3>4. ~(8 * n < Cube(2 * r - 1))
      BY <3>1, <3>2, Zenon
    <3> QED
      BY <3>3, <3>4
  <2> QED
    BY <2>1, <2>2, Zenon
<1>6. r \in 0 .. n
  BY <1>4
<1>7. CubeRoot(n) = CHOOSE x \in 0 .. n : P(x)
  BY Zenon DEF CubeRoot
<1> QED
  BY <1>4, <1>5, <1>6, <1>7, Zenon

\* A place in a cube of side s has the coordinates it was numbered by.
LEMMA PlaceCoordinates ==
  ASSUME NEW s \in Nat \ {0}, NEW x \in 0 .. s - 1, NEW y \in 0 .. s - 1, NEW z \in 0 .. s - 1
  PROVE  Coordinates(Place(x, y, z, s), s) = <<x, y, z>>
<1> DEFINE id == Place(x, y, z, s)
           w == s * z + y
<1>1. id = s * w + x
  <2>1. \A a, b, c, d \in Nat : a + b * d + c * d * d = d * (d * c + b) + a
    OBVIOUS
  <2>2. x \in Nat /\ y \in Nat /\ z \in Nat
    OBVIOUS
  <2> QED
    BY <2>1, <2>2, Zenon DEF Place
<1>2. w \in Nat
  <2>1. y \in Nat /\ z \in Nat
    OBVIOUS
  <2> QED
    BY <2>1
<1>3. w % s = y
  BY DivModUnique
<1>4. id \div (s * s) = z
  <2>1. XYZ(id, s) = [X |-> x, Y |-> y, Z |-> z]
    BY PlaceInCube, Zenon
  <2>2. XYZ(id, s).Z = id \div (s * s)
    BY Zenon DEF XYZ
  <2> HIDE DEF id
  <2> QED
    BY <2>1, <2>2
<1> HIDE DEF w
<1>5. id \div s = w /\ id % s = x
  BY <1>1, <1>2, DivModUnique, Zenon
<1> QED
  BY <1>3, <1>4, <1>5, Zenon DEF Coordinates

\* The coordinates of the numbers below s * s * s are those of XYZ.
LEMMA CoordinatesAreXYZ ==
  ASSUME NEW s \in Nat \ {0}, NEW id \in 0 .. Cube(s) - 1
  PROVE  Coordinates(id, s) = <<XYZ(id, s).X, XYZ(id, s).Y, XYZ(id, s).Z>>
<1> DEFINE p == XYZ(id, s)
<1>1. /\ p.X \in 0 .. s - 1 /\ p.Y \in 0 .. s - 1 /\ p.Z \in 0 .. s - 1
      /\ Place(p.X, p.Y, p.Z, s) = id
  BY XYZInCube
<1> HIDE DEF p
<1>2. Coordinates(Place(p.X, p.Y, p.Z, s), s) = <<p.X, p.Y, p.Z>>
  BY <1>1, PlaceCoordinates, Zenon
<1> QED
  BY <1>1, <1>2, Zenon DEF p

\* The child of n * n * n tasks that a task of a cube goes to, and its number there.
ChildIn(id, n, nc) ==
  LET p == XYZ(id, n * nc) IN Place(p.X \div n, p.Y \div n, p.Z \div n, nc)
TaskIn(id, n, nc) ==
  LET p == XYZ(id, n * nc) IN Place(p.X % n, p.Y % n, p.Z % n, n)

\* SplitCD_3D, by coordinates: those of a task in the cube are those of its child in the cube
\* of children, in units of the side of a child, plus its own in the child.
LEMMA SplitCoordinates ==
  ASSUME NEW n \in Nat \ {0}, NEW nc \in Nat \ {0}, NEW id \in 0 .. Cube(n * nc) - 1,
         NEW i \in 1 .. 3
  PROVE  /\ Coordinates(id, n * nc)[i] \in Nat
         /\ Coordinates(TaskIn(id, n, nc), n)[i] \in Nat
         /\ Coordinates(ChildIn(id, n, nc), nc)[i] \in Nat
         /\ Coordinates(id, n * nc)[i]
              = n * Coordinates(ChildIn(id, n, nc), nc)[i] + Coordinates(TaskIn(id, n, nc), n)[i]
<1> DEFINE s == n * nc
           p == XYZ(id, s)
<1>1. s \in Nat \ {0}
  <2>1. \A a, b \in Nat \ {0} : a * b \in Nat \ {0}
    OBVIOUS
  <2> QED
    BY <2>1, Zenon
<1>2. ASSUME NEW v \in 0 .. s - 1
      PROVE  v \in Nat /\ v \div n \in 0 .. nc - 1 /\ v % n \in 0 .. n - 1 /\ v = n * (v \div n) + (v % n)
  <2>1. v \in Nat
    BY <1>1
  <2>2. v \div n \in 0 .. nc - 1
    BY DivBelow, Zenon
  <2> QED
    BY <2>1, <2>2, DivMod, Zenon
<1> HIDE DEF s
<1>3. p.X \in 0 .. s - 1 /\ p.Y \in 0 .. s - 1 /\ p.Z \in 0 .. s - 1
  <2>1. id \in 0 .. Cube(s) - 1
    BY Zenon DEF s
  <2> QED
    BY <1>1, <2>1, XYZInCube
<1>4. Coordinates(id, s) = <<p.X, p.Y, p.Z>>
  <2>1. id \in 0 .. Cube(s) - 1
    BY Zenon DEF s
  <2> QED
    BY <1>1, <2>1, CoordinatesAreXYZ, Zenon
<1> HIDE DEF p
<1> DEFINE q == <<p.X \div n, p.Y \div n, p.Z \div n>>
           r == <<p.X % n, p.Y % n, p.Z % n>>
<1>5. Coordinates(Place(p.X \div n, p.Y \div n, p.Z \div n, nc), nc) = q
  BY <1>2, <1>3, PlaceCoordinates, Zenon
<1>6. Coordinates(Place(p.X % n, p.Y % n, p.Z % n, n), n) = r
  BY <1>2, <1>3, PlaceCoordinates, Zenon
<1>7. \A a \in Nat : 0 .. a - 1 \subseteq Nat
  OBVIOUS
<1>8. \A v \in 0 .. s - 1 : v \in Nat /\ v \div n \in Nat /\ v % n \in Nat /\ v = n * (v \div n) + (v % n)
  BY <1>2, <1>7, Zenon
<1>9. i = 1 \/ i = 2 \/ i = 3
  OBVIOUS
<1>10. /\ <<p.X, p.Y, p.Z>>[i] \in Nat /\ q[i] \in Nat /\ r[i] \in Nat
       /\ <<p.X, p.Y, p.Z>>[i] = n * q[i] + r[i]
  <2>1. CASE i = 1
    BY <1>3, <1>8, <2>1, Zenon
  <2>2. CASE i = 2
    BY <1>3, <1>8, <2>2, Zenon
  <2>3. CASE i = 3
    BY <1>3, <1>8, <2>3, Zenon
  <2> QED
    BY <1>9, <2>1, <2>2, <2>3, Zenon
<1> HIDE DEF q, r
<1> QED
  BY <1>4, <1>5, <1>6, <1>10, Zenon DEF s, p, ChildIn, TaskIn

Multiple(d, n) == d % n = 0

\* What is a multiple of the side of a cube is one of the side of its children.
LEMMA MultipleOfSide ==
  ASSUME NEW n \in Nat \ {0}, NEW nc \in Nat \ {0}, NEW d \in Int, NEW q \in Nat,
         Multiple(d, n * nc)
  PROVE  Multiple(d + n * q, n)
<1>1. n * nc \in Nat \ {0}
  <2>1. \A a, b \in Nat \ {0} : a * b \in Nat \ {0}
    OBVIOUS
  <2> QED
    BY <2>1, Zenon
<1>2. \A a \in Int, b \in Nat \ {0} : a \div b \in Int /\ a = b * (a \div b) + (a % b)
  OBVIOUS
<1>3. PICK e \in Int : d = (n * nc) * e + 0
  BY <1>1, <1>2, Zenon DEF Multiple
<1>4. \A x, y, z, w \in Int : (x * y) * z + 0 + x * w = x * (y * z + w) /\ y * z + w \in Int
  OBVIOUS
<1>5. d + n * q = n * (nc * e + q) /\ nc * e + q \in Int
  BY <1>3, <1>4
<1>6. \A b \in Nat \ {0}, a \in Int : (b * a) % b = 0
  OBVIOUS
<1> QED
  BY <1>5, <1>6, Zenon DEF Multiple

-----------------------------------------------------------------------------
(* Blocks: the tasks of a CD that repeated splits make                       *)

\* The tasks of a CD made by 1D splits alone are consecutive.
Row(t, k) ==
  AllSplit(k, "1D") =>
    \A u \in store[t][k].color : u - store[u][k].task = t - store[t][k].task

\* Task v of the job is at this place of its CD, in direction i, and the CD begins that much
\* before it.
Offset(v, task, side, i) == Coordinates(v, CubeRoot(job.size))[i] - Coordinates(task, side)[i]

\* Two tasks of a CD agree where it begins, at a multiple of its side.
Aligned(t, a, u, b, side, i) ==
  /\ Offset(u, b, side, i) = Offset(t, a, side, i)
  /\ Offset(u, b, side, i) \in Int
  /\ Multiple(Offset(u, b, side, i), side)

\* CubeRoot finds the side of a cube of so many tasks.
IsCube(n) == CubeRoot(n) \in Nat \ {0} /\ Cube(CubeRoot(n)) = n

\* The tasks of a CD made by 3D splits alone are a cube in that of the job.
Block(t, k) ==
  AllSplit(k, "3D") /\ Cube(CubeRoot(job.size)) = job.size =>
    /\ IsCube(store[t][k].size)
    /\ \A u \in store[t][k].color, i \in 1 .. 3 :
         Aligned(t, store[t][k].task, u, store[u][k].task, CubeRoot(store[t][k].size), i)

Blocks == \A t \in Task : \A k \in DOMAIN store[t] : Row(t, k) /\ Block(t, k)

\* Where the tasks of the job are does not change.
LEMMA AlignedStays ==
  ASSUME job' = job, NEW t, NEW a, NEW u, NEW b, NEW side, NEW i
  PROVE  Aligned(t, a, u, b, side, i)' <=> Aligned(t, a, u, b, side, i)
<1>1. Offset(t, a, side, i)' = Offset(t, a, side, i) /\ Offset(u, b, side, i)' = Offset(u, b, side, i)
  BY Zenon DEF Offset
<1> QED
  BY ONLY <1>1, Zenon DEF Aligned

\* A CD that is left alone, or registers a split method, keeps its block.
LEMMA BlockStays ==
  ASSUME ShapeInv, job' = job, NEW t \in Task, NEW k \in DOMAIN store[t], Row(t, k), Block(t, k),
         \A u \in Task : k \in DOMAIN store[u] =>
           store'[u][k].color = store[u][k].color /\ store'[u][k].size = store[u][k].size
           /\ store'[u][k].task = store[u][k].task
  PROVE  Row(t, k)' /\ Block(t, k)'
<1>1. Good(t, k)
  BY Zenon DEF ShapeInv
<1>2. \A u \in store[t][k].color : u \in Task /\ k \in DOMAIN store[u]
  BY <1>1, Zenon DEF Good, Agreed, CDType
<1>3. /\ store'[t][k].color = store[t][k].color /\ store'[t][k].size = store[t][k].size
      /\ store'[t][k].task = store[t][k].task
  BY Zenon
<1>4. \A u \in store[t][k].color : store'[u][k].task = store[u][k].task
  BY <1>2, Zenon
<1>5. \A method : AllSplit(k, method)' <=> AllSplit(k, method)
  BY Zenon DEF AllSplit
<1>6. \A v, a, u, b, side, i : Aligned(v, a, u, b, side, i)' <=> Aligned(v, a, u, b, side, i)
  BY AlignedStays, Zenon
<1>7. Row(t, k)'
  <2> SUFFICES ASSUME AllSplit(k, "1D"), NEW u \in store[t][k].color
               PROVE  u - store'[u][k].task = t - store'[t][k].task
    BY <1>3, <1>5, Zenon DEF Row
  <2> QED
    BY <1>3, <1>4, Zenon DEF Row
<1>8. Block(t, k)'
  <2> DEFINE side == CubeRoot(store[t][k].size)
  <2> SUFFICES ASSUME AllSplit(k, "3D"), Cube(CubeRoot(job.size)) = job.size
               PROVE  /\ IsCube(store[t][k].size)
                      /\ \A u \in store[t][k].color, i \in 1 .. 3 :
                           Aligned(t, store'[t][k].task, u, store'[u][k].task, side, i)
    BY <1>3, <1>5, <1>6, ZenonT(30) DEF Block
  <2> QED
    BY <1>3, <1>4, Zenon DEF Block
<1> QED
  BY <1>7, <1>8, Zenon

\* The paths of 1D splits, and of 3D splits, are made of such calls alone.
LEMMA AllSplitChild ==
  ASSUME job \in Jobs, NEW path \in Seq(Names), NEW call \in job.calls, NEW method,
         AllSplit(Append(path, call.name), method)
  PROVE  AllSplit(path, method) /\ call.how = "Create" /\ (call.num = 1 \/ call.split = method)
<1> DEFINE child == Append(path, call.name)
<1>1. /\ Len(path) \in Nat /\ Len(child) = Len(path) + 1 /\ child[Len(path) + 1] = call.name
      /\ \A i \in 1 .. Len(path) : child[i] = path[i]
  <2>1. call.name \in Names
    BY Zenon DEF Names
  <2> QED
    BY <2>1
<1> HIDE DEF child
<1>2. \A i \in 1 .. Len(path) + 1 : \E c \in job.calls :
        c.name = child[i] /\ c.how = "Create" /\ (c.num = 1 \/ c.split = method)
  BY <1>1, Zenon DEF AllSplit, child
<1>3. Len(path) + 1 \in 1 .. Len(path) + 1 /\ \A i \in 1 .. Len(path) : i \in 1 .. Len(path) + 1
  BY <1>1
<1>4. AllSplit(path, method)
  BY <1>1, <1>2, <1>3, Zenon DEF AllSplit
<1>5. PICK c \in job.calls :
        c.name = call.name /\ c.how = "Create" /\ (c.num = 1 \/ c.split = method)
  BY <1>1, <1>2, <1>3, Zenon
<1>6. c = call
  BY <1>5, JobsAssumption, Zenon
<1> QED
  BY <1>4, <1>5, <1>6, Zenon

\* The places a Create without colors gives to the tasks of a CD of this size.
PlacesOf(call, size, a) ==
  IF call.num = 1 THEN [color |-> 0, task |-> a]
  ELSE IF call.split = "1D" THEN SplitCD_1D(a, size, call.num)
  ELSE SplitCD_3D(a, size, call.num)

\* A task and another of its new CD, in terms of their places in the old one.
Siblings(M, path, call, size, m, child, t, u) ==
  LET P(v) == PlacesOf(call, size, store[v][path].task)
  IN  /\ u \in M /\ t \in M /\ P(u).color = P(t).color
      /\ store'[t][child].task = P(t).task /\ store'[u][child].task = P(u).task
      /\ store'[t][child].size = m /\ m = size \div call.num
      /\ size \in 1 .. job.size /\ store[t][path].size = size
      /\ store[t][path].task \in 0 .. size - 1 /\ store[u][path].task \in 0 .. size - 1
      /\ store[t][path].color = M
      /\ call.num # 1 => /\ call.split = "1D" => m \in Nat \ {0}
                         /\ call.split = "3D" => Splits3D(size, call.num)

\* A 1D split of a row makes rows.
LEMMA RowSplits ==
  ASSUME ShapeInv, NEW M, NEW path, NEW call \in job.calls, NEW size, NEW m, NEW child,
         NEW t \in Task, NEW u \in Task, Siblings(M, path, call, size, m, child, t, u),
         call.num = 1 \/ call.split = "1D",
         u - store[u][path].task = t - store[t][path].task
  PROVE  u - store'[u][child].task = t - store'[t][child].task
<1> DEFINE a == store[t][path].task
           b == store[u][path].task
<1>1. CASE call.num = 1
  <2>1. store'[u][child].task = b /\ store'[t][child].task = a
    BY <1>1, Zenon DEF Siblings, PlacesOf
  <2> QED
    BY <2>1, Zenon
<1>2. CASE call.num # 1
  <2>1. /\ store'[u][child].task = b % m /\ store'[t][child].task = a % m
        /\ a \div m = b \div m
    BY <1>2, Zenon DEF Siblings, PlacesOf, SplitCD_1D
  <2>2. m \in Nat \ {0} /\ a \in 0 .. size - 1 /\ b \in 0 .. size - 1
    BY <1>2, Zenon DEF Siblings
  <2>3. a \in Nat /\ b \in Nat
    <3>1. \A x, y : x \in 0 .. y => x \in Nat
      OBVIOUS
    <3> QED
      BY <2>2, <3>1, Zenon
  <2>4. t \in Int /\ u \in Int
    BY DEF Task
  <2> HIDE DEF a, b
  <2>5. /\ a % m \in Nat /\ b % m \in Nat /\ m * (a \div m) \in Nat
        /\ a = m * (a \div m) + (a % m) /\ b = m * (b \div m) + (b % m)
    <3>1. \A x \in Nat, y \in Nat \ {0} :
            x % y \in Nat /\ y * (x \div y) \in Nat /\ x = y * (x \div y) + (x % y)
      OBVIOUS
    <3> QED
      BY <2>2, <2>3, <3>1, Zenon
  <2>6. b = m * (a \div m) + (b % m)
    BY <2>1, <2>5, Zenon
  <2>7. u - b = t - a
    BY Zenon DEF a, b
  <2>8. u - (b % m) = t - (a % m)
    BY <2>3, <2>4, <2>5, <2>6, <2>7
  <2> QED
    BY <2>1, <2>8, Zenon
<1> QED
  BY <1>1, <1>2, Zenon

\* A cube of children that fits into the cube of tasks: the side of a child.
LEMMA SideOfChild ==
  ASSUME NEW j \in Jobs, NEW call \in j.calls, NEW size \in 1 .. j.size, NEW s \in Nat \ {0},
         s = CubeRoot(size), call.how = "Create", call.split = "3D", Splits3D(size, call.num)
  PROVE  \E n, nc \in Nat \ {0} :
           /\ s = n * nc /\ nc = CubeRoot(call.num) /\ n = s \div nc
           /\ Cube(n) = size \div call.num /\ CubeRoot(size \div call.num) = n
<1> DEFINE nc == CubeRoot(call.num)
           n == s \div nc
<1>1. nc \in Nat /\ Cube(nc) = call.num /\ call.num > 0 /\ Cube(n) = size \div call.num /\ n # 0
  BY Zenon DEF Splits3D
<1>2. s % nc = 0
  BY CallerAssumption, Zenon
<1>3. call.num \in Nat \ {0}
  BY JobsAssumption, Zenon
<1> HIDE DEF nc
<1>4. nc \in Nat \ {0}
  BY <1>1, <1>3, CubeIsPositive, Zenon
<1>5. n \in Nat /\ s = nc * n + (s % nc)
  BY <1>4, DivMod, Zenon
<1>6. n \in Nat \ {0} /\ s = n * nc
  <2>1. \A a, b \in Nat : a * b + 0 = b * a
    OBVIOUS
  <2> QED
    BY <1>1, <1>2, <1>4, <1>5, <2>1, Zenon
<1> HIDE DEF n
<1>7. CubeRoot(Cube(n)) = n
  BY <1>6, RootOfCube, Zenon
<1>8. nc = CubeRoot(call.num) /\ n = s \div nc
  BY Zenon DEF n, nc
<1>9. CubeRoot(size \div call.num) = n
  BY <1>1, <1>7, Zenon
<1> QED
  BY <1>1, <1>4, <1>6, <1>8, <1>9, Zenon

\* The coordinates of a task of the job.
LEMMA RankCoordinates ==
  ASSUME job \in Jobs, NEW v \in Task, Cube(CubeRoot(job.size)) = job.size, NEW i \in 1 .. 3
  PROVE  Coordinates(v, CubeRoot(job.size))[i] \in Int
<1> DEFINE n == CubeRoot(job.size)
<1>1. job.size \in Nat \ {0}
  BY JobsAssumption, Zenon
<1>2. n \in Nat
  <2>1. n \in 0 .. job.size
    BY <1>1, CubeRootIsNat, Zenon
  <2> QED
    BY <1>1, <2>1
<1> HIDE DEF n
<1>3. n \in Nat \ {0}
  BY <1>1, <1>2, CubeIsPositive, Zenon DEF n
<1>4. v \in Nat
  BY <1>1 DEF Task
<1>5. \A a, b \in Nat \ {0} : a * b \in Nat \ {0}
  OBVIOUS
<1>6. v % n \in Int /\ v \div n \in Nat /\ v \div (n * n) \in Int
  BY <1>3, <1>4, <1>5
<1>7. (v \div n) % n \in Int
  BY <1>3, <1>6
<1>8. i = 1 \/ i = 2 \/ i = 3
  OBVIOUS
<1>9. Coordinates(v, n) = <<v % n, (v \div n) % n, v \div (n * n)>>
  BY Zenon DEF Coordinates
<1>10. Coordinates(v, n)[i] \in Int
  <2>1. CASE i = 1
    BY <1>6, <1>9, <2>1
  <2>2. CASE i = 2
    BY <1>7, <1>9, <2>2
  <2>3. CASE i = 3
    BY <1>6, <1>9, <2>3
  <2> QED
    BY <1>8, <2>1, <2>2, <2>3, Zenon
<1> QED
  BY <1>10, Zenon DEF n

\* A 3D split of a cube makes cubes.
LEMMA BlockSplits ==
  ASSUME ShapeInv, NEW M, NEW path, NEW call \in job.calls, NEW size, NEW m, NEW child,
         NEW t \in Task, NEW u \in Task, Siblings(M, path, call, size, m, child, t, u),
         call.how = "Create", call.num = 1 \/ call.split = "3D",
         Cube(CubeRoot(job.size)) = job.size,
         IsCube(size), NEW i \in 1 .. 3,
         Aligned(t, store[t][path].task, u, store[u][path].task, CubeRoot(size), i)
  PROVE  /\ IsCube(m)
         /\ Aligned(t, store'[t][child].task, u, store'[u][child].task, CubeRoot(m), i)
<1> DEFINE a == store[t][path].task
           b == store[u][path].task
<1> DEFINE s == CubeRoot(size)
<1>0. job \in Jobs /\ size \in 1 .. job.size /\ m = size \div call.num
  BY Zenon DEF ShapeInv, Siblings
<1>3. /\ s \in Nat \ {0} /\ s = CubeRoot(size) /\ Cube(s) = size
      /\ Aligned(t, a, u, b, s, i)
  BY Zenon DEF IsCube
<1>1. CASE call.num = 1
  <2>1. store'[u][child].task = b /\ store'[t][child].task = a
    BY <1>1, Zenon DEF Siblings, PlacesOf
  <2>2. m = size
    <3>1. \A x : x \in Nat => x \div 1 = x
      OBVIOUS
    <3>2. size \in Nat
      BY <1>3, CubeIsPositive, Zenon
    <3> QED
      BY <1>0, <1>1, <3>1, <3>2, Zenon
  <2> QED
    BY <2>1, <2>2, Zenon
<1>2. CASE call.num # 1
  <2> HIDE DEF s
  <2>1. call.split = "3D" /\ Splits3D(size, call.num)
    BY <1>2, Zenon DEF Siblings
  <2>2. PICK n, nc \in Nat \ {0} :
          /\ s = n * nc /\ nc = CubeRoot(call.num) /\ n = s \div nc
          /\ Cube(n) = size \div call.num /\ CubeRoot(size \div call.num) = n
    BY <1>0, <1>3, <2>1, SideOfChild
  <2>3. CubeRoot(m) = n /\ Cube(n) = m
    BY <1>0, <2>2, Zenon
  <2> DEFINE x(v) == store[v][path].task
             co(v) == ChildIn(x(v), n, nc)
             ta(v) == TaskIn(x(v), n, nc)
  <2>4. \A y : PlacesOf(call, size, y) = SplitCD_3D(y, size, call.num)
    BY <1>2, <2>1, Zenon DEF PlacesOf
  <2>5. \A v : PlacesOf(call, size, x(v)) = [color |-> co(v), task |-> ta(v)]
    BY <1>3, <2>2, <2>4, Zenon DEF SplitCD_3D, ChildIn, TaskIn
  <2>6. co(u) = co(t) /\ store'[t][child].task = ta(t) /\ store'[u][child].task = ta(u)
    <3>1. /\ PlacesOf(call, size, x(u)).color = PlacesOf(call, size, x(t)).color
          /\ store'[t][child].task = PlacesOf(call, size, x(t)).task
          /\ store'[u][child].task = PlacesOf(call, size, x(u)).task
      BY Zenon DEF Siblings
    <3>2. \A v : PlacesOf(call, size, x(v)).color = co(v) /\ PlacesOf(call, size, x(v)).task = ta(v)
      <4> HIDE DEF co, ta, x
      <4> QED
        BY <2>5
    <3> QED
      BY <3>1, <3>2, Zenon
  <2>7. ASSUME NEW v \in {t, u}
        PROVE  /\ Coordinates(x(v), s)[i] \in Nat /\ Coordinates(ta(v), n)[i] \in Nat
               /\ Coordinates(co(v), nc)[i] \in Nat
               /\ Coordinates(x(v), s)[i] = n * Coordinates(co(v), nc)[i] + Coordinates(ta(v), n)[i]
    <3>1. x(v) \in 0 .. Cube(n * nc) - 1
      BY <1>3, <2>2, Zenon DEF Siblings
    <3> HIDE DEF x
    <3>2. /\ Coordinates(x(v), n * nc)[i] \in Nat /\ Coordinates(ta(v), n)[i] \in Nat
          /\ Coordinates(co(v), nc)[i] \in Nat
          /\ Coordinates(x(v), n * nc)[i] = n * Coordinates(co(v), nc)[i] + Coordinates(ta(v), n)[i]
      BY ONLY n \in Nat \ {0}, nc \in Nat \ {0}, i \in 1 .. 3, <3>1, SplitCoordinates, Zenon
    <3> HIDE DEF co, ta
    <3> QED
      BY <2>2, <3>2, Zenon
  <2> HIDE DEF co, ta, x
  <2> DEFINE q == Coordinates(co(t), nc)[i]
  <2>8. q \in Nat
    BY <2>7, Zenon
  <2>9. ASSUME NEW v \in {t, u}
        PROVE  Offset(v, ta(v), n, i) = Offset(v, x(v), s, i) + n * q
    <3> DEFINE T == Coordinates(v, CubeRoot(job.size))[i]
    <3>1. T \in Int
      BY <1>0, RankCoordinates, Zenon
    <3>2. /\ Coordinates(x(v), s)[i] \in Nat /\ Coordinates(ta(v), n)[i] \in Nat
          /\ Coordinates(x(v), s)[i] = n * q + Coordinates(ta(v), n)[i]
      BY <2>6, <2>7, Zenon
    <3>3. /\ Offset(v, ta(v), n, i) = T - Coordinates(ta(v), n)[i]
          /\ Offset(v, x(v), s, i) = T - Coordinates(x(v), s)[i]
      BY Zenon DEF Offset
    <3>4. n * q \in Nat
      BY <2>8
    <3> HIDE DEF T, q
    <3> QED
      BY <3>1, <3>2, <3>3, <3>4
  <2> HIDE DEF q
  <2>10. /\ Offset(u, x(u), s, i) = Offset(t, x(t), s, i)
         /\ Offset(u, x(u), s, i) \in Int /\ Multiple(Offset(u, x(u), s, i), n * nc)
    BY <1>3, <2>2, Zenon DEF x, Aligned
  <2>11. Offset(u, ta(u), n, i) = Offset(t, ta(t), n, i)
    BY <2>9, <2>10, Zenon
  <2>12. Multiple(Offset(u, ta(u), n, i), n)
    <3> DEFINE d == Offset(u, x(u), s, i)
    <3>1. d \in Int /\ Multiple(d, n * nc)
      BY <2>10, Zenon
    <3> HIDE DEF d
    <3>2. Multiple(d + n * q, n)
      BY ONLY n \in Nat \ {0}, nc \in Nat \ {0}, <2>8, <3>1, MultipleOfSide, Zenon
    <3> QED
      BY <2>9, <3>2, Zenon DEF d
  <2>13. Offset(u, ta(u), n, i) \in Int
    <3>1. \A d, e \in Int : \A k \in Nat : d + e * k \in Int
      OBVIOUS
    <3>2. n \in Int
      OBVIOUS
    <3> QED
      BY ONLY u \in {t, u}, <2>8, <2>9, <2>10, <3>1, <3>2, Zenon
  <2> QED
    BY <2>3, <2>6, <2>11, <2>12, <2>13, Zenon DEF Aligned, IsCube
<1> QED
  BY <1>1, <1>2, Zenon

\* Two tasks of a new CD that a Create without colors makes.
LEMMA CreateSiblings ==
  ASSUME CommSplitDeals, ShapeInv, NEW M, NEW path, NEW call \in job.calls,
         call.how = "Create", Create(M, path, call),
         NEW child, Splits(M, path, call, child),
         NEW f, NEW size \in 1 .. job.size, NEW m \in 1 .. size, Deals(M, path, call, f, size, m),
         NEW t \in M, NEW u \in store'[t][child].color
  PROVE  Siblings(M, path, call, size, m, child, t, u)
<1>1. /\ Together(M, path) /\ {CD(v, path).split : v \in M} = {call.split}
      /\ M \subseteq {v \in Task : CheckToReuseCD(v, path) /\ CanSplit(CD(v, path), call)}
  BY Zenon DEF Create
<1>2. M \subseteq Task
  BY Zenon DEF Splits
<1>3. \A v \in M : IsDealt(M, path, call, f, m, v, store'[v][child])
  BY NewCDIsDealt DEF Splits
<1>4. u \in M /\ f[store[u][path].task].color = f[store[t][path].task].color
  BY <1>3, Zenon DEF IsDealt
<1>5. \A v \in M : store'[v][child].task = f[store[v][path].task].task /\ store'[v][child].size = m
  BY <1>3, Zenon DEF IsDealt
<1>6. \A v \in M : CD(v, path) = store[v][path]
  BY Zenon DEF CD, GetPhasePath
<1>7. \A v \in M : store[v][path].split = call.split /\ CanSplit(store[v][path], call)
  BY <1>1, <1>6, Zenon
<1>8. /\ \A v \in M : store[v][path].task \in 0 .. size - 1
      /\ \A v \in M : store[v][path].size = size
      /\ \A v \in M : Placed(store[v][path], call) = f[store[v][path].task]
  <2>1. \A v \in M : /\ store[v][path].task \in 0 .. size - 1 /\ store[v][path].size = size
                     /\ Placed(store[v][path], call) = f[store[v][path].task]
    BY ONLY Deals(M, path, call, f, size, m), Zenon DEF Deals
  <2> QED
    BY ONLY <2>1, Zenon
<1>9. call.split \in {"1D", "3D"}
  BY JobsAssumption, Zenon DEF ShapeInv
<1>10. \A v \in M : Placed(store[v][path], call) = PlacesOf(call, size, store[v][path].task)
  <2>1. "3D" # "1D" /\ "Create" # "CreateColored"
    BY Zenon
  <2> QED
    BY <1>7, <1>8, <2>1, Zenon DEF Placed, PlacesOf
<1>11. store[t][path].color = M
  BY <1>1, <1>2, TogetherIsOneCD, Zenon
<1>12. call.num # 1 /\ call.split = "3D" => Splits3D(size, call.num)
  <2>1. "3D" # "1D" /\ "Create" # "CreateColored"
    BY Zenon
  <2> QED
    BY <1>7, <1>8, <2>1, Zenon DEF CanSplit
<1>13. m \in Nat \ {0} /\ m = size \div call.num
  BY Zenon DEF Deals
<1> QED
  BY <1>4, <1>5, <1>8, <1>10, <1>11, <1>12, <1>13, Zenon DEF Siblings

\* A CD whose tasks a Create places by 1D splits alone, from a row, is a row.
LEMMA NewCDIsRow ==
  ASSUME CommSplitDeals, ShapeInv, Blocks, NEW M, NEW path, NEW call \in job.calls,
         Create(M, path, call), NEW child, Splits(M, path, call, child),
         NEW f, NEW size \in 1 .. job.size, NEW m \in 1 .. size, Deals(M, path, call, f, size, m),
         NEW t \in M
  PROVE  Row(t, child)'
<1>1. M \subseteq Task /\ job' = job /\ child = Append(path, call.name) /\ Together(M, path)
  BY Zenon DEF Splits
<1>2. /\ t \in Task /\ path \in DOMAIN store[t] /\ path \in Seq(Names)
      /\ store[t][path].color = M
  BY <1>1, TogetherIsOneCD, Zenon
<1> SUFFICES ASSUME AllSplit(child, "1D"), NEW u \in store'[t][child].color
             PROVE  u - store'[u][child].task = t - store'[t][child].task
  BY <1>1, Zenon DEF Row, AllSplit
<1>3. AllSplit(path, "1D") /\ call.how = "Create" /\ (call.num = 1 \/ call.split = "1D")
  <2>1. job \in Jobs
    BY Zenon DEF ShapeInv
  <2> QED
    BY <1>1, <1>2, <2>1, AllSplitChild, Zenon
<1>4. Siblings(M, path, call, size, m, child, t, u)
  BY <1>3, CreateSiblings, Zenon
<1>5. u \in M
  BY <1>4, Zenon DEF Siblings
<1> t \in Task /\ u \in Task
  BY <1>1, <1>5, Zenon
<1>6. u - store[u][path].task = t - store[t][path].task
  BY <1>2, <1>3, <1>5, Zenon DEF Blocks, Row
<1> QED
  BY ONLY ShapeInv, call \in job.calls, t \in Task, u \in Task, <1>3, <1>4, <1>6, RowSplits

\* A CD whose tasks a Create places by 3D splits alone, from a cube, is a cube.
LEMMA NewCDIsBlock ==
  ASSUME CommSplitDeals, ShapeInv, Blocks, NEW M, NEW path, NEW call \in job.calls,
         Create(M, path, call), NEW child, Splits(M, path, call, child),
         NEW f, NEW size \in 1 .. job.size, NEW m \in 1 .. size, Deals(M, path, call, f, size, m),
         NEW t \in M
  PROVE  Block(t, child)'
<1> DEFINE n == CubeRoot(store'[t][child].size)
<1>1. M \subseteq Task /\ job' = job /\ child = Append(path, call.name) /\ Together(M, path)
  BY Zenon DEF Splits
<1>2. /\ t \in Task /\ path \in DOMAIN store[t] /\ path \in Seq(Names)
      /\ store[t][path].color = M
  BY <1>1, TogetherIsOneCD, Zenon
<1>3. \A v, a, u, b, side, i : Aligned(v, a, u, b, side, i)' <=> Aligned(v, a, u, b, side, i)
  BY <1>1, AlignedStays, Zenon
<1> SUFFICES ASSUME AllSplit(child, "3D"), Cube(CubeRoot(job.size)) = job.size
             PROVE  /\ IsCube(store'[t][child].size)
                    /\ \A u \in store'[t][child].color, i \in 1 .. 3 :
                         Aligned(t, store'[t][child].task, u, store'[u][child].task, n, i)
  <2>1. AllSplit(child, "3D")' <=> AllSplit(child, "3D")
    BY <1>1, Zenon DEF AllSplit
  <2> QED
    BY <1>1, <1>3, <2>1, ZenonT(30) DEF Block
<1>4. AllSplit(path, "3D") /\ call.how = "Create" /\ (call.num = 1 \/ call.split = "3D")
  <2>1. job \in Jobs
    BY Zenon DEF ShapeInv
  <2> QED
    BY <1>1, <1>2, <2>1, AllSplitChild, Zenon
<1> DEFINE s == CubeRoot(store[t][path].size)
<1>5. /\ IsCube(store[t][path].size)
      /\ \A u \in M, i \in 1 .. 3 :
           Aligned(t, store[t][path].task, u, store[u][path].task, s, i)
  BY <1>2, <1>4, Zenon DEF Blocks, Block
<1>6. ASSUME NEW u \in store'[t][child].color, NEW i \in 1 .. 3
      PROVE  /\ IsCube(store'[t][child].size)
             /\ Aligned(t, store'[t][child].task, u, store'[u][child].task, n, i)
  <2>1. Siblings(M, path, call, size, m, child, t, u)
    BY <1>4, CreateSiblings, Zenon
  <2>2. u \in M /\ store'[t][child].size = m /\ store[t][path].size = size
    BY <2>1, Zenon DEF Siblings
  <2>3. u \in Task /\ t \in Task
    BY <1>1, <2>2, Zenon
  <2>4. IsCube(size) /\ Aligned(t, store[t][path].task, u, store[u][path].task, CubeRoot(size), i)
    BY <1>5, <2>2, Zenon
  <2>5. n = CubeRoot(m)
    BY <2>2, Zenon
  <2> HIDE DEF n, s
  <2> QED
    <3>1. IsCube(m) /\ Aligned(t, store'[t][child].task, u, store'[u][child].task, CubeRoot(m), i)
      BY ONLY ShapeInv, call \in job.calls, <2>3, i \in 1 .. 3,
              Cube(CubeRoot(job.size)) = job.size, <1>4, <2>1, <2>4, BlockSplits, Zenon
    <3> QED
      BY <2>2, <2>5, <3>1, Zenon
<1>7. t \in store'[t][child].color /\ 1 \in 1 .. 3
  <2>1. IsDealt(M, path, call, f, m, t, store'[t][child])
    BY NewCDIsDealt DEF Splits
  <2>2. t \in store'[t][child].color
    BY <2>1, Zenon DEF IsDealt
  <2> QED
    BY <2>2
<1> QED
  BY <1>6, <1>7, Zenon

\* Create keeps the blocks: an old CD stays as it is, a new one is a part of its parent.
LEMMA CreateKeepsBlocks ==
  ASSUME CommSplitDeals, ShapeInv, Blocks, NEW M, NEW path, M \subseteq Task,
         NEW call \in job.calls, Create(M, path, call)
  PROVE  Blocks'
<1> DEFINE child == Append(path, call.name)
<1>1. /\ job' = job
      /\ \/ store' = store /\ \A t \in M : child \in DOMAIN store[t]
         \/ /\ Splits(M, path, call, child)
            /\ \A t \in Task \ M : store'[t] = store[t]
            /\ \E f, size, m : size \in 1 .. job.size /\ m \in 1 .. size /\ Deals(M, path, call, f, size, m)
  BY CreateMakes, Zenon
<1>2. Task' = Task
  BY <1>1, Zenon DEF Task
<1> HIDE DEF child
<1>3. CASE store' = store /\ \A t \in M : child \in DOMAIN store[t]
  <2>1. \A t \in Task : \A k \in DOMAIN store[t] : Row(t, k)' /\ Block(t, k)'
    BY <1>1, <1>3, BlockStays, Zenon DEF Blocks
  <2> QED
    BY <1>2, <1>3, <2>1, Zenon DEF Blocks
<1>4. CASE /\ Splits(M, path, call, child)
           /\ \A t \in Task \ M : store'[t] = store[t]
           /\ \E f, size, m : size \in 1 .. job.size /\ m \in 1 .. size /\ Deals(M, path, call, f, size, m)
  <2>1. PICK f, size, m : size \in 1 .. job.size /\ m \in 1 .. size /\ Deals(M, path, call, f, size, m)
    BY <1>4, Zenon
  <2>2. \A t \in M : Row(t, child)' /\ Block(t, child)'
    BY <1>4, <2>1, NewCDIsRow, NewCDIsBlock, Zenon
  <2>3. \A t \in Task : \A k \in DOMAIN store[t] : store'[t][k] = store[t][k]
    BY <1>4, Zenon DEF Splits
  <2>4. \A t \in Task : \A k \in DOMAIN store[t] : Row(t, k)' /\ Block(t, k)'
    <3> TAKE t \in Task
    <3> TAKE k \in DOMAIN store[t]
    <3>1. Row(t, k) /\ Block(t, k)
      BY Zenon DEF Blocks
    <3>2. \A u \in Task : k \in DOMAIN store[u] => store'[u][k] = store[u][k]
      BY <2>3, Zenon
    <3> QED
      BY <1>1, <3>1, <3>2, BlockStays, Zenon
  <2>5. \A t \in Task : \A k \in DOMAIN store'[t] : k \in DOMAIN store[t] \/ (t \in M /\ k = child)
    BY <1>4, Zenon DEF Splits
  <2> QED
    BY <1>2, <2>2, <2>4, <2>5, Zenon DEF Blocks
<1> QED
  BY <1>1, <1>3, <1>4, Zenon

\* The CD of the whole job is a row, and a block if the job is a cube.
LEMMA InitBlocks == Init => Blocks
<1> SUFFICES ASSUME Init, NEW t \in Task, NEW k \in DOMAIN store[t]
             PROVE  Row(t, k) /\ Block(t, k)
  BY Zenon DEF Blocks
<1>1. k = <<>>
  BY Zenon DEF Init
<1>2. \A u \in Task : store[u][k].color = Task /\ store[u][k].size = job.size /\ store[u][k].task = u
  BY <1>1 DEF Init
<1>3. job \in Jobs /\ job.size \in Nat \ {0}
  BY JobsAssumption, Zenon DEF Init
<1>4. Row(t, k)
  <2> SUFFICES ASSUME NEW u \in Task PROVE u - u = t - t
    BY <1>2, Zenon DEF Row
  <2>1. u \in Int /\ t \in Int
    BY DEF Task
  <2> QED
    BY <2>1
<1>5. Block(t, k)
  <2> DEFINE n == CubeRoot(job.size)
  <2> SUFFICES ASSUME Cube(n) = job.size
               PROVE  /\ n \in Nat \ {0}
                      /\ \A u \in Task, i \in 1 .. 3 :
                           Aligned(t, t, u, u, n, i)
    <3>1. /\ store[t][k].color = Task /\ store[t][k].size = job.size /\ store[t][k].task = t
          /\ \A u \in Task : store[u][k].task = u
      BY <1>2, Zenon
    <3> QED
      BY <3>1, Zenon DEF Block, IsCube
  <2>1. n \in Nat
    <3>1. n \in 0 .. job.size
      BY <1>3, CubeRootIsNat, Zenon
    <3> QED
      BY <1>3, <3>1
  <2>2. n \in Nat \ {0}
    <3> HIDE DEF n
    <3> QED
      BY <1>3, <2>1, CubeIsPositive, Zenon
  <2>3. ASSUME NEW u \in Task, NEW i \in 1 .. 3 PROVE Offset(u, u, n, i) = 0
    <3>1. Coordinates(u, n)[i] \in Int
      BY <1>3, RankCoordinates, Zenon
    <3>2. \A x \in Int : x - x = 0
      OBVIOUS
    <3> QED
      BY <3>1, <3>2, Zenon DEF Offset
  <2>4. 0 \in Int /\ \A x \in Nat \ {0} : 0 % x = 0
    OBVIOUS
  <2> HIDE DEF n
  <2> QED
    BY <2>2, <2>3, <2>4, Zenon DEF Aligned, Multiple
<1> QED
  BY <1>4, <1>5, Zenon

\* Every step keeps the blocks.
LEMMA NextBlocks == CommSplitDeals /\ ShapeInv /\ Blocks /\ [Next]_vars => Blocks'
<1> SUFFICES ASSUME CommSplitDeals, ShapeInv, Blocks, [Next]_vars PROVE Blocks'
  BY Zenon
<1>1. ASSUME job' = job, \A t \in Task : DOMAIN store'[t] = DOMAIN store[t],
             \A t \in Task : \A k \in DOMAIN store[t] : SameButSplit(store'[t][k], store[t][k])
      PROVE  Blocks'
  <2>1. Task' = Task
    BY <1>1, Zenon DEF Task
  <2>2. \A t \in Task : \A k \in DOMAIN store[t] :
           store'[t][k].color = store[t][k].color /\ store'[t][k].size = store[t][k].size
           /\ store'[t][k].task = store[t][k].task
    BY <1>1, Zenon DEF SameButSplit
  <2>3. \A t \in Task : \A k \in DOMAIN store[t] : Row(t, k)' /\ Block(t, k)'
    <3> TAKE t \in Task
    <3> TAKE k \in DOMAIN store[t]
    <3>1. Row(t, k) /\ Block(t, k)
      BY Zenon DEF Blocks
    <3>2. \A u \in Task : k \in DOMAIN store[u] =>
             store'[u][k].color = store[u][k].color /\ store'[u][k].size = store[u][k].size
             /\ store'[u][k].task = store[u][k].task
      BY <2>2, Zenon
    <3> QED
      BY <1>1, <3>1, <3>2, BlockStays, Zenon
  <2> QED
    BY <1>1, <2>1, <2>3, Zenon DEF Blocks
<1>2. ASSUME store' = store, job' = job PROVE Blocks'
  BY <1>1, <1>2, Zenon DEF SameButSplit
<1>3. CASE UNCHANGED vars
  BY <1>2, <1>3, Zenon DEF vars
<1>4. CASE Next
  <2>1. PICK t \in Task :
          \/ \E method \in {"1D", "3D"} : RegisterSplitMethod(CD(t, cur[t]).color, cur[t], method)
          \/ \E call \in job.calls : Create(CD(t, cur[t]).color, cur[t], call)
          \/ Destroy(CD(t, cur[t]).color, cur[t])
    BY <1>4, Zenon DEF Next
  <2> DEFINE M == CD(t, cur[t]).color
  <2>2. M \subseteq Task
    <3>1. cur[t] \in DOMAIN store[t]
      BY Zenon DEF ShapeInv
    <3> QED
      BY <3>1, Zenon DEF ShapeInv, Good, CDType, CD, GetPhasePath
  <2> HIDE DEF M
  <2>3. ASSUME NEW method \in {"1D", "3D"}, RegisterSplitMethod(M, cur[t], method) PROVE Blocks'
    BY <1>1, <2>2, <2>3, RegisterChanges, Zenon
  <2>4. ASSUME NEW call \in job.calls, Create(M, cur[t], call) PROVE Blocks'
    BY <2>2, <2>4, CreateKeepsBlocks, Zenon
  <2>5. ASSUME Destroy(M, cur[t]) PROVE Blocks'
    BY <1>2, <2>5, Zenon DEF Destroy
  <2> QED
    BY <2>1, <2>3, <2>4, <2>5, Zenon DEF M
<1> QED
  BY <1>3, <1>4, Zenon

\* However deep they are nested, the 1D splits of Create leave the tasks of a CD consecutive and
\* in their order, and its 3D splits of a cube leave them a cube, numbered as the job is.
THEOREM BlocksAreKeptHolds == Spec => []BlocksAreKept
<1>1. ShapeInv /\ Blocks => BlocksAreKept
  <2> SUFFICES ASSUME ShapeInv, Blocks, NEW t \in Task, NEW k \in DOMAIN store[t],
                      NEW u \in store[t][k].color
               PROVE  /\ AllSplit(k, "1D") => u - store[u][k].task = t - store[t][k].task
                      /\ AllSplit(k, "3D") /\ Cube(CubeRoot(job.size)) = job.size =>
                           LET side == CubeRoot(store[t][k].size)
                               Corner(v) == [i \in 1 .. 3 |-> Coordinates(v, CubeRoot(job.size))[i]
                                                              - Coordinates(store[v][k].task, side)[i]]
                           IN  /\ Corner(t) = Corner(u)
                               /\ \A i \in 1 .. 3 : Corner(t)[i] % side = 0
    BY Zenon DEF BlocksAreKept, CD, GetPhasePath
  <2>1. Row(t, k) /\ Block(t, k)
    BY Zenon DEF Blocks
  <2>2. AllSplit(k, "1D") => u - store[u][k].task = t - store[t][k].task
    BY <2>1, Zenon DEF Row
  <2>3. ASSUME AllSplit(k, "3D"), Cube(CubeRoot(job.size)) = job.size
        PROVE  LET side == CubeRoot(store[t][k].size)
                   Corner(v) == [i \in 1 .. 3 |-> Offset(v, store[v][k].task, side, i)]
               IN  /\ Corner(t) = Corner(u)
                   /\ \A i \in 1 .. 3 : Corner(t)[i] % side = 0
    BY <2>1, <2>3, Zenon DEF Block, Aligned, Multiple
  <2> QED
    BY <2>2, <2>3, Zenon DEF Offset
<1>2. CommSplitDeals
  BY CommSplitOfDeal, Zenon DEF CommSplitDeals
<1>3. Init => ShapeInv /\ Blocks
  BY InitShape, InitBlocks, Zenon
<1>4. ShapeInv /\ Blocks /\ [Next]_vars => ShapeInv' /\ Blocks'
  BY <1>2, NextShape, NextBlocks, Zenon
<1> QED
  BY <1>1, <1>3, <1>4, PTL DEF Spec

=============================================================================
