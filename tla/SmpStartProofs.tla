--------------------------- MODULE SmpStartProofs ---------------------------
(***************************************************************************)
(* Proofs about the tables of CPUs (CpuTables) and the start of the cores  *)
(* (SmpStart), for every machine: whatever its firmware lists, each core   *)
(* has one number, the boot processor is CPU 0 and is never reset, and the *)
(* barrier of the main loop counts the cores that come to it.              *)
(***************************************************************************)
EXTENDS SmpStart, FiniteSetTheorems, WellFoundedInduction, TLAPS

-----------------------------------------------------------------------------
(***************************************************************************)
(* Least and greatest elements                                             *)
(***************************************************************************)
\* A well-founded relation that contains < gives least elements.
LEMMA LeastInOrder ==
  ASSUME NEW R, IsWellFoundedOn(R, Nat), NEW T, T \subseteq Nat, T # {}
  PROVE  (\A x, y \in Nat : x < y => <<x, y>> \in R) => \E x \in T : \A y \in T : x <= y
<1>1. PICK x \in T : \A y \in T : ~ (<<y, x>> \in R)
  BY WFMin, Zenon
<1>2. ASSUME \A v, w \in Nat : v < w => <<v, w>> \in R PROVE \A y \in T : x <= y
  <2>1. \A y \in T : ~ (y < x)
    BY <1>1, <1>2
  <2>2. x \in Nat /\ \A y \in T : y \in Nat
    OBVIOUS
  <2> QED BY <2>1, <2>2
<1> QED BY <1>2

\* A nonempty set of natural numbers has a least element.
LEMMA LeastNatural ==
  ASSUME NEW T, T \subseteq Nat, T # {}
  PROVE  \E x \in T : \A y \in T : x <= y
<1>1. \A x, y \in Nat : x < y => <<x, y>> \in OpToRel(<, Nat)
  BY Zenon DEF OpToRel
<1> QED BY <1>1, LeastInOrder, NatLessThanWellFounded, Zenon

\* What holds at 0 and is kept by each step holds up to n.
LEMMA UpTo ==
  ASSUME NEW n \in Nat, NEW S, 0 \in S, \A k \in 1 .. n : k - 1 \in S => k \in S
  PROVE  \A k \in 0 .. n : k \in S
<1> DEFINE T == {k \in 0 .. n : k \notin S}
<1> SUFFICES ASSUME T # {} PROVE FALSE
  OBVIOUS
<1>1. T \subseteq Nat
  OBVIOUS
<1>2. PICK k \in T : \A y \in T : k <= y
  BY <1>1, LeastNatural
<1>3. k \in 1 .. n /\ k - 1 \in 0 .. n /\ k - 1 \notin T
  BY <1>2
<1> QED BY <1>3

\* A recursion over 0 .. n, whose steps f are functions of a set D, defines a function.
Steps(n, D) == [1 .. n -> [D -> D]]

Recurs(n, D, base, f) ==
  \E at \in [0 .. n -> D] : \A k \in 0 .. n : at[k] = IF k = 0 THEN base ELSE f[k][at[k - 1]]

LEMMA Recursion ==
  ASSUME NEW n \in Nat, NEW D, NEW base \in D, NEW f \in Steps(n, D)
  PROVE  Recurs(n, D, base, f)
<1>0. f \in [1 .. n -> [D -> D]]
  BY DEF Steps
<1> DEFINE Eq(m, at) == \A k \in 0 .. m : at[k] = IF k = 0 THEN base ELSE f[k][at[k - 1]]
           S == {m \in 0 .. n : \E at \in [0 .. m -> D] : Eq(m, at)}
<1> USE <1>0
<1>1. 0 \in S
  <2> DEFINE at == [k \in 0 .. 0 |-> base]
  <2>1. at \in [0 .. 0 -> D] /\ Eq(0, at) /\ 0 \in 0 .. n
    OBVIOUS
  <2> HIDE DEF at, Eq
  <2> QED BY <2>1
<1>2. ASSUME NEW m \in 1 .. n, m - 1 \in S PROVE m \in S
  <2>1. PICK at \in [0 .. (m - 1) -> D] : Eq(m - 1, at)
    BY <1>2
  <2> DEFINE new == [k \in 0 .. m |-> IF k = m THEN f[m][at[m - 1]] ELSE at[k]]
  <2>2. new \in [0 .. m -> D]
    BY <2>1
  <2>3. ASSUME NEW k \in 0 .. m PROVE new[k] = IF k = 0 THEN base ELSE f[k][new[k - 1]]
    <3>1. CASE k = m
      <4>1. new[k - 1] = at[m - 1]
        BY <3>1
      <4> QED BY <3>1, <4>1
    <3>2. CASE k # m
      <4>1. k \in 0 .. (m - 1) /\ new[k] = at[k]
        BY <3>2
      <4>2. k # 0 => new[k - 1] = at[k - 1]
        BY <3>2
      <4> QED BY <2>1, <4>1, <4>2
    <3> QED BY <3>1, <3>2
  <2>4. Eq(m, new) /\ m \in 0 .. n
    <3> HIDE DEF new
    <3> QED BY <2>3
  <2> HIDE DEF Eq, new
  <2> QED BY <2>2, <2>4
<1>3. n \in 0 .. n /\ n \in Nat
  OBVIOUS
<1>4. n \in S
  <2> HIDE DEF S
  <2> QED BY <1>1, <1>2, <1>3, UpTo
<1> QED BY <1>4 DEF Recurs

\* The first element of a sequence that passes a test, and the last one, pass it.
LEMMA Extremes ==
  ASSUME NEW n \in Nat, NEW T \in SUBSET (1 .. n), T # {}
  PROVE  Min(T) \in T /\ Max(T) \in T
<1>0. T \subseteq Nat /\ \A y \in T : n - y \in Nat
  OBVIOUS
<1>1. \E x \in T : \A y \in T : x <= y
  BY <1>0, LeastNatural
<1>2. \E x \in T : \A y \in T : y <= x
  <2> DEFINE U == {n - y : y \in T}
  <2>1. U \subseteq Nat /\ U # {}
    BY <1>0
  <2>2. PICK u \in U : \A v \in U : u <= v
    BY <2>1, LeastNatural
  <2>3. PICK x \in T : u = n - x
    OBVIOUS
  <2>4. ASSUME NEW y \in T PROVE y <= x
    <3>1. n - y \in U
      OBVIOUS
    <3>2. u <= n - y
      BY <2>2, <3>1
    <3>3. x \in 1 .. n /\ y \in 1 .. n
      OBVIOUS
    <3> QED BY <2>3, <3>2, <3>3
  <2> QED BY <2>4
<1> QED BY <1>1, <1>2 DEF Min, Max

-----------------------------------------------------------------------------
(***************************************************************************)
(* The MADT                                                                *)
(***************************************************************************)
CpusType ==
  [ids : [CpuNum -> Nat], num : 1 .. MaxCpus, found : Nat, ok : BOOLEAN, apic : BOOLEAN]

\* The CPU numbers of the first n slots belong to different entries of the table s, up to k.
Listed(t, n, s, k) ==
  /\ \A i \in CpuNum : i < n => \E j \in 1 .. k : s[j].id = t.ids[i]
  /\ \A i, j \in CpuNum : i < n /\ j < n /\ t.ids[i] = t.ids[j] => i = j

\* What find_cpus_in_madt has found after k entries.
MadtHeld(t, s, k) ==
  /\ t \in CpusType
  /\ t.found = 0 => t.num = 1
  /\ t.found \in 1 .. MaxCpus => t.num = t.found
  /\ t.found > MaxCpus => t.num = MaxCpus
  /\ Listed(t, IF t.found = 0 THEN 0 ELSE t.num, s, k)

LEMMA CpusIntro ==
  ASSUME NEW i \in [CpuNum -> Nat], NEW n \in 1 .. MaxCpus, NEW f \in Nat, NEW o \in BOOLEAN,
         NEW a \in BOOLEAN
  PROVE  [ids |-> i, num |-> n, found |-> f, ok |-> o, apic |-> a] \in CpusType
  BY DEF CpusType

LEMMA NoCpusType == NoCpus \in CpusType /\ MaxCpus \in Nat /\ MaxCpus > 1 /\ 0 \in CpuNum
  BY CpuAssumption DEF NoCpus, CpusType, CpuNum

\* One entry more.
LEMMA MadtStep ==
  ASSUME NEW s \in Seq(MadtEntries), NEW k \in 1 .. Len(s), NEW t, MadtHeld(t, s, k - 1)
  PROVE  MadtHeld(MadtEntry(t, s[k]), s, k)
<1> DEFINE e == s[k]
           n == IF t.found = 0 THEN 0 ELSE t.num
           new == MadtEntry(t, e)
<1>1. e \in MadtEntries /\ e.id \in Nat
  <2>1. e \in MadtEntries
    OBVIOUS
  <2> QED BY <2>1 DEF MadtEntries
<1>2. t \in CpusType /\ Listed(t, n, s, k - 1)
  BY DEF MadtHeld
<1>3. k - 1 \in Nat /\ k \in Nat /\ \A j \in 1 .. (k - 1) : j \in 1 .. k
  OBVIOUS
<1>4. Listed(t, n, s, k)
  BY <1>2, <1>3 DEF Listed
<1>5. CASE new = t
  BY <1>4, <1>5 DEF MadtHeld
<1>6. CASE new = [t EXCEPT !.ok = FALSE]
  <2>1. /\ new.ids = t.ids /\ new.num = t.num /\ new.found = t.found
        /\ new \in CpusType
    BY <1>2, <1>6 DEF CpusType
  <2> QED BY <1>4, <2>1 DEF MadtHeld, Listed
<1>7. CASE /\ ~AlreadyListed(t, e.id)
           /\ new = [t EXCEPT !.ids = IF Room(t) THEN [@ EXCEPT ![t.found] = e.id] ELSE @,
                              !.num = IF Room(t) /\ t.found > 0 THEN @ + 1 ELSE @,
                              !.found = @ + 1]
  <2>1. CASE ~Room(t)
    <3>1. t.num = MaxCpus /\ t.found >= MaxCpus
      BY <1>2, <2>1, NoCpusType DEF Room, MadtHeld, CpusType
    <3>3. t.found \in Nat /\ t.num \in Nat
      BY <1>2 DEF CpusType
    <3>2. /\ new.ids = t.ids /\ new.num = t.num /\ new.found = t.found + 1
          /\ new \in CpusType
      <4>1. new = [ids |-> t.ids, num |-> t.num, found |-> t.found + 1, ok |-> t.ok, apic |-> t.apic]
        BY <1>2, <1>7, <2>1 DEF CpusType
      <4>2. t.ids \in [CpuNum -> Nat] /\ t.num \in 1 .. MaxCpus /\ t.found + 1 \in Nat
            /\ t.ok \in BOOLEAN /\ t.apic \in BOOLEAN
        BY <1>2 DEF CpusType
      <4> QED BY <4>1, <4>2, CpusIntro
    <3>4. n = t.num /\ new.found > MaxCpus /\ new.found # 0
      BY <3>1, <3>2, <3>3, NoCpusType
    <3>5. Listed(new, t.num, s, k)
      BY <1>4, <3>2, <3>4 DEF Listed
    <3> QED BY <3>1, <3>2, <3>3, <3>4, <3>5, NoCpusType DEF MadtHeld
  <2>2. CASE Room(t)
    <3>0. t.found \in Nat /\ t.num \in 1 .. MaxCpus /\ t.ids \in [CpuNum -> Nat] /\ t.num < MaxCpus
      BY <1>2, <2>2 DEF Room, CpusType
    <3>1. t.found < MaxCpus /\ n = t.found /\ t.found \in CpuNum
      BY <3>0, NoCpusType DEF MadtHeld, CpuNum
    <3>2. /\ new.ids = [t.ids EXCEPT ![t.found] = e.id]
          /\ new.num = (IF t.found > 0 THEN t.num + 1 ELSE t.num) /\ new.found = t.found + 1
          /\ new.ok = t.ok /\ new.apic = t.apic
      BY <1>2, <1>7, <2>2 DEF CpusType
    <3>3. new.num = t.found + 1
      BY <3>0, <3>1, <3>2 DEF MadtHeld
    <3>4. new \in CpusType
      <4>1. new.ids \in [CpuNum -> Nat]
        BY <1>1, <3>0, <3>2
      <4>2. /\ new = [ids |-> new.ids, num |-> new.num, found |-> new.found, ok |-> t.ok, apic |-> t.apic]
            /\ t.ok \in BOOLEAN /\ t.apic \in BOOLEAN
        BY <1>2, <1>7, <2>2 DEF CpusType
      <4>3. new.num \in 1 .. MaxCpus /\ new.found \in Nat
        BY <3>0, <3>1, <3>2, <3>3, NoCpusType
      <4> QED BY <4>1, <4>2, <4>3, CpusIntro
    <3>5. \A i \in CpuNum : i < t.found => new.ids[i] = t.ids[i] /\ t.ids[i] # e.id
      BY <1>7, <3>0, <3>2 DEF AlreadyListed, CpuNum
    <3>6. new.ids[t.found] = e.id
      BY <3>0, <3>1, <3>2
    <3>7. \A i \in CpuNum : i < t.found + 1 => i < t.found \/ i = t.found
      BY <3>0 DEF CpuNum
    <3>8. Listed(new, t.found + 1, s, k)
      <4>1. ASSUME NEW i \in CpuNum, i < t.found + 1 PROVE \E j \in 1 .. k : s[j].id = new.ids[i]
        <5>1. CASE i < t.found
          BY <1>4, <3>1, <3>5, <5>1 DEF Listed
        <5>2. CASE i = t.found
          BY <3>6, <5>2
        <5> QED BY <3>7, <4>1, <5>1, <5>2
      <4>2. ASSUME NEW i \in CpuNum, NEW j \in CpuNum, i < t.found + 1, j < t.found + 1,
                   new.ids[i] = new.ids[j]
            PROVE  i = j
        <5>1. (i < t.found \/ i = t.found) /\ (j < t.found \/ j = t.found)
          BY <3>7, <4>2
        <5>2. i < t.found /\ j < t.found => i = j
          BY <1>4, <3>1, <3>5, <4>2 DEF Listed
        <5> QED BY <5>1, <5>2, <4>2, <3>5, <3>6
      <4> QED BY <4>1, <4>2 DEF Listed
    <3>9. new.found # 0 /\ new.found \in 1 .. MaxCpus
      BY <3>0, <3>1, <3>2, NoCpusType
    <3> QED BY <3>2, <3>3, <3>4, <3>8, <3>9, NoCpusType DEF MadtHeld
  <2> QED BY <2>1, <2>2
<1> QED BY <1>5, <1>6, <1>7 DEF MadtEntry

\* The type is kept.
LEMMA MadtTypeStep ==
  ASSUME NEW t \in CpusType, NEW e \in MadtEntries
  PROVE  MadtEntry(t, e) \in CpusType
<1>0. /\ t.num \in 1 .. MaxCpus /\ t.ids \in [CpuNum -> Nat] /\ t.found \in Nat
      /\ t.ok \in BOOLEAN /\ t.apic \in BOOLEAN /\ MaxCpus \in Nat /\ e.id \in Nat
  BY NoCpusType DEF CpusType, MadtEntries
<1>1. [t EXCEPT !.ok = FALSE] \in CpusType
  BY DEF CpusType
<1>2. [t EXCEPT !.ids = IF Room(t) THEN [@ EXCEPT ![t.found] = e.id] ELSE @,
                !.num = IF Room(t) /\ t.found > 0 THEN @ + 1 ELSE @,
                !.found = @ + 1] \in CpusType
  <2> DEFINE i == IF Room(t) THEN [t.ids EXCEPT ![t.found] = e.id] ELSE t.ids
             n == IF Room(t) /\ t.found > 0 THEN t.num + 1 ELSE t.num
  <2>1. i \in [CpuNum -> Nat]
    BY <1>0
  <2>2. n \in 1 .. MaxCpus
    BY <1>0 DEF Room
  <2>3. [ids |-> i, num |-> n, found |-> t.found + 1, ok |-> t.ok, apic |-> t.apic] \in CpusType
    <3> HIDE DEF i, n
    <3> QED BY <1>0, <2>1, <2>2, CpusIntro
  <2> QED BY <2>3 DEF CpusType
<1> QED BY <1>1, <1>2 DEF MadtEntry

\* The search of a MADT goes on entry by entry.
LEMMA MadtRec ==
  ASSUME NEW s \in Seq(MadtEntries)
  PROVE  \A k \in 0 .. Len(s) :
           MadtRead(s)[k] = IF k = 0 THEN NoCpus ELSE MadtEntry(MadtRead(s)[k - 1], s[k])
<1> DEFINE n == Len(s)
           Eq(at) == at = [k \in 0 .. n |-> IF k = 0 THEN NoCpus ELSE MadtEntry(at[k - 1], s[k])]
           f == [k \in 1 .. n |-> [t \in CpusType |-> MadtEntry(t, s[k])]]
<1>0. n \in Nat /\ \A k \in 1 .. n : s[k] \in MadtEntries
  OBVIOUS
<1> HIDE DEF n
<1>1. PICK at \in [0 .. n -> CpusType] :
        \A k \in 0 .. n : at[k] = IF k = 0 THEN NoCpus ELSE f[k][at[k - 1]]
  <2>1. f \in Steps(n, CpusType)
    BY <1>0, MadtTypeStep DEF Steps
  <2>2. NoCpus \in CpusType
    BY NoCpusType
  <2> HIDE DEF f
  <2>3. Recurs(n, CpusType, NoCpus, f)
    BY <1>0, <2>1, <2>2, Recursion
  <2> QED BY <2>3 DEF Recurs
<1>2. Eq(at)
  <2>1. \A k \in 1 .. n : at[k - 1] \in CpusType /\ f[k][at[k - 1]] = MadtEntry(at[k - 1], s[k])
    BY <1>0
  <2> HIDE DEF f
  <2> QED BY <1>0, <1>1, <2>1
<1>3. Eq(CHOOSE x : Eq(x))
  <2> HIDE DEF Eq
  <2> QED BY <1>2
<1>4. MadtRead(s) = CHOOSE x : Eq(x)
  BY DEF MadtRead, n
<1>5. Eq(MadtRead(s))
  <2> HIDE DEF Eq
  <2> QED BY <1>3, <1>4
<1> QED BY <1>5 DEF n

\* The invariant holds to the end of the MADT.
LEMMA MadtAll ==
  ASSUME NEW s \in Seq(MadtEntries)
  PROVE  \A k \in 0 .. Len(s) : MadtHeld(MadtRead(s)[k], s, k)
<1> DEFINE S == {k \in 0 .. Len(s) : MadtHeld(MadtRead(s)[k], s, k)}
<1>0. Len(s) \in Nat /\ 0 \in 0 .. Len(s)
  OBVIOUS
<1>1. 0 \in S
  <2>1. MadtRead(s)[0] = NoCpus
    BY <1>0, MadtRec
  <2>2. NoCpus.found = 0 /\ NoCpus.num = 1
    BY DEF NoCpus
  <2>3. Listed(NoCpus, 0, s, 0)
    BY DEF Listed, CpuNum
  <2>4. MadtHeld(NoCpus, s, 0)
    BY <2>2, <2>3, NoCpusType DEF MadtHeld
  <2> QED BY <1>0, <2>1, <2>4
<1>2. ASSUME NEW k \in 1 .. Len(s), k - 1 \in S PROVE k \in S
  <2>1. k \in 0 .. Len(s) /\ k # 0
    OBVIOUS
  <2>2. MadtRead(s)[k] = MadtEntry(MadtRead(s)[k - 1], s[k])
    BY <1>0, <2>1, MadtRec
  <2>3. MadtHeld(MadtRead(s)[k - 1], s, k - 1)
    BY <1>2
  <2> QED BY <2>1, <2>2, <2>3, MadtStep
<1> HIDE DEF S
<1>3. \A k \in 0 .. Len(s) : k \in S
  BY <1>0, <1>1, <1>2, UpTo
<1> QED BY <1>3 DEF S

-----------------------------------------------------------------------------
(***************************************************************************)
(* find_acpi_table and what leads there                                    *)
(***************************************************************************)
LEMMA SetupFields ==
  ASSUME NEW m \in MachineType
  PROVE  /\ m.acpi.efi \in Seq([guid : STRING, rsdp : Rsdps])
         /\ m.acpi.ebda \in Seq(Rsdps) /\ m.acpi.bios \in Seq(Rsdps)
         /\ m.fp \in {"none", "default", "table"}
         /\ m.mp \in Seq([type : STRING, id : Nat, boot : BOOLEAN, old : BOOLEAN])
         /\ m.x2apic \in BOOLEAN /\ m.mappable \in BOOLEAN /\ m.bsp \in Nat
  BY DEF MachineType

\* A root pointer that is taken is one the firmware means.
LEMMA RsdpFound ==
  ASSUME NEW m \in MachineType, FindRsdp(m.acpi) # << >>
  PROVE  FindRsdp(m.acpi)[1] \in Pointers(m.acpi) \cap Rsdps
<1> DEFINE a == m.acpi
           Is(g) == {i \in 1 .. Len(a.efi) : a.efi[i].guid = g}
           Of(g) == {a.efi[i].rsdp : i \in {j \in DOMAIN a.efi : a.efi[j].guid = g}}
           Known == {a.ebda[i] : i \in DOMAIN a.ebda} \cup {a.bios[i] : i \in DOMAIN a.bios}
           good(s) == {i \in 1 .. Len(s) : s[i].sum /\ (s[i].rev < 2 \/ s[i].xsum)}
<1>1. /\ a.efi \in Seq([guid : STRING, rsdp : Rsdps])
      /\ a.ebda \in Seq(Rsdps) /\ a.bios \in Seq(Rsdps)
  BY SetupFields
<1>2. Pointers(a) = IF Of("acpi2") # {} THEN Of("acpi2")
                    ELSE IF Of("acpi1") # {} THEN Of("acpi1")
                    ELSE {r \in Known : r.sum /\ (r.rev >= 2 => r.xsum)}
  BY Zenon DEF Pointers
<1> SUFFICES FindRsdp(a)[1] \in Pointers(a) \cap Rsdps
  OBVIOUS
<1>3. FindRsdp(a) # << >>
  OBVIOUS
<1> HIDE DEF a
<1>4. /\ Len(a.efi) \in Nat /\ DOMAIN a.efi = 1 .. Len(a.efi)
      /\ \A g : Is(g) \in SUBSET (1 .. Len(a.efi))
  BY <1>1
<1>5. \A g : Is(g) # {} => Min(Is(g)) \in Is(g) /\ Max(Is(g)) \in Is(g)
  <2> HIDE DEF Is
  <2> QED BY <1>4, Extremes
<1>6. ASSUME NEW g, NEW i \in Is(g) PROVE a.efi[i].rsdp \in Of(g) /\ a.efi[i].rsdp \in Rsdps
  <2>1. i \in DOMAIN a.efi /\ a.efi[i].guid = g /\ i \in 1 .. Len(a.efi)
    BY <1>4
  <2>2. a.efi[i] \in [guid : STRING, rsdp : Rsdps]
    <3> DEFINE E == [guid : STRING, rsdp : Rsdps]
    <3>1. a.efi \in Seq(E)
      BY <1>1
    <3> HIDE DEF E
    <3>2. a.efi[i] \in E
      BY <2>1, <3>1
    <3> QED BY <3>2 DEF E
  <2>3. a.efi[i].rsdp \in Rsdps
    BY <2>2
  <2>4. a.efi[i].rsdp \in Of(g)
    BY <2>1, Zenon
  <2> QED BY <2>3, <2>4
<1>7. ASSUME NEW g, Is(g) = {} PROVE Of(g) = {}
  BY <1>4, <1>7
<1> DEFINE i2 == Min(Is("acpi2"))
           i1 == Max(Is("acpi1"))
<1>8. FindRsdpInEfi(a.efi) =
        IF Is("acpi2") # {} THEN <<a.efi[i2].rsdp>>
        ELSE IF Is("acpi1") # {} THEN <<a.efi[i1].rsdp>> ELSE << >>
  <2>1. (Is("acpi2") # {} => i2 # 0) /\ (Is("acpi1") # {} => i1 # 0)
    <3>1. \A g : Is(g) # {} => Min(Is(g)) \in 1 .. Len(a.efi) /\ Max(Is(g)) \in 1 .. Len(a.efi)
      <4> HIDE DEF Is
      <4> QED BY <1>4, <1>5
    <3> HIDE DEF Is
    <3> QED BY <3>1, <1>4
  <2>2. FindRsdpInEfi(a.efi) =
          LET i == IF Is("acpi2") # {} THEN i2 ELSE 0
              j == IF Is("acpi1") # {} THEN i1 ELSE 0
          IN IF i # 0 THEN <<a.efi[i].rsdp>> ELSE IF j # 0 THEN <<a.efi[j].rsdp>> ELSE << >>
    BY DEF FindRsdpInEfi, SelectInSeq, SelectLastInSeq
  <2> HIDE DEF Is, i1, i2
  <2> QED BY <2>1, <2>2
<1>9. ASSUME NEW s \in Seq(Rsdps), ScanForRsdp(s) # << >>
      PROVE  \E i \in DOMAIN s : /\ ScanForRsdp(s) = <<s[i]>> /\ s[i] \in Rsdps
                                 /\ s[i].sum /\ (s[i].rev < 2 \/ s[i].xsum)
  <2>0. Len(s) \in Nat /\ good(s) \in SUBSET (1 .. Len(s)) /\ DOMAIN s = 1 .. Len(s)
    BY <1>9
  <2>1. good(s) # {} => Min(good(s)) \in good(s)
    <3> HIDE DEF good
    <3> QED BY <2>0, Extremes
  <2>2. ScanForRsdp(s) =
          LET i == IF good(s) # {} THEN Min(good(s)) ELSE 0
          IN IF i = 0 THEN << >> ELSE <<s[i]>>
    BY DEF ScanForRsdp, SelectInSeq
  <2>3. good(s) # {} /\ ScanForRsdp(s) = <<s[Min(good(s))]>>
    <3> HIDE DEF good
    <3> QED BY <1>9, <2>1, <2>2
  <2> DEFINE k == Min(good(s))
  <2>4. k \in good(s) /\ ScanForRsdp(s) = <<s[k]>>
    BY <2>1, <2>3
  <2> HIDE DEF k
  <2>5. k \in DOMAIN s /\ s[k] \in Rsdps /\ s[k].sum /\ (s[k].rev < 2 \/ s[k].xsum)
    BY <2>0, <2>4
  <2> QED BY <2>4, <2>5
<1> HIDE DEF i1, i2
<1>10. CASE Is("acpi2") # {}
  <2>1. i2 \in Is("acpi2")
    <3> HIDE DEF Is
    <3> QED BY <1>5, <1>10 DEF i2
  <2>2. FindRsdp(a) = <<a.efi[i2].rsdp>>
    <3> HIDE DEF Is
    <3> QED BY <1>8, <1>10 DEF FindRsdp
  <2>3. a.efi[i2].rsdp \in Of("acpi2") /\ a.efi[i2].rsdp \in Rsdps
    BY <1>6, <2>1
  <2> HIDE DEF Of, Known
  <2> QED BY <1>2, <2>2, <2>3
<1>11. CASE Is("acpi2") = {} /\ Is("acpi1") # {}
  <2>1. i1 \in Is("acpi1")
    <3> HIDE DEF Is
    <3> QED BY <1>5, <1>11 DEF i1
  <2>2. FindRsdp(a) = <<a.efi[i1].rsdp>>
    <3> HIDE DEF Is
    <3> QED BY <1>8, <1>11 DEF FindRsdp
  <2>3. a.efi[i1].rsdp \in Of("acpi1") /\ a.efi[i1].rsdp \in Rsdps
    BY <1>6, <2>1
  <2>4. Of("acpi2") = {}
    BY <1>7, <1>11
  <2> HIDE DEF Of, Known
  <2> QED BY <1>2, <2>2, <2>3, <2>4
<1>12. CASE Is("acpi2") = {} /\ Is("acpi1") = {}
  <2>1. Of("acpi2") = {} /\ Of("acpi1") = {}
    BY <1>7, <1>12
  <2>2. FindRsdpInEfi(a.efi) = << >>
    <3> HIDE DEF Is
    <3> QED BY <1>8, <1>12
  <2>3. PICK s \in {a.ebda, a.bios} : FindRsdp(a) = ScanForRsdp(s) /\ ScanForRsdp(s) # << >>
    BY <1>3, <2>2 DEF FindRsdp
  <2>4. s \in Seq(Rsdps)
    BY <1>1
  <2>5. PICK i \in DOMAIN s : /\ ScanForRsdp(s) = <<s[i]>> /\ s[i] \in Rsdps
                              /\ s[i].sum /\ (s[i].rev < 2 \/ s[i].xsum)
    BY <1>9, <2>3, <2>4
  <2> DEFINE r == s[i]
  <2>6. r \in Rsdps /\ r.sum /\ (r.rev < 2 \/ r.xsum) /\ FindRsdp(a) = <<r>>
    BY <2>3, <2>5
  <2>7. r \in Known
    BY <2>3, <2>5, Zenon
  <2> HIDE DEF r, Known, Of
  <2>8. r.rev >= 2 => r.xsum
    <3>1. r.rev \in Nat
      BY <2>6 DEF Rsdps
    <3> QED BY <2>6, <3>1
  <2>9. r \in Pointers(a)
    BY <1>2, <2>1, <2>6, <2>7, <2>8
  <2> QED BY <2>6, <2>9
<1> QED BY <1>10, <1>11, <1>12

\* A table that is found has its name and is listed by a root table with the right checksum.
LEMMA TableFound ==
  ASSUME NEW r \in Rsdps, NEW sig, FindAcpiTable(r, sig) # NoTable
  PROVE  \E root \in {r.rsdt, r.xsdt} :
           /\ root.sum
           /\ \E k \in DOMAIN root.list :
                /\ root.list[k] = FindAcpiTable(r, sig) /\ root.list[k].sig = sig
                /\ root.list[k] \in AcpiTables
<1> DEFINE root == IF r.rev >= 2 THEN r.xsdt ELSE r.rsdt
           named == {i \in 1 .. Len(root.list) : root.list[i].sig = sig}
           k == Min(named)
<1>1. root \in {r.rsdt, r.xsdt} /\ root \in RootTables
  BY DEF Rsdps
<1>2. FindAcpiTable(r, sig) =
        LET at == IF named # {} THEN k ELSE 0
        IN IF root.sig # (IF r.rev >= 2 THEN "XSDT" ELSE "RSDT") \/ ~root.sum \/ at = 0 THEN NoTable
           ELSE root.list[at]
  BY DEF FindAcpiTable, SelectInSeq
<1> HIDE DEF root
<1>3. root.list \in Seq(AcpiTables)
  BY <1>1 DEF RootTables
<1>4. Len(root.list) \in Nat /\ DOMAIN root.list = 1 .. Len(root.list)
      /\ named \in SUBSET (1 .. Len(root.list))
  BY <1>3
<1>5. named # {} => k \in named
  <2> HIDE DEF named
  <2> QED BY <1>4, Extremes
<1>6. root.sum /\ named # {} /\ FindAcpiTable(r, sig) = root.list[k]
  <2> HIDE DEF named, k
  <2> QED BY <1>2
<1> HIDE DEF k
<1>7. k \in DOMAIN root.list /\ root.list[k].sig = sig
  BY <1>4, <1>5, <1>6
<1>8. root.list[k] \in AcpiTables
  <2> HIDE DEF named
  <2> QED BY <1>3, <1>7
<1> HIDE DEF named
<1> QED BY <1>1, <1>6, <1>7, <1>8

\* What an entry of either table looks like.
LEMMA TableTypes ==
  ASSUME NEW t \in AcpiTables
  PROVE  /\ t.sig = "APIC" => t.entries \in Seq(MadtEntries)
         /\ t.sig = "SRAT" => t.entries \in Seq(SratEntries)
  BY DEF AcpiTables

\* The MADT that is read is one the firmware means.
LEMMA MadtFound ==
  ASSUME NEW m \in MachineType
  PROVE  /\ Madt(m) \in Seq(MadtEntries) /\ Srat(m) \in Seq(SratEntries)
         /\ Madt(m) # << >> =>
              \E r \in Pointers(m.acpi) : \E root \in {r.rsdt, r.xsdt} :
                /\ root.sum
                /\ \E k \in DOMAIN root.list :
                     /\ root.list[k].sig = "APIC" /\ root.list[k].sum
                     /\ root.list[k].entries = Madt(m)
<1> DEFINE rsdp == FindRsdp(m.acpi)
           r == rsdp[1]
           madt == FindAcpiTable(r, "APIC")
           srat == FindAcpiTable(r, "SRAT")
<1>1. << >> \in Seq(MadtEntries) /\ << >> \in Seq(SratEntries) /\ Entries(NoTable) = << >>
  BY DEF Entries, NoTable
<1>2. CASE rsdp = << >>
  <2>1. AcpiInit(m.acpi) = [madt |-> NoTable, srat |-> NoTable]
    BY <1>2 DEF AcpiInit
  <2> QED BY <1>1, <2>1 DEF Madt, Srat
<1>3. CASE rsdp # << >>
  <2>1. r \in Pointers(m.acpi) /\ r \in Rsdps
    BY <1>3, RsdpFound
  <2>2. Madt(m) = Entries(madt) /\ Srat(m) = Entries(srat)
    <3>1. AcpiInit(m.acpi) = [madt |-> madt, srat |-> srat]
      BY <1>3 DEF AcpiInit
    <3> QED BY <3>1 DEF Madt, Srat
  <2> HIDE DEF r
  <2>3. Srat(m) \in Seq(SratEntries)
    <3>1. CASE srat = NoTable
      BY <1>1, <2>2, <3>1
    <3>2. CASE srat # NoTable
      <4>1. srat \in AcpiTables /\ srat.sig = "SRAT"
        BY <2>1, <3>2, TableFound
      <4> QED BY <1>1, <2>2, <4>1, TableTypes DEF Entries
    <3> QED BY <3>1, <3>2
  <2>4. CASE madt = NoTable
    BY <1>1, <2>2, <2>3, <2>4
  <2>5. CASE madt # NoTable
    <3>1. PICK root \in {r.rsdt, r.xsdt} :
            /\ root.sum
            /\ \E k \in DOMAIN root.list :
                 /\ root.list[k] = madt /\ root.list[k].sig = "APIC" /\ root.list[k] \in AcpiTables
      BY <2>1, <2>5, TableFound
    <3>2. PICK k \in DOMAIN root.list :
            root.list[k] = madt /\ root.list[k].sig = "APIC" /\ root.list[k] \in AcpiTables
      BY <3>1
    <3> HIDE DEF madt
    <3>3. Madt(m) \in Seq(MadtEntries)
      BY <1>1, <2>2, <3>2, TableTypes DEF Entries
    <3>4. Madt(m) # << >> => root.list[k].sum /\ root.list[k].entries = Madt(m)
      BY <2>2, <3>2 DEF Entries
    <3> QED BY <2>1, <2>3, <3>1, <3>2, <3>3, <3>4
  <2> QED BY <2>4, <2>5
<1> QED BY <1>2, <1>3

-----------------------------------------------------------------------------
(***************************************************************************)
(* The CPUs of smp_init                                                    *)
(***************************************************************************)
\* No two CPU numbers name one core.
OneEach(t) ==
  \A i, j \in CpuNum : i < t.num /\ j < t.num /\ t.ids[i] = t.ids[j] => i = j

\* Each CPU but the first is in the MADT.
FromMadt(t, m) ==
  \A i \in CpuNum : 0 < i /\ i < t.num => \E j \in DOMAIN Madt(m) : Madt(m)[j].id = t.ids[i]

\* find_cpus_in_madt: no core twice, and only cores of the MADT.
LEMMA MadtCpus ==
  ASSUME NEW m \in MachineType
  PROVE  LET t == FindCpusInMadt(m)
         IN /\ t \in CpusType /\ OneEach(t)
            /\ t.num > 1 =>
                 \A i \in CpuNum : i < t.num => \E j \in DOMAIN Madt(m) : Madt(m)[j].id = t.ids[i]
<1> DEFINE s == Madt(m)
           n == Len(s)
           r == MadtRead(s)[n]
           t == FindCpusInMadt(m)
           Only(c) == c.num > 1 =>
                        \A i \in CpuNum : i < c.num => \E j \in DOMAIN s : s[j].id = c.ids[i]
<1> SUFFICES t \in CpusType /\ OneEach(t) /\ Only(t)
  OBVIOUS
<1>1. s \in Seq(MadtEntries) /\ n \in Nat /\ DOMAIN s = 1 .. n
  <2>1. s \in Seq(MadtEntries)
    BY MadtFound
  <2> HIDE DEF s
  <2> QED BY <2>1
<1>2. MadtHeld(r, s, n)
  <2> HIDE DEF s
  <2> QED BY <1>1, MadtAll
<1>3. t = IF s = << >> THEN [NoCpus EXCEPT !.ok = FALSE]
          ELSE IF r.ok /\ ~m.x2apic /\ ~m.mappable THEN [r EXCEPT !.num = 1, !.ok = FALSE]
          ELSE [r EXCEPT !.apic = r.ok /\ ~m.x2apic]
  BY Zenon DEF FindCpusInMadt
<1>4. m.x2apic \in BOOLEAN
  BY SetupFields
<1>5. ASSUME NEW c \in CpusType, c.num = 1 PROVE OneEach(c) /\ Only(c)
  BY <1>5, NoCpusType DEF OneEach, CpuNum, CpusType
<1> HIDE DEF r, s, t
<1>6. CASE s = << >>
  <2>1. t \in CpusType /\ t.num = 1
    BY <1>3, <1>6, NoCpusType DEF NoCpus, CpusType
  <2> QED BY <1>5, <2>1
<1>7. CASE s # << >> /\ r.ok /\ ~m.x2apic /\ ~m.mappable
  <2>1. r \in CpusType /\ t = [r EXCEPT !.num = 1, !.ok = FALSE] /\ 1 \in 1 .. MaxCpus
    BY <1>2, <1>3, <1>7, NoCpusType DEF MadtHeld
  <2>2. t \in CpusType /\ t.num = 1
    BY <2>1 DEF CpusType
  <2> QED BY <1>5, <2>2
<1>8. CASE s # << >> /\ ~(r.ok /\ ~m.x2apic /\ ~m.mappable)
  <2>1. t \in CpusType /\ t.num = r.num /\ t.ids = r.ids /\ r \in CpusType
    BY <1>2, <1>3, <1>4, <1>8 DEF CpusType, MadtHeld
  <2>2. CASE r.num = 1
    BY <1>5, <2>1, <2>2
  <2>3. CASE r.num # 1
    <3>1. r.found # 0 /\ Listed(r, r.num, s, n)
      BY <1>2, <2>3 DEF MadtHeld
    <3> QED BY <1>1, <2>1, <3>1 DEF Listed, OneEach
  <2> QED BY <2>2, <2>3
<1> QED BY <1>6, <1>7, <1>8

\* verify_bsp_is_cpu0: the boot processor is CPU 0, and if at most one of it and the former
\* CPU 0 has another number, no core has two.
LEMMA BspIsCpu0 ==
  ASSUME NEW t \in CpusType, NEW bsp \in Nat,
         \A i, j \in CpuNum : 0 < i /\ i < t.num /\ 0 < j /\ j < t.num /\ t.ids[i] = t.ids[j] => i = j,
         \/ \A i \in CpuNum : 0 < i /\ i < t.num => t.ids[i] # bsp
         \/ \A i \in CpuNum : 0 < i /\ i < t.num => t.ids[i] # t.ids[0]
  PROVE  LET v == VerifyBspIsCpu0(t, bsp)
         IN /\ v \in CpusType /\ v.num = t.num /\ v.apic = t.apic
            /\ v.ids[0] = bsp /\ OneEach(v)
            /\ \A i \in CpuNum : 0 < i /\ i < v.num => \E j \in CpuNum : j < v.num /\ v.ids[i] = t.ids[j]
<1> DEFINE at == {i \in 1 .. (t.num - 1) : t.ids[i] = bsp}
           first == CHOOSE i \in at : \A j \in at : i <= j
           v == VerifyBspIsCpu0(t, bsp)
           Goal == /\ v \in CpusType /\ v.num = t.num /\ v.apic = t.apic
                   /\ v.ids[0] = bsp /\ OneEach(v)
                   /\ \A i \in CpuNum : 0 < i /\ i < v.num =>
                        \E j \in CpuNum : j < v.num /\ v.ids[i] = t.ids[j]
<1> SUFFICES Goal
  OBVIOUS
<1>0. /\ t.num \in 1 .. MaxCpus /\ t.ids \in [CpuNum -> Nat] /\ t.found \in Nat
      /\ t.ok \in BOOLEAN /\ t.apic \in BOOLEAN
      /\ MaxCpus \in Nat /\ 0 \in CpuNum
  BY NoCpusType DEF CpusType
<1>1. \A i : i \in 1 .. (t.num - 1) <=> i \in CpuNum /\ 0 < i /\ i < t.num
  BY <1>0 DEF CpuNum
<1>2. \A i \in CpuNum : i = 0 \/ 0 < i
  BY DEF CpuNum
<1>3. v = IF t.ids[0] = bsp THEN t
          ELSE IF at = {} THEN [t EXCEPT !.ids[0] = bsp]
          ELSE [t EXCEPT !.ids = [@ EXCEPT ![first] = t.ids[0], ![0] = bsp]]
  BY Zenon DEF VerifyBspIsCpu0
<1> HIDE DEF v, first
<1>4. CASE t.ids[0] = bsp
  <2>1. v = t
    BY <1>3, <1>4
  <2>2. \A i \in CpuNum : 0 < i /\ i < t.num => t.ids[i] # t.ids[0]
    BY <1>4
  <2> QED BY <1>0, <1>2, <1>4, <2>1, <2>2 DEF OneEach
<1>5. CASE t.ids[0] # bsp /\ at = {}
  <2>1. \A i \in CpuNum : 0 < i /\ i < t.num => t.ids[i] # bsp
    BY <1>1, <1>5
  <2>2. v = [t EXCEPT !.ids[0] = bsp]
    BY <1>3, <1>5
  <2>3. v.num = t.num /\ v.apic = t.apic /\ v.ids = [t.ids EXCEPT ![0] = bsp] /\ v \in CpusType
    BY <1>0, <2>2 DEF CpusType
  <2>4. v.ids[0] = bsp /\ \A i \in CpuNum : 0 < i => v.ids[i] = t.ids[i]
    BY <1>0, <2>3
  <2>5. OneEach(v)
    BY <1>2, <2>1, <2>3, <2>4 DEF OneEach
  <2> QED BY <2>3, <2>4, <2>5
<1>6. CASE t.ids[0] # bsp /\ at # {}
  <2>1. first \in at
    <3>1. at \subseteq Nat
      BY <1>0
    <3>2. \E i \in at : \A j \in at : i <= j
      <4> HIDE DEF at
      <4> QED BY <1>6, <3>1, LeastNatural
    <3> HIDE DEF at
    <3> QED BY <3>2 DEF first
  <2>2. first \in CpuNum /\ 0 < first /\ first < t.num /\ t.ids[first] = bsp
    BY <1>1, <2>1
  <2>3. \A i \in CpuNum : 0 < i /\ i < t.num => t.ids[i] # t.ids[0]
    BY <2>2
  <2>4. v = [t EXCEPT !.ids = [t.ids EXCEPT ![first] = t.ids[0], ![0] = bsp]]
    BY <1>3, <1>6
  <2>5. v.num = t.num /\ v.apic = t.apic /\ v.ids = [t.ids EXCEPT ![first] = t.ids[0], ![0] = bsp]
        /\ v \in CpusType
    BY <1>0, <2>2, <2>4 DEF CpusType
  <2>6. /\ v.ids[0] = bsp /\ v.ids[first] = t.ids[0]
        /\ \A i \in CpuNum : i # 0 /\ i # first => v.ids[i] = t.ids[i]
    BY <1>0, <2>2, <2>5
  <2>7. OneEach(v)
    <3>1. SUFFICES ASSUME NEW i \in CpuNum, NEW j \in CpuNum, i < t.num, j < t.num, v.ids[i] = v.ids[j]
                   PROVE  i = j
      BY <2>5 DEF OneEach
    <3>2. \A x \in CpuNum : 0 < x /\ x < t.num /\ x # first => t.ids[x] # bsp
      BY <2>2
    <3>3. CASE i = 0 \/ j = 0
      BY <1>2, <1>6, <2>2, <2>6, <3>1, <3>2, <3>3
    <3>4. CASE 0 < i /\ 0 < j
      BY <1>2, <2>2, <2>3, <2>6, <3>1, <3>4
    <3> QED BY <1>2, <3>3, <3>4
  <2>8. ASSUME NEW i \in CpuNum, 0 < i, i < v.num
        PROVE  \E j \in CpuNum : j < v.num /\ v.ids[i] = t.ids[j]
    <3>1. 0 < t.num
      BY <1>0
    <3>2. CASE i = first
      BY <1>0, <2>5, <2>6, <3>1, <3>2
    <3>3. CASE i # first
      BY <1>2, <2>6, <2>8, <3>3
    <3> QED BY <3>2, <3>3
  <2> QED BY <2>5, <2>6, <2>7, <2>8
<1> QED BY <1>4, <1>5, <1>6

\* The MP table is read entry by entry.
MpEntries == [type : STRING, id : Nat, boot : BOOLEAN, old : BOOLEAN]

LEMMA MpTypeStep ==
  ASSUME NEW t \in CpusType, NEW e \in MpEntries
  PROVE  /\ MpProcessor(t, e) \in CpusType /\ MpEntry(t, e) \in CpusType
         /\ MpProcessor(t, e).apic = t.apic /\ MpEntry(t, e).apic = t.apic
<1>0. /\ t.num \in 1 .. MaxCpus /\ t.ids \in [CpuNum -> Nat] /\ t.found \in Nat
      /\ t.ok \in BOOLEAN /\ t.apic \in BOOLEAN /\ MaxCpus \in Nat /\ e.id \in Nat
      /\ 1 \in 1 .. MaxCpus
  BY NoCpusType DEF CpusType, MpEntries
<1>1. [t EXCEPT !.ids[0] = e.id] \in CpusType /\ [t EXCEPT !.ids[0] = e.id].apic = t.apic
  BY <1>0 DEF CpusType
<1>2. ASSUME Room(t)
      PROVE  /\ [t EXCEPT !.ids[t.num] = e.id, !.num = @ + 1] \in CpusType
             /\ [t EXCEPT !.ids[t.num] = e.id, !.num = @ + 1].apic = t.apic
  <2>1. t.num + 1 \in 1 .. MaxCpus
    BY <1>0, <1>2 DEF Room
  <2> QED BY <1>0, <2>1 DEF CpusType
<1>3. MpProcessor(t, e) \in CpusType /\ MpProcessor(t, e).apic = t.apic
  BY <1>1, <1>2 DEF MpProcessor
<1>4. ASSUME NEW n \in CpusType
      PROVE  /\ [n EXCEPT !.num = 1, !.ok = FALSE] \in CpusType
             /\ [n EXCEPT !.num = 1, !.ok = FALSE].apic = n.apic
  BY <1>0 DEF CpusType
<1> QED BY <1>3, <1>4 DEF MpEntry

LEMMA MpRec ==
  ASSUME NEW s \in Seq(MpEntries), NEW before \in CpusType
  PROVE  \A k \in 0 .. Len(s) :
           MpRead(s, before)[k] = IF k = 0 THEN [before EXCEPT !.ok = TRUE, !.apic = TRUE]
                                  ELSE MpEntry(MpRead(s, before)[k - 1], s[k])
<1> DEFINE n == Len(s)
           base == [before EXCEPT !.ok = TRUE, !.apic = TRUE]
           Eq(at) == at = [k \in 0 .. n |-> IF k = 0 THEN base ELSE MpEntry(at[k - 1], s[k])]
           f == [k \in 1 .. n |-> [t \in CpusType |-> MpEntry(t, s[k])]]
<1>0. n \in Nat /\ \A k \in 1 .. n : s[k] \in MpEntries
  OBVIOUS
<1> HIDE DEF n
<1>1. PICK at \in [0 .. n -> CpusType] :
        \A k \in 0 .. n : at[k] = IF k = 0 THEN base ELSE f[k][at[k - 1]]
  <2>1. f \in Steps(n, CpusType)
    BY <1>0, MpTypeStep DEF Steps
  <2>2. base \in CpusType
    BY DEF CpusType
  <2> HIDE DEF f, base
  <2>3. Recurs(n, CpusType, base, f)
    BY <1>0, <2>1, <2>2, Recursion
  <2> QED BY <2>3 DEF Recurs
<1> HIDE DEF base
<1>2. Eq(at)
  <2>1. \A k \in 1 .. n : at[k - 1] \in CpusType /\ f[k][at[k - 1]] = MpEntry(at[k - 1], s[k])
    BY <1>0
  <2> HIDE DEF f
  <2> QED BY <1>0, <1>1, <2>1
<1>3. Eq(CHOOSE x : Eq(x))
  <2> HIDE DEF Eq
  <2> QED BY <1>2
<1>4. MpRead(s, before) = CHOOSE x : Eq(x)
  BY DEF MpRead, n, base
<1>5. Eq(MpRead(s, before))
  <2> HIDE DEF Eq
  <2> QED BY <1>3, <1>4
<1> QED BY <1>5 DEF n, base

\* What read_mp_config_table has found after k entries: each CPU but the first comes from an
\* entry of its own that is not the boot processor's.
MpHeld(t, s, k) ==
  /\ t \in CpusType /\ t.apic
  /\ \A i \in CpuNum : 0 < i /\ i < t.num =>
       \E j \in 1 .. k : s[j].type = "cpu" /\ ~s[j].boot /\ s[j].id = t.ids[i]
  /\ \A i, j \in CpuNum : 0 < i /\ i < t.num /\ 0 < j /\ j < t.num /\ t.ids[i] = t.ids[j] => i = j

\* One entry more.
LEMMA MpStep ==
  ASSUME NEW s \in Seq(MpEntries), NEW k \in 1 .. Len(s), NEW t, MpHeld(t, s, k - 1),
         \A i, j \in DOMAIN s :
           s[i].type = "cpu" /\ s[j].type = "cpu" /\ s[i].id = s[j].id => i = j
  PROVE  MpHeld(MpEntry(t, s[k]), s, k)
<1> DEFINE e == s[k]
           next == IF e.type = "cpu" THEN MpProcessor(t, e) ELSE t
<1>0. e \in MpEntries /\ k \in DOMAIN s /\ k - 1 \in Nat /\ k \in Nat
      /\ DOMAIN s = 1 .. Len(s) /\ \A j \in 1 .. (k - 1) : j \in DOMAIN s /\ j # k /\ j \in 1 .. k
  OBVIOUS
<1>1. t \in CpusType /\ MpEntry(t, e) \in CpusType /\ MpEntry(t, e).apic /\ next \in CpusType
      /\ t.apic
  <2>1. t \in CpusType /\ t.apic
    BY DEF MpHeld
  <2> QED BY <1>0, <2>1, MpTypeStep
<1>2. t.num \in 1 .. MaxCpus /\ t.ids \in [CpuNum -> Nat] /\ MaxCpus \in Nat /\ 0 \in CpuNum
  BY <1>1, NoCpusType DEF CpusType
<1>3. MpHeld(t, s, k)
  BY <1>0 DEF MpHeld
<1>4. MpHeld(next, s, k)
  <2>1. CASE e.type # "cpu"
    BY <1>3, <2>1
  <2>2. CASE e.type = "cpu" /\ e.boot
    <3>1. next = [t EXCEPT !.ids[0] = e.id]
      BY <2>2 DEF MpProcessor
    <3> HIDE DEF next, e
    <3>0. \A i \in CpuNum : 0 < i => i # 0
      BY DEF CpuNum
    <3>2. next.num = t.num /\ next.apic = t.apic /\ \A i \in CpuNum : 0 < i => next.ids[i] = t.ids[i]
      <4>1. next.ids = [t.ids EXCEPT ![0] = e.id] /\ next.num = t.num /\ next.apic = t.apic
        BY <1>1, <3>1 DEF CpusType
      <4> QED BY <1>2, <3>0, <4>1
    <3> QED BY <1>1, <1>3, <3>2 DEF MpHeld
  <2>3. CASE e.type = "cpu" /\ ~e.boot /\ ~Room(t)
    <3>1. next = t
      BY <2>3 DEF MpProcessor
    <3> QED BY <1>3, <3>1
  <2>4. CASE e.type = "cpu" /\ ~e.boot /\ Room(t)
    <3>1. next = [t EXCEPT !.ids[t.num] = e.id, !.num = @ + 1]
      BY <2>4 DEF MpProcessor
    <3>2. t.num \in CpuNum
      BY <1>2, <2>4 DEF Room, CpuNum
    <3>3. /\ next.num = t.num + 1 /\ next.apic = t.apic /\ next.ids[t.num] = e.id
          /\ \A i \in CpuNum : i # t.num => next.ids[i] = t.ids[i]
      <4> HIDE DEF next, e
      <4>1. /\ next.ids = [t.ids EXCEPT ![t.num] = e.id] /\ next.num = t.num + 1
            /\ next.apic = t.apic
        BY <1>1, <3>1 DEF CpusType
      <4> QED BY <1>2, <3>2, <4>1
    <3> HIDE DEF next
    <3>4. \A i \in CpuNum : 0 < i /\ i < t.num => t.ids[i] # e.id
      <4>1. SUFFICES ASSUME NEW i \in CpuNum, 0 < i, i < t.num, t.ids[i] = e.id PROVE FALSE
        OBVIOUS
      <4>2. PICK j \in 1 .. (k - 1) : s[j].type = "cpu" /\ s[j].id = t.ids[i]
        BY <4>1 DEF MpHeld
      <4>3. j \in DOMAIN s /\ j # k /\ k \in DOMAIN s
        BY <1>0
      <4>4. s[j].id = s[k].id /\ s[k].type = "cpu"
        BY <2>4, <4>1, <4>2
      <4> QED BY <4>2, <4>3, <4>4
    <3>5. \A i \in CpuNum : i < t.num + 1 => i < t.num \/ i = t.num
      BY <1>2 DEF CpuNum
    <3>6. \A i \in CpuNum : i < t.num => i # t.num
      BY <1>2 DEF CpuNum
    <3>7. ASSUME NEW i \in CpuNum, 0 < i, i < next.num
          PROVE  \E j \in 1 .. k : s[j].type = "cpu" /\ ~s[j].boot /\ s[j].id = next.ids[i]
      <4>1. CASE i = t.num
        <5>1. k \in 1 .. k
          BY <1>0
        <5>2. s[k].type = "cpu" /\ ~s[k].boot /\ s[k].id = next.ids[i]
          BY <2>4, <3>3, <4>1
        <5> QED BY <5>1, <5>2
      <4>2. CASE i < t.num
        BY <1>3, <3>3, <3>6, <3>7, <4>2 DEF MpHeld
      <4> QED BY <3>3, <3>5, <3>7, <4>1, <4>2
    <3>8. ASSUME NEW i \in CpuNum, NEW j \in CpuNum, 0 < i, i < next.num, 0 < j, j < next.num,
                 next.ids[i] = next.ids[j]
          PROVE  i = j
      <4>1. (i = t.num \/ i < t.num) /\ (j = t.num \/ j < t.num)
        BY <3>3, <3>5, <3>8
      <4>2. i < t.num /\ j < t.num => i = j
        BY <1>3, <3>3, <3>6, <3>8 DEF MpHeld
      <4> QED BY <3>3, <3>4, <3>6, <3>8, <4>1, <4>2
    <3> QED BY <1>1, <3>3, <3>7, <3>8 DEF MpHeld
  <2> QED BY <2>1, <2>2, <2>3, <2>4
<1>5. CASE MpEntry(t, e) = t
  BY <1>3, <1>5
<1>6. CASE MpEntry(t, e) = next
  BY <1>4, <1>6
<1>7. CASE MpEntry(t, e) = [next EXCEPT !.num = 1, !.ok = FALSE]
  <2>1. MpEntry(t, e).num = 1
    BY <1>1, <1>7 DEF CpusType
  <2>2. \A i \in CpuNum : ~(0 < i /\ i < 1)
    BY DEF CpuNum
  <2> QED BY <1>1, <2>1, <2>2 DEF MpHeld
<1> QED BY <1>5, <1>6, <1>7 DEF MpEntry

LEMMA MpAll ==
  ASSUME NEW s \in Seq(MpEntries), NEW before \in CpusType, before.num = 1,
         \A i, j \in DOMAIN s :
           s[i].type = "cpu" /\ s[j].type = "cpu" /\ s[i].id = s[j].id => i = j
  PROVE  \A k \in 0 .. Len(s) : MpHeld(MpRead(s, before)[k], s, k)
<1> DEFINE S == {k \in 0 .. Len(s) : MpHeld(MpRead(s, before)[k], s, k)}
<1>0. Len(s) \in Nat /\ 0 \in 0 .. Len(s)
  OBVIOUS
<1>1. 0 \in S
  <2> DEFINE t == [before EXCEPT !.ok = TRUE, !.apic = TRUE]
  <2>1. MpRead(s, before)[0] = t
    BY <1>0, MpRec
  <2>2. t \in CpusType /\ t.apic /\ t.num = 1
    BY DEF CpusType
  <2>3. \A i \in CpuNum : ~(0 < i /\ i < 1)
    BY DEF CpuNum
  <2>4. MpHeld(t, s, 0)
    <3> HIDE DEF t
    <3> QED BY <2>2, <2>3 DEF MpHeld
  <2> QED BY <1>0, <2>1, <2>4
<1>2. ASSUME NEW k \in 1 .. Len(s), k - 1 \in S PROVE k \in S
  <2>1. k \in 0 .. Len(s) /\ k # 0
    OBVIOUS
  <2>2. MpRead(s, before)[k] = MpEntry(MpRead(s, before)[k - 1], s[k])
    BY <1>0, <2>1, MpRec
  <2>3. MpHeld(MpRead(s, before)[k - 1], s, k - 1)
    BY <1>2
  <2>4. MpHeld(MpEntry(MpRead(s, before)[k - 1], s[k]), s, k)
    BY <2>3, MpStep
  <2> QED BY <2>1, <2>2, <2>4
<1> HIDE DEF S
<1>3. \A k \in 0 .. Len(s) : k \in S
  BY <1>0, <1>1, <1>2, UpTo
<1> QED BY <1>3 DEF S

\* smp_init: no core gets two numbers, the boot processor is CPU 0 wherever a message can be sent,
\* and without MP tables only cores of the MADT are counted.
LEMMA CpusFound ==
  ASSUME NEW m \in MachineType, MpTableRight(m), NEW smp \in BOOLEAN
  PROVE  LET t == FindCpus(m, smp)
         IN /\ t \in CpusType /\ OneEach(t)
            /\ (t.apic \/ m.x2apic) /\ t.num > 1 => t.ids[0] = m.bsp
            /\ m.fp = "none" => FromMadt(t, m)
<1> DEFINE madt == FindCpusInMadt(m)
           c == IF madt.ok THEN madt ELSE FindCpusInFloatingMpStruct(m, madt)
           t == FindCpus(m, smp)
           Goal == /\ t \in CpusType /\ OneEach(t)
                   /\ (t.apic \/ m.x2apic) /\ t.num > 1 => t.ids[0] = m.bsp
                   /\ m.fp = "none" => FromMadt(t, m)
<1> SUFFICES Goal
  OBVIOUS
<1>0. /\ m.fp \in {"none", "default", "table"} /\ m.mp \in Seq(MpEntries)
      /\ m.x2apic \in BOOLEAN /\ m.mappable \in BOOLEAN /\ m.bsp \in Nat
  BY SetupFields DEF MpEntries
<1>1. /\ madt \in CpusType /\ OneEach(madt)
      /\ madt.num > 1 =>
           \A i \in CpuNum : i < madt.num => \E j \in DOMAIN Madt(m) : Madt(m)[j].id = madt.ids[i]
  BY MadtCpus
<1>2. t = IF ~smp THEN NoCpus ELSE IF c.apic \/ m.x2apic THEN VerifyBspIsCpu0(c, m.bsp) ELSE c
  BY Zenon DEF FindCpus
<1> HIDE DEF t
<1>3. CASE ~smp
  <2>1. t = NoCpus /\ t.num = 1 /\ t \in CpusType
    BY <1>2, <1>3, NoCpusType DEF NoCpus
  <2>2. \A i \in CpuNum : i < 1 => i = 0
    BY DEF CpuNum
  <2>3. 0 < 1 /\ ~(1 > 1) /\ \A i \in CpuNum : i < 1 => ~(0 < i)
    BY DEF CpuNum
  <2> QED BY <2>1, <2>2, <2>3 DEF OneEach, FromMadt
\* The cores before the boot processor is made CPU 0.
<1>4. /\ c \in CpusType
      /\ \A i, j \in CpuNum : 0 < i /\ i < c.num /\ 0 < j /\ j < c.num /\ c.ids[i] = c.ids[j] => i = j
      /\ \/ \A i \in CpuNum : 0 < i /\ i < c.num => c.ids[i] # m.bsp
         \/ \A i \in CpuNum : 0 < i /\ i < c.num => c.ids[i] # c.ids[0]
      /\ ~c.apic => OneEach(c)
      /\ m.fp = "none" =>
           (c.num > 1 => \A i \in CpuNum : i < c.num => \E j \in DOMAIN Madt(m) : Madt(m)[j].id = c.ids[i])
  <2>0. ASSUME NEW d \in CpusType, OneEach(d)
        PROVE  /\ \A i, j \in CpuNum :
                    0 < i /\ i < d.num /\ 0 < j /\ j < d.num /\ d.ids[i] = d.ids[j] => i = j
               /\ \A i \in CpuNum : 0 < i /\ i < d.num => d.ids[i] # d.ids[0]
    <3>1. 0 \in CpuNum /\ 0 < d.num
      BY NoCpusType DEF CpusType
    <3>2. \A i \in CpuNum : 0 < i => i # 0
      BY DEF CpuNum
    <3> QED BY <2>0, <3>1, <3>2 DEF OneEach
  <2>1. CASE madt.ok
    <3>1. c = madt
      BY <2>1
    <3> HIDE DEF c, madt
    <3> QED BY <1>1, <2>0, <3>1
  <2>2. ASSUME ~madt.ok,
               FindCpusInFloatingMpStruct(m, madt) = [madt EXCEPT !.ok = FALSE]
        PROVE  <1>4!:
    <3>1. c = [madt EXCEPT !.ok = FALSE]
      BY <2>2
    <3>2. c \in CpusType /\ c.num = madt.num /\ c.ids = madt.ids
      <4> HIDE DEF c, madt
      <4> QED BY <1>1, <3>1 DEF CpusType
    <3>3. OneEach(c)
      <4> HIDE DEF c, madt
      <4> QED BY <1>1, <3>2 DEF OneEach
    <3> HIDE DEF c, madt
    <3> QED BY <1>1, <2>0, <3>2, <3>3
  <2>3. CASE ~madt.ok /\ (m.x2apic \/ m.fp = "none" \/ ~m.mappable)
    <3>1. FindCpusInFloatingMpStruct(m, madt) = [madt EXCEPT !.ok = FALSE]
      BY <1>0, <2>3 DEF FindCpusInFloatingMpStruct, ReadMpConfigTable
    <3> QED BY <2>2, <2>3, <3>1
  <2>4. CASE ~madt.ok /\ ~m.x2apic /\ m.fp = "default" /\ m.mappable
    <3> DEFINE ids == [madt.ids EXCEPT ![0] = 0, ![1] = 1]
    <3>1. c = [madt EXCEPT !.ids = ids, !.num = 2, !.ok = TRUE, !.apic = TRUE]
      BY <2>4 DEF FindCpusInFloatingMpStruct
    <3>2. 0 \in CpuNum /\ 1 \in CpuNum /\ 2 \in 1 .. MaxCpus
      BY NoCpusType DEF CpuNum
    <3>3. c \in CpusType /\ c.num = 2 /\ c.apic /\ c.ids[0] = 0 /\ c.ids[1] = 1
      <4>1. madt.ids \in [CpuNum -> Nat]
        BY <1>1 DEF CpusType
      <4>2. ids \in [CpuNum -> Nat] /\ ids[0] = 0 /\ ids[1] = 1
        <5> HIDE DEF madt
        <5> QED BY <3>2, <4>1
      <4> HIDE DEF c, madt, ids
      <4> QED BY <1>1, <3>1, <3>2, <4>2 DEF CpusType
    <3>4. \A i \in CpuNum : 0 < i /\ i < 2 => i = 1
      BY DEF CpuNum
    <3> HIDE DEF c, madt
    <3> QED BY <2>4, <3>3, <3>4
  <2>5. CASE ~madt.ok /\ ~m.x2apic /\ m.fp = "table" /\ m.mappable
    <3> DEFINE s == m.mp
               n == Len(s)
    <3>1. c = MpRead(s, madt)[n]
      BY <2>5 DEF FindCpusInFloatingMpStruct, ReadMpConfigTable
    <3>2. /\ madt.num = 1
          /\ \A i, j \in DOMAIN s :
               s[i].type = "cpu" /\ s[j].type = "cpu" /\ s[i].id = s[j].id => i = j
          /\ \A i \in DOMAIN s : s[i].type = "cpu" => (s[i].boot <=> s[i].id = m.bsp)
      BY <2>5 DEF MpTableRight
    <3>3. n \in 0 .. n /\ DOMAIN s = 1 .. n
      BY <1>0
    <3> HIDE DEF c, madt
    <3>4. MpHeld(c, s, n)
      <4> HIDE DEF s
      <4> QED BY <1>0, <1>1, <3>1, <3>2, <3>3, MpAll DEF s
    <3>5. ASSUME NEW i \in CpuNum, 0 < i, i < c.num PROVE c.ids[i] # m.bsp
      <4>1. PICK j \in 1 .. n : s[j].type = "cpu" /\ ~s[j].boot /\ s[j].id = c.ids[i]
        BY <3>4, <3>5 DEF MpHeld
      <4> QED BY <3>2, <3>3, <4>1
    <3> QED BY <2>5, <3>4, <3>5 DEF MpHeld
  <2> QED BY <1>0, <2>1, <2>3, <2>4, <2>5
<1> HIDE DEF c
<1>5. CASE smp /\ ~(c.apic \/ m.x2apic)
  <2>1. t = c
    BY <1>2, <1>5
  <2>2. m.fp = "none" => FromMadt(c, m)
    <3>1. c.num \in Nat /\ \A i \in CpuNum : 0 < i /\ i < c.num => c.num > 1
      BY <1>4, NoCpusType DEF CpusType, CpuNum
    <3> QED BY <1>4, <3>1 DEF FromMadt
  <2> QED BY <1>4, <1>5, <2>1, <2>2
<1>6. CASE smp /\ (c.apic \/ m.x2apic)
  <2>1. t = VerifyBspIsCpu0(c, m.bsp)
    BY <1>2, <1>6
  <2>2. /\ t \in CpusType /\ t.num = c.num /\ t.apic = c.apic
        /\ t.ids[0] = m.bsp /\ OneEach(t)
        /\ \A i \in CpuNum : 0 < i /\ i < t.num => \E j \in CpuNum : j < t.num /\ t.ids[i] = c.ids[j]
    BY <1>0, <1>4, <2>1, BspIsCpu0
  <2>3. m.fp = "none" => FromMadt(t, m)
    <3>1. t.num \in Nat /\ \A i \in CpuNum : 0 < i /\ i < t.num => t.num > 1
      BY <2>2, NoCpusType DEF CpusType, CpuNum
    <3> QED BY <1>4, <2>2, <3>1 DEF FromMadt
  <2> QED BY <2>2, <2>3
<1> QED BY <1>3, <1>5, <1>6

-----------------------------------------------------------------------------
(***************************************************************************)
(* The nodes of find_numa_nodes_in_srat: every table fits its array        *)
(***************************************************************************)
DomainLists == {d \in Seq(Nat) : Len(d) <= MaxDomains}
RangeLists == {r \in Seq([start : Nat, end : Nat, domain : Nat]) : Len(r) <= MaxRanges}

NodesType ==
  [domains : DomainLists, ranges : RangeLists, of : [CpuNum -> 0 .. (MaxDomains - 1)], ok : BOOLEAN]

LEMMA NoNodesType == NoNodes \in NodesType /\ MaxDomains \in Nat /\ MaxDomains > 0 /\ MaxRanges \in Nat
<1>1. MaxDomains \in Nat /\ MaxDomains > 0 /\ MaxRanges \in Nat
  BY CpuAssumption
<1>2. << >> \in DomainLists
  BY <1>1 DEF DomainLists
<1>3. << >> \in RangeLists
  BY <1>1 DEF RangeLists
<1>4. [i \in CpuNum |-> 0] \in [CpuNum -> 0 .. (MaxDomains - 1)]
  BY <1>1
<1> QED BY <1>1, <1>2, <1>3, <1>4 DEF NoNodes, NodesType

\* A domain that is listed has an index.
LEMMA DomainIndex ==
  ASSUME NEW d \in Seq(Nat), NEW x, x \in {d[i] : i \in DOMAIN d}
  PROVE  IndexOf(d, x) \in 0 .. (Len(d) - 1)
<1> DEFINE c == CHOOSE i \in DOMAIN d : d[i] = x
<1>1. c \in DOMAIN d
  OBVIOUS
<1>2. DOMAIN d = 1 .. Len(d) /\ Len(d) \in Nat
  OBVIOUS
<1> HIDE DEF c
<1>3. c - 1 \in 0 .. (Len(d) - 1)
  BY <1>1, <1>2
<1> QED BY <1>3 DEF IndexOf, c

\* A domain is added at the end.
LEMMA DomainAdded ==
  ASSUME NEW d \in Seq(Nat), NEW x \in Nat
  PROVE  /\ WithDomain(d, x) \in Seq(Nat)
         /\ x \in {WithDomain(d, x)[i] : i \in DOMAIN WithDomain(d, x)}
<1>1. CASE x \in {d[i] : i \in DOMAIN d}
  BY <1>1 DEF WithDomain
<1>2. CASE x \notin {d[i] : i \in DOMAIN d}
  <2> DEFINE a == Append(d, x)
  <2>1. WithDomain(d, x) = a
    BY <1>2 DEF WithDomain
  <2>2. a \in Seq(Nat) /\ Len(d) + 1 \in DOMAIN a /\ a[Len(d) + 1] = x
    OBVIOUS
  <2> HIDE DEF a
  <2> QED BY <2>1, <2>2
<1> QED BY <1>1, <1>2

\* Neither pass overflows an array.
LEMMA MemoryStep ==
  ASSUME NEW n \in NodesType, NEW e \in SratEntries
  PROVE  MemoryAffinity(n, e) \in NodesType
<1> DEFINE domains == WithDomain(n.domains, e.domain)
           range == [start |-> e.start, end |-> e.end, domain |-> IndexOf(domains, e.domain)]
<1>1. /\ n.domains \in Seq(Nat) /\ n.ranges \in RangeLists /\ n.ok \in BOOLEAN
      /\ n.of \in [CpuNum -> 0 .. (MaxDomains - 1)]
      /\ e.domain \in Nat /\ e.start \in Nat /\ e.end \in Nat
  BY DEF NodesType, DomainLists, SratEntries
<1>2. domains \in Seq(Nat) /\ e.domain \in {domains[i] : i \in DOMAIN domains}
  BY <1>1, DomainAdded
<1> HIDE DEF domains
<1>3. IndexOf(domains, e.domain) \in Nat
  BY <1>2, DomainIndex
<1>4. range \in [start : Nat, end : Nat, domain : Nat]
  BY <1>1, <1>3
<1> HIDE DEF range
<1>5. [n EXCEPT !.ok = FALSE] \in NodesType
  BY DEF NodesType
<1>6. ASSUME Len(domains) <= MaxDomains
      PROVE  [n EXCEPT !.ok = FALSE, !.domains = domains] \in NodesType
  <2>1. domains \in DomainLists
    BY <1>2, <1>6 DEF DomainLists
  <2> QED BY <2>1 DEF NodesType
<1>7. ASSUME Len(domains) <= MaxDomains, RangesLeft(n)
      PROVE  [n EXCEPT !.domains = domains, !.ranges = Append(@, range)] \in NodesType
  <2>1. domains \in DomainLists
    BY <1>2, <1>7 DEF DomainLists
  <2>2. Append(n.ranges, range) \in RangeLists
    <3> DEFINE R == [start : Nat, end : Nat, domain : Nat]
    <3>1. n.ranges \in Seq(R) /\ range \in R
      BY <1>1, <1>4 DEF RangeLists
    <3>2. Len(n.ranges) < MaxRanges /\ MaxRanges \in Nat
      BY <1>7, NoNodesType DEF RangesLeft
    <3> HIDE DEF R
    <3>3. Append(n.ranges, range) \in Seq(R) /\ Len(Append(n.ranges, range)) <= MaxRanges
      BY <3>1, <3>2
    <3> QED BY <3>3 DEF R, RangeLists
  <2> QED BY <2>1, <2>2 DEF NodesType
<1>8. Len(domains) \in Nat /\ MaxDomains \in Nat
  BY <1>2, NoNodesType
<1>9. Len(domains) > MaxDomains \/ Len(domains) <= MaxDomains
  BY <1>8
<1>10. MemoryAffinity(n, e) \in
         {n, [n EXCEPT !.ok = FALSE]}
           \cup {x \in {[n EXCEPT !.ok = FALSE, !.domains = domains]} : Len(domains) <= MaxDomains}
           \cup {x \in {[n EXCEPT !.domains = domains, !.ranges = Append(@, range)]} :
                   Len(domains) <= MaxDomains /\ RangesLeft(n)}
  BY <1>9, Zenon DEF MemoryAffinity, domains, range
<1> QED BY <1>5, <1>6, <1>7, <1>10

LEMMA ProcessorStep ==
  ASSUME NEW n \in NodesType, NEW e \in SratEntries, NEW t
  PROVE  ProcessorAffinity(t, n, e) \in NodesType
<1> DEFINE i == CHOOSE i \in {i \in CpuNum : i < t.num /\ t.ids[i] = e.id} :
                  \A j \in {j \in CpuNum : j < t.num /\ t.ids[j] = e.id} : i <= j
           x == IndexOf(n.domains, e.domain)
<1>1. n.domains \in Seq(Nat) /\ Len(n.domains) <= MaxDomains
      /\ n.of \in [CpuNum -> 0 .. (MaxDomains - 1)]
  BY DEF NodesType, DomainLists
<1>2. ASSUME e.domain \in {n.domains[k] : k \in DOMAIN n.domains}
      PROVE  [n EXCEPT !.of = [@ EXCEPT ![i] = x]] \in NodesType
  <2>1. x \in 0 .. (MaxDomains - 1)
    <3>1. x \in 0 .. (Len(n.domains) - 1)
      BY <1>1, <1>2, DomainIndex
    <3> HIDE DEF x
    <3> QED BY <1>1, <3>1, NoNodesType
  <2> HIDE DEF x, i
  <2>2. [n.of EXCEPT ![i] = x] \in [CpuNum -> 0 .. (MaxDomains - 1)]
    BY <1>1, <2>1
  <2> QED BY <2>2 DEF NodesType
<1>3. [n EXCEPT !.ok = FALSE] \in NodesType
  BY DEF NodesType
<1> QED BY <1>2, <1>3, Zenon DEF ProcessorAffinity

\* find_numa_nodes_in_srat, the memory entries.
LEMMA MemoryReadType ==
  ASSUME NEW s \in Seq(SratEntries)
  PROVE  MemoryRead(s)[Len(s)] \in NodesType
<1> DEFINE n == Len(s)
           Eq(at) == at = [k \in 0 .. n |-> IF k = 0 THEN NoNodes ELSE MemoryAffinity(at[k - 1], s[k])]
           f == [k \in 1 .. n |-> [x \in NodesType |-> MemoryAffinity(x, s[k])]]
           r == MemoryRead(s)
           S == {k \in 0 .. n : r[k] \in NodesType}
<1>0. n \in Nat /\ (\A k \in 1 .. n : s[k] \in SratEntries) /\ NoNodes \in NodesType
  BY NoNodesType
<1> HIDE DEF n
<1>1. PICK at \in [0 .. n -> NodesType] :
        \A k \in 0 .. n : at[k] = IF k = 0 THEN NoNodes ELSE f[k][at[k - 1]]
  <2>1. f \in Steps(n, NodesType)
    BY <1>0, MemoryStep DEF Steps
  <2> HIDE DEF f
  <2>2. Recurs(n, NodesType, NoNodes, f)
    BY <1>0, <2>1, Recursion
  <2> QED BY <2>2 DEF Recurs
<1>2. Eq(at)
  <2>1. \A k \in 1 .. n :
          at[k - 1] \in NodesType /\ f[k][at[k - 1]] = MemoryAffinity(at[k - 1], s[k])
    BY <1>0
  <2> HIDE DEF f
  <2> QED BY <1>0, <1>1, <2>1
<1>3. Eq(r)
  <2>1. Eq(CHOOSE x : Eq(x))
    <3> HIDE DEF Eq
    <3> QED BY <1>2
  <2>2. r = CHOOSE x : Eq(x)
    BY DEF MemoryRead, n
  <2> HIDE DEF Eq, r
  <2> QED BY <2>1, <2>2
<1> HIDE DEF r
<1>4. 0 \in S
  BY <1>0, <1>3
<1>5. ASSUME NEW k \in 1 .. n, k - 1 \in S PROVE k \in S
  <2>1. r[k] = MemoryAffinity(r[k - 1], s[k]) /\ r[k - 1] \in NodesType /\ k \in 0 .. n
    BY <1>0, <1>3, <1>5
  <2> QED BY <1>0, <2>1, MemoryStep
<1>6. n \in 0 .. n
  BY <1>0
<1>7. n \in S
  <2> HIDE DEF S
  <2> QED BY <1>0, <1>4, <1>5, <1>6, UpTo
<1> QED BY <1>7 DEF n, r

\* The processor entries.
LEMMA ProcessorReadType ==
  ASSUME NEW s \in Seq(SratEntries), NEW t
  PROVE  ProcessorRead(t, s)[Len(s)] \in NodesType
<1> DEFINE n == Len(s)
           base == MemoryRead(s)[n]
           Eq(at) == at = [k \in 0 .. n |-> IF k = 0 THEN base ELSE ProcessorAffinity(t, at[k - 1], s[k])]
           f == [k \in 1 .. n |-> [x \in NodesType |-> ProcessorAffinity(t, x, s[k])]]
           r == ProcessorRead(t, s)
           S == {k \in 0 .. n : r[k] \in NodesType}
<1>0. n \in Nat /\ (\A k \in 1 .. n : s[k] \in SratEntries) /\ base \in NodesType
  BY MemoryReadType
<1> HIDE DEF n, base
<1>1. PICK at \in [0 .. n -> NodesType] :
        \A k \in 0 .. n : at[k] = IF k = 0 THEN base ELSE f[k][at[k - 1]]
  <2>1. f \in Steps(n, NodesType)
    BY <1>0, ProcessorStep DEF Steps
  <2> HIDE DEF f
  <2>2. Recurs(n, NodesType, base, f)
    BY <1>0, <2>1, Recursion
  <2> QED BY <2>2 DEF Recurs
<1>2. Eq(at)
  <2>1. \A k \in 1 .. n :
          at[k - 1] \in NodesType /\ f[k][at[k - 1]] = ProcessorAffinity(t, at[k - 1], s[k])
    BY <1>0
  <2> HIDE DEF f
  <2> QED BY <1>0, <1>1, <2>1
<1>3. Eq(r)
  <2>1. Eq(CHOOSE x : Eq(x))
    <3> HIDE DEF Eq
    <3> QED BY <1>2
  <2>2. r = CHOOSE x : Eq(x)
    BY DEF ProcessorRead, n, base
  <2> HIDE DEF Eq, r
  <2> QED BY <2>1, <2>2
<1> HIDE DEF r
<1>4. 0 \in S
  BY <1>0, <1>3
<1>5. ASSUME NEW k \in 1 .. n, k - 1 \in S PROVE k \in S
  <2>1. r[k] = ProcessorAffinity(t, r[k - 1], s[k]) /\ r[k - 1] \in NodesType /\ k \in 0 .. n
    BY <1>0, <1>3, <1>5
  <2> QED BY <1>0, <2>1, ProcessorStep
<1>6. n \in 0 .. n
  BY <1>0
<1>7. n \in S
  <2> HIDE DEF S
  <2> QED BY <1>0, <1>4, <1>5, <1>6, UpTo
<1> QED BY <1>7 DEF n, r

LEMMA NodesFound ==
  ASSUME NEW m \in MachineType, NEW t, NEW smp
  PROVE  FindNumaNodes(m, t, smp) \in NodesType
<1>1. Srat(m) \in Seq(SratEntries)
  BY MadtFound
<1>2. ProcessorRead(t, Srat(m))[Len(Srat(m))] \in NodesType
  BY <1>1, ProcessorReadType
<1> QED BY <1>2, NoNodesType DEF FindNumaNodes

-----------------------------------------------------------------------------
(***************************************************************************)
(* The inductive invariant                                                 *)
(***************************************************************************)
States == {"enabled", "disabled", "running"}

\* What smp_init has found in the tables stays as it is; only the number of CPUs may shrink.
TablesHeld ==
  /\ \E s \in Setups : machine = s.machine
  /\ cpus \in CpusType /\ OneEach(cpus)
  /\ (cpus.apic \/ machine.x2apic) /\ cpus.num > 1 => cpus.ids[0] = machine.bsp
  /\ machine.fp = "none" => FromMadt(cpus, machine)
  /\ nodes \in NodesType
  /\ cpu_state \in [CpuNum -> States]

\* Until the CPUs are counted no core has been started.
NotStarted ==
  /\ menu = "done" => pc \notin {"config", "select"}
  /\ menu # "done" =>
       /\ pc \in {"config", "select", "reboot"} /\ (pc = "select" => menu = "left")
       /\ cpu_state[0] = "enabled" /\ \A i \in CpuNum : cpu_state[i] # "running"
       /\ init_state = 0 /\ num_enabled_cpus = 0 /\ target = 0
       /\ \A c \in Cores : core[c] \in {"waiting", "boot"}

\* The boot processor's place in its program.
Program ==
  /\ dead \subseteq Cores
  /\ init_state \in 0 .. 2
  /\ pc \in {"config", "select", "smp_start", "next_cpu", "init", "sipi1", "sipi2",
             "started", "poll", "main", "failed", "reboot"}
  /\ target \in 0 .. cpus.num
  /\ pc \in {"next_cpu", "init", "sipi1", "sipi2", "started"} => 0 < target
  /\ pc \in {"init", "sipi1", "sipi2", "started"} => target < cpus.num
  /\ pc = "smp_start" => target = 0
  /\ pc = "init" => cpu_state[target] = "enabled"
  /\ init_state = 2 => pc = "main"
  /\ pc = "main" => AllAnswered

\* Core c has number i.
Slot(c, i) == i \in Available /\ 0 < i /\ cpus.ids[i] = c

CoreStates == {"boot", "waiting", "reset", "startup", "enumerate", "hold", "main"}
Woken == {c \in Cores : core[c] \notin {"boot", "waiting"}}

\* Only the cores before the target were sent a message, and none of them is the boot processor.
CoresHeld ==
  /\ core \in [Cores -> CoreStates]
  /\ \A c \in Cores : core[c] = "boot" <=> c = machine.bsp
  /\ \A c \in Woken : \E i \in Available :
       /\ Slot(c, i) /\ i <= target
       /\ pc \in {"next_cpu", "init"} => i < target
       /\ cpu_state[i] = "enabled" <=> c \notin Executing
  /\ \A c \in Cores : core[c] = "main" => init_state = 2

\* E are the CPUs that were enabled when they were counted: the boot processor, the ones still
\* to answer, and the ones that have.
Counted(E) ==
  /\ 0 \in E /\ E \subseteq Available
  /\ num_enabled_cpus = Cardinality(E)
  /\ chunk_index = [i \in CpuNum |-> Cardinality(Before(i, E))]
  /\ \A i \in Available : cpu_state[i] # "disabled" => i \in E
  /\ \A i \in E \ {0} : cpu_state[i] = "enabled" \/ cpus.ids[i] \in Executing
  /\ \A i \in Available \ {0} : cpus.ids[i] \in Executing => i \in E

IInv ==
  /\ TablesHeld /\ NotStarted /\ Program /\ CoresHeld
  /\ menu = "done" => \E E \in SUBSET CpuNum : Counted(E)

\* A core's number is the slot that names it.
LEMMA MyNumber ==
  ASSUME cpus \in CpusType, OneEach(cpus), NEW c, NEW i, Slot(c, i)
  PROVE  MyCpuNum(c) = i /\ 0 < i /\ i \in Available /\ cpus.ids[i] = c
<1> DEFINE slots == {k \in Available : cpus.ids[k] = c}
<1>1. i \in Available /\ 0 < i /\ cpus.ids[i] = c /\ i \in slots
  BY DEF Slot
<1>2. \A k \in slots : k = i
  BY <1>1 DEF OneEach, Available
<1>3. slots = {i}
  BY <1>1, <1>2
<1>4. i \in Int /\ cpus.num > 1
  BY <1>1, NoCpusType DEF Available, CpuNum, CpusType
<1>5. MyCpuNum(c) = CHOOSE k \in slots : \A j \in slots : k <= j
  <2>1. ~(cpus.num <= 1 \/ slots = {})
    BY <1>1, <1>4 DEF CpusType
  <2> QED BY <2>1, Zenon DEF MyCpuNum
<1>6. i <= i
  BY <1>4
<1> HIDE DEF slots
<1>7. (CHOOSE k \in slots : \A j \in slots : k <= j) = i
  BY <1>3, <1>6
<1> QED BY <1>1, <1>5, <1>7

\* Numbers are numbers.
LEMMA Numbers ==
  ASSUME cpus \in CpusType
  PROVE  /\ cpus.num \in 1 .. MaxCpus /\ cpus.ids \in [CpuNum -> Nat]
         /\ 0 \in Available /\ Available \subseteq CpuNum /\ CpuNum \subseteq Nat
         /\ \A i \in Available : i < cpus.num
         /\ MaxCpus \in Nat /\ MaxCpus > 1
  BY NoCpusType DEF CpusType, Available, CpuNum

LEMMA MachineTyped ==
  ASSUME TablesHeld
  PROVE  machine \in MachineType /\ machine.bsp \in Cores
  BY SetupAssumption DEF TablesHeld

LEMMA InitIInv ==
  ASSUME MpTablesRight, Init
  PROVE  IInv
<1>1. PICK s \in Setups :
        LET c == ConfigInit(s.session.options)
        IN /\ machine = s.machine
           /\ cpus = FindCpus(s.machine, "smp" \in c.on)
           /\ nodes = FindNumaNodes(s.machine, cpus, "smp" \in c.on)
           /\ cpu_state = [i \in CpuNum |-> "enabled"]
           /\ menu = IF "pause" \in c.on THEN "pause" ELSE "left"
  BY Zenon DEF Init, Start
<1> DEFINE smp == "smp" \in ConfigInit(s.session.options).on
<1>2. smp \in BOOLEAN
  OBVIOUS
<1>3. s.machine \in MachineType /\ MpTableRight(s.machine) /\ machine = s.machine
  BY <1>1, SetupAssumption DEF MpTablesRight
<1>4. cpus = FindCpus(machine, smp) /\ nodes = FindNumaNodes(machine, cpus, smp)
  BY <1>1
<1> HIDE DEF smp
<1>5. cpu_state = [i \in CpuNum |-> "enabled"] /\ menu # "done"
  BY <1>1
<1>6. TablesHeld
  <2>1. /\ cpus \in CpusType /\ OneEach(cpus)
        /\ (cpus.apic \/ machine.x2apic) /\ cpus.num > 1 => cpus.ids[0] = machine.bsp
        /\ machine.fp = "none" => FromMadt(cpus, machine)
    BY <1>2, <1>3, <1>4, CpusFound
  <2>2. nodes \in NodesType
    BY <1>3, <1>4, NodesFound
  <2> QED BY <1>3, <1>5, <2>1, <2>2 DEF TablesHeld, States
<1>7. /\ dead = {} /\ init_state = 0 /\ pc = "config" /\ target = 0 /\ num_enabled_cpus = 0
      /\ core = [c \in Cores |-> IF c = machine.bsp THEN "boot" ELSE "waiting"]
  BY DEF Init
<1>8. 0 \in CpuNum /\ cpus.num \in 1 .. MaxCpus /\ MaxCpus \in Nat
  BY <1>6, Numbers DEF TablesHeld, Available
<1>9. \A c \in Cores : /\ core[c] \in {"waiting", "boot"}
                       /\ core[c] = "boot" <=> c = machine.bsp
  BY <1>7
<1>10. NotStarted
  BY <1>5, <1>7, <1>8, <1>9 DEF NotStarted
<1>11. Program
  BY <1>7, <1>8 DEF Program
<1>12. CoresHeld
  BY <1>7, <1>9 DEF CoresHeld, CoreStates, Woken
<1> QED BY <1>5, <1>6, <1>10, <1>11, <1>12 DEF IInv

\* The menus of config.c name no state they do not know, and leave CPU 0 alone.
LEMMA MenuStep ==
  ASSUME TablesHeld, cpu_state[0] = "enabled", ConfigNext,
         menu # "done", \A i \in CpuNum : cpu_state[i] \in {"enabled", "disabled"}
  PROVE  /\ menu' # "done"
         /\ machine' = machine /\ cpus' = cpus /\ nodes' = nodes
         /\ cpu_state' \in [CpuNum -> {"enabled", "disabled"}] /\ cpu_state'[0] = "enabled"
<1>0. cpu_state \in [CpuNum -> States] /\ 0 \in CpuNum /\ CpuNum \subseteq Nat
  BY Numbers DEF TablesHeld, Available
<1>1. cpu_state \in [CpuNum -> {"enabled", "disabled"}]
  BY <1>0
<1>2. machine' = machine /\ cpus' = cpus /\ nodes' = nodes
  BY DEF ConfigNext, PauseKey, PauseOver, MainMenuKey, CpusMenuKey, SubMenuKey, NextKey
<1>3. CASE PauseKey
  BY <1>1, <1>2, <1>3 DEF PauseKey
<1>4. CASE PauseOver
  BY <1>1, <1>2, <1>4 DEF PauseOver
<1>5. CASE MainMenuKey
  <2>1. Opens(Typed) # "done"
    BY DEF Opens
  <2> QED BY <1>1, <1>2, <1>5, <2>1 DEF MainMenuKey
<1>6. CASE CpusMenuKey
  <2>1. Becomes(Typed) \in {"enabled", "disabled"}
    BY DEF Becomes
  <2>2. 0 \notin Named(Typed)
    <3> DEFINE others == Available \ {0}
               k == Typed
    <3>1. others \subseteq Nat /\ 0 \notin others
      BY Numbers DEF TablesHeld
    <3> HIDE DEF others
    <3>2. 0 \notin RangeOf(k.nums, others)
      <4> DEFINE a == k.nums[1]
                 b == k.nums[2]
      <4>1. RangeOf(k.nums, others) = IF a \in others /\ b \in others /\ a <= b THEN a .. b ELSE {}
        BY Zenon DEF RangeOf
      <4> HIDE DEF a, b
      <4>2. a \in others /\ b \in others => 0 \notin a .. b
        BY <3>1
      <4> QED BY <4>1, <4>2
    <3>3. Named(k) \in {others, {k.nums[1]} \cap others, RangeOf(k.nums, others), {}}
      BY Zenon DEF Named, others
    <3> HIDE DEF k
    <3> DEFINE range == RangeOf(k.nums, others)
    <3>5. 0 \notin range
      BY <3>2
    <3>6. Named(k) \in {others, {k.nums[1]} \cap others, range, {}}
      BY <3>3
    <3> HIDE DEF range
    <3>4. 0 \notin Named(k)
      BY <3>1, <3>5, <3>6
    <3> QED BY <3>4 DEF k
  <2>3. cpu_state' = [i \in CpuNum |-> IF i \in Named(Typed) THEN Becomes(Typed) ELSE cpu_state[i]]
        /\ menu' \in {"main", "cpus"}
    BY <1>6 DEF CpusMenuKey
  <2> QED BY <1>0, <1>1, <1>2, <2>1, <2>2, <2>3
<1>7. ASSUME NEW m \in {"tests", "range", "mode", "errors", "boot"}, NEW next, SubMenuKey(m, next)
      PROVE  menu' # "done" /\ cpu_state' = cpu_state
  BY <1>7 DEF SubMenuKey
<1> QED BY <1>1, <1>2, <1>3, <1>4, <1>5, <1>6, <1>7 DEF ConfigNext

\* What a step does not change.
LEMMA TablesKept ==
  ASSUME TablesHeld, machine' = machine, cpus' = cpus, nodes' = nodes,
         cpu_state' \in [CpuNum -> States]
  PROVE  TablesHeld'
<1>1. OneEach(cpus)' /\ (machine.fp = "none" => FromMadt(cpus, machine)')
  BY DEF TablesHeld
<1> QED BY <1>1 DEF TablesHeld

\* The CPUs that were counted still answer or have answered.
LEMMA CountKept ==
  ASSUME TablesHeld, menu = "done", \E E \in SUBSET CpuNum : Counted(E),
         machine' = machine, config' = config, menu' = menu, cpus' = cpus, nodes' = nodes,
         chunk_index' = chunk_index, num_enabled_cpus' = num_enabled_cpus,
         pc' \notin {"config", "select"},
         cpu_state' \in [CpuNum -> States],
         \A i \in Available \ {0} : cpu_state'[i] # "disabled" => cpu_state[i] # "disabled",
         \A i \in Available \ {0} :
           cpu_state[i] = "enabled" \/ cpus.ids[i] \in Executing =>
             cpu_state'[i] = "enabled" \/ cpus.ids[i] \in Executing',
         \A i \in Available \ {0} :
           cpus.ids[i] \in Executing' => cpus.ids[i] \in Executing \/ cpu_state[i] # "disabled"
  PROVE  TablesHeld' /\ NotStarted' /\ (menu' = "done" => (\E E \in SUBSET CpuNum : Counted(E))')
<1>1. TablesHeld' /\ NotStarted'
  BY TablesKept DEF NotStarted
<1>2. PICK E \in SUBSET CpuNum : Counted(E)
  OBVIOUS
<1>3. Available' = Available
  BY DEF Available
<1>4. \A i : Before(i, E)' = Before(i, E)
  BY DEF Before, Numa
<1>5. chunk_index = [i \in CpuNum |-> Cardinality(Before(i, E)')]
  BY <1>2, <1>4, Zenon DEF Counted
<1>6. /\ 0 \in E /\ E \subseteq Available
      /\ num_enabled_cpus = Cardinality(E)
      /\ \A i \in Available : cpu_state[i] # "disabled" => i \in E
      /\ \A i \in E \ {0} : cpu_state[i] = "enabled" \/ cpus.ids[i] \in Executing
      /\ \A i \in Available \ {0} : cpus.ids[i] \in Executing => i \in E
  BY <1>2 DEF Counted
<1>7. /\ \A i \in Available : cpu_state'[i] # "disabled" => i \in E
      /\ \A i \in E \ {0} : cpu_state'[i] = "enabled" \/ cpus.ids[i] \in Executing'
      /\ \A i \in Available \ {0} : cpus.ids[i] \in Executing' => i \in E
  BY <1>6
<1>8. Counted(E)'
  <2>1. (0 \in E /\ E \subseteq Available)' /\ (num_enabled_cpus = Cardinality(E))'
    BY <1>3, <1>6
  <2>2. (chunk_index = [i \in CpuNum |-> Cardinality(Before(i, E))])'
    BY <1>5
  <2>3. (\A i \in Available : cpu_state[i] # "disabled" => i \in E)'
    BY <1>3, <1>7
  <2>4. (\A i \in E \ {0} : cpu_state[i] = "enabled" \/ cpus.ids[i] \in Executing)'
    BY <1>7
  <2>5. (\A i \in Available \ {0} : cpus.ids[i] \in Executing => i \in E)'
    BY <1>3, <1>7
  <2> QED BY <2>1, <2>2, <2>3, <2>4, <2>5 DEF Counted
<1>9. (\E X \in SUBSET CpuNum : Counted(X))'
  BY <1>8
<1> QED BY <1>1, <1>9

\* Before the CPUs are counted.
LEMMA EarlyStep ==
  ASSUME IInv, Configure \/ NoPause
  PROVE  IInv'
<1>1. menu # "done"
  BY DEF IInv, NotStarted, Configure, NoPause
<1>2. /\ TablesHeld /\ NotStarted /\ Program /\ CoresHeld
      /\ cpu_state[0] = "enabled" /\ target = 0 /\ num_enabled_cpus = 0 /\ init_state = 0
      /\ \A c \in Cores : core[c] \in {"waiting", "boot"}
      /\ \A i \in CpuNum : cpu_state[i] # "running"
  BY <1>1 DEF IInv, NotStarted
<1>3. cpu_state \in [CpuNum -> States] /\ \A i \in CpuNum : cpu_state[i] \in {"enabled", "disabled"}
  BY <1>2 DEF TablesHeld, States
<1>4. UNCHANGED startVars
  BY DEF Configure, NoPause
<1>5. /\ menu' # "done" /\ pc' \in {"config", "select", "reboot"}
      /\ pc' = "select" => menu' = "left"
      /\ machine' = machine /\ cpus' = cpus /\ nodes' = nodes
      /\ cpu_state' \in [CpuNum -> States] /\ cpu_state'[0] = "enabled"
      /\ \A i \in CpuNum : cpu_state'[i] # "running"
  <2>1. CASE Configure
    <3>1. /\ menu' # "done" /\ machine' = machine /\ cpus' = cpus /\ nodes' = nodes
          /\ cpu_state' \in [CpuNum -> {"enabled", "disabled"}] /\ cpu_state'[0] = "enabled"
      BY <1>1, <1>2, <1>3, <2>1, MenuStep DEF Configure
    <3>2. cpu_state' \in [CpuNum -> States] /\ \A i \in CpuNum : cpu_state'[i] # "running"
      BY <3>1 DEF States
    <3>3. pc' \in {"config", "select", "reboot"} /\ (pc' = "select" => menu' = "left")
      BY <2>1 DEF Configure
    <3> QED BY <3>1, <3>2, <3>3
  <2>2. CASE NoPause
    BY <1>2, <1>3, <2>2 DEF NoPause, configVars
  <2> QED BY <2>1, <2>2
<1>6. TablesHeld'
  BY <1>2, <1>5, TablesKept
<1>7. NotStarted'
  BY <1>2, <1>4, <1>5 DEF NotStarted, startVars
<1>8. Program'
  BY <1>2, <1>4, <1>5 DEF Program, startVars
<1>9. CoresHeld'
  <2>1. core' = core /\ machine' = machine
    BY <1>4, <1>5 DEF startVars
  <2>2. Woken' = {}
    BY <1>2, <2>1 DEF Woken
  <2> QED BY <1>2, <1>4, <2>1, <2>2 DEF CoresHeld, startVars
<1> QED BY <1>5, <1>6, <1>7, <1>8, <1>9 DEF IInv

\* global_init counts the CPUs that are enabled.
LEMMA SelectStep ==
  ASSUME IInv, Select
  PROVE  IInv'
<1> DEFINE num == IF "smp" \in config.on THEN cpus.num ELSE 1
           E == {i \in CpuNum : i < num /\ cpu_state[i] = "enabled"}
<1>1. menu # "done"
  BY DEF IInv, NotStarted, Select
<1>2. /\ TablesHeld /\ NotStarted /\ Program /\ CoresHeld
      /\ cpu_state[0] = "enabled" /\ target = 0 /\ init_state = 0
      /\ \A c \in Cores : core[c] \in {"waiting", "boot"}
      /\ \A i \in CpuNum : cpu_state[i] # "running"
  BY <1>1 DEF IInv, NotStarted
<1>3. /\ cpus' = [cpus EXCEPT !.num = num]
      /\ num_enabled_cpus' = Cardinality(E)
      /\ chunk_index' = [i \in CpuNum |-> Cardinality(Before(i, E))]
      /\ menu' = "done" /\ pc' = "smp_start"
      /\ machine' = machine /\ config' = config /\ dead' = dead /\ nodes' = nodes
      /\ cpu_state' = cpu_state /\ init_state' = init_state /\ target' = target /\ core' = core
  BY Zenon DEF Select
<1>4. /\ cpus \in CpusType /\ OneEach(cpus) /\ cpus.num \in 1 .. MaxCpus
      /\ cpus.ids \in [CpuNum -> Nat] /\ 0 \in CpuNum /\ CpuNum \subseteq Nat /\ MaxCpus \in Nat
  BY <1>2, Numbers DEF TablesHeld
<1>5. num \in 1 .. MaxCpus /\ num <= cpus.num
  BY <1>4
<1>6. \A i \in CpuNum : i < num => i < cpus.num
  BY <1>4, <1>5
<1> HIDE DEF num
<1>7. /\ cpus' \in CpusType /\ cpus'.num = num /\ cpus'.ids = cpus.ids /\ cpus'.apic = cpus.apic
  BY <1>3, <1>4, <1>5 DEF CpusType
<1>8. TablesHeld'
  <2>1. OneEach(cpus)'
    BY <1>4, <1>6, <1>7 DEF OneEach
  <2>2. ((cpus.apic \/ machine.x2apic) /\ cpus.num > 1 => cpus.ids[0] = machine.bsp)'
    BY <1>2, <1>3, <1>4, <1>5, <1>7 DEF TablesHeld
  <2>3. (machine.fp = "none" => FromMadt(cpus, machine))'
    BY <1>2, <1>3, <1>6, <1>7 DEF TablesHeld, FromMadt
  <2> QED BY <1>2, <1>3, <1>7, <2>1, <2>2, <2>3 DEF TablesHeld
<1>9. NotStarted'
  BY <1>3 DEF NotStarted
<1>10. Program'
  BY <1>2, <1>3, <1>5, <1>7 DEF Program
<1>11. CoresHeld'
  <2>1. Woken' = {}
    BY <1>2, <1>3 DEF Woken
  <2> QED BY <1>2, <1>3, <2>1 DEF CoresHeld
<1>12. PICK S : S = E
  OBVIOUS
<1>13. Counted(S)'
  <2>1. S = {i \in CpuNum : i < num /\ cpu_state[i] = "enabled"}
    BY <1>12 DEF num
  <2>2. Available' = {i \in CpuNum : i < num}
    BY <1>7 DEF Available
  <2>3. 0 \in S /\ S \subseteq Available'
    BY <1>2, <1>4, <1>5, <2>1, <2>2
  <2>4. num_enabled_cpus' = Cardinality(S)
    BY <1>3, <1>12
  <2>5. chunk_index' = [i \in CpuNum |-> Cardinality(Before(i, S)')]
    <3>1. \A i : Before(i, S)' = Before(i, S)
      BY <1>3 DEF Before, Numa
    <3> HIDE DEF E
    <3>2. chunk_index' = [i \in CpuNum |-> Cardinality(Before(i, S))]
      BY <1>3, <1>12
    <3> QED BY <3>1, <3>2, Zenon
  <2>6. \A i \in Available' : cpu_state'[i] # "disabled" => i \in S
    <3>1. \A i \in CpuNum : cpu_state[i] \in States
      BY <1>2 DEF TablesHeld
    <3> QED BY <1>2, <1>3, <2>1, <2>2, <3>1 DEF States
  <2>7. \A i \in S : cpu_state'[i] = "enabled"
    BY <1>3, <2>1
  <2>8. Executing' = {}
    BY <1>2, <1>3 DEF Executing
  <2> HIDE DEF E
  <2> QED BY <2>3, <2>4, <2>5, <2>6, <2>7, <2>8 DEF Counted
<1>14. S \in SUBSET CpuNum
  BY <1>12
<1>15. (\E X \in SUBSET CpuNum : Counted(X))'
  <2> HIDE DEF E
  <2> QED BY <1>13, <1>14
<1> QED BY <1>8, <1>9, <1>10, <1>11, <1>15 DEF IInv

\* After they were counted.
LEMMA LateFacts ==
  ASSUME IInv, pc \notin {"config", "select"},
         pc # "reboot" \/ \E c \in Cores : core[c] \notin {"waiting", "boot"}
  PROVE  /\ TablesHeld /\ NotStarted /\ Program /\ CoresHeld /\ menu = "done"
         /\ \E E \in SUBSET CpuNum : Counted(E)
         /\ cpus \in CpusType /\ OneEach(cpus) /\ cpu_state \in [CpuNum -> States]
         /\ machine \in MachineType /\ machine.bsp \in Cores
  BY MachineTyped DEF IInv, NotStarted, TablesHeld

\* The cores stay as they are.
LEMMA CoresKept ==
  ASSUME CoresHeld, machine' = machine, cpus' = cpus, core' = core, init_state' \in {init_state, 2},
         cpus \in CpusType, target \in Nat, target' \in Nat, target <= target',
         pc' \in {"next_cpu", "init"} =>
           target < target' \/ (pc \in {"next_cpu", "init"} /\ target' = target),
         \A i \in Available \ {0} : cpu_state'[i] = cpu_state[i]
  PROVE  CoresHeld'
<1>1. /\ core \in [Cores -> CoreStates]
      /\ \A c \in Cores : core[c] = "boot" <=> c = machine.bsp
      /\ \A c \in Cores : core[c] = "main" => init_state = 2
  BY DEF CoresHeld
<1>2. Woken' = Woken /\ Executing' = Executing /\ Available' = Available
  BY DEF Woken, Executing, Available
<1>3. ASSUME NEW c \in Woken
      PROVE  \E i \in Available :
               /\ Slot(c, i)' /\ i <= target'
               /\ pc' \in {"next_cpu", "init"} => i < target'
               /\ cpu_state'[i] = "enabled" <=> c \notin Executing'
  <2>1. PICK i \in Available :
          /\ Slot(c, i) /\ i <= target
          /\ pc \in {"next_cpu", "init"} => i < target
          /\ cpu_state[i] = "enabled" <=> c \notin Executing
    BY <1>3 DEF CoresHeld
  <2>2. Slot(c, i)'
    BY <1>2, <2>1 DEF Slot
  <2>3. i # 0 /\ i \in Nat
    BY <2>1, Numbers DEF Slot
  <2>4. i <= target' /\ (pc' \in {"next_cpu", "init"} => i < target')
    BY <2>1, <2>3
  <2> QED BY <1>2, <2>1, <2>2, <2>3, <2>4
<1>4. (\A c \in Woken : \E i \in Available :
         /\ Slot(c, i) /\ i <= target
         /\ pc \in {"next_cpu", "init"} => i < target
         /\ cpu_state[i] = "enabled" <=> c \notin Executing)'
  BY <1>2, <1>3
<1> QED BY <1>1, <1>4 DEF CoresHeld

LEMMA SmpStartStep ==
  ASSUME IInv, SmpStart
  PROVE  IInv'
<1>1. /\ TablesHeld /\ NotStarted /\ Program /\ CoresHeld /\ menu = "done"
      /\ \E E \in SUBSET CpuNum : Counted(E)
      /\ cpus \in CpusType /\ cpu_state \in [CpuNum -> States]
  BY LateFacts DEF SmpStart
<1>2. /\ pc = "smp_start" /\ pc' = "next_cpu" /\ init_state' = 1 /\ target' = 1 /\ target = 0
      /\ dead' \subseteq Cores /\ cpu_state' = [cpu_state EXCEPT ![0] = "running"]
      /\ machine' = machine /\ config' = config /\ menu' = menu /\ cpus' = cpus /\ nodes' = nodes
      /\ chunk_index' = chunk_index /\ num_enabled_cpus' = num_enabled_cpus /\ core' = core
  BY <1>1 DEF SmpStart, configVars, tableVars, Program
<1>3. /\ 0 \in CpuNum /\ Available \subseteq CpuNum /\ 0 \in Available /\ cpus.num \in 1 .. MaxCpus
      /\ CpuNum \subseteq Nat
  BY <1>1, Numbers
<1>4. /\ cpu_state' \in [CpuNum -> States] /\ cpu_state'[0] = "running"
      /\ \A i \in CpuNum \ {0} : cpu_state'[i] = cpu_state[i]
  BY <1>1, <1>2, <1>3 DEF States
<1>5. Executing' = Executing
  BY <1>2 DEF Executing
<1>6. Woken = {}
  <2> SUFFICES ASSUME NEW c \in Woken PROVE FALSE
    OBVIOUS
  <2>1. PICK i \in Available : Slot(c, i) /\ i <= 0
    BY <1>1, <1>2 DEF CoresHeld
  <2> QED BY <1>3, <2>1 DEF Slot
<1>7. Program'
  BY <1>2, <1>3 DEF Program
<1>8. CoresHeld'
  <2>1. Woken' = {}
    BY <1>2, <1>6 DEF Woken
  <2>2. \A c \in Cores : core[c] # "main"
    BY <1>6 DEF Woken
  <2> QED BY <1>1, <1>2, <2>1, <2>2 DEF CoresHeld
<1>9. TablesHeld' /\ NotStarted' /\ (menu' = "done" => (\E E \in SUBSET CpuNum : Counted(E))')
  BY <1>1, <1>2, <1>3, <1>4, <1>5, CountKept
<1> QED BY <1>7, <1>8, <1>9 DEF IInv

\* The steps of start_cpu and of the poll that leave the cores alone.
LEMMA WaitStep ==
  ASSUME IInv, NextCpu \/ Started \/ Poll \/ PollTimeout \/ Failed
  PROVE  IInv'
<1>1. /\ TablesHeld /\ NotStarted /\ Program /\ CoresHeld /\ menu = "done"
      /\ \E E \in SUBSET CpuNum : Counted(E)
      /\ cpus \in CpusType /\ cpu_state \in [CpuNum -> States]
  BY LateFacts DEF NextCpu, Started, Poll, PollTimeout, Failed
<1>2. /\ machine' = machine /\ config' = config /\ menu' = menu /\ cpus' = cpus /\ nodes' = nodes
      /\ chunk_index' = chunk_index /\ num_enabled_cpus' = num_enabled_cpus /\ core' = core
      /\ dead' = dead /\ cpu_state' = cpu_state
  BY DEF NextCpu, Started, Poll, PollTimeout, Failed, machineVars, configVars, tableVars
<1>3. Executing' = Executing /\ Available' = Available
  BY <1>2 DEF Executing, Available
<1>4. AllAnswered' <=> AllAnswered
  BY <1>2, <1>3 DEF AllAnswered
<1>5. cpus.num \in Nat /\ cpus.num >= 1 /\ target \in 0 .. cpus.num
  BY <1>1, Numbers DEF Program
<1>6. pc' \notin {"config", "select"}
  BY DEF NextCpu, Started, Poll, PollTimeout, Failed
<1>7. TablesHeld' /\ NotStarted' /\ (menu' = "done" => (\E E \in SUBSET CpuNum : Counted(E))')
  BY <1>1, <1>2, <1>3, <1>6, CountKept
<1>8. Program' /\ CoresHeld'
  <2>1. CASE NextCpu
    <3>1. /\ pc = "next_cpu" /\ init_state' = init_state
          /\ \/ target >= cpus.num /\ pc' = "poll" /\ target' = target
             \/ target < cpus.num /\ cpu_state[target] = "enabled" /\ pc' = "init" /\ target' = target
             \/ target < cpus.num /\ pc' = "next_cpu" /\ target' = target + 1
      BY <1>5, <2>1 DEF NextCpu
    <3>2. target' \in 0 .. cpus.num /\ target <= target' /\ target \in Nat /\ target' \in Nat
          /\ (pc' \in {"next_cpu", "init"} => target < target' \/ target' = target)
      BY <1>5, <3>1
    <3>3. Program'
      BY <1>1, <1>2, <1>5, <3>1, <3>2 DEF Program
    <3> QED BY <1>1, <1>2, <3>1, <3>2, <3>3, CoresKept
  <2>2. CASE Started
    <3>1. /\ pc = "started" /\ pc' = "next_cpu" /\ target' = target + 1 /\ init_state' = init_state
          /\ target < cpus.num
      BY <1>1, <2>2 DEF Started, Program
    <3>2. target' \in 0 .. cpus.num /\ target < target' /\ target <= target'
          /\ target \in Nat /\ target' \in Nat
      BY <1>5, <3>1
    <3>3. Program'
      BY <1>1, <1>2, <1>5, <3>1, <3>2 DEF Program
    <3> QED BY <1>1, <1>2, <3>1, <3>2, <3>3, CoresKept
  <2>3. CASE Poll \/ PollTimeout \/ Failed
    <3>1. /\ target' = target /\ pc # "main"
          /\ \/ pc' = "main" /\ init_state' = 2 /\ AllAnswered
             \/ pc' \in {"failed", "reboot"} /\ init_state' = init_state
      BY <2>3 DEF Poll, PollTimeout, Failed
    <3>2. target \in Nat /\ target' \in Nat /\ target <= target'
      BY <1>5, <3>1
    <3>3. Program'
      BY <1>1, <1>2, <1>4, <1>5, <3>1 DEF Program
    <3> QED BY <1>1, <1>2, <3>1, <3>2, <3>3, CoresKept
  <2> QED BY <2>1, <2>2, <2>3
<1> QED BY <1>7, <1>8 DEF IInv

\* A message to the target finds a core that has not executed yet, never the boot processor.
LEMMA TargetIdle ==
  ASSUME IInv, menu = "done", pc \in {"init", "sipi1", "sipi2"}, Receives(TargetCore),
         pc = "init" \/ core[TargetCore] = "reset"
  PROVE  /\ TargetCore \in Cores /\ TargetCore # machine.bsp /\ TargetCore \notin Executing
         /\ Slot(TargetCore, target) /\ target \in Available /\ cpu_state[target] = "enabled"
<1> DEFINE d == TargetCore
<1>1. /\ TablesHeld /\ Program /\ CoresHeld /\ cpus \in CpusType /\ OneEach(cpus)
  BY DEF IInv, TablesHeld
<1>2. /\ 0 \in Available /\ Available \subseteq CpuNum /\ CpuNum \subseteq Nat
      /\ (\A i \in Available : i < cpus.num) /\ cpus.num \in 1 .. MaxCpus /\ MaxCpus \in Nat
  BY <1>1, Numbers
<1>3. 0 < target /\ target < cpus.num /\ target \in Nat
  BY <1>1, <1>2 DEF Program
<1>4. target \in Available
  BY <1>2, <1>3 DEF Available, CpuNum
<1>5. d \in Cores /\ Slot(d, target) /\ d = cpus.ids[target]
  BY <1>3, <1>4 DEF Slot, TargetCore, Receives
<1>6. d # machine.bsp
  <2>1. (cpus.apic \/ machine.x2apic) /\ cpus.num > 1
    BY <1>2, <1>3 DEF Receives
  <2>2. cpus.ids[0] = machine.bsp
    BY <1>1, <2>1 DEF TablesHeld
  <2> QED BY <1>1, <1>2, <1>3, <1>4, <1>5, <2>2 DEF OneEach
<1>7. ASSUME d \in Woken
      PROVE  pc # "init" /\ (d \notin Executing => cpu_state[target] = "enabled")
  <2>1. PICK i \in Available :
          /\ Slot(d, i) /\ (pc \in {"next_cpu", "init"} => i < target)
          /\ cpu_state[i] = "enabled" <=> d \notin Executing
    BY <1>1, <1>7 DEF CoresHeld
  <2>2. i = target
    BY <1>1, <1>2, <1>4, <1>5, <2>1 DEF OneEach, Slot
  <2> QED BY <1>3, <2>1, <2>2
<1>8. CASE pc = "init"
  <2>1. d \notin Executing
    BY <1>7, <1>8 DEF Woken, Executing
  <2> QED BY <1>1, <1>4, <1>5, <1>6, <1>8, <2>1 DEF Program
<1>9. CASE core[d] = "reset"
  <2>1. d \in Woken /\ d \notin Executing
    BY <1>5, <1>9 DEF Woken, Executing
  <2> QED BY <1>4, <1>5, <1>6, <1>7, <2>1
<1> QED BY <1>8, <1>9

LEMMA SendStep ==
  ASSUME IInv, SendInit \/ SendStartup("sipi1", "sipi2") \/ SendStartup("sipi2", "started")
  PROVE  IInv'
<1> DEFINE d == TargetCore
<1>1. /\ TablesHeld /\ NotStarted /\ Program /\ CoresHeld /\ menu = "done"
      /\ \E E \in SUBSET CpuNum : Counted(E)
      /\ cpus \in CpusType /\ OneEach(cpus) /\ cpu_state \in [CpuNum -> States]
  BY LateFacts DEF SendInit, SendStartup
<1>2. /\ machine' = machine /\ config' = config /\ menu' = menu /\ cpus' = cpus /\ nodes' = nodes
      /\ chunk_index' = chunk_index /\ num_enabled_cpus' = num_enabled_cpus
      /\ dead' = dead /\ cpu_state' = cpu_state /\ target' = target /\ init_state' = init_state
  BY DEF SendInit, SendStartup, machineVars, configVars, tableVars
<1>3. pc \in {"init", "sipi1", "sipi2"} /\ pc' \in {"sipi1", "sipi2", "started", "failed"}
  BY DEF SendInit, SendStartup
<1>4. \/ core' = core
      \/ /\ Receives(d) /\ (pc = "init" \/ core[d] = "reset")
         /\ \E x \in {"reset", "startup"} : core' = [core EXCEPT ![d] = x]
  BY DEF SendInit, SendStartup
<1>5. cpus.num \in Nat /\ cpus.num >= 1 /\ target \in 0 .. cpus.num /\ Available' = Available
      /\ target \in Nat
  BY <1>1, <1>2, Numbers DEF Program, Available
<1>6. Program'
  BY <1>1, <1>2, <1>3, <1>5 DEF Program
<1>7. Executing' = Executing /\ CoresHeld'
  <2>1. CASE core' = core
    <3>1. Executing' = Executing
      BY <2>1 DEF Executing
    <3> QED BY <1>1, <1>2, <1>3, <1>5, <2>1, <3>1, CoresKept
  <2>2. CASE Receives(d) /\ (pc = "init" \/ core[d] = "reset")
             /\ \E x \in {"reset", "startup"} : core' = [core EXCEPT ![d] = x]
    <3>1. /\ d \in Cores /\ d # machine.bsp /\ d \notin Executing
          /\ Slot(d, target) /\ target \in Available /\ cpu_state[target] = "enabled"
      BY <1>1, <1>3, <2>2, TargetIdle
    <3> HIDE DEF d
    <3>2. PICK x \in {"reset", "startup"} : core' = [core EXCEPT ![d] = x]
      BY <2>2
    <3>3. core \in [Cores -> CoreStates]
      BY <1>1 DEF CoresHeld
    <3>4. core' \in [Cores -> CoreStates] /\ core'[d] = x /\ \A c \in Cores : c # d => core'[c] = core[c]
      BY <3>1, <3>2, <3>3 DEF CoreStates
    <3>5. Executing' = Executing
      BY <3>1, <3>4 DEF Executing
    <3>6. \A c \in Cores : core'[c] = "boot" <=> c = machine.bsp
      BY <1>1, <3>1, <3>4 DEF CoresHeld
    <3>7. \A c \in Cores : core'[c] = "main" => init_state = 2
      BY <1>1, <3>1, <3>4 DEF CoresHeld
    <3>8. ASSUME NEW c \in Woken'
          PROVE  \E i \in Available :
                   /\ Slot(c, i)' /\ i <= target'
                   /\ pc' \in {"next_cpu", "init"} => i < target'
                   /\ cpu_state'[i] = "enabled" <=> c \notin Executing'
      <4>0. \A i : Slot(c, i)' <=> Slot(c, i)
        BY <1>2, <1>5 DEF Slot
      <4>1. CASE c = d
        <5>0. PICK i \in Available : i = target
          BY <3>1
        <5>1. Slot(c, i)' /\ i <= target' /\ cpu_state'[i] = "enabled"
          BY <1>2, <1>5, <3>1, <4>0, <4>1, <5>0
        <5>2. c \notin Executing' /\ pc' \notin {"next_cpu", "init"}
          BY <1>3, <3>1, <3>5, <4>1
        <5> QED BY <5>1, <5>2
      <4>2. CASE c # d
        <5>1. c \in Woken
          BY <3>4, <4>2 DEF Woken
        <5>2. PICK i \in Available :
                /\ Slot(c, i) /\ i <= target
                /\ cpu_state[i] = "enabled" <=> c \notin Executing
          BY <1>1, <5>1 DEF CoresHeld
        <5>3. pc' \notin {"next_cpu", "init"}
          BY <1>3
        <5> QED BY <1>2, <3>5, <4>0, <5>2, <5>3
      <4> QED BY <4>1, <4>2
    <3>9. (\A c \in Woken : \E i \in Available :
             /\ Slot(c, i) /\ i <= target
             /\ pc \in {"next_cpu", "init"} => i < target
             /\ cpu_state[i] = "enabled" <=> c \notin Executing)'
      BY <1>5, <3>8
    <3>10. (core \in [Cores -> CoreStates])' /\ (\A c \in Cores : core[c] = "boot" <=> c = machine.bsp)'
           /\ (\A c \in Cores : core[c] = "main" => init_state = 2)'
      BY <1>2, <3>4, <3>6, <3>7
    <3> QED BY <3>5, <3>9, <3>10 DEF CoresHeld
  <2> QED BY <1>4, <2>1, <2>2
<1>8. TablesHeld' /\ NotStarted' /\ (menu' = "done" => (\E E \in SUBSET CpuNum : Counted(E))')
  BY <1>1, <1>2, <1>3, <1>7, CountKept
<1> QED BY <1>6, <1>7, <1>8 DEF IInv

\* A core that runs marks its own number, and no other.
LEMMA AnswerStep ==
  ASSUME IInv, NEW c \in Cores, ApStarted(c) \/ ApEnumerate(c)
  PROVE  IInv'
<1>0. core[c] \in {"startup", "enumerate"}
  BY DEF ApStarted, ApEnumerate
<1>1. /\ TablesHeld /\ NotStarted /\ Program /\ CoresHeld /\ menu = "done"
      /\ \E E \in SUBSET CpuNum : Counted(E)
      /\ cpus \in CpusType /\ OneEach(cpus) /\ cpu_state \in [CpuNum -> States]
  <2>1. menu = "done"
    BY <1>0 DEF IInv, NotStarted
  <2> QED BY <2>1 DEF IInv, TablesHeld
<1>2. /\ machine' = machine /\ config' = config /\ menu' = menu /\ cpus' = cpus /\ nodes' = nodes
      /\ chunk_index' = chunk_index /\ num_enabled_cpus' = num_enabled_cpus
      /\ dead' = dead /\ target' = target /\ init_state' = init_state /\ pc' = pc
  BY DEF ApStarted, ApEnumerate, machineVars, configVars, tableVars
<1>3. /\ 0 \in Available /\ Available \subseteq CpuNum /\ CpuNum \subseteq Nat
      /\ cpus.num \in Nat /\ cpus.num >= 1 /\ Available' = Available
  BY <1>1, <1>2, Numbers DEF Available
<1>4. c \in Woken
  BY <1>0 DEF Woken
<1>5. PICK i \in Available :
        /\ Slot(c, i) /\ i <= target
        /\ pc \in {"next_cpu", "init"} => i < target
        /\ cpu_state[i] = "enabled" <=> c \notin Executing
  BY <1>1, <1>4 DEF CoresHeld
<1>6. MyCpuNum(c) = i /\ 0 < i /\ cpus.ids[i] = c /\ i \in CpuNum /\ i # 0
  BY <1>1, <1>3, <1>5, MyNumber
<1>7. /\ cpu_state' \in [CpuNum -> States] /\ cpu_state'[i] # "enabled"
      /\ cpu_state'[i] # "disabled" => cpu_state[i] # "disabled"
      /\ \A j \in CpuNum : j # i => cpu_state'[j] = cpu_state[j]
  <2>1. CASE ApStarted(c)
    <3>1. cpu_state' = [cpu_state EXCEPT ![i] = "running"]
      BY <1>6, <2>1 DEF ApStarted
    <3>2. cpu_state[i] = "enabled"
      BY <1>5, <2>1 DEF ApStarted, Executing
    <3> QED BY <1>1, <1>6, <3>1, <3>2 DEF States
  <2>2. CASE ApEnumerate(c)
    <3>1. cpu_state' \in {cpu_state, [cpu_state EXCEPT ![i] = "disabled"]}
      BY <1>6, <2>2 DEF ApEnumerate
    <3>2. cpu_state[i] # "enabled"
      BY <1>5, <2>2 DEF ApEnumerate, Executing
    <3> QED BY <1>1, <1>6, <3>1, <3>2 DEF States
  <2> QED BY <2>1, <2>2
<1>8. \E x \in {"enumerate", "hold"} : core' = [core EXCEPT ![c] = x]
  BY DEF ApStarted, ApEnumerate
<1>9. /\ core \in [Cores -> CoreStates] /\ \A d \in Cores : core[d] = "boot" <=> d = machine.bsp
      /\ \A d \in Cores : core[d] = "main" => init_state = 2
  BY <1>1 DEF CoresHeld
<1>10. /\ core' \in [Cores -> CoreStates] /\ core'[c] \in {"enumerate", "hold"}
       /\ \A d \in Cores : d # c => core'[d] = core[d]
  BY <1>8, <1>9 DEF CoreStates
<1>11. Executing' = Executing \cup {c} /\ Woken' = Woken
  BY <1>0, <1>10 DEF Executing, Woken
<1>12. Program'
  <2>1. ASSUME pc = "init" PROVE cpu_state'[target] = "enabled"
    <3>1. i < target /\ cpu_state[target] = "enabled" /\ 0 < target /\ target < cpus.num
      BY <1>1, <1>5, <2>1 DEF Program
    <3>2. target \in CpuNum /\ target # i
      <4>1. cpus.num \in 1 .. MaxCpus /\ MaxCpus \in Nat /\ target \in 0 .. cpus.num
        BY <1>1, Numbers DEF Program
      <4> QED BY <1>3, <1>6, <3>1, <4>1 DEF CpuNum
    <3> QED BY <1>7, <3>1, <3>2
  <2>2. AllAnswered => AllAnswered'
    <3>1. \A j \in Available \ {0} : cpu_state'[j] = "enabled" => cpu_state[j] = "enabled"
      BY <1>3, <1>7
    <3> QED BY <1>3, <3>1 DEF AllAnswered
  <2> QED BY <1>1, <1>2, <2>1, <2>2 DEF Program
<1>13. CoresHeld'
  <2>1. \A d \in Cores : core'[d] = "boot" <=> d = machine.bsp
    BY <1>0, <1>9, <1>10
  <2>2. \A d \in Cores : core'[d] = "main" => init_state = 2
    BY <1>9, <1>10
  <2>3. ASSUME NEW d \in Woken
        PROVE  \E j \in Available :
                 /\ Slot(d, j)' /\ j <= target'
                 /\ pc' \in {"next_cpu", "init"} => j < target'
                 /\ cpu_state'[j] = "enabled" <=> d \notin Executing'
    <3>0. \A j : Slot(d, j)' <=> Slot(d, j)
      BY <1>2, <1>3 DEF Slot
    <3>1. CASE d = c
      BY <1>2, <1>5, <1>7, <1>11, <3>0, <3>1
    <3>2. CASE d # c
      <4>1. PICK j \in Available :
              /\ Slot(d, j) /\ j <= target
              /\ pc \in {"next_cpu", "init"} => j < target
              /\ cpu_state[j] = "enabled" <=> d \notin Executing
        BY <1>1, <2>3 DEF CoresHeld
      <4>2. j # i /\ j \in CpuNum
        BY <1>3, <1>6, <3>2, <4>1 DEF Slot
      <4>3. cpu_state'[j] = cpu_state[j]
        BY <1>7, <4>2
      <4>4. d \in Executing' <=> d \in Executing
        BY <1>11, <3>2
      <4> QED BY <1>2, <3>0, <4>1, <4>3, <4>4
    <3> QED BY <3>1, <3>2
  <2>4. (\A d \in Woken : \E j \in Available :
           /\ Slot(d, j) /\ j <= target
           /\ pc \in {"next_cpu", "init"} => j < target
           /\ cpu_state[j] = "enabled" <=> d \notin Executing)'
    BY <1>3, <1>11, <2>3
  <2>5. (core \in [Cores -> CoreStates])' /\ (\A d \in Cores : core[d] = "boot" <=> d = machine.bsp)'
        /\ (\A d \in Cores : core[d] = "main" => init_state = 2)'
    BY <1>2, <1>10, <2>1, <2>2
  <2> QED BY <2>4, <2>5 DEF CoresHeld
<1>14. TablesHeld' /\ NotStarted' /\ (menu' = "done" => (\E E \in SUBSET CpuNum : Counted(E))')
  <2>1. pc' \notin {"config", "select"}
    BY <1>1, <1>2 DEF NotStarted
  <2>2. \A j \in Available \ {0} : cpu_state'[j] # "disabled" => cpu_state[j] # "disabled"
    BY <1>3, <1>7
  <2>3. \A j \in Available \ {0} :
          cpu_state[j] = "enabled" \/ cpus.ids[j] \in Executing =>
            cpu_state'[j] = "enabled" \/ cpus.ids[j] \in Executing'
    BY <1>3, <1>6, <1>7, <1>11
  <2>4. \A j \in Available \ {0} :
          cpus.ids[j] \in Executing' => cpus.ids[j] \in Executing \/ cpu_state[j] # "disabled"
    <3>1. ASSUME NEW j \in Available \ {0}, cpus.ids[j] = c
          PROVE  c \in Executing \/ cpu_state[j] # "disabled"
      <4>1. j = i
        BY <1>1, <1>3, <1>5, <1>6, <3>1 DEF OneEach, Available
      <4> QED BY <1>5, <4>1
    <3> QED BY <1>11, <3>1
  <2> QED BY <1>1, <1>2, <1>7, <2>1, <2>2, <2>3, <2>4, CountKept
<1> QED BY <1>12, <1>13, <1>14 DEF IInv

LEMMA ReleaseStep ==
  ASSUME IInv, NEW c \in Cores, ApRelease(c)
  PROVE  IInv'
<1>0. core[c] = "hold" /\ init_state = 2 /\ core' = [core EXCEPT ![c] = "main"]
  BY DEF ApRelease, LetIn
<1>1. /\ TablesHeld /\ NotStarted /\ Program /\ CoresHeld /\ menu = "done"
      /\ \E E \in SUBSET CpuNum : Counted(E)
      /\ cpus \in CpusType /\ cpu_state \in [CpuNum -> States]
  <2>1. menu = "done"
    BY <1>0 DEF IInv, NotStarted
  <2> QED BY <2>1 DEF IInv, TablesHeld
<1>2. /\ machine' = machine /\ config' = config /\ menu' = menu /\ cpus' = cpus /\ nodes' = nodes
      /\ chunk_index' = chunk_index /\ num_enabled_cpus' = num_enabled_cpus
      /\ dead' = dead /\ target' = target /\ init_state' = init_state /\ pc' = pc
      /\ cpu_state' = cpu_state
  BY DEF ApRelease, machineVars, configVars, tableVars
<1>3. /\ core \in [Cores -> CoreStates] /\ \A d \in Cores : core[d] = "boot" <=> d = machine.bsp
  BY <1>1 DEF CoresHeld
<1>4. /\ core' \in [Cores -> CoreStates] /\ core'[c] = "main"
      /\ \A d \in Cores : d # c => core'[d] = core[d]
  BY <1>0, <1>3 DEF CoreStates
<1>5. Executing' = Executing /\ Woken' = Woken /\ Available' = Available
  BY <1>0, <1>2, <1>4 DEF Executing, Woken, Available
<1>6. AllAnswered' <=> AllAnswered
  BY <1>2, <1>5 DEF AllAnswered
<1>7. Program'
  BY <1>1, <1>2, <1>6 DEF Program
<1>8. CoresHeld'
  <2>1. \A d \in Cores : core'[d] = "boot" <=> d = machine.bsp
    BY <1>0, <1>3, <1>4
  <2>2. \A d, j : Slot(d, j)' <=> Slot(d, j)
    BY <1>2, <1>5 DEF Slot
  <2> QED BY <1>0, <1>1, <1>2, <1>4, <1>5, <2>1, <2>2 DEF CoresHeld
<1>9. TablesHeld' /\ NotStarted' /\ (menu' = "done" => (\E E \in SUBSET CpuNum : Counted(E))')
  <2>1. pc' \notin {"config", "select"}
    BY <1>1, <1>2 DEF NotStarted
  <2> QED BY <1>1, <1>2, <1>5, <2>1, CountKept
<1> QED BY <1>7, <1>8, <1>9 DEF IInv

LEMMA IInvStep ==
  ASSUME IInv, [Next]_vars
  PROVE  IInv'
<1>1. CASE Boot
  BY <1>1, EarlyStep, SelectStep, SmpStartStep, WaitStep, SendStep DEF Boot
<1>2. ASSUME NEW c \in Cores, Ap(c) PROVE IInv'
  BY <1>2, AnswerStep, ReleaseStep DEF Ap
<1>3. CASE UNCHANGED vars
  BY <1>3 DEF vars, configVars, IInv, TablesHeld, NotStarted, Program, CoresHeld, Counted, Slot, Woken,
              Executing, Available, AllAnswered, Before, Numa
<1> QED BY <1>1, <1>2, <1>3 DEF Next

-----------------------------------------------------------------------------
(***************************************************************************)
(* What the invariant says                                                 *)
(***************************************************************************)
LEMMA CountedFinite ==
  ASSUME NEW E \in SUBSET CpuNum
  PROVE  IsFiniteSet(E) /\ Cardinality(E) \in 0 .. MaxCpus
<1>1. MaxCpus \in Nat /\ MaxCpus > 1
  BY NoCpusType
<1>2. IsFiniteSet(CpuNum) /\ Cardinality(CpuNum) = MaxCpus
  <2>1. IsFiniteSet(0 .. (MaxCpus - 1)) /\ Cardinality(0 .. (MaxCpus - 1)) = MaxCpus
    BY <1>1, FS_Interval
  <2> QED BY <2>1 DEF CpuNum
<1>3. IsFiniteSet(E) /\ Cardinality(E) <= MaxCpus
  BY <1>2, FS_Subset
<1>4. Cardinality(E) \in Nat
  BY <1>3, FS_CardinalityType
<1> QED BY <1>1, <1>3, <1>4

LEMMA TypesHold ==
  ASSUME IInv
  PROVE  TypeOK
<1>1. TablesHeld /\ NotStarted /\ Program /\ CoresHeld /\ cpus \in CpusType
  BY DEF IInv, TablesHeld
<1>2. num_enabled_cpus \in 0 .. MaxCpus
  <2>1. CASE menu # "done"
    BY <1>1, <2>1, NoCpusType DEF NotStarted
  <2>2. CASE menu = "done"
    <3>1. PICK E \in SUBSET CpuNum : num_enabled_cpus = Cardinality(E)
      BY <2>2 DEF IInv, Counted
    <3> QED BY <3>1, CountedFinite
  <2> QED BY <2>1, <2>2
<1>3. cpus.num \in 1 .. MaxCpus /\ cpus.ids \in [CpuNum -> Nat] /\ MaxCpus \in Nat
  BY <1>1, Numbers
<1>4. target \in 0 .. MaxCpus
  BY <1>1, <1>3 DEF Program
<1>5. /\ Len(nodes.domains) <= MaxDomains /\ Len(nodes.ranges) <= MaxRanges
      /\ \A i \in CpuNum : nodes.of[i] < MaxDomains
  <2>1. nodes.domains \in DomainLists /\ nodes.ranges \in RangeLists
        /\ nodes.of \in [CpuNum -> 0 .. (MaxDomains - 1)]
    BY <1>1 DEF TablesHeld, NodesType
  <2>2. \A i \in CpuNum : nodes.of[i] < MaxDomains
    BY <2>1, NoNodesType
  <2> QED BY <2>1, <2>2 DEF DomainLists, RangeLists
<1>6. cpu_state \in [CpuNum -> States] /\ dead \subseteq Cores /\ init_state \in 0 .. 2
      /\ core \in [Cores -> CoreStates]
  BY <1>1 DEF TablesHeld, Program, CoresHeld
<1> QED BY <1>1, <1>2, <1>3, <1>4, <1>5, <1>6 DEF TypeOK, Program, States, CoreStates

LEMMA TablesRight ==
  ASSUME IInv
  PROVE  OneNumberPerCore /\ CoresFromRightTables /\ BootProcessorRuns /\ LateCoreHeld
<1>1. TablesHeld /\ Program /\ CoresHeld /\ OneEach(cpus) /\ cpus \in CpusType
      /\ machine \in MachineType /\ machine.bsp \in Cores
  BY MachineTyped DEF IInv, TablesHeld
<1>2. OneNumberPerCore
  BY <1>1 DEF OneEach, OneNumberPerCore, Available
<1>3. BootProcessorRuns
  BY <1>1 DEF CoresHeld, BootProcessorRuns
<1>4. LateCoreHeld
  BY <1>1 DEF CoresHeld, LateCoreHeld, Program
<1>5. CoresFromRightTables
  <2>1. SUFFICES ASSUME machine.fp = "none", NEW i \in Available \ {0}
                 PROVE  \E r \in Pointers(machine.acpi) : \E root \in {r.rsdt, r.xsdt} :
                          /\ root.sum
                          /\ \E k \in DOMAIN root.list :
                               /\ root.list[k].sig = "APIC" /\ root.list[k].sum
                               /\ \E e \in DOMAIN root.list[k].entries :
                                    root.list[k].entries[e].id = cpus.ids[i]
    BY Zenon DEF CoresFromRightTables
  <2>2. i \in CpuNum /\ 0 < i /\ i < cpus.num
    BY DEF Available, CpuNum
  <2>3. PICK e \in DOMAIN Madt(machine) : Madt(machine)[e].id = cpus.ids[i]
    BY <1>1, <2>1, <2>2 DEF TablesHeld, FromMadt
  <2>4. Madt(machine) # << >>
    BY <2>3
  <2>5. PICK r \in Pointers(machine.acpi) : \E root \in {r.rsdt, r.xsdt} :
          /\ root.sum
          /\ \E k \in DOMAIN root.list :
               /\ root.list[k].sig = "APIC" /\ root.list[k].sum
               /\ root.list[k].entries = Madt(machine)
    BY <1>1, <2>4, MadtFound
  <2>6. PICK root \in {r.rsdt, r.xsdt} :
          /\ root.sum
          /\ \E k \in DOMAIN root.list :
               /\ root.list[k].sig = "APIC" /\ root.list[k].sum
               /\ root.list[k].entries = Madt(machine)
    BY <2>5
  <2>7. PICK k \in DOMAIN root.list :
          /\ root.list[k].sig = "APIC" /\ root.list[k].sum
          /\ root.list[k].entries = Madt(machine)
    BY <2>6
  <2>8. e \in DOMAIN root.list[k].entries /\ root.list[k].entries[e].id = cpus.ids[i]
    BY <2>3, <2>7
  <2> QED BY <2>5, <2>6, <2>7, <2>8, Zenon
<1> QED BY <1>2, <1>3, <1>4, <1>5

\* Of two CPUs that share the memory, the first is before the second.
LEMMA ShareOrder ==
  ASSUME NEW E \in SUBSET CpuNum, NEW i \in E, NEW j \in E, i < j, Numa => nodes.of[j] = nodes.of[i]
  PROVE  Cardinality(Before(i, E)) < Cardinality(Before(j, E))
<1>0. i \in Nat /\ j \in Nat /\ E \subseteq Nat
  BY DEF CpuNum
<1>1. \A x, k : k \in Before(x, E) <=> k \in E /\ k < x /\ (Numa => nodes.of[k] = nodes.of[x])
  BY Zenon DEF Before
<1>2. /\ \A k \in Before(i, E) : k \in E /\ k < i
      /\ \A k \in Before(j, E) : k \in E /\ k < j
  BY <1>1, Zenon
<1>3. Before(i, E) \cup {i} \in SUBSET Before(j, E)
  <2>1. i \in Before(j, E)
    BY <1>1
  <2>2. ASSUME NEW k \in Before(i, E) PROVE k \in Before(j, E)
    <3>1. k \in E /\ k < i /\ k < j
      <4>1. k \in E /\ k < i /\ k \in Nat
        BY <1>0, <1>2, <2>2
      <4> QED BY <1>0, <4>1
    <3>2. Numa => nodes.of[k] = nodes.of[j]
      BY <1>1, <2>2
    <3> QED BY <1>1, <3>1, <3>2
  <2> QED BY <2>1, <2>2
<1>4. Before(j, E) \in SUBSET CpuNum /\ Before(i, E) \in SUBSET CpuNum /\ i \notin Before(i, E)
  <2>1. i \notin Before(i, E)
    <3>1. ~(i < i)
      BY <1>0
    <3> QED BY <1>2, <3>1, Zenon
  <2>2. \A k \in Before(i, E) \cup Before(j, E) : k \in CpuNum
    BY <1>2, Zenon
  <2> QED BY <2>1, <2>2
<1>5. IsFiniteSet(Before(j, E)) /\ IsFiniteSet(Before(i, E))
      /\ Cardinality(Before(j, E)) \in Nat /\ Cardinality(Before(i, E)) \in Nat
  BY <1>4, CountedFinite
<1>6. Cardinality(Before(i, E) \cup {i}) = Cardinality(Before(i, E)) + 1
  BY <1>4, <1>5, FS_AddElement
<1>7. Cardinality(Before(i, E) \cup {i}) <= Cardinality(Before(j, E))
  BY <1>3, <1>5, FS_Subset
<1> QED BY <1>5, <1>6, <1>7

LEMMA SharesAreDistinct ==
  ASSUME IInv
  PROVE  SharesDistinct
<1> SUFFICES ASSUME menu = "done", NEW i \in Available, cpu_state[i] = "enabled"
             PROVE  /\ \A j \in Available :
                         /\ cpu_state[j] # "disabled"
                         /\ Numa => nodes.of[j] = nodes.of[i]
                         => (i # j => chunk_index[i] # chunk_index[j])
                    /\ chunk_index[i] < num_enabled_cpus
  BY Zenon DEF SharesDistinct
<1>1. PICK E \in SUBSET CpuNum : Counted(E)
  BY DEF IInv
<1>2. /\ Available \subseteq CpuNum /\ CpuNum \subseteq Nat
  BY Numbers DEF IInv, TablesHeld
<1>3. i \in E /\ \A j \in Available : cpu_state[j] # "disabled" => j \in E
  BY <1>1 DEF Counted
<1>4. /\ num_enabled_cpus = Cardinality(E)
      /\ \A j \in Available : chunk_index[j] = Cardinality(Before(j, E))
  BY <1>1, <1>2 DEF Counted
<1>5. \A X \in SUBSET CpuNum : IsFiniteSet(X) /\ Cardinality(X) \in Nat
  BY CountedFinite, NoCpusType
<1>6. \A j : Before(j, E) \in SUBSET CpuNum
  BY DEF Before
<1>7. ASSUME NEW j \in Available, cpu_state[j] # "disabled", Numa => nodes.of[j] = nodes.of[i], i # j
      PROVE  chunk_index[i] # chunk_index[j]
  <2>1. j \in E
    BY <1>3, <1>7
  <2>2. i < j \/ j < i
    BY <1>2, <1>7
  <2>3. Cardinality(Before(i, E)) \in Nat /\ Cardinality(Before(j, E)) \in Nat
    BY <1>5, <1>6
  <2>4. i < j => Cardinality(Before(i, E)) < Cardinality(Before(j, E))
    BY <1>3, <1>7, <2>1, ShareOrder
  <2>5. j < i => Cardinality(Before(j, E)) < Cardinality(Before(i, E))
    BY <1>3, <1>7, <2>1, ShareOrder
  <2> QED BY <1>4, <2>2, <2>3, <2>4, <2>5
<1>8. chunk_index[i] < num_enabled_cpus
  <2>1. Before(i, E) \in SUBSET E /\ i \notin Before(i, E)
    BY <1>2 DEF Before
  <2>2. Cardinality(Before(i, E)) <= Cardinality(E) /\ Cardinality(Before(i, E)) # Cardinality(E)
    BY <1>3, <1>5, <2>1, FS_Subset
  <2>3. Cardinality(Before(i, E)) \in Nat /\ Cardinality(E) \in Nat
    BY <1>5, <1>6
  <2> QED BY <1>4, <2>2, <2>3
<1> QED BY <1>7, <1>8

\* The cores that execute are, by their numbers, the CPUs that were counted but the first.
LEMMA BarrierCounts ==
  ASSUME IInv
  PROVE  BarrierCountRight
<1> SUFFICES ASSUME pc = "main"
             PROVE  /\ Cardinality(Executing) + 1 = num_enabled_cpus
                    /\ \A c, d \in Executing : MyCpuNum(c) = MyCpuNum(d) => c = d
                    /\ \A c \in Executing : MyCpuNum(c) # 0
  BY DEF BarrierCountRight
<1>1. /\ TablesHeld /\ NotStarted /\ Program /\ CoresHeld /\ menu = "done" /\ AllAnswered
      /\ cpus \in CpusType /\ OneEach(cpus)
  BY DEF IInv, NotStarted, Program, TablesHeld
<1>2. PICK E \in SUBSET CpuNum : Counted(E)
  BY <1>1 DEF IInv
<1>3. /\ 0 \in E /\ E \subseteq Available /\ num_enabled_cpus = Cardinality(E)
      /\ \A i \in E \ {0} : cpu_state[i] = "enabled" \/ cpus.ids[i] \in Executing
      /\ \A i \in Available \ {0} : cpus.ids[i] \in Executing => i \in E
  BY <1>2 DEF Counted
<1>4. Available \subseteq CpuNum /\ CpuNum \subseteq Nat /\ \A i \in Available : i < cpus.num
  BY <1>1, Numbers
<1>5. \A c \in Executing : \E i \in E \ {0} : Slot(c, i)
  <2> SUFFICES ASSUME NEW c \in Executing PROVE \E i \in E \ {0} : Slot(c, i)
    OBVIOUS
  <2>1. c \in Woken
    BY DEF Woken, Executing
  <2>2. PICK i \in Available : Slot(c, i)
    BY <1>1, <2>1 DEF CoresHeld
  <2>3. i # 0 /\ cpus.ids[i] = c
    BY <2>2 DEF Slot
  <2> QED BY <1>3, <2>2, <2>3
<1>6. \A i \in E \ {0} : cpus.ids[i] \in Executing
  BY <1>1, <1>3 DEF AllAnswered
<1> DEFINE f == [i \in E \ {0} |-> cpus.ids[i]]
<1>7. f \in Bijection(E \ {0}, Executing)
  <2>1. f \in [E \ {0} -> Executing]
    BY <1>6
  <2>2. \A i, j \in E \ {0} : f[i] = f[j] => i = j
    BY <1>1, <1>3, <1>4 DEF OneEach
  <2>3. \A c \in Executing : \E i \in E \ {0} : f[i] = c
    BY <1>5 DEF Slot
  <2> HIDE DEF f
  <2> QED BY <2>1, <2>2, <2>3 DEF Bijection, Injection, Surjection, IsInjective
<1>8. IsFiniteSet(E) /\ Cardinality(E) \in Nat
  BY CountedFinite, NoCpusType
<1>9. IsFiniteSet(E \ {0}) /\ Cardinality(E \ {0}) = Cardinality(E) - 1
  BY <1>3, <1>8, FS_RemoveElement
<1>10. Cardinality(Executing) = Cardinality(E \ {0})
  BY <1>7, <1>9, FS_Bijection DEF ExistsBijection
<1>11. \A c \in Executing : MyCpuNum(c) # 0 /\ cpus.ids[MyCpuNum(c)] = c
  <2> SUFFICES ASSUME NEW c \in Executing PROVE MyCpuNum(c) # 0 /\ cpus.ids[MyCpuNum(c)] = c
    OBVIOUS
  <2>1. PICK i \in E \ {0} : Slot(c, i)
    BY <1>5
  <2>2. MyCpuNum(c) = i /\ cpus.ids[i] = c
    BY <1>1, <2>1, MyNumber
  <2> QED BY <2>1, <2>2
<1>12. \A c, d \in Executing : MyCpuNum(c) = MyCpuNum(d) => c = d
  BY <1>11
<1> QED BY <1>3, <1>8, <1>9, <1>10, <1>11, <1>12

\* CpusRight of SmpStart: whatever the firmware lists, doubled, damaged or out of order, every core
\* has one number, the boot processor is CPU 0 and is never sent a message that resets it, only
\* cores of good tables are started, their shares of the memory are distinct, and the cores in the
\* main loop are the ones its barrier counts (smp_init, global_init, smp_start, ap_enumerate,
\* main); for every number of CPUs, every machine and every user, as long as an MP table that is
\* used is right, whose word the code takes.
THEOREM CpusAreRight ==
  ASSUME MpTablesRight
  PROVE  SafeSpec => []CpusRight
<1>1. Init => IInv
  BY InitIInv
<1>2. IInv /\ [Next]_vars => IInv'
  BY IInvStep
<1>3. IInv => CpusRight
  BY TypesHold, TablesRight, SharesAreDistinct, BarrierCounts DEF CpusRight
<1> QED BY <1>1, <1>2, <1>3, PTL DEF SafeSpec
=============================================================================
